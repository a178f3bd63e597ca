SPECIFICATION Spec
CONSTANTS
  i1 = i1
  i2 = i2
  l1 = l1
  l2 = l2
  Ids <- MCIds
  Sources <- MCSources
  SourceOf <- MCSourceOf
  Pairs <- MCPairs
  HeaderData <- MCHeaderData
  MaxListed = 1
  MaxStudies = 2
  MaxWrites = 1
CHECK_DEADLOCK FALSE
INVARIANTS
  StudyOfTheDirectory
  FramingsNest
  ReportAgrees
  ReportsFollowSummary
