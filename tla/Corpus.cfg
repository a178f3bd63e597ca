SPECIFICATION Spec
CONSTANTS
  NumRows = 4
  NumVersions = 5
  s1 = s1
  s2 = s2
  none = none
  Sources <- MCSources
  NoSource = none
  Upstreams <- MCUpstreams
  Archives <- MCArchives
  Scan = 3
  Limit <- MCLimit
  Releases = 3
  MaxScan = 4
  MaxCommands = 2
INVARIANTS
  OneEntryPerSource
  QuotaKept
  NothingPassedOver
  JobIdsDistinct
  ChainedOlderFirst
  GapsExplained
  PlanAsDefined
