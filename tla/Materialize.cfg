SPECIFICATION FairSpec
CONSTANTS
  m = m
  q = q
  M = m
  Procs = {m, q}
  OtherPaths <- MCOtherPaths
  Paths <- MCPaths
  MaxAttempts = 2
  Ttl = 1
  MaxTime = 1
  Runtime <- MCRuntime
  Dev <- MCDev
  Dbgsym <- MCDbgsym
  Versions <- MCVersions
  Want <- MCWant
  Archives <- MCArchives
INVARIANTS
  ErrorsExplained
  AnswersAreFresh
  WholeOrNothing
  ExtractedOrMissing
  BudgetBinds
PROPERTY CallsReturn
CHECK_DEADLOCK FALSE
