SPECIFICATION Spec
CONSTANTS
  NumJobs = 2
  Pids = {p1, p2}
  r1 = r1
  r2 = r2
  r3 = r3
  Releases <- MCReleases
  V1 <- MCV1
  V2 <- MCV2
  PairLang <- MCLang
  HasDev = {}
  OldIndexes = {}
  Stuck = {2}
  Workers = 1
  Threads = {t1}
  MaxRuns = 2
PROPERTIES
  KeepsExisting
  ImplementsLedger
