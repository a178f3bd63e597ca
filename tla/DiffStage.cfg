SPECIFICATION FairSpec
CONSTANTS
  NumJobs = 2
  Pids = {p1, p2}
  r1 = r1
  r2 = r2
  r3 = r3
  Releases <- MCReleases
  V1 <- MCV1
  V2 <- MCV2
  PairLang <- MCLang
  HasDev = {r2}
  OldIndexes = {}
  Stuck = {1, 2}
  Workers = 2
  Threads = {t1, t2}
  MaxRuns = 1
INVARIANTS
  OneThreadPerJob
  RetryAlone
  KilledTwice
  EveryJobAccounted
  IndexedBeforeRecorded
  LeaksExplained
PROPERTIES
  StageEnds
