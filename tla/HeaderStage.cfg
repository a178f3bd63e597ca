SPECIFICATION HeadersSpec
CONSTANTS
  NumJobs = 2
  Pids = {p1}
  r1 = r1
  r2 = r2
  r3 = r3
  Releases <- MCReleases
  V1 <- MCV1
  V2 <- MCV2
  PairLang <- MCLang
  HasDev <- MCHasDev
  OldIndexes <- MCOld
  Stuck = {2}
  Workers = 1
  Threads = {t1}
  MaxRuns = 1
  MaxHeaderRuns = 2
INVARIANTS
  LanguageKept
  NoSecondDownload
PROPERTIES
  HeadersImplementLedger
