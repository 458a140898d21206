CONSTANTS
  Threads <- MCThreads
  Volumes <- MCVolumes
  Sources <- MCSources
  Length <- MCLength
  LimitChoices <- MCLimitChoices
  t1 = t1
  t2 = t2
  short = short
  long = long
  Missing = Missing
  NoLimit = NoLimit
  PrimaryLength = 2
  MaxU64 = 5
  SourceLen = 4
  CacheLimit = 2
  ReadAhead = 3
  MaxRequest = 3
  MaxMetric = 6
  Retries = FALSE
SPECIFICATION MCSpec
INVARIANT Budgets
INVARIANT AnswersAgree
INVARIANT ReadsAreSource
PROPERTY RefinesCache
