CONSTANTS
  SourceLen = 4
  CacheLimit = 2
  ReadAhead = 3
  MaxRequest = 3
  MaxMetric = 6
  Retries = TRUE
SPECIFICATION RangeSpec
INVARIANT ReadsAreSource
