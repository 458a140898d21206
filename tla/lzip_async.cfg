SPECIFICATION FairSpec
CHECK_DEADLOCK FALSE
CONSTANTS
  Lzip = TRUE
  Async = TRUE
  MayPanic = FALSE
  QueueDepth = 2
  MaxStaged = 2
  MaxHeld = 1
  Supply = 3
  MaxRefill = 2
  EndWithInput = FALSE
  OutputSizes = {1, 2}
  MaxChunk = 2
  MaxOutput = 2
INVARIANT NoLostWakeup
INVARIANT ErrorClassPreserved
PROPERTY BothEnd
