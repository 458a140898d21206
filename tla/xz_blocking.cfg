SPECIFICATION FairSpec
CHECK_DEADLOCK FALSE
CONSTANTS
  Lzip = FALSE
  Async = FALSE
  MayPanic = FALSE
  QueueDepth = 2
  MaxStaged = 2
  MaxHeld = 1
  Supply = 3
  MaxRefill = 2
  EndWithInput = TRUE
  OutputSizes = {1, 2}
  MaxChunk = 2
  MaxOutput = 3
INVARIANT InputContiguous
INVARIANT OutputContiguous
INVARIANT DoneMeansComplete
INVARIANT NeverStuck
