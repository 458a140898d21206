SPECIFICATION Spec
CONSTANTS
    Archives <- MCArchives
    Limits <- MCLimits
    Capacity = 5
    DetectMin = 5
    FilterDepth = 2
    XzAlign = 2
INVARIANT EventsFollow
INVARIANT DoneIsWhole
INVARIANT IntactIsRead
PROPERTY ReaderEnds
CHECK_DEADLOCK FALSE
