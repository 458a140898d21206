SPECIFICATION Spec
CONSTANTS
    Archives <- CutPadding
    Limits <- LargeLimits
    Capacity = 5
    DetectMin = 5
    FilterDepth = 2
    XzAlign = 2
PROPERTY ReaderEnds
CHECK_DEADLOCK FALSE
