CONSTANTS
    Buf = 2
    MaxOut = 5
    MemFaults = FALSE
SPECIFICATION GzipSpec
INVARIANT AcceptsOnlyWholeStream
CHECK_DEADLOCK FALSE
