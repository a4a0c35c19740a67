CONSTANTS
    Buf = 2
    MaxOut = 5
    MemFaults = TRUE
SPECIFICATION GzipSpec
INVARIANT InflateFaithful
PROPERTY InflateTerminates
CHECK_DEADLOCK FALSE
