\* The destructor stores _stop and calls notify_one without holding
\* _queueMutex: between the worker's check of _stop and its wait() the
\* notify is lost, and join() waits forever.
CONSTANTS
    Threads <- MCThreads
    Callers <- MCCallers
    Worker = w
    c1 = c1
    c2 = c2
    w = w
    Async = TRUE
    Verbs = {"GET"}
    StatusCodes = {200, 301}
    LengthChoices <- MCLengths
    MaxBody = 1
    MaxChunks = 1
    MaxRedirects = 0
    FollowRedirects = TRUE
    Compress = FALSE
    ExtraHeaderNames = {"Accept", "Content-Type"}
    ExtraHeaderChoices <- MCExtra
    MaxCalls = 1
    Absent = Absent
    Junk = Junk
    Negative = Negative
    Huge = Huge
SPECIFICATION ClientSpec
PROPERTY ShutdownCompletes
CHECK_DEADLOCK FALSE
