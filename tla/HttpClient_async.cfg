\* Async mode, two callers, one operation each (a synchronous call or an
\* enqueued task), then the client may be destroyed; a 301 is followed
\* with maxRedirects = 0.  The server may send a Content-Length that
\* payload.reserve rejects: the exception ends the worker thread through
\* std::terminate, and the callbacks that did run ran in FIFO order.  Deadlock is not checked:
\* the program ends after the destructor, and it can hang in the destructor
\* (see HttpClient_shutdown_hang).
CONSTANTS
    Threads <- MCThreads
    Callers <- MCCallers
    Worker = w
    c1 = c1
    c2 = c2
    w = w
    Async = TRUE
    Verbs = {"GET"}
    StatusCodes = {200, 301}
    LengthChoices <- MCLengthsThrow
    MaxBody = 1
    MaxChunks = 1
    MaxRedirects = 0
    FollowRedirects = TRUE
    Compress = FALSE
    ExtraHeaderNames = {"Accept", "Content-Type"}
    ExtraHeaderChoices <- MCExtra
    MaxCalls = 1
    Absent = Absent
    Junk = Junk
    Negative = Negative
    Huge = Huge
SPECIFICATION ClientSpec
INVARIANT ClientTypeOK
INVARIANT TransportExclusive
INVARIANT FifoDelivery
PROPERTY ImplementsQueue
PROPERTY EnqueuedHandled
CHECK_DEADLOCK FALSE
