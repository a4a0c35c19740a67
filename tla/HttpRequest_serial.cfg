\* Two threads, one call each, redirects followed up to maxRedirects = 0:
\* the calls serialise on _mutex, no two of them use the transport at once,
\* and every call returns.
CONSTANTS
    Threads <- MCThreads
    t1 = t1
    t2 = t2
    Verbs = {"GET", "HEAD", "POST"}
    StatusCodes = {200, 204, 301}
    LengthChoices <- MCLengths
    MaxBody = 1
    MaxChunks = 1
    MaxRedirects = 0
    FollowRedirects = TRUE
    Compress = FALSE
    ExtraHeaderNames = {"Accept", "Content-Type"}
    ExtraHeaderChoices <- MCExtraNone
    MaxCalls = 1
    Absent = Absent
    Junk = Junk
    Negative = Negative
    Huge = Huge
SPECIFICATION Spec
INVARIANT TypeOK
 
PROPERTY CallsReturn
PROPERTY ImplementsCall
