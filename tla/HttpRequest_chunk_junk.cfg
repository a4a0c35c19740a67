\* A chunk-size line that is not hex ends a chunked body as if it were 0.
CONSTANTS
    Threads <- MCOneThread
    t1 = t1
    t2 = t2
    Verbs = {"GET"}
    StatusCodes = {200}
    LengthChoices <- MCLengths
    MaxBody = 1
    MaxChunks = 1
    MaxRedirects = 0
    FollowRedirects = FALSE
    Compress = FALSE
    ExtraHeaderNames = {"Accept", "Content-Type"}
    ExtraHeaderChoices <- MCExtraEmpty
    MaxCalls = 1
    Absent = Absent
    Junk = Junk
    Negative = Negative
    Huge = Huge
SPECIFICATION Spec
INVARIANT ChunkedBodyComplete
