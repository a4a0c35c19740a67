\* One thread, a 301 with Location and maxRedirects = 1: the redirect
\* re-enters request() and the call never returns.
CONSTANTS
    Threads <- MCOneThread
    t1 = t1
    t2 = t2
    Verbs = {"GET"}
    StatusCodes = {301}
    LengthChoices <- MCLengths
    MaxBody = 1
    MaxChunks = 0
    MaxRedirects = 1
    FollowRedirects = TRUE
    Compress = FALSE
    ExtraHeaderNames = {"Accept", "Content-Type"}
    ExtraHeaderChoices <- MCExtraEmpty
    MaxCalls = 1
    Absent = Absent
    Junk = Junk
    Negative = Negative
    Huge = Huge
SPECIFICATION Spec
PROPERTY CallsReturn
CHECK_DEADLOCK FALSE
