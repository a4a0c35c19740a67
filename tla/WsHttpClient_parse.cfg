\* Header and parameter parsing on every short -H and -d string, with and
\* without -I / -O, under both behaviours of isalnum above 0x7F.
CONSTANTS
    HeaderInputs <- MCHeaderShort
    DataInputs <- MCDataAll
    Urls <- MCUrl
    Outputs <- MCNoOutput
    HiAlnumChoices = {FALSE, TRUE}
    FrontOnEmpty = {"done", "aborted"}
SPECIFICATION CliSpec
INVARIANT HeadersAgreeWithReference
INVARIANT ParamsRoundTrip
CHECK_DEADLOCK FALSE
