CONSTANTS
    HeaderInputs <- MCHeaderAll
    DataInputs <- MCDataNone
    Urls <- MCUrl
    Outputs <- MCNoOutput
    HiAlnumChoices = {FALSE}
    FrontOnEmpty = {"done", "aborted"}
SPECIFICATION CliSpec
INVARIANT HeadersNeverThrow
CHECK_DEADLOCK FALSE
