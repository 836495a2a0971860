SPECIFICATION FairGuiSpec
CONSTANTS
    BufSize <- MCBufSize
    PipeCap = 2
    ExitCodes = {0, 1, 4}
    MaxOutput <- MCMaxOutput
    MaxRuns = 2
    MaxErrors = 1
    Flavor = "smartctl"
    SlotConnected = TRUE
INVARIANTS
    ReturnsClean
    MessageFitsEnd
    AbortIsOwn
    DialogFitsCommand
    OutputLossBounded
PROPERTIES
    KeepsPromise
    NothingStartsAfterQuit
    CancelReturns
    ReportMatchesFate
CHECK_DEADLOCK FALSE
