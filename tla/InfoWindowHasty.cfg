SPECIFICATION FairSpec
CONSTANTS
    Outcomes = {"CompletedNoError"}
    CommandsFail = TRUE
    Window = {w1,w2}
    w1 = w1
    w2 = w2
    Pace = "hasty"
    Closed = {w2}
    MaxTests = 1
    MaxDepth = 3
INVARIANTS StopButtonHasCallback
CHECK_DEADLOCK FALSE
PROPERTIES EndIsNoticed
