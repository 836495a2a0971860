SPECIFICATION Spec
CONSTANTS
    Outcomes = {"CompletedNoError"}
    CommandsFail = TRUE
    Window = {w1,w2}
    w1 = w1
    w2 = w2
    Pace = "patient"
    Closed = {w1,w2}
    MaxTests = 2
    MaxDepth = 3
CHECK_DEADLOCK FALSE
INVARIANTS TypeOK NoFetchWhileTesting TestKeepsItsWindow
PROPERTIES RunsTestsInTurn
