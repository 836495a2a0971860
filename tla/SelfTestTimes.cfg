SPECIFICATION Spec
CONSTANTS
    Tests <- MCTests
    MaxLate = 0
    MaxCommand = 2
    MaxPause = 1
INVARIANTS
    EndNoticedInTime
    EtaIsClose
CHECK_DEADLOCK FALSE
