SPECIFICATION Spec
CONSTANTS
    Serial = {"A", "B"}
    Drives <- MCDrives
    Formats = {"text"}
    TypeArgs = {"", "auto"}
    CommandsFail = FALSE
    Hasty = FALSE
    MaxDepth = 2
    MaxSwaps = 0
INVARIANTS
    FailingDriveIsFlagged
CHECK_DEADLOCK FALSE
