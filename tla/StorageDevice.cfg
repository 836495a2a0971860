SPECIFICATION Spec
CONSTANTS
    Serial = {"A", "B"}
    Drives <- MCDrives
    Formats = {"json", "text"}
    TypeArgs = {"", "auto"}
    CommandsFail = TRUE
    Hasty = TRUE
    MaxDepth = 2
    MaxSwaps = 1
INVARIANTS
    FullFetchKnowsType
    HealthIsCurrent
    NoDataNoSmart
    ShownSmartIsTrue
    SavedIsShown
    RetriesOnce
CHECK_DEADLOCK FALSE
