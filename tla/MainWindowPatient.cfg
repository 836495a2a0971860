SPECIFICATION Spec
CONSTANTS
  Disk = {"sda"}
  Manual = {"twa0"}
  EnteredTypes = {"", "sat"}
  CommandsFail = TRUE
  Hasty = FALSE
  MaxDrives = 3
  MaxWindows = 1
  MaxDepth = 2
INVARIANTS TypeOK IconsAreListed ShownOnce
PROPERTY TypedIsForgotten
CHECK_DEADLOCK FALSE
