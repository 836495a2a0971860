SPECIFICATION FairSpec
CONSTANTS
  Disk = {"sda"}
  Manual = {}
  EnteredTypes = {}
  CommandsFail = TRUE
  Hasty = TRUE
  MaxDrives = 3
  MaxWindows = 0
  MaxDepth = 3
INVARIANT OneScanAtATime
PROPERTY ScanEnds
CHECK_DEADLOCK FALSE
