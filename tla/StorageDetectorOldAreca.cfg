SPECIFICATION AnySpec
CONSTANTS
    Cap <- MCCap
    Setting <- MCSetting
    Hardware <- MCOldAreca
    Manual = {}
    Blacklist = {}
    MaxPd = 5
    WinSetting <- MCWinSetting
    MaxFailures = 0
    MaxScans = 1
    MaxAdds = 0
    MaxReplugs = 0
INVARIANTS ScanSurvives
CHECK_DEADLOCK FALSE
