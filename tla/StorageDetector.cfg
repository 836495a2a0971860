SPECIFICATION FairAnySpec
CONSTANTS
    Cap <- MCCap
    Setting <- MCSetting
    Hardware <- MCHardware
    Manual <- Added
    Blacklist = {}
    MaxPd = 5
    WinSetting <- MCWinSetting
    MaxFailures = 2
    MaxScans = 2
    MaxAdds = 1
    MaxReplugs = 1
INVARIANTS EveryDiskOnce NoGhosts
PROPERTIES KeepsPromise ScanEnds
CHECK_DEADLOCK FALSE
