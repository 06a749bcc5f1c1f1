SPECIFICATION DisksSpec
CONSTANTS
    t1 = t1  t2 = t2  d0 = d0  d1 = d1  d2 = d2
    Targets <- MCTargets
    Data <- MCData
    Torn = {}
    STX_MAX = 2
    Durable = TRUE
    HeaderTears = FALSE
    MaxFaults = 2
INVARIANTS CrashAtomic NeverRefused LogVariantsSafe DirectoryListsFiles
    NtfsTrue VolumesWithinDisk
PROPERTIES CloseIsFence ImplementsAtomicDisk LogIsItsOwn RecoveryConverges
CHECK_DEADLOCK FALSE
