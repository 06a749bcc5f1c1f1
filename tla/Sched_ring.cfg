SPECIFICATION Spec
CONSTANTS
    Slots = {k, i, w1, w2, w3}
    Kernel = k
    Idle = i
    Hz = 500
    Durations = {0, 3}
    REAP_LIMIT = 2
    TURN_LIMIT = 3
INVARIANTS OneRing
PROPERTIES FreedNotInUse SleepLasts
