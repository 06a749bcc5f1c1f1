SPECIFICATION FairSpec
CONSTANTS
    Slots = {k, i, w1, w2}
    Kernel = k
    Idle = i
    Hz = 500
    Durations = {2}
    REAP_LIMIT = 4
    TURN_LIMIT = 4
PROPERTIES EverybodyServed
