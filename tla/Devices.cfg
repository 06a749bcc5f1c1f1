SPECIFICATION DevicesSpec
CONSTANTS
    red = red  blue = blue  m1 = m1  m2 = m2
    Media <- MCMedia
    Slots <- MCSlots
    Extents <- MCExtents
    Filled <- MCFilled
    NoMedium = NoMedium  NoMount = NoMount
    SECTORS = 2
    Values = {0, 1}
    HUB = TRUE
    MaxEpoch = 2
    MaxFaults = 1
SYMMETRY Symmetric
INVARIANTS LeaseOnlyInOperation AhciOwned BusOwned MemoryOwned DesktopTrue
PROPERTIES TransfersOwnMedium ServiceFilesTrue
CHECK_DEADLOCK FALSE
