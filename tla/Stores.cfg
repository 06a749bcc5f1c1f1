SPECIFICATION StoresSpec
CONSTANTS
    n1 = n1  n2 = n2  c1 = c1  c2 = c2
    NoName = NoName  Missing = Missing  Mixed = Mixed
    Names <- MCNames
    Contents <- MCContents
    Length <- MCLength
    SECTORS = 4
    PER_SECTOR = 2
    DIR_SECTORS = 2
    MaxFaults = 2
INVARIANTS RamMatchesDisk
PROPERTIES StaysMountable ImplementsFileStore SetupSafe ShellHonest EditorsKeepText
CHECK_DEADLOCK FALSE
