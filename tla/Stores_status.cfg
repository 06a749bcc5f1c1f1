SPECIFICATION StatusAlone
CONSTANTS
    n1 = n1  n2 = n2  c1 = c1  c2 = c2
    NoName = NoName  Missing = Missing  Mixed = Mixed
    Names <- MCNames
    Contents <- MCContents
    Length <- MCLength
    SECTORS = 5
    PER_SECTOR = 2
    DIR_SECTORS = 2
    MaxFaults = 2
INVARIANT StatusTrue
CHECK_DEADLOCK FALSE
