SPECIFICATION FatSpec
CONSTANTS
    notes = notes  folder = folder  draft = draft
    empty = empty  small = small  large = large
    Root = Root  Directory = Directory  Missing = Missing  Mixed = Mixed
    Names <- MCNames
    Parent <- MCParent
    Contents <- MCContents
    Length <- MCLength
    CLUSTERS = 4
    SLOTS = 1
    MaxFaults = 2
INVARIANTS VolumeConsistent TextTrue
PROPERTIES BodiesToFree ImplementsFileStore ActsAsAsked
CHECK_DEADLOCK FALSE
