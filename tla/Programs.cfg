SPECIFICATION ProgramsSpec
CONSTANTS
    Names = {a}
    NoName = none
    Values = {0}
    Zero = 0
    KS_FILES = 1
    KS_HANDLES = 1
    KS_FILE_BYTES = 0
    DRAW_BUDGET = 2
    TEXT_BUDGET = 1
    MAX_DELTA = 1
    Keys = {1, 2, 3}
    TOKEN_MAX = 3
    HANDLE_MAX = 1
    GENERATION_MAX = 2
    QUEUE = 2
    SLICE = 2
    SLICE_LIMIT = 2
    MaxInputs = 3
INVARIANTS LayersAgree InputAndDrawingOwn ModesSafe
PROPERTIES ImplementsMailbox RunawayStopped StoreWindowsSafe ComputesAsWritten KeysArrive
CHECK_DEADLOCK FALSE
