SPECIFICATION Spec
CONSTANTS
    OutGrants = {1, 2, 3}
    CapGrants = {1, 2, 3}
    MaxOut = 2
    MaxCap = 2
    MaxTable = 8
INVARIANTS
    ReadyForThreads
    OwnsWhatItCloses
    NothingLeft
CHECK_DEADLOCK FALSE
