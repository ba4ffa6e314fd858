SPECIFICATION MCSpec
CONSTANTS
    c1 = c1
    c2 = c2
    NULL = NULL
    OutBufs <- MCOutBufs
    CapBufs <- MCCapBufs
    Frames = 3
    MaxVideo = 2
INVARIANTS
    PlayedWhole
PROPERTIES
    ImplementsDecode
    PlayerEnds
CHECK_DEADLOCK FALSE
