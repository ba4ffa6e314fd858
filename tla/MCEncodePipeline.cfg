SPECIFICATION Spec
CONSTANTS
    c1 = c1
    c2 = c2
    NULL = NULL
    OutBufs <- MCOutBufs
    CapBufs <- MCCapBufs
    Frames = 3
INVARIANTS
    WrittenInOrder
    WholeFileEncoded

    
CHECK_DEADLOCK FALSE
