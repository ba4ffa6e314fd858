SPECIFICATION Spec
CONSTANTS
    c1 = c1
    c2 = c2
    NULL = NULL
    OutBufs <- MCOutBufs
    CapBufs <- MCCapBufs
    Frames = 4
INVARIANTS
    OutputOwned
    TearFree
    NoBufferLost
    WholeStreamDecoded
PROPERTIES
    EndsUnlessWedged
CHECK_DEADLOCK FALSE
