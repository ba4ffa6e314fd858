SPECIFICATION Spec
CONSTANTS
    BufSize = 4
    Thresh = 2
    Delay = 1
    MaxBytes = 7
    MaxPackets = 4
    MaxStreams = 3
    PerPacket = 2
INVARIANTS
    BufferIsWindow
    FramesPassedOn
    DemuxedWhole
CHECK_DEADLOCK FALSE
