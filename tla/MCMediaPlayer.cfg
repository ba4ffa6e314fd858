SPECIFICATION Spec
CONSTANTS
    MaxAudio = 2
    MaxVideo = 2
    MaxPackets = 5
INVARIANTS
    QueuesBounded
    GetNeverBlocks
PROPERTIES
    NothingLeftBehind
    EndsUnlessWedged
CHECK_DEADLOCK FALSE
