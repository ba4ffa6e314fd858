SPECIFICATION Spec
CONSTANTS
    MaxAudio = 2
    MaxVideo = 2
    MaxPackets = 1
PROPERTIES
    FinishedEnds
CHECK_DEADLOCK FALSE
