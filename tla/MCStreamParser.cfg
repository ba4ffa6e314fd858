SPECIFICATION ParserSpec
CONSTANTS
    MaxTokens = 4
    Codecs <- MCCodecs
    Streams <- MCStreams
    OutSizes <- MCOutSizes
INVARIANTS
    KeptFits
    NoByteLost
    OnePicture
PROPERTIES
    Terminates
CHECK_DEADLOCK FALSE
