SPECIFICATION Spec
CONSTANTS
    demuxing_thread = demuxing_thread
    play_audio = play_audio
    n1 = n1
    n2 = n2
    p1 = p1
    p2 = p2
    p3 = p3
    NULL = NULL
    Putters <- MCPutters
    Getters <- MCGetters
    Nodes <- MCNodes
    Packets <- MCPackets
INVARIANTS
    ListShape
    NoDanglingPointer
PROPERTIES
    ImplementsFifo
    GetterServed
