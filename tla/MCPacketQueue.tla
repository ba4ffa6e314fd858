--------------------------- MODULE MCPacketQueue ---------------------------
(***************************************************************************)
(* One queue of the player as the program uses it: the demultiplexing      *)
(* thread puts, one decoding thread gets.  Three packets and two nodes:    *)
(* a node is reused, and an allocation finds no memory.                    *)
(***************************************************************************)
EXTENDS PacketQueue

CONSTANTS demuxing_thread, play_audio, n1, n2, p1, p2, p3

MCPutters == {demuxing_thread}
MCGetters == {play_audio}
MCNodes   == {n1, n2}
MCPackets == {p1, p2, p3}
=============================================================================
