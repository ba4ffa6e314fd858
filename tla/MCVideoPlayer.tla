--------------------------- MODULE MCVideoPlayer ---------------------------
(***************************************************************************)
(* Two stream buffers and two picture buffers as in MCDecodePipeline, and  *)
(* a queue of two packets: the demultiplexer waits at its gate and the     *)
(* parser thread at an empty queue, and the file may end with a packet     *)
(* left in the queue.  A codec that takes more than two seconds is not     *)
(* combined with calls that fail: MCDecodePipeline has both together.      *)
(***************************************************************************)
EXTENDS VideoPlayer

CONSTANTS c1, c2

MCOutBufs == {0, 1}
MCCapBufs == {c1, c2}

MCInit == PlayerInit /\ (fragile => timely)

MCSpec == MCInit /\ [][PlayerNext]_playerVars /\ PlayerFairness
=============================================================================
