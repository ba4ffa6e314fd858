-------------------------- MODULE MCDecodePipeline --------------------------
(***************************************************************************)
(* Two stream buffers, as STREAM_BUFFER_CNT says, and two picture buffers: *)
(* the tightest case, in which the codec has none while one picture is     *)
(* shown and the next one waits for its vsync.                             *)
(***************************************************************************)
EXTENDS DecodePipeline

CONSTANTS c1, c2

MCOutBufs == {0, 1}
MCCapBufs == {c1, c2}
=============================================================================
