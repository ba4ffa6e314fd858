-------------------------- MODULE MCEncodePipeline --------------------------
(***************************************************************************)
(* Two stream buffers (of six) and the two buffers for encoded frames of   *)
(* RESULT_BUFFER_CNT: the codec has only one while the other is kept.      *)
(***************************************************************************)
EXTENDS EncodePipeline

CONSTANTS c1, c2

MCOutBufs == {0, 1}
MCCapBufs == {c1, c2}
=============================================================================
