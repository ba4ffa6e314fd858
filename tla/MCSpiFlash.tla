----------------------------- MODULE MCSpiFlash -----------------------------
(***************************************************************************)
(* A chip of four cells with blocks of one, two or four, two cells a step, *)
(* and unsigned numbers that wrap at eight: every offset and every length  *)
(* they can hold, two runs in a row.                                       *)
(***************************************************************************)
EXTENDS SpiFlash

MCEraseSizes == {1, 2, 4}
MCNumbers    == 0..Word - 1
=============================================================================
