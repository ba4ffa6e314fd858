----------------------------- MODULE MCStorage -----------------------------
(* Storage with a buffer of two bytes and files of up to two and a half
   buffers: a size below, at and above a buffer and at a multiple. *)
EXTENDS Storage

MCSizes == {1, 2, 4, 5}
=============================================================================
