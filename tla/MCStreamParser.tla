--------------------------- MODULE MCStreamParser ---------------------------
(***************************************************************************)
(* Streams of at most MaxTokens tokens: a picture, a header, the short     *)
(* header of H.263 or a later slice, one zero, four zeros (with those of   *)
(* a start code more than ctx.bytes holds), a one and another byte.  A     *)
(* buffer is large enough for all of them, or for two tokens.              *)
(***************************************************************************)
EXTENDS StreamParser, SequencesExt

CONSTANT MaxTokens

Tokens == [
    mpeg4 |-> {<<0, 0, 1, 182>>, <<0, 0, 1, 176>>, <<0, 0, 128>>, <<0>>, <<0, 0, 0, 0>>, <<1>>, <<255>>},
    h264  |-> {<<0, 0, 1, 101, 128>>, <<0, 0, 1, 103>>, <<0, 0, 1, 65, 64>>, <<0>>, <<0, 0, 0, 0>>, <<1>>, <<255>>},
    mpeg2 |-> {<<0, 0, 1, 0>>, <<0, 0, 1, 179>>, <<0>>, <<0, 0, 0, 0>>, <<1>>, <<255>>}]

MCStreams == [c \in DOMAIN Tokens |->
                 {FlattenSeq(s) : s \in UNION {[1..n -> Tokens[c]] : n \in 0..MaxTokens}}]

MCCodecs   == DOMAIN Tokens
MCOutSizes == {8, 1000}
=============================================================================
