---------------------------- MODULE StreamParser ----------------------------
(***************************************************************************)
(* v4l2_decode/parser.c, byte by byte: the three parser functions that cut *)
(* a stream into pieces of one picture each, and the loop that calls them. *)
(*                                                                         *)
(* A call looks for the start code that ends the current piece.  When it   *)
(* sees that code it has read some bytes of it: they are kept in ctx.bytes *)
(* and begin the next piece.  A piece, and ctx.bytes, is the sequence of   *)
(* the positions in the stream of its bytes, so that it can be seen which  *)
(* bytes of the stream it has.                                             *)
(*                                                                         *)
(* v4l2_decode calls the parser with the rest of the file until it is used *)
(* up.  The player resets the context and calls it once for each packet,   *)
(* so that a packet is a stream of its own.  get_head is 0 in both.  A     *)
(* char is unsigned, as it is on the C-SKY processors.                     *)
(***************************************************************************)
EXTENDS Integers, Sequences

CONSTANTS Codecs,    \* a subset of {"mpeg4", "h264", "mpeg2"}
          Streams,   \* the streams for each of them, sequences of bytes
          OutSizes   \* sizes of the buffer that takes a piece

ASSUME ParserAssumption ==
    /\ Codecs \subseteq {"mpeg4", "h264", "mpeg2"}
    /\ \A c \in Codecs : Streams[c] \subseteq Seq(0..255)
    /\ OutSizes \subseteq Nat

VARIABLES codec, stream, outSize, player,   \* the parser function, its input, the caller
          ctx,                              \* struct mfc_parser_context
          consumed, offs,                   \* bytes read by this call, and before it
          pieces,                           \* what went to the codec
          overflowed,                       \* a piece was larger than the buffer
          phase

input      == <<codec, stream, outSize, player>>
parserVars == <<input, ctx, consumed, offs, pieces, overflowed, phase>>

Rest == Len(stream) - offs

Positions(from, length) == [i \in 1..length |-> from + i]

(* parse_stream_init *)
ParserInit ==
    /\ codec \in Codecs /\ stream \in Streams[codec]
    /\ outSize \in OutSizes /\ player \in BOOLEAN
    /\ ctx = [state |-> "NO_CODE", last_tag |-> "HEAD", bytes |-> <<>>,
              main_count |-> 0, headers_count |-> 0,
              tmp_code_start |-> 0, code_start |-> 0, code_end |-> 0,
              got_start |-> FALSE, got_end |-> FALSE, seek_end |-> FALSE,
              short_header |-> FALSE]
    /\ consumed = 0 /\ offs = 0
    /\ pieces = <<>> /\ overflowed = FALSE
    /\ phase = IF stream = <<>> THEN "return" ELSE "scan"

-----------------------------------------------------------------------------
(* Faulty variants of the definitions below, caught by the properties at the
   end of this module. *)

(* a third zero does not move the start of the code *)
ZeroRunIgnored(c) == c

(* the end of a piece is where the call has read to *)
LengthConsumed(c) == consumed

(* the picture that begins the next piece is forgotten *)
NextPieceForgets(c) ==
    [c EXCEPT !.code_start = c.code_end - consumed,
              !.bytes = Positions(offs + c.code_end, consumed - c.code_end),
              !.got_end = FALSE,
              !.main_count = 0,
              !.headers_count = 1,
              !.seek_end = FALSE]

(* parser_thread goes on at the end of the file *)
FinishedNoBreak ==
    /\ phase' = phase
    /\ UNCHANGED <<pieces, offs, consumed>>

-----------------------------------------------------------------------------
(* The switch on ctx->state: what becomes of the context at a byte. *)
To(c, there) == [c EXCEPT !.state = there]

Header(c)  == [c EXCEPT !.state = "NO_CODE", !.last_tag = "HEAD", !.headers_count = @ + 1]
Picture(c) == [c EXCEPT !.state = "NO_CODE", !.last_tag = "PICTURE", !.main_count = @ + 1]

(* A zero more than the code needs: it starts one byte later. *)
ZeroRun(c) == [c EXCEPT !.tmp_code_start = @ + 1]

(* The first two zeros are the same for the three codecs. *)
FirstZero(c) == [c EXCEPT !.state = "CODE_0x1", !.tmp_code_start = consumed]

Zeros(c, b) == IF b # 0 THEN To(c, "NO_CODE")
               ELSE IF c.state = "NO_CODE" THEN FirstZero(c) ELSE To(c, "CODE_0x2")

(* MPEG-4: visual object and video object layer headers, the VOP (0xb6), and
   the short header of H.263, which comes without the 1 *)
Mpeg4Head(b) == b \div 16 \in {0, 2} \/ b \in {176, 178, 179, 181}

Mpeg4(c, b) ==
    CASE c.state \in {"NO_CODE", "CODE_0x1"} -> Zeros(c, b)
      [] c.state = "CODE_0x2" ->
            CASE b = 1        -> To(c, "CODE_1x1")
              [] b \in 128..131 -> IF c.seek_end /\ ~c.short_header THEN To(c, "NO_CODE")
                                   ELSE [Picture(c) EXCEPT !.short_header = TRUE]
              [] b = 0        -> ZeroRun(c)
              [] OTHER        -> To(c, "NO_CODE")
      [] c.state = "CODE_1x1" ->
            CASE Mpeg4Head(b) -> Header(c)
              [] b = 182      -> Picture(c)
              [] OTHER        -> To(c, "NO_CODE")

(* H.264: SEI and parameter sets are headers, a slice is a picture when its
   first bit says that it is the first one. *)
H264(c, b) ==
    CASE c.state \in {"NO_CODE", "CODE_0x1"} -> Zeros(c, b)
      [] c.state = "CODE_0x2" ->
            To(c, CASE b = 1 -> "CODE_1x1" [] b = 0 -> "CODE_0x3" [] OTHER -> "NO_CODE")
      [] c.state = "CODE_0x3" ->
            IF b = 0 THEN ZeroRun(c) ELSE To(c, IF b = 1 THEN "CODE_1x1" ELSE "NO_CODE")
      [] c.state = "CODE_1x1" ->
            CASE b % 32 \in {1, 5}    -> To(c, "CODE_SLICE")
              [] b % 32 \in {6, 7, 8} -> Header(c)
              [] OTHER                -> To(c, "NO_CODE")
      [] c.state = "CODE_SLICE" -> IF b >= 128 THEN Picture(c) ELSE To(c, "NO_CODE")

(* MPEG-2: sequence and group of pictures headers, and the picture (0x00) *)
Mpeg2(c, b) ==
    CASE c.state \in {"NO_CODE", "CODE_0x1"} -> Zeros(c, b)
      [] c.state = "CODE_0x2" ->
            IF b = 0 THEN ZeroRun(c) ELSE To(c, IF b = 1 THEN "CODE_1x1" ELSE "NO_CODE")
      [] c.state = "CODE_1x1" ->
            CASE b \in {179, 184} -> Header(c)
              [] b = 0            -> Picture(c)
              [] OTHER            -> To(c, "NO_CODE")

Code(c, b) ==
    CASE codec = "mpeg4" -> Mpeg4(c, b)
      [] codec = "h264"  -> H264(c, b)
      [] codec = "mpeg2" -> Mpeg2(c, b)

-----------------------------------------------------------------------------
(* The counts after a byte: the first header or picture starts a piece, and
   once the piece has a picture the next header or picture ends it. *)
Start(c) ==
    IF ~c.got_start /\ c.headers_count + c.main_count = 1
    THEN [c EXCEPT !.got_start = TRUE, !.code_start = c.tmp_code_start]
    ELSE c

HasPicture(c) == c.main_count = 1 /\ ~c.seek_end

Seek(c) ==
    IF HasPicture(c)
    THEN [c EXCEPT !.seek_end = TRUE, !.headers_count = 0, !.main_count = 0]
    ELSE c

Ends(c) == c.seek_end /\ (c.headers_count > 0 \/ c.main_count > 0)

End(c) == [c EXCEPT !.code_end = c.tmp_code_start, !.got_end = TRUE,
                    !.seek_end = (c.headers_count = 0)]

(* One round of the loop.  The byte that ends a piece is not consumed. *)
Scan ==
    /\ phase = "scan"
    /\ LET c == Seek(Start(Code(ctx, stream[offs + consumed + 1])))
       IN IF Ends(c)
          THEN /\ ctx' = End(c)
               /\ phase' = "return"
               /\ UNCHANGED consumed
          ELSE /\ ctx' = c
               /\ consumed' = consumed + 1
               /\ phase' = IF consumed + 1 < Rest THEN "scan" ELSE "return"
    /\ UNCHANGED <<input, offs, pieces, overflowed>>

-----------------------------------------------------------------------------
(* After the loop: the piece that has been found so far is copied out. *)
FrameLength(c) == IF c.got_end THEN c.code_end ELSE consumed

(* the bytes kept by the call before, and those of this call *)
Kept(c) == IF c.code_start >= 0 THEN <<>> ELSE SubSeq(c.bytes, 1, -c.code_start)

Copied(c) ==
    IF c.code_start >= 0
    THEN Positions(offs + c.code_start, FrameLength(c) - c.code_start)
    ELSE Positions(offs, FrameLength(c))

TooLarge(c) == c.got_start /\ outSize < Len(Copied(c))

(* The piece ended: the code that ended it begins the next one, which has a
   picture already or only a header. *)
NextPiece(c) ==
    [c EXCEPT !.code_start = c.code_end - consumed,
              !.bytes = Positions(offs + c.code_end, consumed - c.code_end),
              !.got_end = FALSE,
              !.main_count = 0,
              !.headers_count = IF c.last_tag = "PICTURE" THEN 0 ELSE 1,
              !.seek_end = (c.last_tag = "PICTURE"),
              !.short_header = @ /\ (codec # "mpeg4" \/ c.last_tag = "PICTURE")]

Left(c) ==
    LET d == CASE c.got_start /\ c.got_end  -> NextPiece(c)
               [] c.got_start /\ ~c.got_end -> [c EXCEPT !.code_start = 0]
               [] OTHER                     -> c
    IN [d EXCEPT !.tmp_code_start = @ - consumed]

(* parser_thread_func: the call returned 0 and the file is used up.  In the
   player the end of a packet is not looked for. *)
AtEnd(returned) == ~returned /\ offs = Len(stream)

Finished ==
    /\ phase' = "done"
    /\ UNCHANGED <<pieces, offs, consumed>>

Return ==
    /\ phase = "return"
    /\ LET piece    == Kept(ctx) \o (IF ctx.got_start THEN Copied(ctx) ELSE <<>>)
           returned == ctx.got_start /\ ctx.got_end
       IN /\ ~TooLarge(ctx)
          /\ ctx' = Left(ctx)
          /\ IF ~player /\ AtEnd(returned)
             THEN Finished
             ELSE /\ pieces' = Append(pieces, piece)
                  /\ offs' = offs + consumed
                  /\ consumed' = 0
                  /\ phase' = IF player THEN "done"
                           ELSE IF offs + consumed < Len(stream) THEN "scan" ELSE "return"
    /\ UNCHANGED <<input, overflowed>>

(* "Output buffer too small": 0 is returned before the context is brought up
   to date.  What was kept is queued all the same, which `pieces` leaves
   out: no property is about the pieces after such a call. *)
ReturnTooLarge ==
    /\ phase = "return"
    /\ TooLarge(ctx)
    /\ overflowed' = TRUE
    /\ IF ~player /\ AtEnd(FALSE)
       THEN Finished
       ELSE /\ UNCHANGED pieces
            /\ offs' = offs + consumed
            /\ consumed' = 0
            /\ phase' = IF player THEN "done"
                     ELSE IF offs + consumed < Len(stream) THEN "scan" ELSE "return"
    /\ UNCHANGED <<input, ctx>>

ParserNext == Scan \/ Return \/ ReturnTooLarge

ParserSpec == ParserInit /\ [][ParserNext]_parserVars /\ WF_parserVars(ParserNext)
-----------------------------------------------------------------------------
(* The bytes of a start code that a call has read fit in the six bytes of
   ctx.bytes, and as many are kept as the next call takes from there. *)
KeptFits ==
    /\ Len(ctx.bytes) <= 6
    /\ ctx.code_start < 0 => Len(ctx.bytes) = -ctx.code_start
    /\ phase = "return" /\ ctx.got_end /\ ~overflowed =>
          ctx.code_end >= 0 /\ consumed - ctx.code_end \in 0..6

(* No byte is lost and none is sent twice: each piece goes on in the stream
   where the one before ended, even when its first bytes were read by the
   call that found them to be the end of that one, and the last ends with
   the file. *)
LastByte(k) == pieces[k][Len(pieces[k])]

NoByteLost ==
    ~overflowed =>
        \A k \in 1..Len(pieces) :
            /\ \A i \in 1..Len(pieces[k]) - 1 : pieces[k][i + 1] = pieces[k][i] + 1
            /\ k > 1 /\ pieces[k - 1] # <<>> => pieces[k] # <<>> /\ pieces[k][1] = LastByte(k - 1) + 1
            /\ phase = "done" /\ ~player /\ k = Len(pieces) /\ pieces[k] # <<>> => LastByte(k) = Len(stream)

Prefix(i) == stream[i] = 0 /\ stream[i + 1] = 0 /\ stream[i + 2] = 1

(* What is a picture in a stream, without reference to how it is parsed *)
IsPicture(i) ==
    /\ i + 3 <= Len(stream) /\ Prefix(i)
    /\ \/ codec = "mpeg4" /\ stream[i + 3] = 182
       \/ codec = "mpeg2" /\ stream[i + 3] = 0
       \/ /\ codec = "h264" /\ stream[i + 3] % 32 \in {1, 5}
          /\ i + 4 <= Len(stream) /\ stream[i + 4] >= 128

ShortHeaders == \E i \in 1..Len(stream) - 2 :
                    stream[i] = 0 /\ stream[i + 1] = 0 /\ stream[i + 2] \in 128..131

(* A start code that begins in the last byte of another one.  None of the
   three standards has such streams; the parsers take that byte for a part of
   the first code only. *)
Slice(i) == codec = "h264" /\ stream[i + 3] % 32 \in {1, 5}

Overlap ==
    \E i, j \in 1..Len(stream) - 2 :
        /\ Prefix(i) /\ Prefix(j)
        /\ j = i + 3 \/ (j = i + 4 /\ Slice(i))

(* A buffer queued to the codec holds one picture, with the headers before
   it.  The last one may be a header that no picture follows. *)
OnePicture ==
    (~overflowed /\ ~Overlap /\ ~(codec = "mpeg4" /\ ShortHeaders)) =>
        \A k \in 1..Len(pieces) :
            LET pictures == {p \in 1..Len(stream) :
                                /\ IsPicture(p)
                                /\ \E i \in 1..Len(pieces[k]) : pieces[k][i] = p}
            IN \A p, q \in pictures : p = q

(* The parser gets to the end of the file, unless a piece was too large. *)
Terminates == <>(phase = "done" \/ overflowed)
=============================================================================
