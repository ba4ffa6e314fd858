---------------------------- MODULE StreamProofs ----------------------------
(***************************************************************************)
(* The two parts that cut a file into pieces: the FFmpeg tools, and the    *)
(* video parsers of v4l2_decode and of the player.                         *)
(*                                                                         *)
(* The FFmpeg tools, for buffers, files, packets and delays of any size,   *)
(* and wherever FFmpeg's parser cuts: the input buffer of the audio        *)
(* decoder is a window of the file, no frame is lost between a packet and  *)
(* the output but by a write that fails, and the demultiplexer writes what *)
(* it reads but for what a trailer that fails takes away.  IInv gives the  *)
(* decoder's variables their types and says what `pos`, `taken` and        *)
(* `dataSize` have to do with each other at every place.  FramesInv        *)
(* accounts for the frames of the decoder and of the player, DemuxInv for  *)
(* the packets of the demultiplexer.                                       *)
(*                                                                         *)
(* The parsers, for every codec, stream of bytes and size of the buffer:   *)
(* what is kept of a start code fits, no byte is lost between two pieces,  *)
(* and a piece has one picture.  ParserInv says what the state of the      *)
(* automaton tells of the bytes read last (CodeRead, Ready), where the     *)
(* piece begins and how it goes on from the one before (Piece, Joined),    *)
(* and which pictures the piece can have so far (PictureSeen).  ToDo       *)
(* bounds the number of steps to the end of the stream.                    *)
(***************************************************************************)
EXTENDS FfmpegTools, StreamParser, FiniteSetTheorems, TLAPS

BufferTypes ==
    /\ broken \in BOOLEAN
    /\ size \in Nat /\ pos \in Nat /\ taken \in Nat /\ data \in Nat /\ dataSize \in Nat
    /\ inbuf \in [Slots -> Nat]
    /\ pos <= size

(* The unparsed bytes are those between `taken` and `pos`. *)
Window ==
    /\ taken + dataSize = pos /\ data + dataSize <= BufSize
    /\ \A k \in 0..dataSize - 1 : inbuf[data + k] = taken + k + 1

(* The parser is not shown less than the threshold, if there is more. *)
Enough == pc = "parse" /\ ~broken => dataSize >= Thresh \/ pos = size

(* Nothing was read before the first fread. *)
Unread == pc = "open" => pos = 0

IInv == program = "decode" => BufferTypes /\ Window /\ Enough /\ Unread

-----------------------------------------------------------------------------
LEMMA MinOfTwo == \A a, b \in Int : Min({a, b}) = IF a <= b THEN a ELSE b
<1> SUFFICES ASSUME NEW a \in Int, NEW b \in Int
             PROVE  Min({a, b}) = IF a <= b THEN a ELSE b
  OBVIOUS
<1> DEFINE m == IF a <= b THEN a ELSE b
<1>1. m \in {a, b} /\ \A y \in {a, b} : m <= y
  OBVIOUS
<1>2. \A x \in {a, b} : (\A y \in {a, b} : x <= y) => x = m
  OBVIOUS
<1> QED  BY <1>1, <1>2 DEF Min

(* What fread returns: never more than there is room for or than is left,
   and all of that unless the file is broken. *)
LEMMA ReadsBounds ==
    ASSUME size \in Nat, pos \in Nat, pos <= size, broken \in BOOLEAN,
           NEW room \in Nat, NEW n \in Reads(room)
    PROVE  /\ n \in Nat /\ n <= room /\ n <= size - pos
           /\ ~broken => n = room \/ n = size - pos
<1>1. Min({room, size - pos}) = IF room <= size - pos THEN room ELSE size - pos
  BY MinOfTwo
<1> QED  BY <1>1 DEF Reads

(* What the slots hold after fread *)
LEMMA FilledSlots ==
    ASSUME pos \in Nat, NEW b \in [Slots -> Nat], NEW at \in Nat, NEW n \in Nat
    PROVE  /\ Filled(b, at, n) \in [Slots -> Nat]
           /\ \A k \in Slots : k < at => Filled(b, at, n)[k] = b[k]
           /\ \A k \in Slots : k >= at /\ k < at + n => Filled(b, at, n)[k] = pos + (k - at) + 1
<1> \A k \in Slots : k \in Int
  BY ToolsAssumption DEF Slots
<1> QED  BY DEF Filled

LEMMA InitIInv == Init => IInv
<1> SUFFICES ASSUME Init, program = "decode"  PROVE BufferTypes /\ Window /\ Enough /\ Unread
  BY DEF IInv
<1>1. /\ pos = 0 /\ taken = 0 /\ data = 0 /\ dataSize = 0 /\ pc = "open"
      /\ broken \in BOOLEAN /\ inbuf = [k \in Slots |-> 0]
  BY DEF Init
<1>2. size \in Nat
  BY ToolsAssumption DEF Init
<1> QED  BY <1>1, <1>2, ToolsAssumption DEF BufferTypes, Window, Enough, Unread

-----------------------------------------------------------------------------
(* After main's first fread the window begins with the file. *)
LEMMA OpenKeeps ==
    ASSUME BufferTypes, Window, Unread, program = "decode", DecodeOpen
    PROVE  BufferTypes' /\ Window' /\ Enough' /\ Unread'
<1> USE ToolsAssumption
<1>1. UNCHANGED <<broken, size, taken>>
  BY DEF DecodeOpen, file
<1>2. CASE Exit /\ UNCHANGED <<pos, inbuf, data, dataSize>>
  BY <1>1, <1>2 DEF Exit, BufferTypes, Window, Enough, Unread
<1>3. CASE \E n \in Reads(BufSize) :
              /\ inbuf' = Filled(inbuf, 0, n)
              /\ data' = 0 /\ dataSize' = n /\ pos' = pos + n
              /\ pc' = "parse"
  <2>1. PICK n \in Reads(BufSize) :
              /\ inbuf' = Filled(inbuf, 0, n)
              /\ data' = 0 /\ dataSize' = n /\ pos' = pos + n
              /\ pc' = "parse"
    BY <1>3
  <2>2. pos = 0 /\ taken = 0 /\ dataSize = 0
    BY DEF DecodeOpen, At, BufferTypes, Window, Unread
  <2>3. /\ n \in Nat /\ n <= BufSize /\ n <= size - pos
        /\ ~broken => n = BufSize \/ n = size - pos
    BY ReadsBounds DEF BufferTypes
  <2>4. /\ inbuf' \in [Slots -> Nat]
        /\ \A k \in Slots : k >= 0 /\ k < n => inbuf'[k] = pos + (k - 0) + 1
    BY <2>1, <2>3, FilledSlots DEF BufferTypes
  <2>5. BufferTypes'
    BY <1>1, <2>1, <2>2, <2>3, <2>4 DEF BufferTypes
  <2>6. Window'
    <3>1. ASSUME NEW k \in 0..n - 1  PROVE inbuf'[k] = k + 1
      BY <2>2, <2>3, <2>4 DEF Slots
    <3> QED  BY <1>1, <2>1, <2>2, <2>3, <3>1 DEF Window
  <2>7. Enough' /\ Unread'
    BY <1>1, <2>1, <2>2, <2>3 DEF Enough, Unread, BufferTypes
  <2> QED  BY <2>5, <2>6, <2>7
<1> QED  BY <1>2, <1>3 DEF DecodeOpen

(* What the parser has taken leaves the window at its front. *)
LEMMA ParseKeeps ==
    ASSUME BufferTypes, Window, program = "decode", DecodeParse
    PROVE  BufferTypes' /\ Window' /\ Enough' /\ Unread'
<1>1. UNCHANGED <<broken, size, pos, inbuf>>
  BY DEF DecodeParse, file
<1>2. CASE Exit /\ UNCHANGED <<data, dataSize, taken>>
  BY <1>1, <1>2 DEF Exit, BufferTypes, Window, Enough, Unread
<1>3. CASE \E n \in 1..dataSize :
              /\ data' = data + n /\ dataSize' = dataSize - n /\ taken' = taken + n
              /\ pc' \in {"send", "refill"}
  <2>1. PICK n \in 1..dataSize :
              /\ data' = data + n /\ dataSize' = dataSize - n /\ taken' = taken + n
              /\ pc' \in {"send", "refill"}
    BY <1>3
  <2>2. BufferTypes'
    BY <1>1, <2>1 DEF BufferTypes
  <2>3. Window'
    <3>1. ASSUME NEW k \in 0..dataSize - n - 1
          PROVE  inbuf[data + n + k] = taken + n + k + 1
      <4>1. n + k \in 0..dataSize - 1 /\ data + (n + k) = data + n + k
        BY <2>1 DEF BufferTypes
      <4> QED  BY <2>1, <4>1 DEF Window, BufferTypes
    <3> QED  BY <1>1, <2>1, <3>1 DEF Window, BufferTypes
  <2>4. Enough' /\ Unread'
    BY <2>1 DEF Enough, Unread
  <2> QED  BY <2>2, <2>3, <2>4
<1>4. \/ Exit /\ UNCHANGED <<data, dataSize, taken>>
      \/ \E n \in 1..dataSize :
            /\ data' = data + n /\ dataSize' = dataSize - n /\ taken' = taken + n
            /\ pc' \in {"send", "refill"}
  BY DEF DecodeParse
<1> QED  BY <1>2, <1>3, <1>4

(* memmove and fread: the window goes to the front of the buffer, and what
   the file has next is put behind it. *)
LEMMA RefillKeeps ==
    ASSUME BufferTypes, Window, program = "decode", DecodeRefill
    PROVE  BufferTypes' /\ Window' /\ Enough' /\ Unread'
<1> USE ToolsAssumption
<1>1. UNCHANGED <<broken, size, taken>> /\ pc' = "parse"
  BY DEF DecodeRefill, file
<1>2. CASE dataSize < Thresh
  <2>1. PICK n \in Reads(BufSize - dataSize) :
              /\ inbuf' = Filled(Moved, dataSize, n)
              /\ data' = 0 /\ dataSize' = dataSize + n /\ pos' = pos + n
    BY <1>2 DEF DecodeRefill
  <2>2. /\ n \in Nat /\ n <= BufSize - dataSize /\ n <= size - pos
        /\ ~broken => n = BufSize - dataSize \/ n = size - pos
    <3>1. BufSize - dataSize \in Nat
      BY DEF BufferTypes, Window
    <3> QED  BY <3>1, ReadsBounds DEF BufferTypes
  <2>3. /\ Moved \in [Slots -> Nat]
        /\ \A k \in Slots : k < dataSize => Moved[k] = taken + k + 1
    <3>1. ASSUME NEW k \in Slots, k < dataSize
          PROVE  data + k \in Slots /\ inbuf[data + k] = taken + k + 1
      BY <3>1 DEF Slots, BufferTypes, Window
    <3>2. ASSUME NEW k \in Slots  PROVE Moved[k] \in Nat
      BY <3>1 DEF Moved, BufferTypes
    <3>3. Moved \in [Slots -> Nat]
      BY <3>2 DEF Moved
    <3> QED  BY <3>1, <3>3 DEF Moved
  <2>4. /\ inbuf' \in [Slots -> Nat]
        /\ \A k \in Slots : k < dataSize => inbuf'[k] = Moved[k]
        /\ \A k \in Slots : k >= dataSize /\ k < dataSize + n
                               => inbuf'[k] = pos + (k - dataSize) + 1
    <3>1. pos \in Nat /\ dataSize \in Nat /\ n \in Nat
      BY <2>2 DEF BufferTypes
    <3>2. PICK m \in [Slots -> Nat] : m = Moved
      BY <2>3
    <3>3. /\ Filled(m, dataSize, n) \in [Slots -> Nat]
          /\ \A k \in Slots : k < dataSize => Filled(m, dataSize, n)[k] = m[k]
          /\ \A k \in Slots : k >= dataSize /\ k < dataSize + n
                                 => Filled(m, dataSize, n)[k] = pos + (k - dataSize) + 1
      BY ONLY <3>1, <3>2, FilledSlots, Zenon
    <3> QED  BY <2>1, <3>2, <3>3
  <2>5. BufferTypes'
    BY <1>1, <2>1, <2>2, <2>4 DEF BufferTypes
  <2>6. Window'
    <3>1. ASSUME NEW k \in 0..dataSize + n - 1  PROVE inbuf'[k] = taken + k + 1
      <4>1. k \in Slots
        BY <2>2 DEF Slots, BufferTypes
      <4>2. CASE k < dataSize
        BY <2>3, <2>4, <4>1, <4>2
      <4>3. CASE k >= dataSize
        BY <2>2, <2>4, <4>1, <4>3 DEF Window, BufferTypes
      <4> QED  BY <2>2, <4>2, <4>3 DEF BufferTypes
    <3> QED  BY <1>1, <2>1, <2>2, <3>1 DEF Window, BufferTypes
  <2>7. Enough' /\ Unread'
    BY <1>1, <2>1, <2>2 DEF Enough, Unread, BufferTypes
  <2> QED  BY <2>5, <2>6, <2>7
<1>3. CASE ~(dataSize < Thresh)
  <2>1. UNCHANGED <<pos, inbuf, data, dataSize>>
    BY <1>3 DEF DecodeRefill
  <2> QED  BY <1>1, <1>3, <2>1 DEF BufferTypes, Window, Enough, Unread
<1> QED  BY <1>2, <1>3

(* Nothing else touches the buffer or goes to where it is read. *)
LEMMA OthersKeep ==
    ASSUME BufferTypes, Window, Unread, program = "decode",
           DecodeEnd \/ DecodeFlush \/ DecodeClose \/ Coder
    PROVE  BufferTypes' /\ Window' /\ Enough' /\ Unread'
<1>1. UNCHANGED <<broken, size, pos, inbuf, data, dataSize, taken>>
  BY DEF DecodeEnd, DecodeFlush, DecodeClose, Coder, Send, ReceiveFrame, ReceiveNone, ReceiveFails, file, buffer
<1>2. pc' \notin {"parse", "open"}
  BY DEF DecodeEnd, DecodeFlush, DecodeClose, Coder, Send, ReceiveFrame, ReceiveNone, ReceiveFails, Exit
<1> QED  BY <1>1, <1>2 DEF BufferTypes, Window, Enough, Unread

(* No step changes which program it is. *)
LEMMA ProgramStays == Next => program' = program
BY DEF Next, Demux, Decode, Play, Coder, DemuxOpen, DemuxHeader, DemuxRead, DemuxWrite,
        DemuxWriteFails, DemuxEnd, DemuxTrailers, DemuxCleanup, DecodeOpen, DecodeParse, DecodeRefill, DecodeEnd,
        DecodeFlush, DecodeClose, PlayOpen, PlayInitPcm, PlayRead, PlayEnd, PlayResample, PlayWrite, Send,
        ReceiveFrame, ReceiveNone, ReceiveFails

LEMMA NextIInv == IInv /\ [Next]_vars => IInv'
<1> SUFFICES ASSUME IInv, [Next]_vars  PROVE IInv'
  OBVIOUS
<1>1. CASE UNCHANGED vars
  BY <1>1 DEF vars, file, buffer, IInv, BufferTypes, Window, Enough, Unread
<1>2. CASE Next
  <2>1. program' = program
    BY <1>2, ProgramStays
  <2> SUFFICES ASSUME program = "decode"
               PROVE  BufferTypes' /\ Window' /\ Enough' /\ Unread'
    BY <2>1 DEF IInv
  <2>2. BufferTypes /\ Window /\ Unread
    BY DEF IInv
  <2>3. Decode \/ Coder
    BY <1>2 DEF Next, Demux, Play, At, DemuxOpen, DemuxHeader, DemuxRead, DemuxWrite,
        DemuxWriteFails, DemuxEnd, DemuxTrailers, DemuxCleanup, PlayOpen, PlayInitPcm, PlayRead, PlayEnd,
        PlayResample, PlayWrite
  <2> QED  BY <2>2, <2>3, OpenKeeps, ParseKeeps, RefillKeeps, OthersKeep DEF Decode
<1> QED  BY <1>1, <1>2


-----------------------------------------------------------------------------
(* Frames: what was in the packets is in the decoder or was given by it,
   and what it gave was passed on, missed, or is at hand. *)
CoderInv ==
    program \in {"decode", "play"} /\ pc # "exited" =>
        /\ inDecoder \in Nat /\ out \in Nat /\ frames \in Nat /\ packet \in Nat
        /\ passed \in Nat /\ missed \in Nat
        /\ frames = out + inDecoder + (IF pc = "send" THEN packet ELSE 0)
        /\ passed + missed + (IF pc \in {"resample", "write"} THEN 1 ELSE 0) = out

DecodeInv ==
    program = "decode" =>
        /\ flushed => pc \in {"receive", "close", "done", "exited"}
        /\ flushed \/ pc \in {"flush", "close", "done"} => (~broken => taken = size)
        /\ pc \in {"close", "done"} => inDecoder = 0
        /\ pc \in {"open", "parse", "refill", "flush", "send", "receive", "close", "done", "exited"}

PlayInv ==
    program = "play" =>
        /\ ~flushed
        /\ pc \in {"open", "init_pcm", "read", "done"} => inDecoder <= Delay

FramesInv == CoderInv /\ DecodeInv /\ PlayInv

LEMMA InitFrames == Init => FramesInv
<1> SUFFICES ASSUME Init  PROVE FramesInv
  OBVIOUS
<1>1. /\ pc = "open" /\ packet = 0 /\ inDecoder = 0 /\ flushed = FALSE /\ frames = 0 /\ out = 0
      /\ passed = 0 /\ missed = 0
  BY DEF Init
<1> QED  BY <1>1, ToolsAssumption DEF FramesInv, CoderInv, DecodeInv, PlayInv

LEMMA DecodeKeepsFrames == IInv /\ FramesInv /\ Decode => FramesInv'
<1> SUFFICES ASSUME IInv, FramesInv, Decode  PROVE FramesInv'
  OBVIOUS
<1> USE DEF file, buffer, outputs, hand, coder, sink, Exit, At
<1>0. program = "decode" /\ program' = "decode"
  BY DEF Decode, DecodeOpen, DecodeParse, DecodeRefill, DecodeEnd, DecodeFlush, DecodeClose
<1>1. CoderInv /\ DecodeInv
  BY DEF FramesInv
<1>2. CASE DecodeOpen \/ DecodeRefill
  <2>1. /\ pc \in {"open", "refill"} /\ pc' \in {"parse", "exited"}
        /\ UNCHANGED <<inDecoder, flushed, out, frames, packet, passed, missed>>
    BY <1>2 DEF DecodeOpen, DecodeRefill
  <2> QED  BY <1>0, <1>1, <2>1 DEF FramesInv, CoderInv, DecodeInv, PlayInv
<1>3. CASE DecodeParse
  <2>1. /\ pc = "parse"
        /\ UNCHANGED <<inDecoder, flushed, out, passed, missed>>
        /\ \/ pc' = "exited"
           \/ \E p \in 0..PerPacket : /\ packet' = p /\ frames' = frames + p
                                      /\ pc' = (IF p > 0 THEN "send" ELSE "refill")
    BY <1>3 DEF DecodeParse
  <2>2. ~flushed
    BY <1>0, <1>1, <2>1 DEF DecodeInv
  <2>3. DecodeInv'
    BY <1>0, <2>1, <2>2 DEF DecodeInv
  <2>4. CoderInv'
    <3>1. CASE pc' = "exited"
      BY <3>1 DEF CoderInv
    <3>2. ASSUME NEW p \in 0..PerPacket, packet' = p, frames' = frames + p,
                 pc' = (IF p > 0 THEN "send" ELSE "refill")
          PROVE  CoderInv'
      <4>1. p \in Nat
        BY ToolsAssumption
      <4> QED  BY <1>0, <1>1, <2>1, <3>2, <4>1 DEF CoderInv
    <3> QED  BY <2>1, <3>1, <3>2
  <2> QED  BY <1>0, <2>3, <2>4 DEF FramesInv, PlayInv
<1>4. CASE DecodeEnd
  <2>1. /\ pc = "parse" /\ pc' = "flush" /\ dataSize = 0
        /\ UNCHANGED <<inDecoder, flushed, out, frames, packet, passed, missed, broken, taken, size>>
    BY <1>4 DEF DecodeEnd
  <2>2. ~broken => taken = size
    <3>1. BufferTypes /\ Window /\ Enough
      BY <1>0 DEF IInv
    <3> QED  BY <2>1, <3>1, ToolsAssumption DEF BufferTypes, Window, Enough
  <2> QED  BY <1>0, <1>1, <2>1, <2>2 DEF FramesInv, CoderInv, DecodeInv, PlayInv
<1>5. CASE DecodeFlush
  <2>1. /\ pc = "flush" /\ pc' \in {"exited", "receive"}
        /\ UNCHANGED <<inDecoder, out, frames, packet, passed, missed, broken, taken, size>>
        /\ pc' = "exited" => flushed' = flushed
    BY <1>5 DEF DecodeFlush
  <2> QED  BY <1>0, <1>1, <2>1 DEF FramesInv, CoderInv, DecodeInv, PlayInv
<1>6. CASE DecodeClose
  <2>1. PICK n \in 0..passed : passed' = passed - n /\ missed' = missed + n
    BY <1>6 DEF DecodeClose
  <2>2. /\ pc = "close" /\ pc' = "done"
        /\ UNCHANGED <<inDecoder, flushed, out, frames, packet, broken, taken, size>>
    BY <1>6 DEF DecodeClose
  <2>3. passed' \in Nat /\ missed' \in Nat /\ passed' + missed' = passed + missed
    BY <1>0, <1>1, <2>1, <2>2 DEF CoderInv
  <2> QED  BY <1>0, <1>1, <2>2, <2>3 DEF FramesInv, CoderInv, DecodeInv, PlayInv
<1> QED  BY <1>2, <1>3, <1>4, <1>5, <1>6 DEF Decode

LEMMA PlayKeepsFrames == FramesInv /\ Play => FramesInv'
<1> SUFFICES ASSUME FramesInv, Play  PROVE FramesInv'
  OBVIOUS
<1> USE DEF file, buffer, outputs, hand, coder, sink, Exit, At
<1>0. program = "play" /\ program' = "play"
  BY DEF Play, PlayOpen, PlayInitPcm, PlayRead, PlayEnd, PlayResample, PlayWrite
<1>1. CoderInv /\ PlayInv
  BY DEF FramesInv
<1>2. CASE PlayOpen \/ PlayInitPcm \/ PlayEnd
  <2>1. /\ pc \in {"open", "init_pcm", "read"} /\ pc' \in {"init_pcm", "read", "done", "exited"}
        /\ UNCHANGED <<inDecoder, flushed, out, frames, packet, passed, missed>>
    BY <1>2 DEF PlayOpen, PlayInitPcm, PlayEnd
  <2> QED  BY <1>0, <1>1, <2>1 DEF FramesInv, CoderInv, DecodeInv, PlayInv
<1>3. CASE PlayRead
  <2>1. PICK p \in 0..PerPacket : \/ packet' = p /\ frames' = frames + p /\ pc' = "send"
                                  \/ UNCHANGED <<packet, frames, pc>>
    BY <1>3 DEF PlayRead
  <2>2. /\ pc = "read" /\ UNCHANGED <<inDecoder, flushed, out, passed, missed>>
    BY <1>3 DEF PlayRead
  <2>3. p \in Nat
    BY ToolsAssumption
  <2> QED  BY <1>0, <1>1, <2>1, <2>2, <2>3 DEF FramesInv, CoderInv, DecodeInv, PlayInv
<1>4. CASE PlayResample
  <2>1. /\ pc = "resample" /\ pc' \in {"write", "exited"}
        /\ UNCHANGED <<inDecoder, flushed, out, frames, packet, passed, missed>>
    BY <1>4 DEF PlayResample
  <2> QED  BY <1>0, <1>1, <2>1 DEF FramesInv, CoderInv, DecodeInv, PlayInv
<1>5. CASE PlayWrite
  <2>1. /\ pc = "write" /\ pc' = "receive"
        /\ \/ passed' = passed + 1 /\ missed' = missed
           \/ missed' = missed + 1 /\ passed' = passed
        /\ UNCHANGED <<inDecoder, flushed, out, frames, packet>>
    BY <1>5 DEF PlayWrite
  <2> QED  BY <1>0, <1>1, <2>1 DEF FramesInv, CoderInv, DecodeInv, PlayInv
<1> QED  BY <1>2, <1>3, <1>4, <1>5 DEF Play

LEMMA CoderKeepsFrames == FramesInv /\ Coder => FramesInv'
<1> SUFFICES ASSUME FramesInv, Coder  PROVE FramesInv'
  OBVIOUS
<1> USE DEF file, buffer, outputs, hand, coder, sink, Exit
<1>0. /\ program' = program /\ CoderInv /\ DecodeInv /\ PlayInv
      /\ UNCHANGED <<broken, taken, size, flushed, packet, frames>>
  BY DEF FramesInv, Coder, Send, ReceiveFrame, ReceiveNone, ReceiveFails
<1>1. CASE pc' = "exited"
  BY <1>0, <1>1 DEF FramesInv, CoderInv, DecodeInv, PlayInv
<1>2. CASE Send /\ pc' # "exited"
  <2>1. /\ pc = "send" /\ pc' = "receive" /\ inDecoder' = inDecoder + packet
        /\ UNCHANGED <<out, passed, missed>>
    BY <1>2 DEF Send
  <2> QED  BY <1>0, <2>1 DEF FramesInv, CoderInv, DecodeInv, PlayInv
<1>3. CASE ReceiveFrame
  <2>1. /\ pc = "receive" /\ inDecoder > 0 /\ inDecoder' = inDecoder - 1 /\ out' = out + 1
        /\ \/ program = "play" /\ pc' = "resample" /\ UNCHANGED <<passed, missed>>
           \/ program = "decode" /\ pc' = pc /\ passed' = passed + 1 /\ missed' = missed
           \/ program = "decode" /\ pc' = pc /\ missed' = missed + 1 /\ passed' = passed
    BY <1>3 DEF ReceiveFrame, HasFrame
  <2>2. CoderInv'
    BY <1>0, <2>1 DEF CoderInv
  <2>3. DecodeInv'
    BY <1>0, <2>1 DEF DecodeInv
  <2>4. PlayInv'
    BY <1>0, <2>1 DEF PlayInv, CoderInv
  <2> QED  BY <2>2, <2>3, <2>4 DEF FramesInv
<1>4. CASE ReceiveNone
  <2>1. /\ pc = "receive" /\ UNCHANGED <<inDecoder, out, passed, missed>>
        /\ inDecoder = 0 \/ (~flushed /\ inDecoder <= Delay)
        /\ pc' = (IF program = "play" THEN "read" ELSE IF flushed THEN "close" ELSE "refill")
    BY <1>4 DEF ReceiveNone, HasNone
  <2>2. CoderInv'
    BY <1>0, <2>1 DEF CoderInv
  <2>3. DecodeInv'
    BY <1>0, <2>1 DEF DecodeInv
  <2>4. PlayInv'
    BY <1>0, <2>1, ToolsAssumption DEF PlayInv
  <2> QED  BY <2>2, <2>3, <2>4 DEF FramesInv
<1>5. CASE ReceiveFails
  BY <1>1, <1>5 DEF ReceiveFails
<1> QED  BY <1>1, <1>2, <1>3, <1>4, <1>5 DEF Coder

LEMMA NextFrames == IInv /\ FramesInv /\ [Next]_vars => FramesInv'
<1> SUFFICES ASSUME IInv, FramesInv, [Next]_vars  PROVE FramesInv'
  OBVIOUS
<1>1. CASE UNCHANGED vars
  BY <1>1 DEF vars, file, buffer, hand, coder, sink, FramesInv, CoderInv, DecodeInv, PlayInv
<1>2. CASE Demux
  BY <1>2 DEF Demux, DemuxOpen, DemuxHeader, DemuxRead, DemuxWrite, DemuxWriteFails, DemuxEnd,
       DemuxTrailers, DemuxCleanup, At, FramesInv, CoderInv, DecodeInv, PlayInv
<1> QED  BY <1>1, <1>2, DecodeKeepsFrames, PlayKeepsFrames, CoderKeepsFrames DEF Next

-----------------------------------------------------------------------------
(* The largest element of a set of numbers with a bound, and of Max. *)
LEMMA LeastOf ==
    ASSUME NEW T \in SUBSET Nat, T # {}
    PROVE  \E x \in T : \A y \in T : x <= y
<1> DEFINE R == OpToRel(<, Nat)
<1>1. IsWellFoundedOn(R, Nat)
  BY NatLessThanWellFounded
<1>2. \A x, y \in Nat : x < y => <<x, y>> \in R
  BY DEF OpToRel
<1> HIDE DEF R
<1>3. PICK x \in T : \A y \in T : ~ (<<y, x>> \in R)
  BY <1>1, WFMin
<1>4. \A y \in T : ~ (y < x)
  BY <1>2, <1>3
<1>5. \A y \in T : x \in Nat /\ y \in Nat /\ ~ (y < x)
  BY <1>4
<1>6. \A y \in T : x <= y
  BY <1>5
<1> QED  BY <1>6

LEMMA MaxIsIn ==
    ASSUME NEW n \in Nat, NEW S \in SUBSET (1..n), S # {}
    PROVE  Max(S) \in S
<1> DEFINE T == {n - s : s \in S}
<1>1. T \in SUBSET Nat /\ T # {}
  <2>1. ASSUME NEW s \in S  PROVE n - s \in Nat
    <3>1. s \in 1..n
      OBVIOUS
    <3> QED  BY <3>1
  <2>2. PICK s \in S : TRUE
    OBVIOUS
  <2>3. n - s \in T
    BY <2>2
  <2> QED  BY <2>1, <2>3
<1>2. PICK t \in T : \A u \in T : t <= u
  BY <1>1, LeastOf
<1>3. PICK x \in S : t = n - x
  <2>1. t \in T
    BY <1>2
  <2> QED  BY <2>1
<1>4. ASSUME NEW y \in S  PROVE x >= y
  <2>1. n - x <= n - y
    BY <1>2, <1>3
  <2> QED  BY <2>1
<1>5. \E z \in S : \A y \in S : z >= y
  BY <1>4
<1> QED  BY <1>5 DEF Max

LEMMA SingleMin == \A x \in Nat : Min({x}) = x
<1> SUFFICES ASSUME NEW x \in Nat  PROVE Min({x}) = x
  OBVIOUS
<1>1. \E y \in {x} : \A z \in {x} : y <= z
  OBVIOUS
<1> QED  BY <1>1 DEF Min

(* The demultiplexer: packets of a remembered stream are written, but for
   the one at hand. *)
TrailersRead ==
    \A k \in Kinds : /\ filed[k] \in Nat
                     /\ IF k \in cut THEN filed[k] <= written[k] ELSE filed[k] = written[k]

DemuxInv ==
    program = "demux" =>
        /\ pc \in {"open", "header", "read", "write", "trailers", "cleanup", "done", "exited"}
        /\ \E n \in Nat : DOMAIN streams = 1..n
        /\ got \in [DOMAIN streams -> Nat] /\ written \in [Kinds -> Nat]
        /\ DOMAIN index = Kinds
        /\ \A k \in Kinds : index[k] = 0 \/ (index[k] \in Of(k) /\ made[k] = Of(k))
        /\ pc \in {"open", "header"} => \A s \in DOMAIN streams : got[s] = 0
        /\ pc \in {"open", "header"} => \A k \in Kinds : written[k] = 0
        /\ pc = "write" => dest \in Kinds /\ index[dest] # 0
        /\ \A k \in Kinds : written[k] > 0 => index[k] # 0
        /\ ret = 0 => \A k \in Kinds : index[k] # 0 =>
              written[k] + (IF pc = "write" /\ dest = k THEN 1 ELSE 0) = got[index[k]]
        /\ ret # 0 => pc \in {"trailers", "done", "exited"}
        /\ pc \in {"cleanup", "done"} => TrailersRead

LEMMA InitDemux == Init => DemuxInv
<1> SUFFICES ASSUME Init, program = "demux"
             PROVE  DemuxInv
  BY DEF DemuxInv
<1>1. streams \in UNION {[1..n -> Kinds \cup {"other"}] : n \in 1..MaxStreams}
  BY DEF Init
<1>2. PICK n \in 1..MaxStreams : streams \in [1..n -> Kinds \cup {"other"}]
  BY <1>1
<1>3. n \in Nat /\ DOMAIN streams = 1..n
  BY <1>2, ToolsAssumption
<1>4. /\ index = [k \in Kinds |-> 0] /\ got = [s \in DOMAIN streams |-> 0]
      /\ written = [k \in Kinds |-> 0] /\ pc = "open" /\ ret = 0
  BY DEF Init
<1> QED  BY <1>3, <1>4 DEF DemuxInv

LEMMA OfInDomain == \A k : Of(k) \subseteq DOMAIN streams /\ \A s \in Of(k) : streams[s] = k
BY DEF Of, Leading

LEMMA DemuxKeeps == DemuxInv /\ Demux => DemuxInv'
<1> SUFFICES ASSUME DemuxInv, Demux  PROVE DemuxInv'
  OBVIOUS
<1> USE DEF file, outputs, hand, Exit, At
<1>0. /\ program = "demux" /\ program' = "demux" /\ streams' = streams
  BY DEF Demux, DemuxOpen, DemuxHeader, DemuxRead, DemuxWrite, DemuxWriteFails, DemuxEnd, DemuxTrailers, DemuxCleanup
<1>1. PICK n \in Nat : DOMAIN streams = 1..n
  BY <1>0 DEF DemuxInv
<1>2. \A k : Of(k)' = Of(k)
  BY <1>0 DEF Of, Leading
<1>3. CASE DemuxOpen
  <2>1. /\ pc = "open" /\ UNCHANGED <<written, got, ret>>
        /\ \/ pc' = "exited" /\ UNCHANGED <<index, made>>
           \/ /\ pc' = "header"
              /\ index' = [k \in Kinds |-> IF Of(k) = {} THEN 0 ELSE Max(Of(k))]
              /\ made' = [k \in Kinds |-> Of(k)]
    BY <1>3 DEF DemuxOpen
  <2>2. CASE pc' = "exited" /\ UNCHANGED <<index, made>>
    BY <1>0, <1>2, <2>1, <2>2 DEF DemuxInv
  <2>3. CASE /\ pc' = "header"
             /\ index' = [k \in Kinds |-> IF Of(k) = {} THEN 0 ELSE Max(Of(k))]
             /\ made' = [k \in Kinds |-> Of(k)]
    <3>1. \A k \in Kinds : Of(k) # {} => Max(Of(k)) \in Of(k)
      BY <1>1, OfInDomain, MaxIsIn
    <3>2. \A k \in Kinds : index'[k] = 0 \/ (index'[k] \in Of(k) /\ made'[k] = Of(k))
      BY <2>3, <3>1
    <3>3. \A k \in Kinds : index'[k] # 0 => index'[k] \in DOMAIN streams
      BY <3>2, OfInDomain
    <3>4. \A k \in Kinds : written[k] = 0
      BY <1>0, <2>1 DEF DemuxInv
    <3>5. \A s \in DOMAIN streams : got[s] = 0
      BY <1>0, <2>1 DEF DemuxInv
    <3>6. DOMAIN index' = Kinds
      BY <2>3
    <3>7. \A k \in Kinds : index'[k] # 0 =>
             written'[k] + (IF pc' = "write" /\ dest' = k THEN 1 ELSE 0) = got'[index'[k]]
      BY <2>1, <2>3, <3>3, <3>4, <3>5
    <3>8. ret = 0
      BY <1>0, <2>1 DEF DemuxInv
    <3>9. \A k \in Kinds : index'[k] = 0 \/ (index'[k] \in Of(k)' /\ made'[k] = Of(k)')
      BY <1>2, <3>2
    <3>10. \A k \in Kinds : ~ (written'[k] > 0)
      BY <2>1, <3>4
    <3>11. (\A s \in DOMAIN streams' : got'[s] = 0) /\ (\A k \in Kinds : written'[k] = 0)
      BY <1>0, <2>1, <3>4, <3>5
    <3>12. /\ \E m \in Nat : DOMAIN streams' = 1..m
           /\ got' \in [DOMAIN streams' -> Nat] /\ written' \in [Kinds -> Nat]
      BY <1>0, <2>1 DEF DemuxInv
    <3> QED  BY <2>1, <2>3, <3>6, <3>7, <3>8, <3>9, <3>10, <3>11, <3>12 DEF DemuxInv
  <2> QED  BY <2>1, <2>2, <2>3
<1>4. CASE DemuxHeader \/ DemuxEnd \/ DemuxTrailers \/ DemuxCleanup
  <2>1. UNCHANGED <<written, got, index, made, dest, ret>> /\ pc \notin {"open", "write"}
    BY <1>4 DEF DemuxHeader, DemuxEnd, DemuxTrailers, DemuxCleanup
  <2>2. pc' \in {"read", "trailers", "cleanup", "done", "exited"}
    BY <1>4 DEF DemuxHeader, DemuxEnd, DemuxTrailers, DemuxCleanup
  <2>3. ret' # 0 => pc' \in {"trailers", "done", "exited"}
    <3>1. ret # 0 => pc \in {"trailers", "done", "exited"}
      BY <1>0 DEF DemuxInv
    <3>2. CASE DemuxTrailers
      BY <2>1, <3>2 DEF DemuxTrailers
    <3>3. CASE DemuxHeader \/ DemuxEnd \/ DemuxCleanup
      BY <2>1, <3>1, <3>3 DEF DemuxHeader, DemuxEnd, DemuxCleanup
    <3> QED  BY <1>4, <3>2, <3>3
  <2>4. pc' \in {"cleanup", "done"} => TrailersRead'
    <3>1. CASE DemuxTrailers
      <4>1. /\ filed' \in [Kinds -> 0..MaxPackets]
            /\ \A k \in Kinds : IF k \in cut' THEN filed'[k] <= written[k] ELSE filed'[k] = written[k]
        BY <3>1 DEF DemuxTrailers
      <4>2. \A k \in Kinds : filed'[k] \in Nat
        BY <4>1, ToolsAssumption
      <4> QED  BY <2>1, <4>1, <4>2 DEF TrailersRead
    <3>2. CASE DemuxCleanup
      BY <1>0, <3>2 DEF DemuxCleanup, DemuxInv, TrailersRead
    <3>3. CASE DemuxHeader \/ DemuxEnd
      BY <3>3 DEF DemuxHeader, DemuxEnd
    <3> QED  BY <1>4, <3>1, <3>2, <3>3
  <2>6. \A k \in Kinds : index'[k] = 0 \/ (index'[k] \in Of(k)' /\ made'[k] = Of(k)')
    BY <1>0, <1>2, <2>1 DEF DemuxInv
  <2>7. ret = 0 => \A k \in Kinds : index[k] # 0 => written[k] + 0 = got[index[k]]
    <3>1. ~ (pc = "write")
      BY <2>1
    <3> QED  BY <1>0, <3>1 DEF DemuxInv
  <2>8. ret' = 0 => \A k \in Kinds : index'[k] # 0 =>
           written'[k] + (IF pc' = "write" /\ dest' = k THEN 1 ELSE 0) = got'[index'[k]]
    <3>1. ~ (pc' = "write")
      BY <2>2
    <3> QED  BY <2>1, <2>7, <3>1
  <2> QED  BY <1>0, <2>1, <2>2, <2>3, <2>4, <2>6, <2>8 DEF DemuxInv
<1>5. CASE DemuxRead
  <2>1. /\ pc = "read" /\ UNCHANGED <<written, index, made, ret>>
    BY <1>5 DEF DemuxRead
  <2>2. PICK s \in DOMAIN streams :
          /\ got' = [got EXCEPT ![s] = @ + 1]
          /\ \/ /\ s \in {index[k] : k \in Kinds}
                /\ dest' = streams[s] /\ pc' = "write"
             \/ /\ s \notin {index[k] : k \in Kinds}
                /\ UNCHANGED <<dest, pc>>
    BY <1>5 DEF DemuxRead
  <2>3. /\ ret = 0 /\ got \in [DOMAIN streams -> Nat]
        /\ \A k \in Kinds : index[k] # 0 => written[k] = got[index[k]]
    BY <1>0, <2>1 DEF DemuxInv
  <2>4. /\ got' \in [DOMAIN streams -> Nat] /\ got'[s] = got[s] + 1
        /\ \A t \in DOMAIN streams : t # s => got'[t] = got[t]
    BY <2>2, <2>3
  <2>5. \A k \in Kinds : index[k] # 0 => index[k] \in DOMAIN streams /\ streams[index[k]] = k
    BY <1>0, OfInDomain DEF DemuxInv
  <2>6. CASE s \notin {index[k] : k \in Kinds} /\ UNCHANGED <<dest, pc>>
    <3>1. \A k \in Kinds : index[k] # s
      BY <2>6
    <3>2. \A k \in Kinds : index[k] # 0 => written[k] = got'[index[k]]
      BY <2>3, <2>4, <2>5, <3>1
    <3> QED  BY <1>0, <1>2, <2>1, <2>3, <2>4, <2>6, <3>2 DEF DemuxInv
  <2>7. CASE s \in {index[k] : k \in Kinds} /\ dest' = streams[s] /\ pc' = "write"
    <3>1. s # 0
      BY <1>1
    <3>2. PICK d \in Kinds : s = index[d] /\ dest' = d
      BY <2>5, <2>7, <3>1
    <3>3. \A k \in Kinds : k # d /\ index[k] # 0 => index[k] # s
      BY <2>5, <2>7, <3>2
    <3>4. \A k \in Kinds : index[k] # 0 => written[k] + (IF dest' = k THEN 1 ELSE 0) = got'[index[k]]
      <4>1. ASSUME NEW k \in Kinds, index[k] # 0
            PROVE  written[k] + (IF dest' = k THEN 1 ELSE 0) = got'[index[k]]
        <5>1. written[k] \in Nat /\ written[k] = got[index[k]]
          BY <1>0, <2>3, <4>1 DEF DemuxInv
        <5>2. CASE k = d
          BY <2>4, <3>2, <5>1, <5>2
        <5>3. CASE k # d
          BY <2>4, <2>5, <3>2, <3>3, <4>1, <5>1, <5>3
        <5> QED  BY <5>2, <5>3
      <4> QED  BY <4>1
    <3> QED  BY <1>0, <1>2, <2>1, <2>3, <2>4, <2>7, <3>1, <3>2, <3>4 DEF DemuxInv
  <2> QED  BY <2>2, <2>6, <2>7
<1>6. CASE DemuxWrite
  <2>1. /\ pc = "write" /\ pc' = "read" /\ ret' = 0 /\ UNCHANGED <<index, made, got, dest>>
        /\ written' = [written EXCEPT ![dest] = @ + 1]
    BY <1>6 DEF DemuxWrite
  <2>2. ret = 0 /\ dest \in Kinds /\ index[dest] # 0 /\ written \in [Kinds -> Nat]
    BY <1>0, <2>1 DEF DemuxInv
  <2>3. /\ written' \in [Kinds -> Nat] /\ written'[dest] = written[dest] + 1
        /\ \A k \in Kinds : k # dest => written'[k] = written[k]
    BY <2>1, <2>2
  <2>4. \A k \in Kinds : index[k] # 0 => written'[k] = got[index[k]]
    BY <1>0, <2>1, <2>2, <2>3 DEF DemuxInv
  <2>5. \A k \in Kinds : written'[k] > 0 => index[k] # 0
    BY <1>0, <2>2, <2>3 DEF DemuxInv
  <2>6. \A k \in Kinds : written'[k] \in Nat
    BY <2>3
  <2> QED  BY <1>0, <1>2, <2>1, <2>3, <2>4, <2>5, <2>6 DEF DemuxInv
<1>7. CASE DemuxWriteFails
  <2>1. /\ pc' = "trailers" /\ ret' = 1 /\ UNCHANGED <<index, made, got, written, dest>>
    BY <1>7 DEF DemuxWriteFails
  <2> QED  BY <1>0, <1>2, <2>1 DEF DemuxInv
<1> QED  BY <1>3, <1>4, <1>5, <1>6, <1>7 DEF Demux

LEMMA NextDemux == DemuxInv /\ [Next]_vars => DemuxInv'
<1> SUFFICES ASSUME DemuxInv, [Next]_vars  PROVE DemuxInv'
  OBVIOUS
<1>1. CASE UNCHANGED vars
  BY <1>1 DEF vars, file, outputs, hand, DemuxInv, TrailersRead, Of, Leading
<1>2. CASE Decode \/ Play
  BY <1>2 DEF Decode, DecodeOpen, DecodeParse, DecodeRefill, DecodeEnd, DecodeFlush, DecodeClose, Play,
       PlayOpen, PlayInitPcm, PlayRead, PlayEnd, PlayResample, PlayWrite, At, DemuxInv
<1>3. CASE Coder
  <2>1. program = "demux" => pc # "send" /\ pc # "receive"
    BY DEF DemuxInv
  <2> QED  BY <1>3, <2>1 DEF Coder, Send, ReceiveFrame, ReceiveNone, ReceiveFails, DemuxInv
<1> QED  BY <1>1, <1>2, <1>3, DemuxKeeps DEF Next

-----------------------------------------------------------------------------
(* The inductive invariant of the buffer holds throughout. *)
THEOREM ToolsInvariant == Spec => []IInv
BY InitIInv, NextIInv, PTL DEF Spec

(* What av_parser_parse2 is shown goes on in the file where it stopped, lies
   within inbuf, and is not shorter than AUDIO_REFILL_THRESH before the end
   of the file. *)
THEOREM ToolsBufferIsWindow == Spec => []BufferIsWindow
<1>1. IInv => BufferIsWindow
  <2> SUFFICES ASSUME IInv, program = "decode", pc = "parse", ~broken
               PROVE  dataSize >= Min({Thresh, size - taken})
    BY DEF IInv, Window, BufferIsWindow
  <2>1. /\ dataSize \in Nat /\ size - taken \in Int /\ Thresh \in Int
        /\ dataSize >= Thresh \/ dataSize = size - taken
    BY ToolsAssumption DEF IInv, BufferTypes, Window, Enough
  <2> QED  BY <2>1, MinOfTwo
<1> QED  BY <1>1, ToolsInvariant, PTL

(* The audio decoder shows the parser the whole file and receives each frame
   of each packet; the player's decoder keeps no more back than its delay;
   and each frame received was passed on or is one of those that a failed
   write, or the last flush, has lost. *)
THEOREM ToolsFramesPassedOn == Spec => []FramesPassedOn
<1>1. FramesInv => FramesPassedOn
  <2> SUFFICES ASSUME FramesInv, pc = "done"
               PROVE  /\ program = "decode" => out = frames /\ (~broken => taken = size)
                      /\ program = "play" => out + Delay >= frames
                      /\ program \in {"decode", "play"} => passed + missed = out
    BY DEF FramesPassedOn
  <2>1. CASE program = "decode"
    BY <2>1 DEF FramesInv, CoderInv, DecodeInv
  <2>2. CASE program = "play"
    BY <2>2, ToolsAssumption DEF FramesInv, CoderInv, PlayInv
  <2> QED  BY <2>1, <2>2
<1> QED  BY <1>1, InitIInv, NextIInv, InitFrames, NextFrames, PTL DEF Spec

(* A demultiplexer that returns zero has in its files the packets of the
   streams it remembers, in the streams that were made from them, but for
   the end of an output whose trailer failed unseen. *)
THEOREM ToolsDemuxedWhole == Spec => []DemuxedWhole
<1>1. DemuxInv => DemuxedWhole
  <2> SUFFICES ASSUME DemuxInv, program = "demux", pc = "done", ret = 0, NEW k \in Kinds
               PROVE  /\ index[k] # 0 => written[k] = got[index[k]]
                      /\ filed[k] = written[k] \/ (k \in cut /\ filed[k] < written[k])
                      /\ written[k] > 0 /\ Cardinality(Of(k)) <= 1
                            => made[k] # {} /\ Min(made[k]) = index[k]
    BY DEF DemuxedWhole
  <2>1. index[k] # 0 => written[k] = got[index[k]]
    <3>1. written[k] \in Nat
      BY DEF DemuxInv
    <3> QED  BY <3>1 DEF DemuxInv
  <2>2. ASSUME written[k] > 0, Cardinality(Of(k)) <= 1
        PROVE  made[k] # {} /\ Min(made[k]) = index[k]
    <3>1. index[k] \in Of(k) /\ made[k] = Of(k)
      BY <2>2 DEF DemuxInv
    <3>2. PICK n \in Nat : DOMAIN streams = 1..n
      BY DEF DemuxInv
    <3>3. Of(k) \in SUBSET (1..n)
      BY <3>2, OfInDomain
    <3>4. IsFiniteSet(Of(k))
      BY <3>2, <3>3, FS_Interval, FS_Subset
    <3>5. Cardinality(Of(k)) \in Nat /\ Cardinality(Of(k)) # 0
      BY <3>1, <3>4, FS_CardinalityType, FS_EmptySet
    <3>6. Cardinality(Of(k)) = 1
      BY <2>2, <3>5
    <3>7. PICK x : Of(k) = {x}
      BY <3>4, <3>6, FS_Singleton
    <3>8. made[k] = {index[k]} /\ index[k] \in Nat
      BY <3>1, <3>3, <3>7
    <3> QED  BY <3>8, SingleMin
  <2>3. filed[k] = written[k] \/ (k \in cut /\ filed[k] < written[k])
    <3>1. written[k] \in Nat /\ TrailersRead
      BY DEF DemuxInv
    <3> QED  BY <3>1 DEF TrailersRead
  <2> QED  BY <2>1, <2>2, <2>3
<1> QED  BY <1>1, InitDemux, NextDemux, PTL DEF Spec

-----------------------------------------------------------------------------
(* v4l2_decode/parser.c: the types of struct mfc_parser_context and of the
   loops around it *)
States == {"NO_CODE", "CODE_0x1", "CODE_0x2", "CODE_0x3", "CODE_1x1", "CODE_SLICE"}

Context ==
    [state : States, last_tag : {"HEAD", "PICTURE"}, bytes : Seq(Int),
     main_count : Nat, headers_count : Nat,
     tmp_code_start : Int, code_start : Int, code_end : Int,
     got_start : BOOLEAN, got_end : BOOLEAN, seek_end : BOOLEAN, short_header : BOOLEAN]

ParserTypes ==
    /\ codec \in {"mpeg4", "h264", "mpeg2"} /\ stream \in Seq(0..255)
    /\ outSize \in Nat /\ player \in BOOLEAN
    /\ ctx \in Context /\ (ctx.state \in {"CODE_0x3", "CODE_SLICE"} => codec = "h264")
    /\ consumed \in Nat /\ offs \in Nat /\ consumed <= Rest
    /\ pieces \in Seq(Seq(Int)) /\ overflowed \in BOOLEAN
    /\ phase \in {"scan", "return", "done"}
    /\ phase = "scan" => consumed < Rest
    /\ phase = "return" => consumed = Rest \/ ctx.got_end

(* Bytes of a start code that have been read in each state, at most *)
Within(state, gap) ==
    /\ state = "CODE_0x1" => gap <= 1
    /\ state = "CODE_0x2" => gap <= 2
    /\ state = "CODE_0x3" => gap <= 3
    /\ state = "CODE_1x1" => gap <= 4
    /\ state = "CODE_SLICE" => gap <= 5

(* The bytes of a start code that are kept; holds also after a piece was too
   large. *)
KeptInv ==
    /\ Within(ctx.state, consumed - ctx.tmp_code_start)
    /\ Len(ctx.bytes) <= 6
    /\ ctx.code_start < 0 => Len(ctx.bytes) = -ctx.code_start
    /\ overflowed => ctx.got_start
    /\ ctx.seek_end /\ (ctx.headers_count > 0 \/ ctx.main_count > 0) => consumed - ctx.tmp_code_start <= 5
    /\ ctx.got_end =>
          /\ ctx.got_start
          /\ \/ phase = "return" /\ consumed - ctx.code_end <= 5
             \/ overflowed /\ TooLarge(ctx)

(* Nothing has been found yet. *)
BeforeFirst ==
    ~ctx.got_start =>
        /\ ctx.headers_count = 0 /\ ctx.main_count = 0 /\ ~ctx.seek_end
        /\ ctx.code_start = 0
        /\ \/ offs = 0 /\ pieces = <<>> /\ ctx.tmp_code_start >= 0
           \/ /\ pieces = << <<>> >> /\ offs = Len(stream) /\ phase # "scan"
              /\ player => phase = "done"

(* Where the stream has been read to, and where the piece begins *)
Read  == offs + consumed
Begin == offs + ctx.code_start
Stop  == offs + ctx.code_end

(* From one piece to the next *)
Piece ==
    ctx.got_start =>
        /\ Begin >= 0 /\ Begin <= Read
        /\ phase = "scan" => Begin < Read /\ ~ctx.got_end
        /\ phase = "return" => \/ Begin < Read /\ offs < Len(stream)
                               \/ Begin = offs /\ offs = Len(stream) /\ ~player
        /\ phase = "done" /\ ~player => Begin = Len(stream)
        /\ player /\ phase # "done" => offs = 0 /\ pieces = <<>>
        /\ ctx.code_start < 0 => ctx.bytes = Positions(Begin, -ctx.code_start)
        /\ ctx.got_end => /\ phase = "return" /\ ctx.state = "NO_CODE" /\ ctx.code_end >= 0
                          /\ Begin < Stop /\ Stop < Read /\ Read < Len(stream)
        /\ ~ctx.got_end => ctx.main_count = 0 /\ (ctx.seek_end <=> ctx.headers_count = 0)
        /\ pieces # <<>> => pieces[Len(pieces)] # <<>> /\ LastByte(Len(pieces)) = Begin

Joined ==
    \A k \in 1..Len(pieces) :
        /\ \E from, length \in 0..Len(stream) : pieces[k] = Positions(from, length)
        /\ k > 1 => pieces[k - 1] # <<>> /\ pieces[k] # <<>> /\ pieces[k][1] = LastByte(k - 1) + 1

(* What the state says of the bytes that were just read *)
CodeRead ==
    phase = "scan" =>
        LET gap == consumed - ctx.tmp_code_start IN
        /\ ctx.state # "NO_CODE" =>
              ctx.tmp_code_start >= 0 /\ (ctx.got_start => ctx.tmp_code_start > ctx.code_start)
        /\ ctx.state = "CODE_0x1" => gap = 1 /\ stream[Read] = 0
        /\ ctx.state = "CODE_0x2" => gap = 2 /\ stream[Read] = 0 /\ stream[Read - 1] = 0
        /\ ctx.state = "CODE_0x3" =>
              gap = 3 /\ stream[Read] = 0 /\ stream[Read - 1] = 0 /\ stream[Read - 2] = 0
        /\ ctx.state = "CODE_1x1" =>
              /\ gap \in {3, 4} /\ (gap = 4 => stream[Read - 3] = 0 /\ codec = "h264")
              /\ Prefix(Read - 2)
        /\ ctx.state = "CODE_SLICE" =>
              /\ gap \in {4, 5} /\ (gap = 5 => stream[Read - 4] = 0)
              /\ Prefix(Read - 3) /\ Slice(Read - 3)

CodeLen == IF codec = "h264" THEN 5 ELSE 4

(* the picture p, begun before `read', has been seen in a piece from `begin' on *)
Seen(p, begin) == IsPicture(p) /\ begin < p /\ (p + CodeLen - 1 <= Read \/ p <= begin + 2)

(* While the bytes of a picture's start code come, the state follows them.
   The code that begins the piece is left out: the call before has read it. *)
Ready ==
    phase = "scan" =>
        \A p \in 1..Len(stream) :
            IsPicture(p) /\ p <= Read /\ Read < p + CodeLen - 1 /\ (ctx.got_start => p > Begin + 2) =>
                /\ Read = p => ctx.state \in {"CODE_0x1", "CODE_0x2", "CODE_0x3"}
                /\ Read = p + 1 => ctx.state \in {"CODE_0x2", "CODE_0x3"}
                /\ Read = p + 2 => ctx.state = "CODE_1x1"
                /\ Read = p + 3 => ctx.state = "CODE_SLICE"

(* The pictures of the piece: none before the first code, one at most, and
   `seek_end` when there is one; of a piece that ended, those of the next *)
PictureSeen ==
    /\ ~ctx.got_start => \A p \in 1..Len(stream) : IsPicture(p) => p + CodeLen - 1 > Read
    /\ ctx.got_start /\ ~ctx.got_end =>
          /\ \A p \in 1..Len(stream) : Seen(p, Begin) => ctx.seek_end
          /\ \A p, q \in 1..Len(stream) : Seen(p, Begin) /\ Seen(q, Begin) => p = q
    /\ ctx.got_end =>
          /\ \A p, q \in 1..Len(stream) :
                IsPicture(p) /\ Begin < p /\ p <= Stop /\ IsPicture(q) /\ Begin < q /\ q <= Stop => p = q
          /\ \A p \in 1..Len(stream) : Seen(p, Stop) => ctx.last_tag = "PICTURE"
          /\ \A p, q \in 1..Len(stream) : Seen(p, Stop) /\ Seen(q, Stop) => p = q
          /\ \A p \in 1..Len(stream) : IsPicture(p) /\ Stop + 2 < p => Read < p

(* OnePicture for one piece, and the streams it is about *)
SingleIn(piece) ==
    \A p, q \in 1..Len(stream) :
        /\ IsPicture(p) /\ \E i \in 1..Len(piece) : piece[i] = p
        /\ IsPicture(q) /\ \E i \in 1..Len(piece) : piece[i] = q
        => p = q

Plain == ~Overlap /\ ~(codec = "mpeg4" /\ ShortHeaders)

(* The invariant is about the run so far: after a piece that was too large the
   context is not brought up to date. *)
PiecesInv == ~overflowed => BeforeFirst /\ Piece /\ Joined /\ CodeRead
PicturesInv ==
    ~overflowed /\ Plain =>
        Ready /\ PictureSeen /\ \A k \in 1..Len(pieces) : SingleIn(pieces[k])

ParserInv == ParserTypes /\ KeptInv /\ PiecesInv /\ PicturesInv

-----------------------------------------------------------------------------
(* Sequences, and the positions from one place of the stream on *)
LEMMA Element == ASSUME NEW S, NEW s \in Seq(S), NEW i \in 1..Len(s)  PROVE s[i] \in S
OBVIOUS

LEMMA PositionsAre ==
    ASSUME NEW from \in Int, NEW length \in Int
    PROVE  /\ Positions(from, length) \in Seq(Int)
           /\ Len(Positions(from, length)) = IF length > 0 THEN length ELSE 0
           /\ \A i \in 1..length : Positions(from, length)[i] = from + i
<1>1. CASE length > 0
  BY <1>1 DEF Positions
<1>2. CASE length <= 0
  <2>1. 1..length = 1..0
    BY <1>2
  <2>2. Positions(from, length) = [i \in 1..0 |-> from + i]
    BY <2>1 DEF Positions
  <2> QED  BY <1>2, <2>1, <2>2
<1> QED  BY <1>1, <1>2

LEMMA SameLength ==
    ASSUME NEW from \in Int, NEW other \in Int, NEW length \in Int
    PROVE  Len(Positions(from, length)) = Len(Positions(other, length))
BY PositionsAre

LEMMA ConcatFacts ==
    ASSUME NEW s \in Seq(Int), NEW t \in Seq(Int)
    PROVE  /\ s \o t \in Seq(Int) /\ Len(s \o t) = Len(s) + Len(t)
           /\ \A k \in 1..Len(s) : (s \o t)[k] = s[k]
           /\ \A k \in Len(s) + 1..Len(s) + Len(t) : (s \o t)[k] = t[k - Len(s)]
OBVIOUS

LEMMA SameSequence ==
    ASSUME NEW s \in Seq(Int), NEW t \in Seq(Int), Len(s) = Len(t), \A i \in 1..Len(s) : s[i] = t[i]
    PROVE  s = t
OBVIOUS

LEMMA PositionsJoin ==
    ASSUME NEW from \in Int, NEW a \in Nat, NEW b \in Nat
    PROVE  Positions(from, a) \o Positions(from + a, b) = Positions(from, a + b)
<1> DEFINE s == Positions(from, a)
           t == Positions(from + a, b)
           u == Positions(from, a + b)
<1>0. from + a \in Int /\ a + b \in Int /\ a \in Int /\ b \in Int
  OBVIOUS
<1>1. s \in Seq(Int) /\ Len(s) = (IF a > 0 THEN a ELSE 0) /\ \A i \in 1..a : s[i] = from + i
  BY <1>0, PositionsAre
<1>2. /\ t \in Seq(Int) /\ Len(t) = (IF b > 0 THEN b ELSE 0)
      /\ \A i \in 1..b : t[i] = (from + a) + i
  BY <1>0, PositionsAre
<1>3. /\ u \in Seq(Int) /\ Len(u) = (IF a + b > 0 THEN a + b ELSE 0)
      /\ \A i \in 1..a + b : u[i] = from + i
  BY <1>0, PositionsAre
<1> HIDE DEF s, t, u
<1>4. Len(s) = a /\ Len(t) = b /\ Len(u) = a + b
  <2>1. Len(s) = a
    BY <1>1
  <2>2. Len(t) = b
    BY <1>2
  <2>3. Len(u) = a + b
    BY <1>0, <1>3
  <2> QED  BY <2>1, <2>2, <2>3
<1>5. /\ s \o t \in Seq(Int) /\ Len(s \o t) = a + b
      /\ \A k \in 1..a : (s \o t)[k] = s[k]
      /\ \A k \in a + 1..a + b : (s \o t)[k] = t[k - a]
  <2>1. s \in Seq(Int) /\ t \in Seq(Int)
    BY <1>1, <1>2
  <2> QED  BY <1>4, <2>1, ConcatFacts
<1>6. ASSUME NEW i \in 1..a + b  PROVE (s \o t)[i] = u[i]
  <2>1. CASE i <= a
    BY <1>1, <1>3, <1>5, <2>1
  <2>2. CASE i > a
    <3>1. i \in a + 1..a + b /\ i - a \in 1..b /\ (from + a) + (i - a) = from + i
      BY <2>2
    <3>2. (s \o t)[i] = t[i - a]
      BY <1>5, <3>1
    <3>3. t[i - a] = (from + a) + (i - a)
      BY <1>2, <3>1
    <3>4. u[i] = from + i
      BY <1>3
    <3> QED  BY <3>1, <3>2, <3>3, <3>4
  <2>3. i <= a \/ i > a
    OBVIOUS
  <2> QED  BY <2>1, <2>2, <2>3
<1>7. s \o t = u
  BY <1>3, <1>4, <1>5, <1>6, SameSequence
<1> QED  BY <1>7 DEF s, t, u

LEMMA PositionsCut ==
    ASSUME NEW from \in Int, NEW a \in Nat
    PROVE  SubSeq(Positions(from, a), 1, a) = Positions(from, a)
BY PositionsAre

-----------------------------------------------------------------------------
(* What the switch does at a byte: nothing is found, a header, a picture *)
PictureByte(b) ==
    \/ codec = "mpeg4" /\ b = 182
    \/ codec = "mpeg2" /\ b = 0
    \/ codec = "h264" /\ b % 32 \in {1, 5}

Unmoved(c) ==
    /\ c.bytes = ctx.bytes /\ c.code_start = ctx.code_start /\ c.code_end = ctx.code_end
    /\ c.got_start = ctx.got_start /\ c.got_end = ctx.got_end /\ c.seek_end = ctx.seek_end

Quiet(c, b) ==
    /\ c.main_count = ctx.main_count /\ c.headers_count = ctx.headers_count
    /\ c.last_tag = ctx.last_tag
    /\ \/ /\ c.state = "NO_CODE" /\ c.tmp_code_start = ctx.tmp_code_start
          /\ b # 0 \/ (ctx.state \in {"CODE_1x1", "CODE_SLICE"} /\ codec = "h264")
          /\ ctx.state = "CODE_1x1" => ~PictureByte(b)
          /\ ctx.state = "CODE_SLICE" => b < 128
          /\ ctx.state \in {"CODE_0x2", "CODE_0x3"} => b # 1
       \/ /\ ctx.state = "NO_CODE" /\ c.state = "CODE_0x1"
          /\ b = 0 /\ c.tmp_code_start = consumed
       \/ /\ ctx.state = "CODE_0x1" /\ c.state = "CODE_0x2"
          /\ b = 0 /\ c.tmp_code_start = ctx.tmp_code_start
       \/ /\ ctx.state = "CODE_0x2" /\ c.state = "CODE_0x2" /\ codec # "h264"
          /\ b = 0 /\ c.tmp_code_start = ctx.tmp_code_start + 1
       \/ /\ ctx.state = "CODE_0x2" /\ c.state = "CODE_0x3" /\ codec = "h264"
          /\ b = 0 /\ c.tmp_code_start = ctx.tmp_code_start
       \/ /\ ctx.state = "CODE_0x3" /\ c.state = "CODE_0x3"
          /\ b = 0 /\ c.tmp_code_start = ctx.tmp_code_start + 1
       \/ /\ ctx.state \in {"CODE_0x2", "CODE_0x3"} /\ c.state = "CODE_1x1"
          /\ b = 1 /\ c.tmp_code_start = ctx.tmp_code_start
       \/ /\ ctx.state = "CODE_1x1" /\ c.state = "CODE_SLICE" /\ codec = "h264"
          /\ PictureByte(b) /\ c.tmp_code_start = ctx.tmp_code_start

HeaderFound(c, b) ==
    /\ ctx.state = "CODE_1x1" /\ c.state = "NO_CODE" /\ c.tmp_code_start = ctx.tmp_code_start
    /\ c.last_tag = "HEAD" /\ c.headers_count = ctx.headers_count + 1 /\ c.main_count = ctx.main_count
    /\ ~PictureByte(b) /\ (codec = "h264" => b # 0)

PictureFound(c, b) ==
    /\ c.state = "NO_CODE" /\ c.tmp_code_start = ctx.tmp_code_start
    /\ c.last_tag = "PICTURE" /\ c.main_count = ctx.main_count + 1 /\ c.headers_count = ctx.headers_count
    /\ \/ ctx.state = "CODE_1x1" /\ codec # "h264" /\ PictureByte(b)
       \/ ctx.state = "CODE_SLICE" /\ b >= 128
       \/ ctx.state = "CODE_0x2" /\ codec = "mpeg4" /\ b \in 128..131

LEMMA Effects ==
    ASSUME ctx \in Context, consumed \in Nat
    PROVE  /\ \A s \in States :
                 LET c == To(ctx, s) IN
                 /\ c \in Context /\ Unmoved(c) /\ c.state = s /\ c.tmp_code_start = ctx.tmp_code_start
                 /\ c.main_count = ctx.main_count /\ c.headers_count = ctx.headers_count
                 /\ c.last_tag = ctx.last_tag
           /\ LET c == FirstZero(ctx) IN
                 /\ c \in Context /\ Unmoved(c) /\ c.state = "CODE_0x1" /\ c.tmp_code_start = consumed
                 /\ c.main_count = ctx.main_count /\ c.headers_count = ctx.headers_count
                 /\ c.last_tag = ctx.last_tag
           /\ LET c == ZeroRun(ctx) IN
                 /\ c \in Context /\ Unmoved(c) /\ c.state = ctx.state
                 /\ c.tmp_code_start = ctx.tmp_code_start + 1
                 /\ c.main_count = ctx.main_count /\ c.headers_count = ctx.headers_count
                 /\ c.last_tag = ctx.last_tag
           /\ LET c == Header(ctx) IN
                 /\ c \in Context /\ Unmoved(c) /\ c.state = "NO_CODE"
                 /\ c.tmp_code_start = ctx.tmp_code_start
                 /\ c.main_count = ctx.main_count /\ c.headers_count = ctx.headers_count + 1
                 /\ c.last_tag = "HEAD"
           /\ \A c \in {Picture(ctx), [Picture(ctx) EXCEPT !.short_header = TRUE]} :
                 /\ c \in Context /\ Unmoved(c) /\ c.state = "NO_CODE"
                 /\ c.tmp_code_start = ctx.tmp_code_start
                 /\ c.main_count = ctx.main_count + 1 /\ c.headers_count = ctx.headers_count
                 /\ c.last_tag = "PICTURE"
<1>1. ctx \in Context /\ consumed \in Nat /\ consumed \in Int /\ {"NO_CODE", "CODE_0x1"} \subseteq States
  BY DEF States
<1>2. \A s \in States :
         LET c == To(ctx, s) IN
         /\ c \in Context /\ Unmoved(c) /\ c.state = s /\ c.tmp_code_start = ctx.tmp_code_start
         /\ c.main_count = ctx.main_count /\ c.headers_count = ctx.headers_count
         /\ c.last_tag = ctx.last_tag
  BY <1>1 DEF To, Context, Unmoved
<1>3. LET c == FirstZero(ctx) IN
         /\ c \in Context /\ Unmoved(c) /\ c.state = "CODE_0x1" /\ c.tmp_code_start = consumed
         /\ c.main_count = ctx.main_count /\ c.headers_count = ctx.headers_count
         /\ c.last_tag = ctx.last_tag
  BY <1>1 DEF FirstZero, Context, Unmoved
<1>4. LET c == ZeroRun(ctx) IN
         /\ c \in Context /\ Unmoved(c) /\ c.state = ctx.state
         /\ c.tmp_code_start = ctx.tmp_code_start + 1
         /\ c.main_count = ctx.main_count /\ c.headers_count = ctx.headers_count
         /\ c.last_tag = ctx.last_tag
  BY <1>1 DEF ZeroRun, Context, Unmoved
<1>5. LET c == Header(ctx) IN
         /\ c \in Context /\ Unmoved(c) /\ c.state = "NO_CODE"
         /\ c.tmp_code_start = ctx.tmp_code_start
         /\ c.main_count = ctx.main_count /\ c.headers_count = ctx.headers_count + 1
         /\ c.last_tag = "HEAD"
  <2>1. ctx.main_count + 1 \in Nat /\ ctx.headers_count + 1 \in Nat
    BY <1>1 DEF Context
  <2>2. Header(ctx) \in Context
    BY <1>1, <2>1 DEF Header, Context
  <2> QED  BY <1>1, <2>2 DEF Header, Context, Unmoved
<1>6. LET c == Picture(ctx) IN
         /\ c \in Context /\ Unmoved(c) /\ c.state = "NO_CODE"
         /\ c.tmp_code_start = ctx.tmp_code_start
         /\ c.main_count = ctx.main_count + 1 /\ c.headers_count = ctx.headers_count
         /\ c.last_tag = "PICTURE"
  <2>1. ctx.main_count + 1 \in Nat /\ ctx.headers_count + 1 \in Nat
    BY <1>1 DEF Context
  <2>2. Picture(ctx) \in Context
    BY <1>1, <2>1 DEF Picture, Context
  <2> QED  BY <1>1, <2>2 DEF Picture, Context, Unmoved
<1>7. LET c == [Picture(ctx) EXCEPT !.short_header = TRUE] IN
         /\ c \in Context /\ Unmoved(c) /\ c.state = "NO_CODE"
         /\ c.tmp_code_start = ctx.tmp_code_start
         /\ c.main_count = ctx.main_count + 1 /\ c.headers_count = ctx.headers_count
         /\ c.last_tag = "PICTURE"
  BY <1>1, <1>6 DEF Context, Unmoved
<1> QED  BY <1>2, <1>3, <1>4, <1>5, <1>6, <1>7

(* Whether what an operator does to the context is quiet, by the state. *)
LEMMA ToQuiet ==
    ASSUME ParserTypes, NEW b \in 0..255, NEW s \in States,
           \/ /\ s = "NO_CODE"
              /\ b # 0 \/ (ctx.state \in {"CODE_1x1", "CODE_SLICE"} /\ codec = "h264")
              /\ ctx.state = "CODE_1x1" => ~PictureByte(b)
              /\ ctx.state = "CODE_SLICE" => b < 128
              /\ ctx.state \in {"CODE_0x2", "CODE_0x3"} => b # 1
           \/ s = "CODE_0x2" /\ ctx.state = "CODE_0x1" /\ b = 0
           \/ s = "CODE_0x3" /\ ctx.state = "CODE_0x2" /\ codec = "h264" /\ b = 0
           \/ s = "CODE_1x1" /\ ctx.state \in {"CODE_0x2", "CODE_0x3"} /\ b = 1
           \/ s = "CODE_SLICE" /\ ctx.state = "CODE_1x1" /\ codec = "h264" /\ PictureByte(b)
    PROVE  LET c == To(ctx, s) IN
           c \in Context /\ (c.state \in {"CODE_0x3", "CODE_SLICE"} => codec = "h264") /\ Unmoved(c) /\ Quiet(c, b)
<1>1. ctx \in Context /\ consumed \in Nat /\ (ctx.state \in {"CODE_0x3", "CODE_SLICE"} => codec = "h264")
  BY DEF ParserTypes
<1> DEFINE c == To(ctx, s)
<1>2. /\ c \in Context /\ Unmoved(c) /\ c.state = s /\ c.tmp_code_start = ctx.tmp_code_start
      /\ c.main_count = ctx.main_count /\ c.headers_count = ctx.headers_count /\ c.last_tag = ctx.last_tag
  BY <1>1, Effects
<1> HIDE DEF c
<1>3. Quiet(c, b)
  BY <1>1, <1>2 DEF Quiet
<1>4. c.state \in {"CODE_0x3", "CODE_SLICE"} => codec = "h264"
  BY <1>1, <1>2
<1> QED  BY <1>2, <1>3, <1>4 DEF c

LEMMA CodeSteps ==
    ASSUME ParserTypes, NEW b \in 0..255, NEW c, c = Code(ctx, b)
    PROVE  /\ c \in Context /\ (c.state \in {"CODE_0x3", "CODE_SLICE"} => codec = "h264")
           /\ Unmoved(c)
           /\ Quiet(c, b) \/ HeaderFound(c, b) \/ PictureFound(c, b)
<1>0. /\ ctx \in Context /\ b \in Nat /\ consumed \in Nat /\ ctx.state \in States
      /\ ctx.state \in {"CODE_0x3", "CODE_SLICE"} => codec = "h264"
  <2>1. ctx \in Context /\ consumed \in Nat /\ (ctx.state \in {"CODE_0x3", "CODE_SLICE"} => codec = "h264")
    BY DEF ParserTypes
  <2>2. ctx.state \in States
    BY <2>1 DEF Context
  <2> QED  BY <2>1, <2>2
<1> DEFINE ByTo == \E s \in States : c = To(ctx, s) /\ 
           \/ /\ s = "NO_CODE"
              /\ b # 0 \/ (ctx.state \in {"CODE_1x1", "CODE_SLICE"} /\ codec = "h264")
              /\ ctx.state = "CODE_1x1" => ~PictureByte(b)
              /\ ctx.state = "CODE_SLICE" => b < 128
              /\ ctx.state \in {"CODE_0x2", "CODE_0x3"} => b # 1
           \/ s = "CODE_0x2" /\ ctx.state = "CODE_0x1" /\ b = 0
           \/ s = "CODE_0x3" /\ ctx.state = "CODE_0x2" /\ codec = "h264" /\ b = 0
           \/ s = "CODE_1x1" /\ ctx.state \in {"CODE_0x2", "CODE_0x3"} /\ b = 1
           \/ s = "CODE_SLICE" /\ ctx.state = "CODE_1x1" /\ codec = "h264" /\ PictureByte(b)
       ByFirstZero == c = FirstZero(ctx) /\ ctx.state = "NO_CODE" /\ b = 0
       ByZeroRun == c = ZeroRun(ctx) /\ b = 0 /\ (\/ ctx.state = "CODE_0x2" /\ codec # "h264"
                                                  \/ ctx.state = "CODE_0x3")
       ByHeader == c = Header(ctx) /\ ctx.state = "CODE_1x1" /\ ~PictureByte(b) /\ (codec = "h264" => b # 0)
       ByPicture == /\ c \in {Picture(ctx), [Picture(ctx) EXCEPT !.short_header = TRUE]}
                    /\ \/ ctx.state = "CODE_1x1" /\ codec # "h264" /\ PictureByte(b)
                       \/ ctx.state = "CODE_SLICE" /\ b >= 128
                       \/ ctx.state = "CODE_0x2" /\ codec = "mpeg4" /\ b \in 128..131
<1>1. ByTo \/ ByFirstZero \/ ByZeroRun \/ ByHeader \/ ByPicture
  <2>z. ASSUME c = Zeros(ctx, b), ctx.state \in {"NO_CODE", "CODE_0x1"}
        PROVE  ByTo \/ ByFirstZero
    BY <2>z DEF Zeros, States
  <2>1. CASE codec = "mpeg4"
    <3>1. c = Mpeg4(ctx, b)
      BY <2>1 DEF Code
    <3>2. CASE ctx.state \in {"NO_CODE", "CODE_0x1"}
      <4>1. c = Zeros(ctx, b)
        BY <3>1, <3>2 DEF Mpeg4
      <4> QED  BY <4>1, <3>2, <2>z
    <3>3. CASE ctx.state = "CODE_0x2"
      <4>1. CASE b = 1
        BY <1>0, <3>1, <3>3, <4>1 DEF Mpeg4, States
      <4>2. CASE b \in 128..131
        BY <1>0, <2>1, <3>1, <3>3, <4>2 DEF Mpeg4, States
      <4>3. CASE b = 0
        BY <1>0, <2>1, <3>1, <3>3, <4>3 DEF Mpeg4, States
      <4>4. CASE b # 1 /\ b \notin 128..131 /\ b # 0
        <5>1. c = To(ctx, "NO_CODE")
          BY <1>0, <3>1, <3>3, <4>4 DEF Mpeg4
        <5> QED  BY <5>1, <3>3, <4>4 DEF States
      <4> QED  BY <4>1, <4>2, <4>3, <4>4
    <3>4. CASE ctx.state = "CODE_1x1"
      <4>1. CASE Mpeg4Head(b)
        <5>1. b # 182
          BY <4>1, <1>0 DEF Mpeg4Head
        <5>2. c = Header(ctx)
          BY <3>1, <3>4, <4>1, <5>1 DEF Mpeg4
        <5> QED  BY <2>1, <3>4, <5>1, <5>2 DEF PictureByte
      <4>2. CASE ~Mpeg4Head(b) /\ b = 182
        <5>1. c = Picture(ctx)
          BY <3>1, <3>4, <4>2 DEF Mpeg4
        <5> QED  BY <2>1, <3>4, <4>2, <5>1 DEF PictureByte
      <4>3. CASE ~Mpeg4Head(b) /\ b # 182
        <5>1. c = To(ctx, "NO_CODE")
          BY <3>1, <3>4, <4>3 DEF Mpeg4
        <5>2. b # 0
          BY <4>3 DEF Mpeg4Head
        <5> QED  BY <2>1, <3>4, <4>3, <5>1, <5>2 DEF PictureByte, States
      <4> QED  BY <4>1, <4>2, <4>3
    <3> QED  BY <1>0, <2>1, <3>2, <3>3, <3>4 DEF States
  <2>2. CASE codec = "h264"
    <3>1. c = H264(ctx, b)
      BY <2>2 DEF Code
    <3>2. CASE ctx.state \in {"NO_CODE", "CODE_0x1"}
      <4>1. c = Zeros(ctx, b)
        BY <3>1, <3>2 DEF H264
      <4> QED  BY <4>1, <3>2, <2>z
    <3>3. CASE ctx.state = "CODE_0x2"
      BY <1>0, <2>2, <3>1, <3>3 DEF H264, States
    <3>4. CASE ctx.state = "CODE_0x3"
      BY <1>0, <2>2, <3>1, <3>4 DEF H264, States
    <3>5. CASE ctx.state = "CODE_1x1"
      <4>1. CASE b % 32 \in {1, 5}
        <5>1. c = To(ctx, "CODE_SLICE")
          BY <3>1, <3>5, <4>1 DEF H264
        <5> QED  BY <2>2, <3>5, <4>1, <5>1 DEF PictureByte, States
      <4>2. CASE b % 32 \in {6, 7, 8}
        <5>1. b % 32 \notin {1, 5} /\ b # 0
          BY <4>2
        <5>2. c = Header(ctx)
          BY <3>1, <3>5, <4>2, <5>1 DEF H264
        <5> QED  BY <2>2, <3>5, <5>1, <5>2 DEF PictureByte
      <4>3. CASE b % 32 \notin {1, 5} /\ b % 32 \notin {6, 7, 8}
        <5>1. c = To(ctx, "NO_CODE")
          BY <3>1, <3>5, <4>3 DEF H264
        <5> QED  BY <2>2, <3>5, <4>3, <5>1 DEF PictureByte, States
      <4> QED  BY <4>1, <4>2, <4>3
    <3>6. CASE ctx.state = "CODE_SLICE"
      BY <1>0, <2>2, <3>1, <3>6 DEF H264, States
    <3> QED  BY <1>0, <3>2, <3>3, <3>4, <3>5, <3>6 DEF States
  <2>3. CASE codec = "mpeg2"
    <3>1. c = Mpeg2(ctx, b)
      BY <2>3 DEF Code
    <3>2. CASE ctx.state \in {"NO_CODE", "CODE_0x1"}
      <4>1. c = Zeros(ctx, b)
        BY <3>1, <3>2 DEF Mpeg2
      <4> QED  BY <4>1, <3>2, <2>z
    <3>3. CASE ctx.state = "CODE_0x2"
      BY <1>0, <2>3, <3>1, <3>3 DEF Mpeg2, States
    <3>4. CASE ctx.state = "CODE_1x1"
      BY <1>0, <2>3, <3>1, <3>4 DEF Mpeg2, PictureByte, States
    <3> QED  BY <1>0, <2>3, <3>2, <3>3, <3>4 DEF States
  <2> QED  BY <2>1, <2>2, <2>3 DEF ParserTypes
<1>2. CASE ByTo
  BY <1>2, ToQuiet
<1>3. CASE ByFirstZero
  BY <1>0, <1>3, Effects DEF Quiet
<1>4. CASE ByZeroRun
  BY <1>0, <1>4, Effects DEF Quiet
<1>5. CASE ByHeader
  BY <1>0, <1>5, Effects DEF HeaderFound
<1>6. CASE ByPicture
  BY <1>0, <1>6, Effects DEF PictureFound
<1> QED  BY <1>1, <1>2, <1>3, <1>4, <1>5, <1>6

(* What the counts make of it *)
LEMMA CountsAre ==
    ASSUME NEW c \in Context, NEW d, d = Seek(Start(c))
    PROVE  /\ d \in Context
           /\ d.state = c.state /\ d.last_tag = c.last_tag /\ d.bytes = c.bytes
           /\ d.tmp_code_start = c.tmp_code_start /\ d.code_end = c.code_end /\ d.got_end = c.got_end
           /\ d.got_start = (c.got_start \/ c.headers_count + c.main_count = 1)
           /\ d.code_start = IF ~c.got_start /\ c.headers_count + c.main_count = 1
                             THEN c.tmp_code_start ELSE c.code_start
           /\ d.seek_end = (c.seek_end \/ c.main_count = 1)
           /\ d.headers_count = IF c.main_count = 1 /\ ~c.seek_end THEN 0 ELSE c.headers_count
           /\ d.main_count = IF c.main_count = 1 /\ ~c.seek_end THEN 0 ELSE c.main_count
<1> DEFINE e == Start(c)
<1>1. /\ e \in Context
      /\ e.state = c.state /\ e.last_tag = c.last_tag /\ e.bytes = c.bytes
      /\ e.tmp_code_start = c.tmp_code_start /\ e.code_end = c.code_end /\ e.got_end = c.got_end
      /\ e.got_start = (c.got_start \/ c.headers_count + c.main_count = 1)
      /\ e.code_start = IF ~c.got_start /\ c.headers_count + c.main_count = 1
                        THEN c.tmp_code_start ELSE c.code_start
      /\ e.seek_end = c.seek_end /\ e.headers_count = c.headers_count /\ e.main_count = c.main_count
  <2>1. CASE ~c.got_start /\ c.headers_count + c.main_count = 1
    BY <2>1 DEF Start, Context
  <2>2. CASE ~(~c.got_start /\ c.headers_count + c.main_count = 1)
    BY <2>2 DEF Start, Context
  <2> QED  BY <2>1, <2>2
<1>2. d = Seek(e)
  OBVIOUS
<1> HIDE DEF e
<1>3. CASE e.main_count = 1 /\ ~e.seek_end
  <2>1. d = [e EXCEPT !.seek_end = TRUE, !.headers_count = 0, !.main_count = 0]
    BY <1>2, <1>3 DEF Seek, HasPicture
  <2>0. e \in Context
    BY <1>1
  <2>3. d \in Context
    <3>1. d = [state |-> e.state, last_tag |-> e.last_tag, bytes |-> e.bytes,
               main_count |-> 0, headers_count |-> 0,
               tmp_code_start |-> e.tmp_code_start, code_start |-> e.code_start, code_end |-> e.code_end,
               got_start |-> e.got_start, got_end |-> e.got_end, seek_end |-> TRUE,
               short_header |-> e.short_header]
      BY <2>0, <2>1 DEF Context
    <3> QED  BY <2>0, <3>1 DEF Context
  <2>2. /\ d.seek_end = TRUE /\ d.headers_count = 0 /\ d.main_count = 0
        /\ d.state = e.state /\ d.last_tag = e.last_tag /\ d.bytes = e.bytes
        /\ d.tmp_code_start = e.tmp_code_start /\ d.code_end = e.code_end /\ d.got_end = e.got_end
        /\ d.got_start = e.got_start /\ d.code_start = e.code_start
    BY <2>0, <2>1 DEF Context
  <2> QED  BY <1>1, <1>3, <2>2, <2>3
<1>4. CASE ~(e.main_count = 1 /\ ~e.seek_end)
  BY <1>1, <1>2, <1>4 DEF Seek, HasPicture, Context
<1> QED  BY <1>3, <1>4

LEMMA EndIs ==
    ASSUME NEW d \in Context
    PROVE  /\ End(d) \in Context
           /\ End(d).state = d.state /\ End(d).last_tag = d.last_tag /\ End(d).bytes = d.bytes
           /\ End(d).tmp_code_start = d.tmp_code_start /\ End(d).code_end = d.tmp_code_start
           /\ End(d).got_end /\ End(d).got_start = d.got_start /\ End(d).code_start = d.code_start
BY DEF End, Context

Advance ==
    /\ consumed' = consumed + 1
    /\ phase' = IF consumed + 1 < Rest THEN "scan" ELSE "return"

Ending == consumed' = consumed /\ phase' = "return" /\ ctx'.got_end /\ ctx'.code_end = ctx'.tmp_code_start

Byte == stream[Read + 1]

(* A round of the loop, for c as the switch leaves it *)
Round(c) ==
    /\ c.state \in {"CODE_0x3", "CODE_SLICE"} => codec = "h264"
    /\ Unmoved(c)
    /\ Quiet(c, Byte) \/ HeaderFound(c, Byte) \/ PictureFound(c, Byte)
    /\ ctx' \in Context
    /\ ctx'.state = c.state /\ ctx'.last_tag = c.last_tag /\ ctx'.bytes = c.bytes
    /\ ctx'.tmp_code_start = c.tmp_code_start
    /\ ctx'.got_start = (c.got_start \/ c.headers_count + c.main_count = 1)
    /\ ctx'.code_start = IF ~c.got_start /\ c.headers_count + c.main_count = 1
                         THEN c.tmp_code_start ELSE c.code_start
    /\ LET further == c.main_count = 1 /\ ~c.seek_end
           headers == IF further THEN 0 ELSE c.headers_count
           main    == IF further THEN 0 ELSE c.main_count
       IN IF (c.seek_end \/ c.main_count = 1) /\ (headers > 0 \/ main > 0)
          THEN Ending
          ELSE /\ Advance
               /\ ctx'.got_end = c.got_end /\ ctx'.code_end = c.code_end
               /\ ctx'.seek_end = (c.seek_end \/ c.main_count = 1)
               /\ ctx'.headers_count = headers /\ ctx'.main_count = main

LEMMA ScanRound ==
    ASSUME ParserTypes, Scan
    PROVE  /\ phase = "scan" /\ Byte \in 0..255 /\ Read < Len(stream)
           /\ UNCHANGED <<codec, stream, outSize, player, offs, pieces, overflowed>>
           /\ \E c \in Context : Round(c)
<1>1. /\ phase = "scan" /\ UNCHANGED <<codec, stream, outSize, player, offs, pieces, overflowed>>
      /\ stream \in Seq(0..255) /\ consumed \in Nat /\ offs \in Nat /\ consumed < Rest
  BY DEF ParserTypes, Scan, input
<1>2. Read + 1 \in 1..Len(stream) /\ Read < Len(stream)
  BY <1>1 DEF Read, Rest
<1>3. Byte \in 0..255
  BY <1>1, <1>2, Element DEF Byte
<1> DEFINE c == Code(ctx, Byte)
           d == Seek(Start(c))
<1>4. /\ c \in Context /\ (c.state \in {"CODE_0x3", "CODE_SLICE"} => codec = "h264")
      /\ Unmoved(c)
      /\ Quiet(c, Byte) \/ HeaderFound(c, Byte) \/ PictureFound(c, Byte)
  BY <1>3, CodeSteps
<1>5. offs + consumed + 1 = Read + 1
  BY DEF Read
<1>6. IF Ends(d)
      THEN /\ ctx' = End(d) /\ phase' = "return" /\ consumed' = consumed
      ELSE /\ ctx' = d /\ consumed' = consumed + 1
           /\ phase' = IF consumed + 1 < Rest THEN "scan" ELSE "return"
  BY <1>5 DEF Scan, Byte
<1> HIDE DEF c
<1>7. /\ d \in Context
      /\ d.state = c.state /\ d.last_tag = c.last_tag /\ d.bytes = c.bytes
      /\ d.tmp_code_start = c.tmp_code_start /\ d.code_end = c.code_end /\ d.got_end = c.got_end
      /\ d.got_start = (c.got_start \/ c.headers_count + c.main_count = 1)
      /\ d.code_start = IF ~c.got_start /\ c.headers_count + c.main_count = 1
                        THEN c.tmp_code_start ELSE c.code_start
      /\ d.seek_end = (c.seek_end \/ c.main_count = 1)
      /\ d.headers_count = IF c.main_count = 1 /\ ~c.seek_end THEN 0 ELSE c.headers_count
      /\ d.main_count = IF c.main_count = 1 /\ ~c.seek_end THEN 0 ELSE c.main_count
  BY <1>4, CountsAre
<1> HIDE DEF d
<1>8. Round(c)
  <2>1. CASE Ends(d)
    <3>1. ctx' = End(d) /\ Ending
      BY <1>6, <1>7, <2>1, EndIs DEF Ending
    <3> QED  BY <1>4, <1>7, <2>1, <3>1, EndIs DEF Round, Ends
  <2>2. CASE ~Ends(d)
    <3>1. ctx' = d /\ Advance
      BY <1>6, <2>2 DEF Advance
    <3> QED  BY <1>4, <1>7, <2>2, <3>1 DEF Round, Ends
  <2> QED  BY <2>1, <2>2
<1> QED  BY <1>1, <1>2, <1>3, <1>4, <1>8

(* How far the code's beginning is behind, after the byte *)
LEMMA RoundGap ==
    ASSUME ParserTypes, KeptInv, NEW c \in Context, Round(c)
    PROVE  /\ Within(c.state, consumed + 1 - c.tmp_code_start)
           /\ Within(c.state, consumed - c.tmp_code_start)
           /\ HeaderFound(c, Byte) \/ PictureFound(c, Byte) => consumed - c.tmp_code_start <= 5
           /\ Quiet(c, Byte) => consumed - c.tmp_code_start <= consumed - ctx.tmp_code_start \/ c.tmp_code_start = consumed
           /\ c.tmp_code_start \in {ctx.tmp_code_start, ctx.tmp_code_start + 1, consumed}
<1>1. /\ consumed \in Nat /\ ctx.tmp_code_start \in Int /\ c.tmp_code_start \in Int
      /\ Within(ctx.state, consumed - ctx.tmp_code_start)
  BY DEF ParserTypes, Context, KeptInv
<1>2. CASE Quiet(c, Byte)
  BY <1>1, <1>2 DEF Quiet, Within, HeaderFound, PictureFound
<1>3. CASE HeaderFound(c, Byte)
  BY <1>1, <1>3 DEF HeaderFound, Within, Quiet
<1>4. CASE PictureFound(c, Byte)
  BY <1>1, <1>4 DEF PictureFound, Within, Quiet
<1> QED  BY <1>2, <1>3, <1>4 DEF Round

LEMMA ScanTypes == ParserTypes /\ Scan => ParserTypes'
<1> SUFFICES ASSUME ParserTypes, Scan  PROVE ParserTypes'
  OBVIOUS
<1>1. PICK c \in Context : Round(c)
  BY ScanRound
<1>2. phase = "scan" /\ UNCHANGED <<codec, stream, outSize, player, offs, pieces, overflowed>>
  BY ScanRound
<1>3. /\ codec \in {"mpeg4", "h264", "mpeg2"} /\ stream \in Seq(0..255)
      /\ outSize \in Nat /\ player \in BOOLEAN
      /\ consumed \in Nat /\ offs \in Nat
      /\ pieces \in Seq(Seq(Int)) /\ overflowed \in BOOLEAN
      /\ consumed < Rest
  BY <1>2 DEF ParserTypes
<1>4. ctx' \in Context /\ (ctx'.state \in {"CODE_0x3", "CODE_SLICE"} => codec = "h264") /\ (Ending \/ Advance)
  BY <1>1 DEF Round
<1>5. Rest' = Rest /\ Rest \in Int
  BY <1>2, <1>3 DEF Rest
<1>6. /\ consumed' \in Nat /\ consumed' <= Rest /\ phase' \in {"scan", "return"}
      /\ phase' = "scan" => consumed' < Rest
      /\ phase' = "return" => consumed' = Rest \/ ctx'.got_end
  BY <1>3, <1>4, <1>5 DEF Ending, Advance
<1> QED  BY <1>2, <1>3, <1>4, <1>5, <1>6 DEF ParserTypes

LEMMA ScanKept == ParserTypes /\ KeptInv /\ PiecesInv /\ Scan => KeptInv'
<1> SUFFICES ASSUME ParserTypes, KeptInv, PiecesInv, Scan  PROVE KeptInv'
  OBVIOUS
<1>1. PICK c \in Context : Round(c)
  BY ScanRound
<1>2. /\ phase = "scan" /\ UNCHANGED <<codec, stream, outSize, player, offs, pieces, overflowed>>
      /\ consumed \in Nat /\ ctx \in Context /\ overflowed \in BOOLEAN
  BY ScanRound DEF ParserTypes
<1>3. /\ ctx.tmp_code_start \in Int /\ c.tmp_code_start \in Int /\ ctx.code_start \in Int
      /\ ctx.main_count \in Nat /\ ctx.headers_count \in Nat
      /\ c.main_count \in Nat /\ c.headers_count \in Nat
      /\ ctx.got_start \in BOOLEAN /\ ctx.seek_end \in BOOLEAN /\ ctx.got_end \in BOOLEAN
  BY <1>2 DEF Context
<1>4. /\ ctx' \in Context /\ ctx'.state = c.state /\ ctx'.bytes = ctx.bytes
      /\ ctx'.tmp_code_start = c.tmp_code_start /\ (Ending \/ Advance)
      /\ ctx'.got_start = (ctx.got_start \/ c.headers_count + c.main_count = 1)
      /\ ctx'.code_start = IF ~ctx.got_start /\ c.headers_count + c.main_count = 1
                           THEN c.tmp_code_start ELSE ctx.code_start
  BY <1>1 DEF Round, Unmoved
<1>5. Within(c.state, consumed' - c.tmp_code_start)
  <2>1. Within(c.state, consumed + 1 - c.tmp_code_start) /\ Within(c.state, consumed - c.tmp_code_start)
    BY <1>1, RoundGap
  <2>2. consumed' = consumed \/ consumed' = consumed + 1
    BY <1>4 DEF Ending, Advance
  <2>3. CASE consumed' = consumed
    BY <2>1, <2>3
  <2>4. CASE consumed' = consumed + 1
    BY <1>2, <1>3, <2>1, <2>4 DEF Within
  <2> QED  BY <2>2, <2>3, <2>4
<1>6. ~ctx.got_start => /\ ctx.headers_count = 0 /\ ctx.main_count = 0 /\ ~ctx.seek_end
                        /\ ctx.tmp_code_start >= 0 /\ ~ctx.got_end /\ ~overflowed
  BY <1>2 DEF KeptInv, PiecesInv, BeforeFirst
<1>7. ctx'.code_start < 0 => ctx'.code_start = ctx.code_start
  <2>1. CASE ~ctx.got_start
    <3>1. c.tmp_code_start >= 0
      BY <1>1, <1>2, <1>3, <1>6, <2>1, RoundGap
    <3> QED  BY <1>3, <1>4, <3>1
  <2>2. CASE ctx.got_start
    BY <1>4, <2>2
  <2> QED  BY <2>1, <2>2
<1>8. (overflowed => ctx'.got_start) /\ (ctx.got_start => ctx'.got_start)
  BY <1>4 DEF KeptInv
<1>9. CASE Ending
  <2>1. consumed - c.tmp_code_start <= 5 /\ ctx'.got_start
    <3>1. Ending => \/ HeaderFound(c, Byte) \/ PictureFound(c, Byte)
                    \/ Quiet(c, Byte) /\ ctx.seek_end /\ (ctx.headers_count > 0 \/ ctx.main_count > 0)
      <4>1. CASE Quiet(c, Byte) /\ Advance
        BY <1>2, <4>1 DEF Ending, Advance
      <4>2. CASE Quiet(c, Byte) /\ ~Advance
        <5>1. c.main_count = ctx.main_count /\ c.headers_count = ctx.headers_count /\ c.seek_end = ctx.seek_end
          BY <1>1, <4>2 DEF Quiet, Round, Unmoved
        <5>2. ctx.seek_end /\ (ctx.headers_count > 0 \/ ctx.main_count > 0)
          BY <1>1, <1>3, <4>2, <5>1 DEF Round
        <5> QED  BY <4>2, <5>2
      <4> QED  BY <1>1, <4>1, <4>2 DEF Round
    <3>2. consumed - c.tmp_code_start <= 5
      <4>1. /\ HeaderFound(c, Byte) \/ PictureFound(c, Byte) => consumed - c.tmp_code_start <= 5
            /\ Quiet(c, Byte) => \/ consumed - c.tmp_code_start <= consumed - ctx.tmp_code_start
                                 \/ c.tmp_code_start = consumed
        BY <1>1, RoundGap
      <4>2. ctx.seek_end /\ (ctx.headers_count > 0 \/ ctx.main_count > 0) =>
               consumed - ctx.tmp_code_start <= 5
        BY DEF KeptInv
      <4> QED  BY <1>2, <1>3, <1>9, <3>1, <4>1, <4>2
    <3>3. ~ctx.got_start => ctx'.got_start
      <4> SUFFICES ASSUME ~ctx.got_start  PROVE c.headers_count + c.main_count = 1
        BY <1>4
      <4>1. CASE HeaderFound(c, Byte)
        BY <1>3, <1>6, <4>1 DEF HeaderFound
      <4>2. CASE PictureFound(c, Byte)
        BY <1>3, <1>6, <4>2 DEF PictureFound
      <4> QED  BY <1>6, <1>9, <3>1, <4>1, <4>2
    <3> QED  BY <1>8, <3>2, <3>3
  <2>2. consumed' = consumed /\ phase' = "return" /\ ctx'.code_end = ctx'.tmp_code_start
    BY <1>9 DEF Ending
  <2>3. consumed' - ctx'.tmp_code_start <= 5 /\ consumed' - ctx'.code_end <= 5
    BY <1>4, <2>1, <2>2
  <2> QED  BY <1>2, <1>4, <1>5, <1>7, <1>8, <2>1, <2>2, <2>3 DEF KeptInv
<1>10. CASE ~Ending
  <2>1. /\ ~(ctx'.seek_end /\ (ctx'.headers_count > 0 \/ ctx'.main_count > 0))
        /\ ctx'.got_end = ctx.got_end /\ ctx'.code_end = ctx.code_end
    BY <1>1, <1>10 DEF Round, Unmoved
  <2>2. ctx.got_end => overflowed /\ TooLarge(ctx) /\ ctx.got_start
    BY <1>2 DEF KeptInv
  <2>3. ctx.got_end => TooLarge(ctx)'
    BY <1>2, <1>4, <1>8, <2>1, <2>2 DEF TooLarge, Copied, FrameLength, Positions
  <2> QED  BY <1>2, <1>4, <1>5, <1>7, <1>8, <2>1, <2>2, <2>3 DEF KeptInv
<1> QED  BY <1>9, <1>10

-----------------------------------------------------------------------------
(* A round while no piece was too large: nothing found, the first code of
   all, another one of the piece, or the one that ends it. *)
Found(c) == HeaderFound(c, Byte) \/ PictureFound(c, Byte)

QuietRound(c) ==
    /\ Quiet(c, Byte) /\ Advance
    /\ ctx'.got_start = ctx.got_start /\ ctx'.code_start = ctx.code_start /\ ~ctx'.got_end
    /\ ctx'.seek_end = ctx.seek_end
    /\ ctx'.headers_count = ctx.headers_count /\ ctx'.main_count = ctx.main_count

GoesOn(c) ==
    /\ Found(c) /\ Advance /\ ctx'.got_start /\ ~ctx'.got_end
    /\ ctx'.main_count = 0
    /\ ctx'.seek_end <=> PictureFound(c, Byte)
    /\ ctx'.headers_count = 0 <=> PictureFound(c, Byte)

FirstRound(c) == ~ctx.got_start /\ GoesOn(c) /\ ctx'.code_start = ctx'.tmp_code_start

FurtherRound(c) ==
    ctx.got_start /\ ~ctx.seek_end /\ GoesOn(c) /\ ctx'.code_start = ctx.code_start

EndRound(c) ==
    /\ ctx.got_start /\ ctx.seek_end /\ Found(c) /\ Ending
    /\ ctx'.got_start /\ ctx'.code_start = ctx.code_start

LEMMA RoundKinds ==
    ASSUME ParserTypes, KeptInv, PiecesInv, ~overflowed, phase = "scan", NEW c \in Context, Round(c)
    PROVE  QuietRound(c) \/ FirstRound(c) \/ FurtherRound(c) \/ EndRound(c)
<1>1. /\ ctx \in Context /\ ctx.main_count \in Nat /\ ctx.headers_count \in Nat
      /\ ctx.got_start \in BOOLEAN /\ ctx.seek_end \in BOOLEAN /\ ctx.got_end \in BOOLEAN
      /\ c.got_start \in BOOLEAN
  BY DEF ParserTypes, Context
<1>2. ~ctx.got_end /\ ctx.main_count = 0
  BY DEF KeptInv, PiecesInv, BeforeFirst, Piece
<1>3. ctx.got_start => (ctx.seek_end <=> ctx.headers_count = 0)
  BY <1>2 DEF PiecesInv, Piece
<1>4. ~ctx.got_start => ctx.headers_count = 0 /\ ~ctx.seek_end
  BY DEF PiecesInv, BeforeFirst
<1>5. Unmoved(c) /\ ~c.got_end
  BY <1>2 DEF Round, Unmoved
<1>6. CASE Quiet(c, Byte)
  <2>1. c.main_count = 0 /\ c.headers_count = ctx.headers_count /\ c.seek_end = ctx.seek_end
    BY <1>2, <1>5, <1>6 DEF Quiet, Unmoved
  <2>2. ~(c.seek_end /\ c.headers_count > 0)
    BY <1>3, <1>4, <2>1
  <2>3. c.got_start \/ c.headers_count + c.main_count = 0
    BY <1>4, <1>5, <2>1 DEF Unmoved
  <2>4. /\ Advance /\ ctx'.got_end = c.got_end /\ ctx'.seek_end = c.seek_end
        /\ ctx'.headers_count = c.headers_count /\ ctx'.main_count = c.main_count
    BY <1>1, <2>1, <2>2 DEF Round
  <2>5. ctx'.got_start = c.got_start /\ ctx'.code_start = c.code_start
    BY <1>1, <2>1, <2>3 DEF Round
  <2> QED  BY <1>2, <1>5, <1>6, <2>1, <2>4, <2>5 DEF QuietRound, Unmoved
<1>7. CASE HeaderFound(c, Byte)
  <2>1. c.main_count = 0 /\ c.headers_count = ctx.headers_count + 1 /\ c.last_tag = "HEAD"
    BY <1>2, <1>7 DEF HeaderFound
  <2>2. ~PictureFound(c, Byte)
    BY <2>1 DEF PictureFound
  <2>3. c.got_start = ctx.got_start /\ c.seek_end = ctx.seek_end /\ c.code_start = ctx.code_start
    BY <1>5 DEF Unmoved
  <2>4. CASE ctx.seek_end
    <3>1. ctx.got_start /\ Ending
      BY <1>1, <1>4, <2>1, <2>3, <2>4 DEF Round
    <3>2. ctx'.got_start /\ ctx'.code_start = ctx.code_start
      BY <2>3, <3>1 DEF Round
    <3> QED  BY <1>7, <2>4, <3>1, <3>2 DEF EndRound, Found
  <2>5. CASE ~ctx.seek_end
    <3>1. /\ Advance /\ ~ctx'.got_end /\ ctx'.main_count = 0 /\ ~ctx'.seek_end
          /\ ctx'.headers_count = c.headers_count
      BY <1>1, <1>5, <2>1, <2>3, <2>5 DEF Round
    <3>2. ctx'.got_start
      <4>1. ctx'.got_start = (c.got_start \/ c.headers_count + c.main_count = 1)
        BY DEF Round
      <4>2. ctx.got_start \/ c.headers_count + c.main_count = 1
        BY <1>1, <1>4, <2>1
      <4> QED  BY <2>3, <4>1, <4>2
    <3>3. GoesOn(c)
      BY <1>1, <1>7, <2>1, <2>2, <3>1, <3>2 DEF GoesOn, Found
    <3>4. ctx'.code_start = IF ctx.got_start THEN ctx.code_start ELSE ctx'.tmp_code_start
      BY <1>1, <1>4, <2>1, <2>3 DEF Round
    <3> QED  BY <2>5, <3>3, <3>4 DEF FirstRound, FurtherRound
  <2> QED  BY <2>4, <2>5
<1>8. CASE PictureFound(c, Byte)
  <2>1. c.main_count = 1 /\ c.headers_count = ctx.headers_count
    BY <1>2, <1>8 DEF PictureFound
  <2>3. c.got_start = ctx.got_start /\ c.seek_end = ctx.seek_end /\ c.code_start = ctx.code_start
    BY <1>5 DEF Unmoved
  <2>4. CASE ctx.seek_end
    <3>1. ctx.got_start /\ Ending
      BY <1>1, <1>4, <2>1, <2>3, <2>4 DEF Round
    <3>2. ctx'.got_start /\ ctx'.code_start = ctx.code_start
      BY <2>3, <3>1 DEF Round
    <3> QED  BY <1>8, <2>4, <3>1, <3>2 DEF EndRound, Found
  <2>5. CASE ~ctx.seek_end
    <3>1. /\ Advance /\ ~ctx'.got_end /\ ctx'.main_count = 0 /\ ctx'.seek_end
          /\ ctx'.headers_count = 0
      <4>1. c.main_count = 1 /\ ~c.seek_end
        BY <2>1, <2>3, <2>5
      <4>2. /\ Advance /\ ctx'.got_end = c.got_end /\ ctx'.main_count = 0
            /\ ctx'.seek_end = (c.seek_end \/ c.main_count = 1) /\ ctx'.headers_count = 0
        BY <4>1 DEF Round
      <4> QED  BY <1>5, <4>1, <4>2
    <3>2. ctx'.got_start
      <4>1. ctx'.got_start = (c.got_start \/ c.headers_count + c.main_count = 1)
        BY DEF Round
      <4>2. ctx.got_start \/ c.headers_count + c.main_count = 1
        BY <1>1, <1>4, <2>1
      <4> QED  BY <2>3, <4>1, <4>2
    <3>3. GoesOn(c)
      BY <1>8, <3>1, <3>2 DEF GoesOn, Found
    <3>4. ctx'.code_start = IF ctx.got_start THEN ctx.code_start ELSE ctx'.tmp_code_start
      BY <1>1, <1>4, <2>1, <2>3 DEF Round
    <3> QED  BY <2>5, <3>3, <3>4 DEF FirstRound, FurtherRound
  <2> QED  BY <2>4, <2>5
<1> QED  BY <1>6, <1>7, <1>8 DEF Round

(* The code that was found lies behind the beginning of the piece. *)
LEMMA FoundWhere ==
    ASSUME ParserTypes, PiecesInv, ~overflowed, phase = "scan", NEW c \in Context, Found(c)
    PROVE  /\ c.tmp_code_start = ctx.tmp_code_start /\ c.state = "NO_CODE"
           /\ 0 <= ctx.tmp_code_start /\ ctx.tmp_code_start < consumed
           /\ ctx.got_start => ctx.tmp_code_start > ctx.code_start
<1>1. consumed \in Nat /\ ctx.tmp_code_start \in Int /\ ctx.code_start \in Int
  BY DEF ParserTypes, Context
<1>2. /\ c.tmp_code_start = ctx.tmp_code_start /\ c.state = "NO_CODE"
      /\ ctx.state \in {"CODE_0x2", "CODE_1x1", "CODE_SLICE"}
  BY DEF Found, HeaderFound, PictureFound
<1>3. CodeRead
  BY DEF PiecesInv
<1> QED  BY <1>1, <1>2, <1>3 DEF CodeRead

(* The state after a round says what was read last. *)
LEMMA ScanCodeRead ==
    ASSUME ParserTypes, KeptInv, PiecesInv, ~overflowed, Scan
    PROVE  CodeRead'
<1>1. PICK c \in Context : Round(c)
  BY ScanRound
<1>2. /\ phase = "scan" /\ Byte \in 0..255 /\ Read < Len(stream)
      /\ UNCHANGED <<codec, stream, outSize, player, offs, pieces, overflowed>>
  BY ScanRound
<1>3. /\ consumed \in Nat /\ offs \in Nat /\ ctx.tmp_code_start \in Int /\ ctx.code_start \in Int
      /\ CodeRead
  BY DEF ParserTypes, Context, PiecesInv
<1>4. ctx'.state = c.state /\ ctx'.tmp_code_start = c.tmp_code_start
  BY <1>1 DEF Round
<1> SUFFICES ASSUME phase' = "scan"  PROVE CodeRead'
  BY DEF CodeRead
<1>5. CASE c.state = "NO_CODE"
  BY <1>4, <1>5 DEF CodeRead
<1>6. CASE c.state # "NO_CODE"
  <2>1. QuietRound(c)
    BY <1>1, <1>2, <1>6, RoundKinds DEF FirstRound, FurtherRound, GoesOn, EndRound, Found, HeaderFound, PictureFound
  <2>2. /\ consumed' = consumed + 1 /\ Read' = Read + 1 /\ Read \in Nat /\ stream[Read'] = Byte
        /\ ctx'.got_start = ctx.got_start /\ ctx'.code_start = ctx.code_start
    BY <1>2, <1>3, <2>1 DEF QuietRound, Advance, Read, Byte
  <2>11. /\ Read' - 1 = Read /\ Read' - 2 = Read - 1 /\ Read' - 3 = Read - 2 /\ Read' - 4 = Read - 3
         /\ Read' - 2 + 1 = Read /\ Read' - 2 + 2 = Read + 1 /\ Read - 2 + 1 = Read - 1 /\ Read - 2 + 2 = Read
         /\ Read' - 3 + 1 = Read - 1 /\ Read' - 3 + 2 = Read /\ Read' - 3 + 3 = Read + 1
    BY <2>2
  <2>3. CASE ctx.state = "NO_CODE" /\ c.state = "CODE_0x1" /\ Byte = 0 /\ c.tmp_code_start = consumed
    <3>1. ctx.got_start => consumed > ctx.code_start
      BY <1>2, <1>3 DEF PiecesInv, Piece, Begin, Read
    <3> QED  BY <1>2, <1>3, <1>4, <2>2, <2>3, <3>1 DEF CodeRead
  <2>4. CASE /\ ctx.state = "CODE_0x1" /\ c.state = "CODE_0x2"
             /\ Byte = 0 /\ c.tmp_code_start = ctx.tmp_code_start
    BY <1>2, <1>3, <1>4, <2>2, <2>4, SMTT(30) DEF CodeRead
  <2>5. CASE /\ ctx.state = "CODE_0x2" /\ c.state = "CODE_0x2"
             /\ Byte = 0 /\ c.tmp_code_start = ctx.tmp_code_start + 1
    BY <1>2, <1>3, <1>4, <2>2, <2>5, SMTT(30) DEF CodeRead
  <2>6. CASE /\ ctx.state = "CODE_0x2" /\ c.state = "CODE_0x3"
             /\ Byte = 0 /\ c.tmp_code_start = ctx.tmp_code_start
    BY <1>2, <1>3, <1>4, <2>2, <2>6, SMTT(30) DEF CodeRead
  <2>7. CASE /\ ctx.state = "CODE_0x3" /\ c.state = "CODE_0x3"
             /\ Byte = 0 /\ c.tmp_code_start = ctx.tmp_code_start + 1
    <3>1. /\ consumed - ctx.tmp_code_start = 3 /\ ctx.tmp_code_start >= 0
          /\ ctx.got_start => ctx.tmp_code_start > ctx.code_start
          /\ stream[Read] = 0 /\ stream[Read - 1] = 0
      BY <1>2, <1>3, <2>7 DEF CodeRead
    <3>2. /\ consumed' - ctx'.tmp_code_start = 3 /\ ctx'.tmp_code_start >= 0
          /\ ctx'.got_start => ctx'.tmp_code_start > ctx'.code_start
      BY <1>3, <1>4, <2>2, <2>7, <3>1
    <3>3. stream'[Read'] = 0 /\ stream'[Read' - 1] = 0 /\ stream'[Read' - 2] = 0
      BY <1>2, <2>2, <2>7, <2>11, <3>1
    <3> QED  BY <1>4, <2>7, <3>2, <3>3 DEF CodeRead
  <2>8. CASE /\ ctx.state \in {"CODE_0x2", "CODE_0x3"} /\ c.state = "CODE_1x1"
             /\ Byte = 1 /\ c.tmp_code_start = ctx.tmp_code_start
    <3>1. ctx.state = "CODE_0x3" => codec = "h264"
      BY DEF ParserTypes
    <3>2. /\ ctx.tmp_code_start >= 0 /\ (ctx.got_start => ctx.tmp_code_start > ctx.code_start)
          /\ stream[Read] = 0 /\ stream[Read - 1] = 0
          /\ \/ consumed - ctx.tmp_code_start = 2
             \/ consumed - ctx.tmp_code_start = 3 /\ stream[Read - 2] = 0 /\ codec = "h264"
      BY <1>2, <1>3, <2>8, <3>1 DEF CodeRead
    <3>3. /\ ctx'.tmp_code_start >= 0 /\ (ctx'.got_start => ctx'.tmp_code_start > ctx'.code_start)
          /\ \/ consumed' - ctx'.tmp_code_start = 3
             \/ consumed' - ctx'.tmp_code_start = 4 /\ stream'[Read' - 3] = 0 /\ codec' = "h264"
      BY <1>2, <1>3, <1>4, <2>2, <2>8, <2>11, <3>2, SMTT(30)
    <3>4. stream[Read' - 2] = 0 /\ stream[Read' - 2 + 1] = 0 /\ stream[Read' - 2 + 2] = 1
      BY <2>2, <2>8, <2>11, <3>2 DEF Byte
    <3>5. Prefix(Read - 2)'
      BY <1>2, <3>4 DEF Prefix
    <3> QED  BY <1>4, <2>8, <3>3, <3>5 DEF CodeRead
  <2>9. CASE /\ ctx.state = "CODE_1x1" /\ c.state = "CODE_SLICE" /\ codec = "h264"
             /\ PictureByte(Byte) /\ c.tmp_code_start = ctx.tmp_code_start
    <3>1. Prefix(Read - 2) /\ consumed - ctx.tmp_code_start \in {3, 4}
          /\ (consumed - ctx.tmp_code_start = 4 => stream[Read - 3] = 0)
      BY <1>2, <1>3, <2>9 DEF CodeRead
    <3>2. stream[Read + 1] % 32 \in {1, 5}
      BY <2>9 DEF PictureByte, Byte
    <3>4. stream[Read' - 3] = 0 /\ stream[Read' - 3 + 1] = 0 /\ stream[Read' - 3 + 2] = 1
      BY <2>11, <3>1 DEF Prefix
    <3>5. stream[Read' - 3 + 3] % 32 \in {1, 5}
      BY <2>11, <3>2
    <3>3. Prefix(Read - 3)' /\ Slice(Read - 3)'
      BY <1>2, <2>9, <3>4, <3>5 DEF Prefix, Slice
    <3>6. ctx.tmp_code_start >= 0 /\ (ctx.got_start => ctx.tmp_code_start > ctx.code_start)
      BY <1>2, <1>3, <2>9 DEF CodeRead
    <3>7. /\ ctx'.tmp_code_start >= 0 /\ (ctx'.got_start => ctx'.tmp_code_start > ctx'.code_start)
          /\ consumed' - ctx'.tmp_code_start \in {4, 5}
          /\ consumed' - ctx'.tmp_code_start = 5 => stream'[Read' - 4] = 0
      BY <1>2, <1>3, <1>4, <2>2, <2>9, <2>11, <3>1, <3>6, SMTT(30)
    <3> QED  BY <1>4, <2>9, <3>3, <3>7 DEF CodeRead
  <2>10. Quiet(c, Byte)
    BY <2>1 DEF QuietRound
  <2> QED  BY <1>6, <2>3, <2>4, <2>5, <2>6, <2>7, <2>8, <2>9, <2>10 DEF Quiet
<1> QED  BY <1>5, <1>6

LEMMA ScanPieces == ParserTypes /\ KeptInv /\ PiecesInv /\ Scan => PiecesInv'
<1> SUFFICES ASSUME ParserTypes, KeptInv, PiecesInv, Scan, ~overflowed  PROVE PiecesInv'
  BY ScanRound DEF PiecesInv
<1>1. PICK c \in Context : Round(c)
  BY ScanRound
<1>2. /\ phase = "scan" /\ Read < Len(stream)
      /\ UNCHANGED <<codec, stream, outSize, player, offs, pieces, overflowed>>
  BY ScanRound
<1>3. /\ consumed \in Nat /\ offs \in Nat /\ ctx.tmp_code_start \in Int /\ ctx.code_start \in Int
      /\ BeforeFirst /\ Piece /\ Joined /\ CodeRead
  BY DEF ParserTypes, Context, PiecesInv
<1>4. /\ ctx'.state = c.state /\ ctx'.tmp_code_start = c.tmp_code_start /\ ctx'.bytes = ctx.bytes
  BY <1>1 DEF Round, Unmoved
<1>5. CodeRead' /\ Joined'
  BY <1>2, <1>3, ScanCodeRead DEF Joined, LastByte
<1>6. phase' \in {"scan", "return"}
  BY <1>1 DEF Round, Ending, Advance
<1>11. offs < Len(stream) /\ Len(stream) \in Nat
  BY <1>2, <1>3 DEF Read, ParserTypes
<1>7. CASE QuietRound(c)
  <2>1. consumed' = consumed + 1
    BY <1>7 DEF QuietRound, Advance
  <2>2. BeforeFirst'
    <3> SUFFICES ASSUME ~ctx.got_start  PROVE BeforeFirst'
      BY <1>7 DEF BeforeFirst, QuietRound
    <3>1. offs = 0 /\ pieces = <<>> /\ ctx.tmp_code_start >= 0
      BY <1>2, <1>3 DEF BeforeFirst
    <3>2. c.tmp_code_start >= 0
      BY <1>1, <1>3, <3>1, RoundGap
    <3> QED  BY <1>2, <1>3, <1>4, <1>7, <3>1, <3>2 DEF BeforeFirst, QuietRound
  <2>3. Piece'
    <3> SUFFICES ASSUME ctx.got_start  PROVE Piece'
      BY <1>7 DEF Piece, QuietRound
    <3>1. Begin' = Begin /\ Read' = Read + 1 /\ Begin \in Int /\ Read \in Int
      BY <1>2, <1>3, <1>7, <2>1 DEF Begin, Read, QuietRound
    <3> QED  BY <1>2, <1>3, <1>4, <1>6, <1>7, <1>11, <3>1 DEF Piece, QuietRound, LastByte, Positions
  <2> QED  BY <1>5, <2>2, <2>3 DEF PiecesInv
<1>8. CASE FirstRound(c)
  <2>1. consumed' = consumed + 1 /\ Found(c) /\ ~ctx.got_start /\ ctx'.got_start
    BY <1>8 DEF FirstRound, GoesOn, Advance
  <2>2. offs = 0 /\ pieces = <<>>
    BY <1>2, <1>3, <2>1 DEF BeforeFirst
  <2>3. ctx'.code_start = ctx.tmp_code_start /\ 0 <= ctx.tmp_code_start /\ ctx.tmp_code_start < consumed
    BY <1>2, <1>4, <1>8, <2>1, FoundWhere DEF FirstRound
  <2>4. Begin' = ctx.tmp_code_start /\ Read' = consumed + 1
    BY <1>2, <1>3, <2>1, <2>2, <2>3 DEF Begin, Read
  <2>5. Piece'
    BY <1>2, <1>3, <1>6, <1>8, <1>11, <2>2, <2>3, <2>4 DEF Piece, FirstRound, GoesOn
  <2> QED  BY <1>5, <2>1, <2>5 DEF PiecesInv, BeforeFirst
<1>9. CASE FurtherRound(c)
  <2>1. consumed' = consumed + 1 /\ ctx.got_start /\ ctx'.got_start
    BY <1>9 DEF FurtherRound, GoesOn, Advance
  <2>2. Begin' = Begin /\ Read' = Read + 1 /\ Begin \in Int /\ Read \in Int
    BY <1>2, <1>3, <1>9, <2>1 DEF Begin, Read, FurtherRound
  <2>3. Piece'
    BY <1>2, <1>3, <1>4, <1>6, <1>9, <1>11, <2>2 DEF Piece, FurtherRound, GoesOn, LastByte, Positions
  <2> QED  BY <1>5, <2>1, <2>3 DEF PiecesInv, BeforeFirst
<1>10. CASE EndRound(c)
  <2>1. /\ consumed' = consumed /\ ctx.got_start /\ ctx'.got_start /\ Found(c)
        /\ phase' = "return" /\ ctx'.got_end /\ ctx'.code_end = c.tmp_code_start
    BY <1>4, <1>10 DEF EndRound, Ending
  <2>2. Begin' = Begin /\ Read' = Read /\ Begin \in Int /\ Read \in Int
    BY <1>2, <1>3, <1>10, <2>1 DEF Begin, Read, EndRound
  <2>3. /\ ctx'.code_end = ctx.tmp_code_start /\ 0 <= ctx.tmp_code_start /\ ctx.tmp_code_start < consumed
        /\ ctx.tmp_code_start > ctx.code_start
    BY <1>2, <2>1, FoundWhere
  <2>4. Begin' < Stop' /\ Stop' < Read'
    BY <1>2, <1>3, <2>2, <2>3 DEF Begin, Stop, Read
  <2>6. ctx'.state = "NO_CODE"
    BY <1>2, <1>4, <2>1, FoundWhere
  <2>5. Piece'
    BY <1>2, <1>3, <1>4, <1>10, <1>11, <2>1, <2>2, <2>3, <2>4, <2>6 DEF Piece, EndRound, LastByte, Positions
  <2> QED  BY <1>5, <2>1, <2>5 DEF PiecesInv, BeforeFirst
<1> QED  BY <1>1, <1>2, <1>7, <1>8, <1>9, <1>10, RoundKinds

-----------------------------------------------------------------------------
(* The context as Return leaves it *)
LEMMA LeftIs ==
    ASSUME ParserTypes
    PROVE  LET d == Left(ctx) IN
           /\ d \in Context
           /\ d.state = ctx.state /\ d.got_start = ctx.got_start
           /\ d.tmp_code_start = ctx.tmp_code_start - consumed
           /\ ctx.got_start /\ ctx.got_end =>
                 /\ d.code_start = ctx.code_end - consumed
                 /\ d.bytes = Positions(offs + ctx.code_end, consumed - ctx.code_end)
                 /\ ~d.got_end /\ d.main_count = 0
                 /\ d.headers_count = IF ctx.last_tag = "PICTURE" THEN 0 ELSE 1
                 /\ d.seek_end <=> ctx.last_tag = "PICTURE"
           /\ ctx.got_start /\ ~ctx.got_end => d.code_start = 0
           /\ ~ctx.got_start => d.code_start = ctx.code_start
           /\ ~(ctx.got_start /\ ctx.got_end) =>
                 /\ d.bytes = ctx.bytes /\ d.got_end = ctx.got_end
                 /\ d.main_count = ctx.main_count /\ d.headers_count = ctx.headers_count
                 /\ d.seek_end = ctx.seek_end
<1>1. ctx \in Context /\ consumed \in Nat /\ offs \in Nat
  BY DEF ParserTypes
<1>2. ctx.code_end \in Int /\ ctx.tmp_code_start \in Int
  BY <1>1 DEF Context
<1> DEFINE d == Left(ctx)
<1>3. CASE ctx.got_start /\ ctx.got_end
  <2> DEFINE b  == Positions(offs + ctx.code_end, consumed - ctx.code_end)
             h  == IF ctx.last_tag = "PICTURE" THEN 0 ELSE 1
             sk == (ctx.last_tag = "PICTURE")
             sh == ctx.short_header /\ (codec # "mpeg4" \/ ctx.last_tag = "PICTURE")
             cs == ctx.code_end - consumed
             t  == ctx.tmp_code_start - consumed
             n  == NextPiece(ctx)
  <2>1. b \in Seq(Int) /\ h \in Nat /\ sk \in BOOLEAN /\ sh \in BOOLEAN /\ cs \in Int /\ t \in Int
    <3>1. offs + ctx.code_end \in Int /\ consumed - ctx.code_end \in Int
      BY <1>1, <1>2
    <3>2. b \in Seq(Int)
      BY <3>1, PositionsAre
    <3> QED  BY <1>1, <1>2, <3>2
  <2>2. d = [n EXCEPT !.tmp_code_start = @ - consumed]
    BY <1>3 DEF Left
  <2>3. n = [ctx EXCEPT !.code_start = cs, !.bytes = b, !.got_end = FALSE, !.main_count = 0,
                        !.headers_count = h, !.seek_end = sk, !.short_header = sh]
    BY DEF NextPiece
  <2> HIDE DEF b, h, sk, sh, cs, n
  <2>4. n = [state |-> ctx.state, last_tag |-> ctx.last_tag, bytes |-> b,
             main_count |-> 0, headers_count |-> h,
             tmp_code_start |-> ctx.tmp_code_start, code_start |-> cs,
             code_end |-> ctx.code_end, got_start |-> ctx.got_start, got_end |-> FALSE,
             seek_end |-> sk, short_header |-> sh]
    BY <1>1, <2>3 DEF Context
  <2>5. d = [state |-> ctx.state, last_tag |-> ctx.last_tag, bytes |-> b,
             main_count |-> 0, headers_count |-> h,
             tmp_code_start |-> t, code_start |-> cs,
             code_end |-> ctx.code_end, got_start |-> ctx.got_start, got_end |-> FALSE,
             seek_end |-> sk, short_header |-> sh]
    BY <2>2, <2>4
  <2> HIDE DEF d, t
  <2>6. d \in Context
    BY <1>1, <2>1, <2>5 DEF Context
  <2>7. /\ d.state = ctx.state /\ d.got_start = ctx.got_start
        /\ d.tmp_code_start = t /\ d.code_start = cs /\ d.bytes = b
        /\ ~d.got_end /\ d.main_count = 0 /\ d.headers_count = h /\ d.seek_end = sk
    BY <2>5
  <2> QED  BY <1>3, <2>6, <2>7 DEF b, h, sk, cs, t, d
<1>4. CASE ctx.got_start /\ ~ctx.got_end
  <2> DEFINE t == ctx.tmp_code_start - consumed
  <2>1. d = [[ctx EXCEPT !.code_start = 0] EXCEPT !.tmp_code_start = @ - consumed]
    BY <1>4 DEF Left
  <2>2. t \in Int
    BY <1>1, <1>2
  <2>3. d = [ctx EXCEPT !.code_start = 0, !.tmp_code_start = t]
    BY <1>1, <2>1 DEF Context
  <2> HIDE DEF d, t
  <2>4. d \in Context
    <3>1. d = [state |-> ctx.state, last_tag |-> ctx.last_tag, bytes |-> ctx.bytes,
               main_count |-> ctx.main_count, headers_count |-> ctx.headers_count,
               tmp_code_start |-> t, code_start |-> 0,
               code_end |-> ctx.code_end, got_start |-> ctx.got_start, got_end |-> ctx.got_end,
               seek_end |-> ctx.seek_end, short_header |-> ctx.short_header]
      BY <1>1, <2>3 DEF Context
    <3> QED  BY <1>1, <2>2, <3>1 DEF Context
  <2>5. /\ d.state = ctx.state /\ d.got_start = ctx.got_start /\ d.tmp_code_start = t
        /\ d.code_start = 0 /\ d.bytes = ctx.bytes /\ d.got_end = ctx.got_end
        /\ d.main_count = ctx.main_count /\ d.headers_count = ctx.headers_count
        /\ d.seek_end = ctx.seek_end
    BY <1>1, <2>3 DEF Context
  <2> QED  BY <1>4, <2>4, <2>5 DEF d, t
<1>5. CASE ~ctx.got_start
  <2> DEFINE t == ctx.tmp_code_start - consumed
  <2>1. d = [ctx EXCEPT !.tmp_code_start = t]
    BY <1>5 DEF Left
  <2>2. t \in Int
    BY <1>1, <1>2
  <2> HIDE DEF d, t
  <2>4. d \in Context
    BY <1>1, <2>1, <2>2 DEF Context
  <2>5. /\ d.state = ctx.state /\ d.got_start = ctx.got_start /\ d.tmp_code_start = t
        /\ d.code_start = ctx.code_start /\ d.bytes = ctx.bytes /\ d.got_end = ctx.got_end
        /\ d.main_count = ctx.main_count /\ d.headers_count = ctx.headers_count
        /\ d.seek_end = ctx.seek_end
    BY <1>1, <2>1 DEF Context
  <2> QED  BY <1>5, <2>4, <2>5 DEF d, t
<1> QED  BY <1>3, <1>4, <1>5

(* What is queued at the end of a call *)
Queued == Kept(ctx) \o (IF ctx.got_start THEN Copied(ctx) ELSE <<>>)

LEMMA CopiedIs ==
    ASSUME ParserTypes
    PROVE  /\ Copied(ctx) \in Seq(Int) /\ FrameLength(ctx) \in Int
           /\ LET length == IF ctx.code_start >= 0 THEN FrameLength(ctx) - ctx.code_start ELSE FrameLength(ctx)
              IN Len(Copied(ctx)) = IF length > 0 THEN length ELSE 0
<1>1. ctx \in Context /\ consumed \in Nat /\ offs \in Nat
  BY DEF ParserTypes
<1>2. ctx.code_end \in Int /\ ctx.code_start \in Int
  BY <1>1 DEF Context
<1>3. FrameLength(ctx) \in Int
  BY <1>1, <1>2 DEF FrameLength
<1>4. CASE ctx.code_start >= 0
  <2>1. Copied(ctx) = Positions(offs + ctx.code_start, FrameLength(ctx) - ctx.code_start)
    BY <1>4 DEF Copied
  <2>2. offs + ctx.code_start \in Int /\ FrameLength(ctx) - ctx.code_start \in Int
    BY <1>1, <1>2, <1>3
  <2> DEFINE length == FrameLength(ctx) - ctx.code_start
  <2>3. /\ Copied(ctx) = Positions(offs + ctx.code_start, length)
        /\ length \in Int /\ offs + ctx.code_start \in Int
    BY <2>1, <2>2
  <2> HIDE DEF length
  <2>4. Copied(ctx) \in Seq(Int) /\ Len(Copied(ctx)) = IF length > 0 THEN length ELSE 0
    BY <2>3, PositionsAre
  <2> QED  BY <1>3, <1>4, <2>4 DEF length
<1>5. CASE ctx.code_start < 0
  <2>1. Copied(ctx) = Positions(offs, FrameLength(ctx))
    BY <1>2, <1>5 DEF Copied
  <2>2. offs \in Int
    BY <1>1
  <2>3. /\ Positions(offs, FrameLength(ctx)) \in Seq(Int)
        /\ Len(Positions(offs, FrameLength(ctx))) = IF FrameLength(ctx) > 0 THEN FrameLength(ctx) ELSE 0
    BY <1>3, <2>2, PositionsAre
  <2> QED  BY <1>2, <1>3, <1>5, <2>1, <2>3
<1> QED  BY <1>2, <1>4, <1>5

LEMMA QueuedIsSeq == ParserTypes /\ KeptInv => Queued \in Seq(Int)
<1> SUFFICES ASSUME ParserTypes, KeptInv  PROVE Queued \in Seq(Int)
  OBVIOUS
<1>1. ctx.bytes \in Seq(Int) /\ ctx.code_start \in Int
  BY DEF ParserTypes, Context
<1>2. Kept(ctx) \in Seq(Int)
  <2>1. CASE ctx.code_start >= 0
    BY <2>1 DEF Kept
  <2>2. CASE ctx.code_start < 0
    <3>1. Len(ctx.bytes) = -ctx.code_start
      BY <2>2 DEF KeptInv
    <3>2. SubSeq(ctx.bytes, 1, -ctx.code_start) \in Seq(Int)
      BY <1>1, <3>1
    <3> QED  BY <1>1, <2>2, <3>2 DEF Kept
  <2> QED  BY <1>1, <2>1, <2>2
<1>3. (IF ctx.got_start THEN Copied(ctx) ELSE <<>>) \in Seq(Int)
  BY CopiedIs
<1> QED  BY <1>2, <1>3, ConcatFacts DEF Queued

(* A piece is what the stream has from its beginning to its end. *)
LEMMA QueuedIs ==
    ASSUME ParserTypes, PiecesInv, ~overflowed, phase = "return", ctx.got_start
    PROVE  LET stop == offs + FrameLength(ctx) IN
           /\ Begin \in Nat /\ stop \in Nat /\ Begin <= stop
           /\ Queued = Positions(Begin, stop - Begin)
<1>1. /\ ctx \in Context /\ consumed \in Nat /\ offs \in Nat
      /\ ctx.code_end \in Int /\ ctx.code_start \in Int /\ Piece
  BY DEF ParserTypes, Context, PiecesInv
<1>2. FrameLength(ctx) \in Nat /\ Begin \in Nat /\ Begin <= offs + FrameLength(ctx)
  <2>1. CASE ctx.got_end
    BY <1>1, <2>1 DEF Piece, FrameLength, Begin, Stop
  <2>2. CASE ~ctx.got_end
    BY <1>1, <2>2 DEF Piece, FrameLength, Begin, Read
  <2> QED  BY <2>1, <2>2
<1>3. CASE ctx.code_start >= 0
  <2>1. Kept(ctx) = <<>> /\ Copied(ctx) = Positions(Begin, FrameLength(ctx) - ctx.code_start)
    BY <1>3 DEF Kept, Copied, Begin
  <2>2. FrameLength(ctx) - ctx.code_start = offs + FrameLength(ctx) - Begin
    BY <1>1, <1>2 DEF Begin
  <2>3. Queued = Copied(ctx)
    BY <2>1, CopiedIs DEF Queued
  <2> QED  BY <1>1, <1>2, <2>1, <2>2, <2>3
<1>4. CASE ctx.code_start < 0
  <2> DEFINE a == -ctx.code_start
             f == FrameLength(ctx)
  <2>1. a \in Nat /\ ctx.bytes = Positions(Begin, a) /\ Begin + a = offs
    BY <1>1, <1>4 DEF Piece, Begin
  <2>2. Kept(ctx) = Positions(Begin, a)
    <3>1. Kept(ctx) = SubSeq(Positions(Begin, a), 1, a)
      BY <1>1, <1>4, <2>1 DEF Kept
    <3> QED  BY <1>2, <2>1, <3>1, PositionsCut
  <2>3. Copied(ctx) = Positions(Begin + a, f)
    BY <1>1, <1>4, <2>1 DEF Copied
  <2>4. a + f = offs + f - Begin
    BY <1>1, <1>2, <2>1
  <2> HIDE DEF a, f
  <2>5. Queued = Positions(Begin, a) \o Positions(Begin + a, f)
    BY <2>2, <2>3 DEF Queued
  <2>6. Queued = Positions(Begin, a + f)
    <3>1. Begin \in Int /\ f \in Nat
      BY <1>2 DEF f
    <3> QED  BY <2>1, <2>5, <3>1, PositionsJoin
  <2> QED  BY <1>1, <1>2, <2>4, <2>6 DEF f
<1> QED  BY <1>1, <1>3, <1>4

-----------------------------------------------------------------------------
(* How Return goes on: at the end of the file, or after a piece was queued *)
AtFileEnd ==
    /\ ~player /\ ~(ctx.got_start /\ ctx.got_end) /\ offs = Len(stream)
    /\ phase' = "done" /\ UNCHANGED <<pieces, offs, consumed>>

AfterPiece ==
    /\ player \/ (ctx.got_start /\ ctx.got_end) \/ offs # Len(stream)
    /\ offs' = Read /\ consumed' = 0
    /\ phase' = IF player THEN "done" ELSE IF Read < Len(stream) THEN "scan" ELSE "return"

LEMMA ReturnCases ==
    ASSUME ParserTypes, Return
    PROVE  /\ phase = "return" /\ ~TooLarge(ctx) /\ ctx' = Left(ctx)
           /\ UNCHANGED <<codec, stream, outSize, player, overflowed>>
           /\ AtFileEnd \/ (AfterPiece /\ pieces' = Append(pieces, Queued))
<1>1. /\ phase = "return" /\ ~TooLarge(ctx) /\ ctx' = Left(ctx)
      /\ UNCHANGED <<codec, stream, outSize, player, overflowed>>
  BY DEF Return, input
<1>4. AtEnd(ctx.got_start /\ ctx.got_end) <=> ~(ctx.got_start /\ ctx.got_end) /\ offs = Len(stream)
  BY DEF AtEnd
<1>2. CASE ~player /\ AtEnd(ctx.got_start /\ ctx.got_end)
  <2>1. Finished
    BY <1>2 DEF Return
  <2>2. ~player /\ ~(ctx.got_start /\ ctx.got_end) /\ offs = Len(stream)
    BY <1>2, <1>4
  <2> QED  BY <1>1, <2>1, <2>2, Zenon DEF AtFileEnd, Finished
<1>3. CASE ~(~player /\ AtEnd(ctx.got_start /\ ctx.got_end))
  <2>1. /\ pieces' = Append(pieces, Queued) /\ offs' = offs + consumed /\ consumed' = 0
        /\ phase' = IF player THEN "done" ELSE IF offs + consumed < Len(stream) THEN "scan" ELSE "return"
    BY <1>3 DEF Return, Queued
  <2>2. player \/ (ctx.got_start /\ ctx.got_end) \/ offs # Len(stream)
    BY <1>3, <1>4
  <2>3. offs + consumed = Read
    BY DEF Read
  <2> QED  BY <1>1, <2>1, <2>2, <2>3, Zenon DEF AfterPiece
<1> QED  BY <1>1, <1>2, <1>3

LEMMA TooLargeCases ==
    ASSUME ParserTypes, ReturnTooLarge
    PROVE  /\ phase = "return" /\ TooLarge(ctx) /\ overflowed' = TRUE
           /\ UNCHANGED <<codec, stream, outSize, player, ctx, pieces>>
           /\ \/ phase' = "done" /\ UNCHANGED <<offs, consumed>>
              \/ /\ offs' = Read /\ consumed' = 0
                 /\ phase' = IF player THEN "done" ELSE IF Read < Len(stream) THEN "scan" ELSE "return"
BY DEF ReturnTooLarge, input, Finished, Read

(* Where the next call begins, or that there is none *)
LEMMA AfterTypes ==
    ASSUME ParserTypes, UNCHANGED stream,
           \/ phase' = "done" /\ UNCHANGED <<offs, consumed>>
           \/ /\ offs' = Read /\ consumed' = 0
              /\ phase' = IF player THEN "done" ELSE IF Read < Len(stream) THEN "scan" ELSE "return"
    PROVE  /\ consumed' \in Nat /\ offs' \in Nat /\ consumed' <= Rest'
           /\ phase' \in {"scan", "return", "done"}
           /\ phase' = "scan" => consumed' < Rest'
           /\ phase' = "return" => consumed' = Rest'
<1>1. consumed \in Nat /\ offs \in Nat /\ Len(stream) \in Nat /\ consumed <= Len(stream) - offs
  BY DEF ParserTypes, Rest
<1>2. CASE phase' = "done" /\ UNCHANGED <<offs, consumed>>
  BY <1>1, <1>2 DEF Rest
<1>3. CASE /\ offs' = Read /\ consumed' = 0
           /\ phase' = IF player THEN "done" ELSE IF Read < Len(stream) THEN "scan" ELSE "return"
  BY <1>1, <1>3 DEF Rest, Read
<1> QED  BY <1>2, <1>3

LEMMA ReturnTypes == ParserTypes /\ KeptInv /\ Return => ParserTypes'
<1> SUFFICES ASSUME ParserTypes, KeptInv, Return  PROVE ParserTypes'
  OBVIOUS
<1>1. /\ ctx' = Left(ctx) /\ UNCHANGED <<codec, stream, outSize, player, overflowed>>
      /\ AtFileEnd \/ (AfterPiece /\ pieces' = Append(pieces, Queued))
  BY ReturnCases
<1>2. ctx' \in Context /\ ctx'.state = ctx.state
  BY <1>1, LeftIs
<1>3. pieces' \in Seq(Seq(Int))
  <2>1. pieces \in Seq(Seq(Int))
    BY DEF ParserTypes
  <2>2. CASE AtFileEnd
    BY <2>1, <2>2 DEF AtFileEnd
  <2>3. CASE pieces' = Append(pieces, Queued)
    BY <2>1, <2>3, QueuedIsSeq
  <2> QED  BY <1>1, <2>2, <2>3
<1>4. /\ consumed' \in Nat /\ offs' \in Nat /\ consumed' <= Rest'
      /\ phase' \in {"scan", "return", "done"}
      /\ phase' = "scan" => consumed' < Rest'
      /\ phase' = "return" => consumed' = Rest'
  BY <1>1, AfterTypes DEF AtFileEnd, AfterPiece
<1> QED  BY <1>1, <1>2, <1>3, <1>4 DEF ParserTypes

LEMMA TooLargeTypes == ParserTypes /\ ReturnTooLarge => ParserTypes'
<1> SUFFICES ASSUME ParserTypes, ReturnTooLarge  PROVE ParserTypes'
  OBVIOUS
<1>1. /\ overflowed' = TRUE /\ UNCHANGED <<codec, stream, outSize, player, ctx, pieces>>
      /\ \/ phase' = "done" /\ UNCHANGED <<offs, consumed>>
         \/ /\ offs' = Read /\ consumed' = 0
            /\ phase' = IF player THEN "done" ELSE IF Read < Len(stream) THEN "scan" ELSE "return"
  BY TooLargeCases
<1>2. /\ consumed' \in Nat /\ offs' \in Nat /\ consumed' <= Rest'
      /\ phase' \in {"scan", "return", "done"}
      /\ phase' = "scan" => consumed' < Rest'
      /\ phase' = "return" => consumed' = Rest'
  BY <1>1, AfterTypes
<1> QED  BY <1>1, <1>2 DEF ParserTypes

LEMMA WithinLess ==
    ASSUME NEW state, NEW gap \in Int, NEW less \in Int, less <= gap, Within(state, gap)
    PROVE  Within(state, less)
BY DEF Within

(* No more is kept than the code that ended the piece. *)
LEMMA ReturnKept == ParserTypes /\ KeptInv /\ Return => KeptInv'
<1> SUFFICES ASSUME ParserTypes, KeptInv, Return  PROVE KeptInv'
  OBVIOUS
<1>1. /\ phase = "return" /\ ~TooLarge(ctx) /\ ctx' = Left(ctx)
      /\ UNCHANGED <<codec, stream, outSize, player, overflowed>>
      /\ AtFileEnd \/ AfterPiece
  BY ReturnCases
<1>2. /\ ctx \in Context /\ consumed \in Nat /\ offs \in Nat /\ consumed <= Rest /\ Len(stream) \in Nat
      /\ ctx.tmp_code_start \in Int /\ ctx.code_end \in Int /\ ctx.code_start \in Int
      /\ ctx.headers_count \in Nat /\ ctx.main_count \in Nat
      /\ ctx.got_start \in BOOLEAN /\ ctx.got_end \in BOOLEAN
  BY DEF ParserTypes, Context
<1>3. consumed' = 0
  BY <1>1, <1>2 DEF AtFileEnd, AfterPiece, Rest
<1>4. /\ ctx'.state = ctx.state /\ ctx'.got_start = ctx.got_start
      /\ ctx'.tmp_code_start = ctx.tmp_code_start - consumed
  BY <1>1, LeftIs
<1>5. consumed' - ctx'.tmp_code_start = consumed - ctx.tmp_code_start
  BY <1>2, <1>3, <1>4
<1>6. CASE ctx.got_start /\ ctx.got_end
  <2>1. /\ ctx'.code_start = ctx.code_end - consumed
        /\ ctx'.bytes = Positions(offs + ctx.code_end, consumed - ctx.code_end)
        /\ ~ctx'.got_end /\ ctx'.main_count = 0
        /\ ctx'.headers_count = IF ctx.last_tag = "PICTURE" THEN 0 ELSE 1
        /\ ctx'.seek_end <=> ctx.last_tag = "PICTURE"
    BY <1>1, <1>6, LeftIs
  <2>2. consumed - ctx.code_end <= 5
    BY <1>1, <1>6 DEF KeptInv
  <2>3. Len(ctx'.bytes) = IF consumed - ctx.code_end > 0 THEN consumed - ctx.code_end ELSE 0
    <3> DEFINE from == offs + ctx.code_end
               length == consumed - ctx.code_end
    <3>1. from \in Int /\ length \in Int
      BY <1>2
    <3>2. ctx'.bytes = Positions(from, length)
      BY <2>1
    <3> HIDE DEF from, length
    <3>3. Len(Positions(from, length)) = IF length > 0 THEN length ELSE 0
      BY <3>1, PositionsAre
    <3> QED  BY <3>2, <3>3 DEF length
  <2>4. ~(ctx'.seek_end /\ (ctx'.headers_count > 0 \/ ctx'.main_count > 0))
    BY <2>1
  <2>5. Len(ctx'.bytes) <= 6 /\ (ctx'.code_start < 0 => Len(ctx'.bytes) = -ctx'.code_start)
    BY <1>2, <2>1, <2>2, <2>3
  <2> QED  BY <1>1, <1>4, <1>5, <1>6, <2>1, <2>4, <2>5 DEF KeptInv
<1>7. CASE ~(ctx.got_start /\ ctx.got_end)
  <2>1. /\ ctx'.bytes = ctx.bytes /\ ctx'.got_end = ctx.got_end
        /\ ctx'.main_count = ctx.main_count /\ ctx'.headers_count = ctx.headers_count
        /\ ctx'.seek_end = ctx.seek_end
        /\ ctx'.code_start = IF ctx.got_start THEN 0 ELSE ctx.code_start
    BY <1>1, <1>7, LeftIs
  <2>2. ~ctx.got_end
    BY <1>7 DEF KeptInv
  <2> QED  BY <1>1, <1>4, <1>5, <2>1, <2>2 DEF KeptInv
<1> QED  BY <1>6, <1>7

LEMMA TooLargeKept == ParserTypes /\ KeptInv /\ ReturnTooLarge => KeptInv'
<1> SUFFICES ASSUME ParserTypes, KeptInv, ReturnTooLarge  PROVE KeptInv'
  OBVIOUS
<1>1. /\ phase = "return" /\ TooLarge(ctx) /\ overflowed' = TRUE
      /\ UNCHANGED <<codec, stream, outSize, player, ctx, pieces>>
      /\ UNCHANGED consumed \/ consumed' = 0
  BY TooLargeCases
<1>2. /\ consumed \in Nat /\ ctx.tmp_code_start \in Int /\ ctx.got_start
      /\ outSize < Len(Copied(ctx))
  BY <1>1 DEF ParserTypes, Context, TooLarge
<1>3. Within(ctx.state, consumed' - ctx.tmp_code_start)
  <2>1. consumed' - ctx.tmp_code_start \in Int /\ consumed' - ctx.tmp_code_start <= consumed - ctx.tmp_code_start
    BY <1>1, <1>2
  <2> QED  BY <1>2, <2>1, WithinLess DEF KeptInv
<1>4. ctx.seek_end /\ (ctx.headers_count > 0 \/ ctx.main_count > 0) => consumed' - ctx.tmp_code_start <= 5
  BY <1>1, <1>2 DEF KeptInv
<1>5. ASSUME ctx.got_end  PROVE TooLarge(ctx)'
  <2>1. offs \in Int /\ offs' \in Int /\ ctx.code_start \in Int /\ ctx.code_end \in Int
    BY TooLargeTypes DEF ParserTypes, Context
  <2>2. CASE ctx.code_start >= 0
    <3> DEFINE length == ctx.code_end - ctx.code_start
    <3>1. Copied(ctx) = Positions(offs + ctx.code_start, length)
      BY <1>5, <2>2 DEF Copied, FrameLength
    <3>2. Copied(ctx)' = Positions(offs' + ctx.code_start, length)
      BY <1>1, <1>5, <2>2 DEF Copied, FrameLength, Positions
    <3>3. length \in Int /\ offs + ctx.code_start \in Int /\ offs' + ctx.code_start \in Int
      BY <2>1
    <3> HIDE DEF length
    <3>4. Len(Copied(ctx)') = Len(Copied(ctx))
      BY <3>1, <3>2, <3>3, SameLength
    <3> QED  BY <1>1, <1>2, <3>4 DEF TooLarge
  <2>3. CASE ctx.code_start < 0
    <3>1. Copied(ctx) = Positions(offs, ctx.code_end)
      BY <1>5, <2>1, <2>3 DEF Copied, FrameLength
    <3>2. Copied(ctx)' = Positions(offs', ctx.code_end)
      BY <1>1, <1>5, <2>1, <2>3 DEF Copied, FrameLength, Positions
    <3>3. Len(Copied(ctx)') = Len(Copied(ctx))
      BY <2>1, <3>1, <3>2, SameLength
    <3> QED  BY <1>1, <1>2, <3>3 DEF TooLarge
  <2> QED  BY <2>1, <2>2, <2>3
<1> QED  BY <1>1, <1>2, <1>3, <1>4, <1>5 DEF KeptInv

-----------------------------------------------------------------------------
(* Another piece follows the ones before it. *)
LEMMA JoinedAppended ==
    ASSUME ParserTypes, Joined, UNCHANGED stream,
           NEW from \in Nat, NEW to \in Nat, from < to, to <= Len(stream),
           pieces' = Append(pieces, Positions(from, to - from)),
           pieces # <<>> => pieces[Len(pieces)] # <<>> /\ LastByte(Len(pieces)) = from
    PROVE  /\ Joined'
           /\ pieces'[Len(pieces')] # <<>> /\ LastByte(Len(pieces))' = to
<1> DEFINE piece == Positions(from, to - from)
           m     == Len(pieces)
<1>1. to - from \in Nat /\ to - from > 0 /\ to - from \in 0..Len(stream) /\ from \in 0..Len(stream)
  BY DEF ParserTypes
<1>2. /\ piece \in Seq(Int) /\ Len(piece) = to - from /\ piece # <<>>
      /\ piece[1] = from + 1 /\ piece[to - from] = to
  <2>1. from \in Int /\ to - from \in Int /\ 1 \in 1..to - from /\ to - from \in 1..to - from
    BY <1>1
  <2>2. /\ piece \in Seq(Int) /\ Len(piece) = IF to - from > 0 THEN to - from ELSE 0
        /\ \A i \in 1..to - from : piece[i] = from + i
    BY <2>1, PositionsAre
  <2>3. Len(piece) = to - from /\ piece[1] = from + 1 /\ piece[to - from] = from + (to - from)
    BY <1>1, <2>1, <2>2
  <2> HIDE DEF piece
  <2> QED  BY <1>1, <2>2, <2>3
<1>3. pieces' = Append(pieces, piece)
  OBVIOUS
<1>4. \E a, length \in 0..Len(stream) : piece = Positions(a, length)
  BY <1>1
<1> HIDE DEF piece
<1>5. /\ pieces \in Seq(Seq(Int)) /\ m \in Nat /\ Len(pieces') = m + 1
      /\ pieces'[m + 1] = piece /\ \A k \in 1..m : pieces'[k] = pieces[k]
  BY <1>2, <1>3, SMTT(30) DEF ParserTypes
<1>6. pieces'[Len(pieces')] # <<>> /\ LastByte(Len(pieces))' = to
  BY <1>2, <1>5 DEF LastByte
<1> HIDE DEF m
<1>7. ASSUME NEW k \in 1..m + 1
      PROVE  /\ \E a, length \in 0..Len(stream) : pieces'[k] = Positions(a, length)
             /\ k > 1 => /\ pieces'[k - 1] # <<>> /\ pieces'[k] # <<>>
                         /\ pieces'[k][1] = pieces'[k - 1][Len(pieces'[k - 1])] + 1
  <2>1. CASE k \in 1..m
    <3>1. pieces'[k] = pieces[k] /\ (k > 1 => pieces'[k - 1] = pieces[k - 1])
      BY <1>5, <2>1
    <3>2. /\ \E a, length \in 0..Len(stream) : pieces[k] = Positions(a, length)
          /\ k > 1 => /\ pieces[k - 1] # <<>> /\ pieces[k] # <<>>
                      /\ pieces[k][1] = LastByte(k - 1) + 1
      BY <2>1 DEF Joined, m
    <3> QED  BY <3>1, <3>2 DEF LastByte
  <2>2. CASE k = m + 1
    <3>1. pieces'[k] = piece
      BY <1>5, <2>2
    <3>2. ASSUME k > 1
          PROVE  pieces'[k - 1] # <<>> /\ pieces'[k - 1][Len(pieces'[k - 1])] = from
      <4>1. k - 1 = m /\ m \in 1..m /\ pieces'[k - 1] = pieces[m] /\ pieces # <<>>
        BY <1>5, <2>2, <3>2 DEF m
      <4> QED  BY <4>1 DEF LastByte, m
    <3> QED  BY <1>2, <1>4, <3>1, <3>2
  <2>3. k \in 1..m \/ k = m + 1
    BY <1>5
  <2> QED  BY <2>1, <2>2, <2>3
<1>8. Joined'
  BY <1>5, <1>7 DEF Joined, LastByte
<1> QED  BY <1>6, <1>8

LEMMA NothingIs == Positions(0, 0) = <<>>
BY PositionsAre

(* The piece is queued whole, and the next begins where it ends. *)
LEMMA ReturnPieces == ParserTypes /\ KeptInv /\ PiecesInv /\ Return => PiecesInv'
<1> SUFFICES ASSUME ParserTypes, KeptInv, PiecesInv, Return, ~overflowed  PROVE PiecesInv'
  BY ReturnCases DEF PiecesInv
<1> DEFINE n == Len(stream)
<1>1. /\ phase = "return" /\ ctx' = Left(ctx)
      /\ UNCHANGED <<codec, stream, outSize, player, overflowed>>
      /\ AtFileEnd \/ (AfterPiece /\ pieces' = Append(pieces, Queued))
  BY ReturnCases
<1>2. /\ consumed \in Nat /\ offs \in Nat /\ n \in Nat /\ Read <= n /\ Read \in Nat
      /\ ctx.tmp_code_start \in Int /\ ctx.code_start \in Int /\ ctx.code_end \in Int
      /\ ctx.got_start \in BOOLEAN /\ ctx.got_end \in BOOLEAN /\ player \in BOOLEAN
      /\ pieces \in Seq(Seq(Int))
      /\ ctx.got_end \/ Read = n
  BY <1>1 DEF ParserTypes, Context, Rest, Read
<1>3. BeforeFirst /\ Piece /\ Joined
  BY DEF PiecesInv
<1>4. ctx'.state = ctx.state /\ ctx'.got_start = ctx.got_start /\ ctx'.tmp_code_start = ctx.tmp_code_start - consumed
  BY <1>1, LeftIs
<1>5. CASE ~ctx.got_start
  <2>1. /\ ctx'.code_start = ctx.code_start /\ ctx'.got_end = ctx.got_end
        /\ ctx'.main_count = ctx.main_count /\ ctx'.headers_count = ctx.headers_count
        /\ ctx'.seek_end = ctx.seek_end
    BY <1>1, <1>5, LeftIs
  <2>2. Read = n
    BY <1>2, <1>5 DEF KeptInv
  <2>3. /\ ctx.headers_count = 0 /\ ctx.main_count = 0 /\ ~ctx.seek_end /\ ctx.code_start = 0
        /\ \/ offs = 0 /\ pieces = <<>> /\ ctx.tmp_code_start >= 0
           \/ pieces = << <<>> >> /\ offs = n /\ ~player
    BY <1>1, <1>3, <1>5 DEF BeforeFirst
  <2>4. ~ctx'.got_start
    BY <1>4, <1>5
  <2>5. CASE AtFileEnd
    <3>1. ~player /\ offs = n /\ phase' = "done" /\ UNCHANGED <<pieces, offs, consumed>>
      BY <2>5 DEF AtFileEnd
    <3>2. consumed = 0
      BY <1>2, <2>2, <3>1 DEF Read
    <3>3. BeforeFirst'
      BY <1>1, <1>2, <1>4, <2>1, <2>3, <3>1, <3>2 DEF BeforeFirst
    <3> QED  BY <1>1, <1>3, <2>4, <3>1, <3>3 DEF PiecesInv, Piece, Joined, LastByte, CodeRead
  <2>6. CASE AfterPiece /\ pieces' = Append(pieces, Queued)
    <3>1. /\ offs' = n /\ consumed' = 0 /\ phase' \in {"done", "return"} /\ (player => phase' = "done")
          /\ player \/ offs # n
      BY <1>2, <1>5, <2>2, <2>6 DEF AfterPiece
    <3>2. pieces = <<>> /\ offs = 0
      BY <2>3, <3>1
    <3>3. Queued = <<>>
      <4>1. Kept(ctx) = <<>>
        BY <2>3 DEF Kept
      <4>2. Queued = <<>> \o <<>>
        BY <1>5, <4>1 DEF Queued
      <4> QED  BY <4>2
    <3>4. pieces' = << <<>> >>
      BY <2>6, <3>2, <3>3
    <3>5. BeforeFirst'
      BY <1>1, <2>1, <2>3, <3>1, <3>4 DEF BeforeFirst
    <3>6. Joined'
      <4>1. 0 \in 0..n /\ Len(pieces') = 1 /\ pieces'[1] = Positions(0, 0)
        BY <1>2, <3>4, NothingIs
      <4>2. ASSUME NEW k \in 1..1
            PROVE  (\E a, length \in 0..n : pieces'[k] = Positions(a, length)) /\ ~(k > 1)
        BY <4>1
      <4> QED  BY <1>1, <4>1, <4>2 DEF Joined, LastByte
    <3> QED  BY <2>4, <3>1, <3>5, <3>6 DEF PiecesInv, Piece, CodeRead
  <2> QED  BY <1>1, <2>5, <2>6
<1>6. CASE ctx.got_start /\ ctx.got_end
  <2>1. /\ ctx'.code_start = ctx.code_end - consumed
        /\ ctx'.bytes = Positions(offs + ctx.code_end, consumed - ctx.code_end)
        /\ ~ctx'.got_end /\ ctx'.main_count = 0
        /\ ctx'.headers_count = IF ctx.last_tag = "PICTURE" THEN 0 ELSE 1
        /\ ctx'.seek_end <=> ctx.last_tag = "PICTURE"
    BY <1>1, <1>6, LeftIs
  <2>2. /\ ctx.state = "NO_CODE" /\ 0 <= Begin /\ Begin < Stop /\ Stop < Read /\ Read < n
        /\ pieces # <<>> => pieces[Len(pieces)] # <<>> /\ LastByte(Len(pieces)) = Begin
    BY <1>3, <1>6 DEF Piece
  <2>3. /\ offs' = Read /\ consumed' = 0 /\ phase' = (IF player THEN "done" ELSE "scan")
        /\ pieces' = Append(pieces, Queued)
    BY <1>1, <1>6, <2>2 DEF AtFileEnd, AfterPiece
  <2>4. Begin \in Nat /\ Stop \in Nat /\ Queued = Positions(Begin, Stop - Begin)
    <3>1. FrameLength(ctx) = ctx.code_end
      BY <1>6 DEF FrameLength
    <3>2. /\ Begin \in Nat /\ offs + FrameLength(ctx) \in Nat
          /\ Queued = Positions(Begin, (offs + FrameLength(ctx)) - Begin)
      BY <1>1, <1>6, QueuedIs
    <3> QED  BY <3>1, <3>2 DEF Stop
  <2>5. Joined' /\ pieces'[Len(pieces')] # <<>> /\ LastByte(Len(pieces))' = Stop
    <3>1. Stop <= Len(stream)
      BY <1>2, <2>2, <2>4
    <3>2. pieces' = Append(pieces, Positions(Begin, Stop - Begin))
      BY <2>3, <2>4
    <3> QED  BY <1>1, <1>3, <2>2, <2>4, <3>1, <3>2, JoinedAppended
  <2>6. Begin' = Stop /\ Read' = Read
    BY <1>2, <2>1, <2>3 DEF Begin, Stop, Read
  <2>7. ctx'.bytes = Positions(Begin', -ctx'.code_start)
    <3>1. -ctx'.code_start = consumed - ctx.code_end /\ Begin' = offs + ctx.code_end
      BY <1>2, <2>1, <2>6 DEF Stop
    <3> QED  BY <2>1, <3>1
  <2>8. Piece'
    <3>1. phase' # "return" /\ ~(phase' = "done" /\ ~player') /\ ~(player' /\ phase' # "done")
      BY <1>1, <1>2, <2>3
    <3>2. ctx'.bytes = Positions(Begin, -ctx.code_start)'
      BY <2>7 DEF Positions
    <3>3. Begin' >= 0 /\ Begin' <= Read' /\ Begin' < Read' /\ ctx'.got_start
      BY <1>2, <1>4, <1>6, <2>2, <2>4, <2>6
    <3>4. pieces' # <<>> => pieces'[Len(pieces')] # <<>> /\ LastByte(Len(pieces))' = Begin'
      BY <2>5, <2>6
    <3>5. ctx'.seek_end <=> ctx'.headers_count = 0
      BY <2>1
    <3> QED  BY <2>1, <3>1, <3>2, <3>3, <3>4, <3>5 DEF Piece
  <2> QED  BY <1>4, <1>6, <2>2, <2>5, <2>8 DEF PiecesInv, BeforeFirst, CodeRead
<1>7. CASE ctx.got_start /\ ~ctx.got_end
  <2>1. /\ ctx'.code_start = 0 /\ ~ctx'.got_end
        /\ ctx'.main_count = ctx.main_count /\ ctx'.headers_count = ctx.headers_count
        /\ ctx'.seek_end = ctx.seek_end
    BY <1>1, <1>7, LeftIs
  <2>2. /\ ctx.main_count = 0 /\ (ctx.seek_end <=> ctx.headers_count = 0)
        /\ \/ Begin < Read /\ offs < n
           \/ Begin = offs /\ offs = n /\ ~player
        /\ pieces # <<>> => pieces[Len(pieces)] # <<>> /\ LastByte(Len(pieces)) = Begin
    BY <1>1, <1>3, <1>7 DEF Piece
  <2>3. Read = n
    BY <1>2, <1>7
  <2>4. CASE AtFileEnd
    <3>1. ~player /\ offs = n /\ phase' = "done" /\ UNCHANGED <<pieces, offs, consumed>>
      BY <2>4 DEF AtFileEnd
    <3>2. Begin = n /\ Begin' = n /\ Read' = n
      BY <1>2, <2>1, <2>2, <2>3, <3>1 DEF Begin, Read
    <3>3. Piece'
      BY <1>1, <1>2, <2>1, <2>2, <3>1, <3>2 DEF Piece, LastByte
    <3> QED  BY <1>1, <1>3, <1>4, <1>7, <3>1, <3>3 DEF PiecesInv, BeforeFirst, Joined, LastByte, CodeRead
  <2>5. CASE AfterPiece /\ pieces' = Append(pieces, Queued)
    <3>1. /\ offs' = n /\ consumed' = 0 /\ phase' = (IF player THEN "done" ELSE "return")
          /\ player \/ offs # n
      BY <1>2, <1>7, <2>3, <2>5 DEF AfterPiece
    <3>2. Begin < n
      BY <2>2, <2>3, <3>1
    <3>3. Begin \in Nat /\ Queued = Positions(Begin, n - Begin)
      <4>1. offs + FrameLength(ctx) = n
        BY <1>7, <2>3 DEF FrameLength, Read
      <4>2. Begin \in Nat /\ Queued = Positions(Begin, (offs + FrameLength(ctx)) - Begin)
        BY <1>1, <1>7, QueuedIs
      <4> QED  BY <4>1, <4>2
    <3>4. Joined' /\ pieces'[Len(pieces')] # <<>> /\ LastByte(Len(pieces))' = n
      <4>1. n <= Len(stream) /\ pieces' = Append(pieces, Positions(Begin, n - Begin))
        BY <1>2, <2>5, <3>3
      <4> HIDE DEF n
      <4> QED  BY <1>1, <1>2, <1>3, <2>2, <3>2, <3>3, <4>1, JoinedAppended
    <3>5. Begin' = n /\ Read' = n
      BY <1>2, <2>1, <3>1 DEF Begin, Read
    <3>6. Piece'
      <4>1. phase' # "scan" /\ ~(phase' = "done" /\ ~player') /\ ~(player' /\ phase' # "done")
            /\ (phase' = "return" => ~player')
        BY <1>1, <1>2, <3>1
      <4> QED  BY <1>1, <1>2, <2>1, <2>2, <3>1, <3>4, <3>5, <4>1 DEF Piece
    <3> QED  BY <1>4, <1>7, <3>1, <3>4, <3>6 DEF PiecesInv, BeforeFirst, CodeRead
  <2> QED  BY <1>1, <2>4, <2>5
<1> QED  BY <1>2, <1>5, <1>6, <1>7

-----------------------------------------------------------------------------
(* Two start codes of a stream without overlaps *)
LEMMA PrefixesApart ==
    ASSUME stream \in Seq(0..255), NEW p \in 1..Len(stream) - 2, NEW q \in 1..Len(stream) - 2,
           Prefix(p), Prefix(q), p < q, ~Overlap
    PROVE  q > p + 3 /\ (Slice(p) => q > p + 4)
<1>1. p \in Int /\ q \in Int
  OBVIOUS
<1>2. q # p + 1
  <2>1. ASSUME q = p + 1  PROVE FALSE
    <3>1. q + 1 = p + 2
      BY <1>1, <2>1
    <3> QED  BY <3>1 DEF Prefix
  <2> QED  BY <2>1
<1>3. q # p + 2
  BY DEF Prefix
<1>4. q # p + 3 /\ ~(q = p + 4 /\ Slice(p))
  BY DEF Overlap
<1> QED  BY <1>1, <1>2, <1>3, <1>4

LEMMA PictureIs ==
    ASSUME ParserTypes, NEW p \in 1..Len(stream), IsPicture(p)
    PROVE  /\ p \in 1..Len(stream) - 2 /\ Prefix(p) /\ p + CodeLen - 1 <= Len(stream)
           /\ PictureByte(stream[p + 3])
           /\ codec = "h264" => Slice(p) /\ stream[p + 4] >= 128
<1>1. codec \in {"mpeg4", "h264", "mpeg2"} /\ Len(stream) \in Nat
  BY DEF ParserTypes
<1>2. Prefix(p) /\ p + 3 <= Len(stream)
  BY DEF IsPicture
<1>3. p \in 1..Len(stream) - 2
  BY <1>1, <1>2
<1>4. CASE codec = "h264"
  <2>1. stream[p + 3] % 32 \in {1, 5} /\ p + 4 <= Len(stream) /\ stream[p + 4] >= 128
    BY <1>4 DEF IsPicture
  <2>2. PictureByte(stream[p + 3]) /\ Slice(p)
    BY <1>4, <2>1 DEF PictureByte, Slice
  <2>3. CodeLen = 5
    BY <1>4 DEF CodeLen
  <2> QED  BY <1>1, <1>2, <1>3, <2>1, <2>2, <2>3
<1>5. CASE codec # "h264"
  <2>1. PictureByte(stream[p + 3])
    BY <1>1, <1>5 DEF IsPicture, PictureByte
  <2>2. CodeLen = 4
    BY <1>5 DEF CodeLen
  <2> QED  BY <1>1, <1>2, <1>3, <1>5, <2>1, <2>2
<1> QED  BY <1>4, <1>5

(* Where the code is whose last byte has come *)
LEMMA FoundCode ==
    ASSUME ParserTypes, PiecesInv, ~overflowed, Plain, phase = "scan", Read < Len(stream),
           NEW c \in Context, Found(c)
    PROVE  \E q \in 1..Len(stream) - 2 :
              /\ Prefix(q) /\ q \in {offs + ctx.tmp_code_start + 1, offs + ctx.tmp_code_start + 2}
              /\ \/ Read = q + 2 /\ ctx.state = "CODE_1x1"
                 \/ Read = q + 3 /\ ctx.state = "CODE_SLICE" /\ Slice(q)
<1>1. /\ consumed \in Nat /\ offs \in Nat /\ ctx.tmp_code_start \in Int /\ Len(stream) \in Nat
      /\ Read = offs + consumed /\ CodeRead
  BY DEF ParserTypes, Context, PiecesInv, Read
<1>2. ctx.state \in {"CODE_1x1", "CODE_SLICE"}
  <2> SUFFICES ASSUME ctx.state = "CODE_0x2", codec = "mpeg4", Byte \in 128..131  PROVE FALSE
    BY DEF Found, HeaderFound, PictureFound
  <2>1. /\ ctx.tmp_code_start >= 0 /\ consumed - ctx.tmp_code_start = 2
        /\ stream[Read] = 0 /\ stream[Read - 1] = 0
    BY <1>1 DEF CodeRead
  <2>2. /\ Read - 1 \in 1..Len(stream) - 2 /\ Read - 1 + 1 = Read /\ Read - 1 + 2 = Read + 1
    BY <1>1, <2>1
  <2>3. ShortHeaders
    BY <2>1, <2>2 DEF ShortHeaders, Byte
  <2> QED  BY <2>3 DEF Plain
<1>3. CASE ctx.state = "CODE_1x1"
  <2>1. Prefix(Read - 2) /\ ctx.tmp_code_start >= 0 /\ consumed - ctx.tmp_code_start \in {3, 4}
    BY <1>1, <1>3 DEF CodeRead
  <2>2. /\ Read - 2 \in 1..Len(stream) - 2 /\ Read = (Read - 2) + 2
        /\ Read - 2 \in {offs + ctx.tmp_code_start + 1, offs + ctx.tmp_code_start + 2}
    BY <1>1, <2>1, SMTT(30)
  <2> QED  BY <1>3, <2>1, <2>2
<1>4. CASE ctx.state = "CODE_SLICE"
  <2>1. /\ Prefix(Read - 3) /\ Slice(Read - 3)
        /\ ctx.tmp_code_start >= 0 /\ consumed - ctx.tmp_code_start \in {4, 5}
    BY <1>1, <1>4 DEF CodeRead
  <2>2. /\ Read - 3 \in 1..Len(stream) - 2 /\ Read = (Read - 3) + 3
        /\ Read - 3 \in {offs + ctx.tmp_code_start + 1, offs + ctx.tmp_code_start + 2}
    BY <1>1, <2>1, SMTT(30)
  <2> QED  BY <1>4, <2>1, <2>2
<1> QED  BY <1>2, <1>3, <1>4

(* The position of the picture whose code is complete with the next byte *)
Complete == Read + 2 - CodeLen

LEMMA FoundPicture ==
    ASSUME ParserTypes, PiecesInv, ~overflowed, Plain, phase = "scan", Read < Len(stream),
           NEW c \in Context, Found(c), NEW p \in 1..Len(stream), IsPicture(p),
           offs + ctx.tmp_code_start < p, p <= offs + ctx.tmp_code_start + 2
    PROVE  PictureFound(c, Byte) /\ p = Complete
<1>1. PICK q \in 1..Len(stream) - 2 :
              /\ Prefix(q) /\ q \in {offs + ctx.tmp_code_start + 1, offs + ctx.tmp_code_start + 2}
              /\ \/ Read = q + 2 /\ ctx.state = "CODE_1x1"
                 \/ Read = q + 3 /\ ctx.state = "CODE_SLICE" /\ Slice(q)
  BY FoundCode
<1>2. /\ offs \in Nat /\ ctx.tmp_code_start \in Int /\ Len(stream) \in Nat /\ stream \in Seq(0..255)
      /\ ~Overlap /\ (ctx.state = "CODE_SLICE" => codec = "h264")
  <2>1. ~Overlap
    BY DEF Plain
  <2>2. /\ offs \in Nat /\ stream \in Seq(0..255) /\ ctx \in Context
        /\ ctx.state \in {"CODE_0x3", "CODE_SLICE"} => codec = "h264"
    BY DEF ParserTypes
  <2>3. ctx.tmp_code_start \in Int
    BY <2>2 DEF Context
  <2> QED  BY <2>1, <2>2, <2>3
<1>3. p \in 1..Len(stream) - 2 /\ Prefix(p) /\ PictureByte(stream[p + 3])
  BY PictureIs
<1>4. p = q
  <2>1. ~(p < q)
    BY <1>1, <1>2, <1>3, PrefixesApart
  <2>2. ~(q < p)
    BY <1>1, <1>2, <1>3, PrefixesApart
  <2> QED  BY <1>1, <1>3, <2>1, <2>2
<1>5. CASE Read = q + 2 /\ ctx.state = "CODE_1x1"
  <2>1. Byte = stream[p + 3]
    <3>1. Read + 1 = p + 3
      BY <1>1, <1>4, <1>5
    <3> QED  BY <3>1 DEF Byte
  <2>2. PictureFound(c, Byte)
    BY <1>3, <2>1 DEF Found, HeaderFound
  <2>3. codec # "h264"
    BY <1>5, <2>2 DEF PictureFound
  <2> QED  BY <1>1, <1>4, <1>5, <2>2, <2>3 DEF Complete, CodeLen
<1>6. CASE Read = q + 3 /\ ctx.state = "CODE_SLICE"
  <2>1. PictureFound(c, Byte)
    BY <1>6 DEF Found, HeaderFound
  <2> QED  BY <1>1, <1>2, <1>4, <1>6, <2>1 DEF Complete, CodeLen
<1> QED  BY <1>1, <1>5, <1>6

(* When the last byte of a picture's code comes, the switch finds it. *)
LEMMA PictureCompletes ==
    ASSUME ParserTypes, Ready, phase = "scan", NEW c \in Context, Round(c),
           NEW p \in 1..Len(stream), IsPicture(p), p + CodeLen - 1 = Read + 1,
           ctx.got_start => p > Begin + 2
    PROVE  PictureFound(c, Byte) /\ p = Complete
<1>1. codec \in {"mpeg4", "h264", "mpeg2"} /\ Len(stream) \in Nat /\ Read \in Nat
  BY DEF ParserTypes, Read
<1>2. PictureByte(stream[p + 3]) /\ (codec = "h264" => stream[p + 4] >= 128)
  BY PictureIs
<1>3. CASE codec = "h264"
  <2>1. Read = p + 3 /\ Read + 1 = p + 4 /\ CodeLen = 5
    BY <1>1, <1>3 DEF CodeLen
  <2>2. ctx.state = "CODE_SLICE"
    BY <2>1 DEF Ready
  <2>3. Byte >= 128
    BY <1>2, <1>3, <2>1 DEF Byte
  <2>4. ~Quiet(c, Byte) /\ ~HeaderFound(c, Byte)
    <3>1. Byte \in Int
      <4>1. Read + 1 \in 1..Len(stream)
        BY <1>1, <2>1, PictureIs
      <4>2. Byte \in 0..255
        BY <4>1, Element DEF Byte, ParserTypes
      <4> QED  BY <4>2
    <3> QED  BY <2>2, <2>3, <3>1 DEF Quiet, HeaderFound
  <2> QED  BY <2>1, <2>4 DEF Round, Complete
<1>4. CASE codec # "h264"
  <2>1. Read = p + 2 /\ Read + 1 = p + 3 /\ CodeLen = 4
    BY <1>1, <1>4 DEF CodeLen
  <2>2. ctx.state = "CODE_1x1"
    BY <2>1 DEF Ready
  <2>3. PictureByte(Byte)
    BY <1>2, <2>1 DEF Byte
  <2>4. ~Quiet(c, Byte) /\ ~HeaderFound(c, Byte)
    BY <1>4, <2>2, <2>3 DEF Quiet, HeaderFound
  <2> QED  BY <2>1, <2>4 DEF Round, Complete
<1> QED  BY <1>3, <1>4

(* The byte that comes next in a picture's code takes the automaton on. *)
LEMMA ScanReady ==
    ASSUME ParserTypes, KeptInv, PiecesInv, ~overflowed, Plain, Ready, Scan
    PROVE  Ready'
<1>1. PICK c \in Context : Round(c)
  BY ScanRound
<1>2. /\ phase = "scan" /\ Byte \in 0..255 /\ Read < Len(stream)
      /\ UNCHANGED <<codec, stream, outSize, player, offs, pieces, overflowed>>
  BY ScanRound
<1>3. /\ consumed \in Nat /\ offs \in Nat /\ Read \in Nat /\ Len(stream) \in Nat
      /\ stream \in Seq(0..255) /\ codec \in {"mpeg4", "h264", "mpeg2"} /\ ctx \in Context
      /\ CodeLen \in {4, 5}
  BY DEF ParserTypes, Read, CodeLen
<1>4. ctx'.state = c.state
  BY <1>1 DEF Round
<1> SUFFICES ASSUME phase' = "scan", NEW p \in 1..Len(stream), IsPicture(p),
                    p <= Read', Read' < p + CodeLen - 1, ctx'.got_start => p > Begin' + 2
             PROVE  /\ Read' = p => c.state \in {"CODE_0x1", "CODE_0x2", "CODE_0x3"}
                    /\ Read' = p + 1 => c.state \in {"CODE_0x2", "CODE_0x3"}
                    /\ Read' = p + 2 => c.state = "CODE_1x1"
                    /\ Read' = p + 3 => c.state = "CODE_SLICE"
  BY <1>2, <1>4 DEF Ready, IsPicture, Prefix, CodeLen
<1>5. /\ p \in 1..Len(stream) - 2 /\ Prefix(p) /\ p + CodeLen - 1 <= Len(stream)
      /\ PictureByte(stream[p + 3])
      /\ codec = "h264" => Slice(p) /\ stream[p + 4] >= 128
  BY PictureIs
<1>6. /\ Read' = Read + 1
      /\ ctx.got_start => ctx'.got_start /\ Begin' = Begin
  <2>1. QuietRound(c) \/ FirstRound(c) \/ FurtherRound(c)
    BY <1>1, <1>2, RoundKinds DEF EndRound, Ending
  <2>2. Advance
    BY <2>1 DEF QuietRound, FirstRound, FurtherRound, GoesOn
  <2>3. Read' = Read + 1
    BY <1>2, <1>3, <2>2 DEF Advance, Read
  <2>4. ASSUME ctx.got_start  PROVE ctx'.got_start /\ ctx'.code_start = ctx.code_start
    BY <2>1, <2>4 DEF QuietRound, FirstRound, FurtherRound, GoesOn
  <2> QED  BY <1>2, <2>3, <2>4 DEF Begin
<1>7. CASE Read' = p
  <2>1. Byte = 0
    BY <1>5, <1>6, <1>7 DEF Byte, Prefix
  <2>2. ctx.state \notin {"CODE_1x1", "CODE_SLICE"}
    <3>1. ASSUME ctx.state = "CODE_1x1"  PROVE FALSE
      <4>1. Prefix(Read - 2)
        BY <1>2, <3>1 DEF PiecesInv, CodeRead
      <4>2. Read - 2 \in 1..Len(stream) - 2
        <5>1. ctx.tmp_code_start \in Int
          BY <1>3 DEF Context
        <5>2. ctx.tmp_code_start >= 0 /\ consumed - ctx.tmp_code_start \in {3, 4}
          BY <1>2, <3>1 DEF PiecesInv, CodeRead
        <5> QED  BY <1>2, <1>3, <5>1, <5>2 DEF Read
      <4>3. p = (Read - 2) + 3
        BY <1>3, <1>6, <1>7
      <4> QED  BY <1>5, <4>1, <4>2, <4>3 DEF Plain, Overlap
    <3>2. ASSUME ctx.state = "CODE_SLICE"  PROVE FALSE
      <4>1. Prefix(Read - 3) /\ Slice(Read - 3)
        BY <1>2, <3>2 DEF PiecesInv, CodeRead
      <4>2. Read - 3 \in 1..Len(stream) - 2
        <5>1. ctx.tmp_code_start \in Int
          BY <1>3 DEF Context
        <5>2. ctx.tmp_code_start >= 0 /\ consumed - ctx.tmp_code_start \in {4, 5}
          BY <1>2, <3>2 DEF PiecesInv, CodeRead
        <5> QED  BY <1>2, <1>3, <5>1, <5>2 DEF Read
      <4>3. p = (Read - 3) + 4
        BY <1>3, <1>6, <1>7
      <4> QED  BY <1>5, <4>1, <4>2, <4>3 DEF Plain, Overlap
    <3> QED  BY <3>1, <3>2
  <2>3. Quiet(c, Byte)
    BY <1>1, <2>1, <2>2 DEF Round, HeaderFound, PictureFound
  <2>4. c.state \in {"CODE_0x1", "CODE_0x2", "CODE_0x3"}
    BY <2>1, <2>2, <2>3 DEF Quiet
  <2> QED  BY <1>3, <1>7, <2>4
<1>8. CASE Read' > p
  <2>1. p <= Read /\ Read < p + CodeLen - 1 /\ (ctx.got_start => p > Begin + 2)
    BY <1>3, <1>6, <1>8
  <2>2. /\ Read = p => ctx.state \in {"CODE_0x1", "CODE_0x2", "CODE_0x3"}
        /\ Read = p + 1 => ctx.state \in {"CODE_0x2", "CODE_0x3"}
        /\ Read = p + 2 => ctx.state = "CODE_1x1"
    BY <1>2, <2>1 DEF Ready
  <2>3. Quiet(c, Byte) \/ HeaderFound(c, Byte) \/ PictureFound(c, Byte)
    BY <1>1 DEF Round
  <2>4. CASE Read = p
    <3>1. Byte = 0
      BY <1>5, <2>4 DEF Byte, Prefix
    <3>2. Quiet(c, Byte)
      BY <2>2, <2>3, <2>4, <3>1 DEF HeaderFound, PictureFound
    <3>3. c.state \in {"CODE_0x2", "CODE_0x3"}
      BY <2>2, <2>4, <3>1, <3>2 DEF Quiet
    <3> QED  BY <1>3, <1>6, <2>4, <3>3
  <2>5. CASE Read = p + 1
    <3>1. Byte = 1
      <4>1. Read + 1 = p + 2
        BY <1>3, <2>5
      <4> QED  BY <1>5, <4>1 DEF Byte, Prefix
    <3>2. Quiet(c, Byte)
      BY <2>2, <2>3, <2>5, <3>1 DEF HeaderFound, PictureFound
    <3>3. c.state = "CODE_1x1"
      BY <2>2, <2>5, <3>1, <3>2 DEF Quiet
    <3> QED  BY <1>3, <1>6, <2>5, <3>3
  <2>6. CASE Read = p + 2
    <3>1. PictureByte(Byte)
      <4>1. Read + 1 = p + 3
        BY <1>3, <2>6
      <4> QED  BY <1>5, <4>1 DEF Byte
    <3>2. codec = "h264"
      BY <1>3, <1>6, <2>6 DEF CodeLen
    <3>3. Quiet(c, Byte)
      BY <2>2, <2>3, <2>6, <3>1, <3>2 DEF HeaderFound, PictureFound
    <3>4. c.state = "CODE_SLICE"
      BY <2>2, <2>6, <3>1, <3>3 DEF Quiet
    <3> QED  BY <1>3, <1>6, <2>6, <3>4
  <2> QED  BY <1>3, <1>6, <2>1, <2>4, <2>5, <2>6
<1> QED  BY <1>3, <1>6, <1>7, <1>8

(* What can have been seen after one more byte *)
LEMMA SeenAfter ==
    ASSUME ParserTypes, Ready, phase = "scan", NEW c \in Context, Round(c),
           NEW p \in 1..Len(stream), IsPicture(p), p + CodeLen - 1 <= Read + 1,
           ctx.got_start => p > Begin + 2
    PROVE  p + CodeLen - 1 <= Read \/ (PictureFound(c, Byte) /\ p = Complete)
<1>1. Read \in Nat /\ CodeLen \in {4, 5} /\ p \in Int
  BY DEF ParserTypes, Read, CodeLen
<1>2. CASE p + CodeLen - 1 = Read + 1
  BY <1>2, PictureCompletes
<1>3. p + CodeLen - 1 <= Read \/ p + CodeLen - 1 = Read + 1
  BY <1>1
<1> QED  BY <1>2, <1>3

(* A round ends a piece at the second picture, or at the header before it. *)
LEMMA ScanPictureSeen ==
    ASSUME ParserTypes, KeptInv, PiecesInv, ~overflowed, Plain, Ready, PictureSeen, Scan
    PROVE  PictureSeen'
<1>1. PICK c \in Context : Round(c)
  BY ScanRound
<1>2. /\ phase = "scan" /\ Read < Len(stream)
      /\ UNCHANGED <<codec, stream, outSize, player, offs, pieces, overflowed>>
  BY ScanRound
<1>3. /\ consumed \in Nat /\ offs \in Nat /\ Read \in Nat /\ Len(stream) \in Nat /\ stream \in Seq(0..255)
      /\ ctx \in Context /\ ctx.tmp_code_start \in Int /\ ctx.code_start \in Int
      /\ CodeLen \in {4, 5} /\ Begin \in Int
  <2>1. /\ consumed \in Nat /\ offs \in Nat /\ stream \in Seq(0..255) /\ ctx \in Context
    BY DEF ParserTypes
  <2>2. ctx.tmp_code_start \in Int /\ ctx.code_start \in Int
    BY <2>1 DEF Context
  <2> QED  BY <2>1, <2>2 DEF Read, CodeLen, Begin
<1>4. ~ctx.got_end
  BY <1>2 DEF KeptInv
<1>5. \A p : IsPicture(p)' <=> IsPicture(p)
  BY <1>2 DEF IsPicture, Prefix
<1>6. CodeLen' = CodeLen /\ Len(stream') = Len(stream)
  BY <1>2 DEF CodeLen
<1>7. ctx'.last_tag = c.last_tag /\ ctx'.tmp_code_start = c.tmp_code_start
  BY <1>1 DEF Round
<1> DEFINE There(p, begin, read) == IsPicture(p) /\ begin < p /\ (p + CodeLen - 1 <= read \/ p <= begin + 2)
<1>8. /\ ~ctx.got_start => \A p \in 1..Len(stream) : IsPicture(p) => p + CodeLen - 1 > Read
      /\ ctx.got_start =>
            /\ \A p \in 1..Len(stream) : There(p, Begin, Read) => ctx.seek_end
            /\ \A p, q \in 1..Len(stream) : There(p, Begin, Read) /\ There(q, Begin, Read) => p = q
  BY <1>4 DEF PictureSeen, Seen
<1>9. SUFFICES
        /\ ~ctx'.got_start => \A p \in 1..Len(stream) : IsPicture(p) => p + CodeLen - 1 > Read'
        /\ ctx'.got_start /\ ~ctx'.got_end =>
              /\ \A p \in 1..Len(stream) : There(p, Begin', Read') => ctx'.seek_end
              /\ \A p, q \in 1..Len(stream) : There(p, Begin', Read') /\ There(q, Begin', Read') => p = q
        /\ ctx'.got_end =>
              /\ \A p, q \in 1..Len(stream) :
                    IsPicture(p) /\ Begin' < p /\ p <= Stop' /\ IsPicture(q) /\ Begin' < q /\ q <= Stop' => p = q
              /\ \A p \in 1..Len(stream) : There(p, Stop', Read') => ctx'.last_tag = "PICTURE"
              /\ \A p, q \in 1..Len(stream) : There(p, Stop', Read') /\ There(q, Stop', Read') => p = q
              /\ \A p \in 1..Len(stream) : IsPicture(p) /\ Stop' + 2 < p => Read' < p
  BY <1>5, <1>6 DEF PictureSeen, Seen
<1>10. Quiet(c, Byte) => ~PictureFound(c, Byte)
  BY <1>3 DEF Quiet, PictureFound, Context
<1>11. CASE QuietRound(c)
  <2>1. /\ Read' = Read + 1 /\ Begin' = Begin /\ ~ctx'.got_end
        /\ ctx'.got_start = ctx.got_start /\ ctx'.seek_end = ctx.seek_end
        /\ ~PictureFound(c, Byte)
    BY <1>2, <1>3, <1>10, <1>11 DEF QuietRound, Advance, Read, Begin
  <2>2. CASE ~ctx.got_start
    <3>1. ASSUME NEW p \in 1..Len(stream), IsPicture(p)  PROVE p + CodeLen - 1 > Read'
      <4>1. ~(p + CodeLen - 1 <= Read)
        BY <1>3, <1>8, <2>2, <3>1
      <4>2. ~(p + CodeLen - 1 <= Read + 1)
        BY <1>1, <1>2, <2>1, <2>2, <3>1, <4>1, SeenAfter
      <4> QED  BY <1>3, <2>1, <4>2
    <3> QED  BY <2>1, <2>2, <3>1
  <2>3. CASE ctx.got_start
    <3>1. ASSUME NEW p \in 1..Len(stream), There(p, Begin', Read')  PROVE There(p, Begin, Read)
      <4>1. IsPicture(p) /\ Begin < p /\ (p + CodeLen - 1 <= Read + 1 \/ p <= Begin + 2)
        BY <2>1, <3>1
      <4>2. CASE p > Begin + 2
        <5>1. p + CodeLen - 1 <= Read + 1
          BY <1>3, <4>1, <4>2
        <5> QED  BY <1>1, <1>2, <2>1, <4>1, <4>2, <5>1, SeenAfter
      <4>3. p > Begin + 2 \/ p <= Begin + 2
        BY <1>3
      <4> QED  BY <4>1, <4>2, <4>3
    <3> HIDE DEF There
    <3> QED  BY <1>8, <2>1, <2>3, <3>1
  <2> QED  BY <2>2, <2>3
<1>12. CASE FirstRound(c)
  <2>1. /\ ~ctx.got_start /\ ctx'.got_start /\ ~ctx'.got_end /\ Found(c) /\ Read' = Read + 1
        /\ ctx'.seek_end <=> PictureFound(c, Byte)
        /\ ctx'.code_start = ctx'.tmp_code_start
    BY <1>2, <1>3, <1>12 DEF FirstRound, GoesOn, Advance, Read
  <2>2. c.tmp_code_start = ctx.tmp_code_start
    BY <1>2, <2>1, FoundWhere
  <2>3. Begin' = offs + ctx.tmp_code_start
    BY <1>2, <1>7, <2>1, <2>2 DEF Begin
  <2>4. ASSUME NEW p \in 1..Len(stream), There(p, Begin', Read')  PROVE PictureFound(c, Byte) /\ p = Complete
    <3>1. IsPicture(p) /\ Begin' < p /\ (p + CodeLen - 1 <= Read + 1 \/ p <= Begin' + 2)
      BY <2>1, <2>4
    <3>2. CASE p + CodeLen - 1 <= Read + 1
      <4>1. ~(p + CodeLen - 1 <= Read)
        BY <1>3, <1>8, <2>1, <3>1
      <4> QED  BY <1>1, <1>2, <2>1, <3>1, <3>2, <4>1, SeenAfter
    <3>3. CASE p <= Begin' + 2
      BY <1>2, <2>1, <2>3, <3>1, <3>3, FoundPicture
    <3> QED  BY <3>1, <3>2, <3>3
  <2> HIDE DEF There
  <2> QED  BY <2>1, <2>4
<1>13. CASE FurtherRound(c)
  <2>1. /\ ctx.got_start /\ ~ctx.seek_end /\ ctx'.got_start /\ ~ctx'.got_end /\ Read' = Read + 1
        /\ ctx'.seek_end <=> PictureFound(c, Byte)
        /\ Begin' = Begin
    BY <1>2, <1>3, <1>13 DEF FurtherRound, GoesOn, Advance, Read, Begin
  <2>4. ASSUME NEW p \in 1..Len(stream), There(p, Begin', Read')  PROVE PictureFound(c, Byte) /\ p = Complete
    <3>1. IsPicture(p) /\ Begin < p /\ (p + CodeLen - 1 <= Read + 1 \/ p <= Begin + 2)
      BY <2>1, <2>4
    <3>2. ~(p + CodeLen - 1 <= Read \/ p <= Begin + 2)
      BY <1>8, <2>1, <3>1
    <3>3. p + CodeLen - 1 <= Read + 1 /\ p > Begin + 2 /\ ~(p + CodeLen - 1 <= Read)
      BY <1>3, <3>1, <3>2
    <3> QED  BY <1>1, <1>2, <3>1, <3>3, SeenAfter
  <2> HIDE DEF There
  <2> QED  BY <2>1, <2>4
<1>14. CASE EndRound(c)
  <2>1. /\ ctx.got_start /\ ctx'.got_start /\ ctx'.got_end /\ Found(c) /\ Read' = Read
        /\ Begin' = Begin /\ ctx'.code_end = ctx'.tmp_code_start
    BY <1>2, <1>3, <1>14 DEF EndRound, Ending, Read, Begin
  <2>2. c.tmp_code_start = ctx.tmp_code_start
    BY <1>2, <2>1, FoundWhere
  <2>3. Stop' = offs + ctx.tmp_code_start /\ Stop' \in Int
    BY <1>2, <1>3, <1>7, <2>1, <2>2 DEF Stop
  <2>4. PICK q \in 1..Len(stream) - 2 :
              /\ Prefix(q) /\ q \in {offs + ctx.tmp_code_start + 1, offs + ctx.tmp_code_start + 2}
              /\ \/ Read = q + 2 /\ ctx.state = "CODE_1x1"
                 \/ Read = q + 3 /\ ctx.state = "CODE_SLICE" /\ Slice(q)
    BY <1>2, <2>1, FoundCode
  <2>5. ASSUME NEW p \in 1..Len(stream), IsPicture(p)
        PROVE  /\ p \in Int /\ q \in Int
               /\ p < q => p + 3 < q
               /\ q < p => q + 3 < p /\ (Slice(q) => q + 4 < p)
    <3>1. p \in 1..Len(stream) - 2 /\ Prefix(p)
      BY <2>5, PictureIs
    <3>2. ~Overlap
      BY DEF Plain
    <3>3. p < q => p + 3 < q
      BY <1>3, <2>4, <3>1, <3>2, PrefixesApart
    <3>4. q < p => q + 3 < p /\ (Slice(q) => q + 4 < p)
      BY <1>3, <2>4, <3>1, <3>2, PrefixesApart
    <3> QED  BY <3>3, <3>4
  <2>6. ASSUME NEW p \in 1..Len(stream), IsPicture(p), Begin' < p, p <= Stop'
        PROVE  There(p, Begin, Read)
    <3>1. p < q
      BY <2>3, <2>4, <2>6
    <3>2. p + CodeLen - 1 <= Read
      BY <1>3, <2>4, <2>5, <2>6, <3>1
    <3> QED  BY <2>1, <2>6, <3>2
  <2>7. ASSUME NEW p \in 1..Len(stream), There(p, Stop', Read')
        PROVE  PictureFound(c, Byte) /\ p = Complete
    <3>1. IsPicture(p) /\ Stop' < p /\ (p + CodeLen - 1 <= Read \/ p <= Stop' + 2)
      BY <2>1, <2>7
    <3>2. p <= Stop' + 2
      <4> SUFFICES ASSUME p + CodeLen - 1 <= Read, p > Stop' + 2  PROVE FALSE
        BY <2>3, <3>1
      <4>1. q < p
        BY <2>3, <2>4
      <4> QED  BY <1>3, <2>4, <2>5, <3>1, <4>1
    <3> QED  BY <1>2, <2>1, <2>3, <3>1, <3>2, FoundPicture
  <2>8. ASSUME NEW p \in 1..Len(stream), IsPicture(p), Stop' + 2 < p  PROVE Read' < p
    <3>1. q < p
      BY <2>3, <2>4, <2>8
    <3>2. p > q + 3 /\ (Slice(q) => p > q + 4)
      BY <2>5, <2>8, <3>1
    <3> QED  BY <2>1, <2>4, <3>2
  <2>9. PictureFound(c, Byte) => ctx'.last_tag = "PICTURE"
    BY <1>7 DEF PictureFound
  <2> HIDE DEF There
  <2>10. \A p, r \in 1..Len(stream) : There(p, Begin, Read) /\ There(r, Begin, Read) => p = r
    BY <1>8, <2>1
  <2> QED  BY <2>1, <2>6, <2>7, <2>8, <2>9, <2>10
<1> QED  BY <1>1, <1>2, <1>11, <1>12, <1>13, <1>14, RoundKinds

LEMMA ScanPictures == ParserTypes /\ KeptInv /\ PiecesInv /\ PicturesInv /\ Scan => PicturesInv'
<1> SUFFICES ASSUME ParserTypes, KeptInv, PiecesInv, PicturesInv, Scan, ~overflowed, Plain
             PROVE  PicturesInv'
  BY ScanRound DEF PicturesInv, Plain, Overlap, ShortHeaders, Prefix, Slice
<1>1. UNCHANGED <<codec, stream, pieces>>
  BY ScanRound
<1>2. Ready' /\ PictureSeen'
  BY ScanReady, ScanPictureSeen DEF PicturesInv
<1>3. \A p : IsPicture(p)' <=> IsPicture(p)
  BY <1>1 DEF IsPicture, Prefix
<1>4. ASSUME NEW k \in 1..Len(pieces)  PROVE SingleIn(pieces[k])'
  <2>1. SingleIn(pieces[k])
    BY DEF PicturesInv
  <2> QED  BY <1>1, <1>3, <2>1 DEF SingleIn
<1> QED  BY <1>1, <1>2, <1>4 DEF PicturesInv

(* The pictures of a piece are those that begin between its ends. *)
LEMMA PiecePictures ==
    ASSUME NEW from \in Nat, NEW to \in Nat, from <= to,
           \A p, q \in 1..Len(stream) :
               IsPicture(p) /\ from < p /\ p <= to /\ IsPicture(q) /\ from < q /\ q <= to => p = q
    PROVE  SingleIn(Positions(from, to - from))
<1> DEFINE piece == Positions(from, to - from)
<1>1. to - from \in Int /\ from \in Int
  OBVIOUS
<1>2. Len(piece) <= to - from /\ \A i \in 1..to - from : piece[i] = from + i
  BY <1>1, PositionsAre
<1> HIDE DEF piece
<1>3. ASSUME NEW p \in 1..Len(stream), NEW i \in 1..Len(piece), piece[i] = p, Len(piece) \in Nat
      PROVE  from < p /\ p <= to
  <2>1. i \in 1..to - from
    BY <1>1, <1>2, <1>3
  <2> QED  BY <1>2, <1>3, <2>1
<1>4. Len(piece) \in Nat
  BY <1>1, PositionsAre DEF piece
<1>5. SingleIn(piece)
  BY <1>3, <1>4 DEF SingleIn
<1> QED  BY <1>5 DEF piece

(* A piece is queued with one picture at most, and what was seen of the next
   one is handed on in last_tag. *)
LEMMA ReturnPictures == ParserTypes /\ KeptInv /\ PiecesInv /\ PicturesInv /\ Return => PicturesInv'
<1> SUFFICES ASSUME ParserTypes, KeptInv, PiecesInv, PicturesInv, Return, ~overflowed, Plain
             PROVE  PicturesInv'
  BY ReturnCases DEF PicturesInv, Plain, Overlap, ShortHeaders, Prefix, Slice
<1> DEFINE n == Len(stream)
<1>1. /\ phase = "return" /\ ctx' = Left(ctx)
      /\ UNCHANGED <<codec, stream, outSize, player, overflowed>>
      /\ AtFileEnd \/ (AfterPiece /\ pieces' = Append(pieces, Queued))
  BY ReturnCases
<1>2. /\ consumed \in Nat /\ offs \in Nat /\ n \in Nat /\ Read <= n /\ Read \in Nat
      /\ ctx.code_start \in Int /\ ctx.code_end \in Int /\ CodeLen \in {4, 5}
      /\ Read' = Read /\ (ctx.got_end \/ Read = n)
  <2>1. /\ consumed \in Nat /\ offs \in Nat /\ n \in Nat /\ Read <= n /\ Read \in Nat
        /\ ctx.code_start \in Int /\ ctx.code_end \in Int /\ CodeLen \in {4, 5}
        /\ ctx.got_end \/ Read = n
    BY <1>1 DEF ParserTypes, Context, Rest, Read, CodeLen
  <2>2. Read' = Read
    BY <1>1, <2>1 DEF AtFileEnd, AfterPiece, Read
  <2> QED  BY <2>1, <2>2
<1>3. (\A p : IsPicture(p)' <=> IsPicture(p)) /\ CodeLen' = CodeLen /\ Len(stream') = n
  BY <1>1 DEF IsPicture, Prefix, CodeLen
<1>4. ctx'.state = ctx.state /\ ctx'.got_start = ctx.got_start
  BY <1>1, LeftIs
<1>5. Ready /\ PictureSeen /\ \A k \in 1..Len(pieces) : SingleIn(pieces[k])
  BY DEF PicturesInv
<1> DEFINE There(p, begin) == IsPicture(p) /\ begin < p /\ (p + CodeLen - 1 <= Read \/ p <= begin + 2)
<1>7. \A p, begin : Seen(p, begin) <=> There(p, begin)
  BY DEF Seen
<1>8. ASSUME \/ UNCHANGED pieces
             \/ pieces' = Append(pieces, Queued) /\ SingleIn(Queued)
      PROVE  \A k \in 1..Len(pieces') : SingleIn(pieces[k])'
  <2>1. CASE UNCHANGED pieces
    <3>1. ASSUME NEW k \in 1..Len(pieces)  PROVE SingleIn(pieces[k])'
      <4>1. SingleIn(pieces[k])
        BY <1>5
      <4> QED  BY <1>3, <2>1, <4>1 DEF SingleIn
    <3> QED  BY <2>1, <3>1
  <2>2. CASE pieces' = Append(pieces, Queued) /\ SingleIn(Queued)
    <3>1. ASSUME NEW k \in 1..Len(pieces) + 1  PROVE SingleIn(pieces'[k])
      <4>1. pieces \in Seq(Seq(Int)) /\ Queued \in Seq(Int)
        BY QueuedIsSeq DEF ParserTypes
      <4>2. CASE k \in 1..Len(pieces)
        <5>1. pieces'[k] = pieces[k]
          BY <2>2, <4>1, <4>2
        <5> QED  BY <1>5, <4>2, <5>1
      <4>3. CASE k = Len(pieces) + 1
        <5>1. pieces'[k] = Queued
          BY <2>2, <4>1, <4>3
        <5> QED  BY <2>2, <5>1
      <4> QED  BY <4>1, <4>2, <4>3
    <3>2. Len(pieces') = Len(pieces) + 1
      BY <2>2, QueuedIsSeq DEF ParserTypes
    <3>3. ASSUME NEW k \in 1..Len(pieces')  PROVE SingleIn(pieces[k])'
      <4>1. SingleIn(pieces'[k])
        BY <3>1, <3>2
      <4> QED  BY <1>3, <4>1 DEF SingleIn
    <3> QED  BY <3>3
  <2> QED  BY <1>8, <2>1, <2>2
<1>9. SUFFICES
        /\ phase' = "scan" =>
              \A p \in 1..n : IsPicture(p) /\ p <= Read => ~(ctx'.got_start => p > Begin' + 2)
        /\ ~ctx'.got_start => \A p \in 1..n : IsPicture(p) => p + CodeLen - 1 > Read
        /\ ctx'.got_start =>
              /\ \A p \in 1..n : There(p, Begin') => ctx'.seek_end
              /\ \A p, q \in 1..n : There(p, Begin') /\ There(q, Begin') => p = q
        /\ ~ctx'.got_end
        /\ UNCHANGED pieces \/ (pieces' = Append(pieces, Queued) /\ SingleIn(Queued))
  <2>1. Ready'
    BY <1>2, <1>3, <1>9 DEF Ready
  <2>2. PictureSeen'
    BY <1>2, <1>3, <1>9 DEF PictureSeen, Seen
  <2> QED  BY <1>8, <1>9, <2>1, <2>2 DEF PicturesInv
<1>10. CASE ~ctx.got_start
  <2>1. ~ctx.got_end /\ ~ctx'.got_end
    BY <1>1, <1>10, LeftIs DEF KeptInv
  <2>2. Read = n
    BY <1>2, <2>1
  <2>3. \A p \in 1..n : IsPicture(p) => p + CodeLen - 1 > Read
    BY <1>5, <1>10 DEF PictureSeen
  <2>4. phase' # "scan"
    BY <1>1, <2>2 DEF AtFileEnd, AfterPiece
  <2>5. UNCHANGED pieces \/ (pieces' = Append(pieces, Queued) /\ SingleIn(Queued))
    <3>1. Queued = <<>>
      <4>1. ctx.code_start = 0
        BY <1>10 DEF PiecesInv, BeforeFirst
      <4>2. Kept(ctx) = <<>>
        BY <4>1 DEF Kept
      <4>3. Queued = <<>> \o <<>>
        BY <1>10, <4>2 DEF Queued
      <4> QED  BY <4>3
    <3>2. SingleIn(<<>>)
      BY DEF SingleIn
    <3> QED  BY <1>1, <3>1, <3>2 DEF AtFileEnd
  <2> QED  BY <1>4, <1>10, <2>1, <2>3, <2>4, <2>5
<1>11. CASE ctx.got_start /\ ctx.got_end
  <2>1. /\ ctx'.code_start = ctx.code_end - consumed /\ ~ctx'.got_end
        /\ ctx'.seek_end <=> ctx.last_tag = "PICTURE"
    BY <1>1, <1>11, LeftIs
  <2>2. 0 <= Begin /\ Begin < Stop /\ Stop < Read
    BY <1>11 DEF PiecesInv, Piece
  <2>3. AfterPiece /\ pieces' = Append(pieces, Queued)
    BY <1>1, <1>11 DEF AtFileEnd
  <2>4. Begin' = Stop
    BY <1>2, <2>1, <2>3 DEF AfterPiece, Begin, Stop, Read
  <2>5. Begin \in Nat /\ Stop \in Nat /\ Queued = Positions(Begin, Stop - Begin)
    <3>1. FrameLength(ctx) = ctx.code_end
      BY <1>11 DEF FrameLength
    <3>2. /\ Begin \in Nat /\ offs + FrameLength(ctx) \in Nat
          /\ Queued = Positions(Begin, (offs + FrameLength(ctx)) - Begin)
      BY <1>1, <1>11, QueuedIs
    <3> QED  BY <3>1, <3>2 DEF Stop
  <2>6. /\ \A p, q \in 1..n :
              IsPicture(p) /\ Begin < p /\ p <= Stop /\ IsPicture(q) /\ Begin < q /\ q <= Stop => p = q
        /\ \A p \in 1..n : There(p, Stop) => ctx.last_tag = "PICTURE"
        /\ \A p, q \in 1..n : There(p, Stop) /\ There(q, Stop) => p = q
        /\ \A p \in 1..n : IsPicture(p) /\ Stop + 2 < p => Read < p
    BY <1>5, <1>7, <1>11 DEF PictureSeen
  <2>7. SingleIn(Queued)
    <3>1. Begin <= Stop
      BY <2>2, <2>5
    <3> QED  BY <2>5, <2>6, <3>1, PiecePictures
  <2>8. ASSUME NEW p \in 1..n, IsPicture(p), p <= Read  PROVE ~(p > Begin' + 2)
    <3>1. ~(Stop + 2 < p)
      BY <1>2, <2>6, <2>8
    <3> QED  BY <2>4, <2>5, <3>1
  <2> HIDE DEF There
  <2> QED  BY <1>4, <1>11, <2>1, <2>3, <2>4, <2>6, <2>7, <2>8
<1>12. CASE ctx.got_start /\ ~ctx.got_end
  <2>1. ctx'.code_start = 0 /\ ~ctx'.got_end /\ ctx'.seek_end = ctx.seek_end
    BY <1>1, <1>12, LeftIs
  <2>2. Read = n
    BY <1>2, <1>12
  <2>3. \/ Begin < Read /\ offs < n
        \/ Begin = offs /\ offs = n /\ ~player
    BY <1>1, <1>12 DEF PiecesInv, Piece
  <2>4. phase' # "scan"
    BY <1>1, <2>2 DEF AtFileEnd, AfterPiece
  <2>5. offs' = n
    BY <1>1, <2>2 DEF AtFileEnd, AfterPiece
  <2>6. Begin' = n
    BY <1>2, <2>1, <2>5 DEF Begin
  <2>7. ASSUME NEW p \in 1..n  PROVE ~There(p, Begin')
    BY <1>2, <2>6
  <2>8. CASE AtFileEnd
    <3>1. UNCHANGED pieces
      BY <2>8 DEF AtFileEnd
    <3> HIDE DEF There
    <3> QED  BY <1>4, <1>12, <2>1, <2>4, <2>7, <3>1
  <2>9. CASE AfterPiece /\ pieces' = Append(pieces, Queued)
    <3>1. Begin \in Nat /\ Begin <= n /\ Queued = Positions(Begin, n - Begin)
      <4>1. offs + FrameLength(ctx) = n
        BY <1>12, <2>2 DEF FrameLength, Read
      <4>2. /\ Begin \in Nat /\ Begin <= offs + FrameLength(ctx)
            /\ Queued = Positions(Begin, (offs + FrameLength(ctx)) - Begin)
        BY <1>1, <1>12, QueuedIs
      <4> QED  BY <4>1, <4>2
    <3>2. \A p, q \in 1..n : There(p, Begin) /\ There(q, Begin) => p = q
      BY <1>5, <1>7, <1>12 DEF PictureSeen
    <3>3. ASSUME NEW p \in 1..n, IsPicture(p), Begin < p  PROVE There(p, Begin)
      <4>1. p + CodeLen - 1 <= Len(stream)
        BY <3>3, PictureIs
      <4> QED  BY <2>2, <3>3, <4>1
    <3> HIDE DEF There
    <3>4. SingleIn(Queued)
      <4>1. ASSUME NEW p \in 1..n, NEW q \in 1..n, IsPicture(p), Begin < p, IsPicture(q), Begin < q
            PROVE  p = q
        BY <3>2, <3>3, <4>1
      <4> HIDE DEF n
      <4>2. n = Len(stream)
        BY DEF n
      <4> QED  BY <1>2, <3>1, <4>1, <4>2, PiecePictures
    <3> QED  BY <1>4, <1>12, <2>1, <2>4, <2>7, <2>9, <3>4
  <2> QED  BY <1>1, <2>8, <2>9
<1> QED  BY <1>10, <1>11, <1>12

-----------------------------------------------------------------------------
(* The invariant holds at first, and every step keeps it. *)
LEMMA InitParser == ParserInit => ParserInv
<1> SUFFICES ASSUME ParserInit  PROVE ParserInv
  OBVIOUS
<1>1. /\ codec \in {"mpeg4", "h264", "mpeg2"} /\ stream \in Seq(0..255)
      /\ outSize \in Nat /\ player \in BOOLEAN
  BY ParserAssumption DEF ParserInit
<1>2. /\ consumed = 0 /\ offs = 0 /\ pieces = <<>> /\ overflowed = FALSE
      /\ phase = IF stream = <<>> THEN "return" ELSE "scan"
  BY DEF ParserInit
<1>3. /\ ctx \in Context /\ ctx.state = "NO_CODE" /\ ctx.bytes = <<>>
      /\ ctx.main_count = 0 /\ ctx.headers_count = 0 /\ ctx.tmp_code_start = 0 /\ ctx.code_start = 0
      /\ ~ctx.got_start /\ ~ctx.got_end /\ ~ctx.seek_end
  BY DEF ParserInit, Context, States
<1>4. Rest = Len(stream) /\ Len(stream) \in Nat /\ (stream = <<>> => Len(stream) = 0)
      /\ (stream # <<>> => Len(stream) > 0) /\ Read = 0
  BY <1>1, <1>2 DEF Rest, Read
<1>5. ParserTypes
  <2>1. pieces \in Seq(Seq(Int)) /\ overflowed \in BOOLEAN /\ consumed \in Nat /\ offs \in Nat
    <3>1. pieces = <<>> /\ overflowed = FALSE /\ consumed = 0 /\ offs = 0
      BY <1>2
    <3>2. pieces \in Seq(Seq(Int))
      BY <3>1
    <3>3. overflowed \in BOOLEAN
      BY <3>1
    <3>4. consumed \in Nat /\ offs \in Nat
      BY <3>1
    <3> QED  BY <3>2, <3>3, <3>4
  <2>2. /\ phase \in {"scan", "return", "done"} /\ consumed <= Rest
        /\ phase = "scan" => consumed < Rest
        /\ phase = "return" => consumed = Rest
    BY <1>2, <1>4
  <2>3. ctx.state \notin {"CODE_0x3", "CODE_SLICE"}
    BY <1>3
  <2> QED  BY <1>1, <1>3, <2>1, <2>2, <2>3 DEF ParserTypes
<1>6. KeptInv
  BY <1>2, <1>3 DEF KeptInv, Within
<1>7. PiecesInv
  BY <1>2, <1>3 DEF PiecesInv, BeforeFirst, Piece, Joined, CodeRead
<1>8. PicturesInv
  <2>1. CodeLen \in {4, 5}
    BY DEF CodeLen
  <2>2. Ready
    BY <1>4 DEF Ready
  <2>3. PictureSeen
    BY <1>3, <1>4, <2>1 DEF PictureSeen
  <2> QED  BY <1>2, <2>2, <2>3 DEF PicturesInv
<1> QED  BY <1>5, <1>6, <1>7, <1>8 DEF ParserInv

LEMMA ParserStutters == ParserInv /\ UNCHANGED parserVars => ParserInv'
<1> SUFFICES ASSUME ParserInv, UNCHANGED parserVars  PROVE ParserInv'
  OBVIOUS
<1>1. UNCHANGED <<codec, stream, outSize, player, ctx, consumed, offs, pieces, overflowed, phase>>
  BY DEF parserVars, input
<1>2. ParserTypes'
  BY <1>1 DEF ParserInv, ParserTypes, Rest
<1>3. KeptInv'
  BY <1>1 DEF ParserInv, KeptInv, TooLarge, Copied, FrameLength, Positions
<1>4. PiecesInv'
  <2>1. BeforeFirst' = BeforeFirst /\ Piece' = Piece
    BY <1>1 DEF BeforeFirst, Piece, Begin, Read, Stop, Positions, LastByte
  <2>2. Joined' = Joined
    BY <1>1 DEF Joined, LastByte
  <2>3. CodeRead' = CodeRead
    BY <1>1 DEF CodeRead, Read, Prefix, Slice
  <2> QED  BY <1>1, <2>1, <2>2, <2>3 DEF ParserInv, PiecesInv
<1>5. PicturesInv'
  <2>1. (\A p : IsPicture(p)' <=> IsPicture(p)) /\ Plain' = Plain /\ CodeLen' = CodeLen /\ Begin' = Begin
    /\ Read' = Read /\ Stop' = Stop
    BY <1>1 DEF IsPicture, Prefix, Plain, Overlap, Slice, ShortHeaders, CodeLen, Begin, Read, Stop
  <2>2. Ready' <=> Ready
    BY <1>1, <2>1 DEF Ready
  <2>3. PictureSeen' <=> PictureSeen
    BY <1>1, <2>1 DEF PictureSeen, Seen
  <2>4. ASSUME NEW k \in 1..Len(pieces)  PROVE SingleIn(pieces[k])' <=> SingleIn(pieces[k])
    BY <1>1, <2>1, SMTT(30) DEF SingleIn
  <2> QED  BY <1>1, <2>1, <2>2, <2>3, <2>4 DEF ParserInv, PicturesInv
<1> QED  BY <1>2, <1>3, <1>4, <1>5 DEF ParserInv

LEMMA NextParser == ParserInv /\ [ParserNext]_parserVars => ParserInv'
<1> SUFFICES ASSUME ParserInv, [ParserNext]_parserVars  PROVE ParserInv'
  OBVIOUS
<1>1. CASE Scan
  BY <1>1, ScanTypes, ScanKept, ScanPieces, ScanPictures DEF ParserInv
<1>2. CASE Return
  BY <1>2, ReturnTypes, ReturnKept, ReturnPieces, ReturnPictures DEF ParserInv
<1>3. CASE ReturnTooLarge
  <2>1. overflowed'
    BY <1>3, TooLargeCases DEF ParserInv
  <2>2. PiecesInv' /\ PicturesInv'
    BY <2>1 DEF PiecesInv, PicturesInv
  <2> QED  BY <1>3, <2>2, TooLargeTypes, TooLargeKept DEF ParserInv
<1>4. CASE UNCHANGED parserVars
  BY <1>4, ParserStutters
<1> QED  BY <1>1, <1>2, <1>3, <1>4 DEF ParserNext

(* What ParserInv says of context, pieces and stream holds in every state of
   the parser functions and of the loops that call them. *)
THEOREM ParserInvariant == ParserSpec => []ParserInv
BY InitParser, NextParser, PTL DEF ParserSpec

(* parse_*_stream keep no more of a start code than ctx.bytes holds, whatever
   the stream, and as much as the next call copies from there. *)
THEOREM ParserKeptFits == ParserSpec => []KeptFits
<1>1. ParserInv => KeptFits
  <2> SUFFICES ASSUME ParserInv  PROVE KeptFits
    OBVIOUS
  <2>1. KeptInv /\ PiecesInv
    BY DEF ParserInv
  <2>2. consumed \in Int /\ ctx.code_end \in Int /\ offs \in Int
    BY DEF ParserInv, ParserTypes, Context
  <2>3. ASSUME phase = "return", ctx.got_end, ~overflowed
        PROVE  ctx.code_end >= 0 /\ consumed - ctx.code_end \in 0..6
    <3>1. ctx.got_start /\ consumed - ctx.code_end <= 5
      BY <2>1, <2>3 DEF KeptInv
    <3>2. ctx.code_end >= 0 /\ Stop < Read
      BY <2>1, <2>3, <3>1 DEF PiecesInv, Piece
    <3> QED  BY <2>2, <3>1, <3>2 DEF Stop, Read
  <2> QED  BY <2>1, <2>3 DEF KeptInv, KeptFits
<1> QED  BY <1>1, ParserInvariant, PTL

(* Whatever the codec and the stream: the pieces that the parser hands to the
   codec follow each other in the stream without a gap, to its end. *)
THEOREM ParserNoByteLost == ParserSpec => []NoByteLost
<1>1. ParserInv => NoByteLost
  <2> SUFFICES ASSUME ParserInv, ~overflowed, NEW k \in 1..Len(pieces)
               PROVE  /\ \A i \in 1..Len(pieces[k]) - 1 : pieces[k][i + 1] = pieces[k][i] + 1
                      /\ k > 1 /\ pieces[k - 1] # <<>> =>
                            pieces[k] # <<>> /\ pieces[k][1] = LastByte(k - 1) + 1
                      /\ phase = "done" /\ ~player /\ k = Len(pieces) /\ pieces[k] # <<>> =>
                            LastByte(k) = Len(stream)
    BY DEF NoByteLost
  <2>1. BeforeFirst /\ Piece /\ Joined /\ Len(stream) \in Nat
    BY DEF ParserInv, PiecesInv, ParserTypes
  <2>2. ASSUME NEW i \in 1..Len(pieces[k]) - 1  PROVE pieces[k][i + 1] = pieces[k][i] + 1
    <3>1. PICK from, length \in 0..Len(stream) : pieces[k] = Positions(from, length)
      BY <2>1 DEF Joined
    <3>2. from \in Int /\ length \in Int
      BY <3>1
    <3>3. /\ Len(pieces[k]) = IF length > 0 THEN length ELSE 0
          /\ \A j \in 1..length : pieces[k][j] = from + j
      BY <3>1, <3>2, PositionsAre
    <3>4. i \in 1..length /\ i + 1 \in 1..length
      BY <3>2, <3>3
    <3>5. pieces[k][i] = from + i /\ pieces[k][i + 1] = from + (i + 1)
      BY <3>3, <3>4
    <3> QED  BY <3>2, <3>4, <3>5
  <2>3. k > 1 => pieces[k] # <<>> /\ pieces[k][1] = LastByte(k - 1) + 1
    BY <2>1 DEF Joined
  <2>4. ASSUME phase = "done", ~player, k = Len(pieces), pieces[k] # <<>>
        PROVE  LastByte(k) = Len(stream)
    <3>1. ctx.got_start
      BY <2>1, <2>4 DEF BeforeFirst
    <3>2. Begin = Len(stream) /\ pieces # <<>> => LastByte(Len(pieces)) = Begin
      BY <2>1, <2>4, <3>1 DEF Piece
    <3>3. Begin = Len(stream) /\ pieces # <<>>
      BY <2>1, <2>4, <3>1 DEF Piece
    <3> QED  BY <2>4, <3>2, <3>3
  <2> QED  BY <2>2, <2>3, <2>4
<1> QED  BY <1>1, ParserInvariant, PTL

(* A stream whose start codes do not overlap, of any length, is cut into
   pieces that have one picture each. *)
THEOREM ParserOnePicture == ParserSpec => []OnePicture
<1>1. ParserInv => OnePicture
  <2> SUFFICES ASSUME ParserInv, ~overflowed, Plain, NEW k \in 1..Len(pieces),
                      NEW p \in 1..Len(stream), NEW q \in 1..Len(stream),
                      IsPicture(p), \E i \in 1..Len(pieces[k]) : pieces[k][i] = p,
                      IsPicture(q), \E i \in 1..Len(pieces[k]) : pieces[k][i] = q
               PROVE  p = q
    BY DEF OnePicture, Plain
  <2>1. SingleIn(pieces[k])
    BY DEF ParserInv, PicturesInv
  <2> QED  BY <2>1 DEF SingleIn
<1> QED  BY <1>1, ParserInvariant, PTL
-----------------------------------------------------------------------------
(* What is left to do, in steps: a byte takes at most one, and there is a
   step more when the end of a piece is found and when a call returns. *)
Turn ==
    CASE phase = "done"                   -> 0
      [] phase = "return" /\ ctx.got_end  -> 3
      [] phase = "return" /\ ~ctx.got_end -> IF offs = Len(stream) THEN 1 ELSE 2
      [] phase = "scan"                   -> IF consumed = 0 THEN 2 ELSE 4

ToDo == 3 * (Len(stream) - Read) + Turn

ToDoTypes ==
    /\ Read \in Nat /\ Len(stream) \in Nat /\ Read <= Len(stream)
    /\ Turn \in 0..4 /\ ToDo \in Nat

LEMMA ToDoIs == ParserTypes => ToDoTypes
<1> SUFFICES ASSUME ParserTypes  PROVE ToDoTypes
  OBVIOUS
<1>1. /\ consumed \in Nat /\ offs \in Nat /\ Len(stream) \in Nat /\ consumed <= Len(stream) - offs
      /\ phase \in {"scan", "return", "done"} /\ ctx.got_end \in BOOLEAN
  BY DEF ParserTypes, Rest, Context
<1>2. Read \in Nat /\ Read <= Len(stream)
  BY <1>1 DEF Read
<1>3. Turn \in 0..4
  BY <1>1 DEF Turn
<1> QED  BY <1>1, <1>2, <1>3 DEF ToDo, ToDoTypes

LEMMA ToDoIsNext == ParserTypes' => ToDoTypes'
BY ToDoIs, PTL

(* The steps of a round: a byte more, or the end of a piece *)
LEMMA ScanAdvances ==
    ASSUME ParserInv, ParserInv', Scan, ~overflowed'
    PROVE  ToDo' < ToDo
<1>1. PICK c \in Context : Round(c)
  BY ScanRound DEF ParserInv
<1>2. phase = "scan" /\ UNCHANGED <<stream, offs>> /\ consumed \in Nat /\ offs \in Nat
  BY ScanRound DEF ParserInv, ParserTypes
<1>3. /\ Read \in Nat /\ Len(stream) \in Nat /\ Read' \in Nat /\ Turn' \in 0..4
  BY <1>2, ToDoIs, ToDoIsNext DEF ParserInv, ToDoTypes
<1>4. Turn = IF consumed = 0 THEN 2 ELSE 4
  BY <1>2 DEF Turn
<1>5. Ending \/ Advance
  BY <1>1 DEF Round
<1>6. CASE Advance
  <2>1. Read' = Read + 1
    BY <1>2, <1>6 DEF Advance, Read
  <2> QED  BY <1>2, <1>3, <1>4, <2>1 DEF ToDo
<1>7. CASE Ending
  <2>1. phase' = "return" /\ ctx'.got_end /\ consumed' = consumed
    BY <1>7 DEF Ending
  <2>2. Turn' = 3 /\ Read' = Read
    BY <1>2, <2>1 DEF Turn, Read
  <2>3. KeptInv' /\ Piece' /\ ctx'.code_end \in Int
    BY DEF ParserInv, PiecesInv, ParserTypes, Context
  <2>4. ctx'.got_start
    BY <2>1, <2>3 DEF KeptInv
  <2>5. ctx'.code_end >= 0 /\ offs + ctx'.code_end < Read'
    BY <1>2, <2>1, <2>3, <2>4 DEF Piece, Stop
  <2>6. consumed # 0
    BY <1>2, <2>2, <2>3, <2>5 DEF Read
  <2> QED  BY <1>2, <1>3, <1>4, <2>2, <2>6 DEF ToDo
<1> QED  BY <1>5, <1>6, <1>7

(* A call that returns has read something, or is the last one. *)
LEMMA ReturnAdvances ==
    ASSUME ParserInv, ParserInv', Return, ~overflowed'
    PROVE  ToDo' < ToDo
<1>1. /\ phase = "return" /\ ctx' = Left(ctx) /\ UNCHANGED <<stream, overflowed>>
      /\ AtFileEnd \/ AfterPiece
  BY ReturnCases DEF ParserInv
<1>2. /\ Read \in Nat /\ Len(stream) \in Nat /\ Read' \in Nat /\ Turn' \in 0..4 /\ Turn \in 0..4
      /\ consumed \in Nat /\ offs \in Nat /\ ctx.got_end \in BOOLEAN
  BY ToDoIs, ToDoIsNext DEF ParserInv, ParserTypes, Context, ToDoTypes
<1>3. Read' = Read
  BY <1>1, <1>2 DEF AtFileEnd, AfterPiece, Read
<1>4. Turn' < Turn
  <2>1. Turn # 0
    BY <1>1, <1>2 DEF Turn
  <2>2. CASE phase' = "done"
    <3>1. Turn' = 0
      BY <2>2 DEF Turn
    <3> QED  BY <1>2, <2>1, <3>1
  <2>3. CASE phase' # "done"
    <3>1. /\ offs' = Read /\ consumed' = 0
          /\ phase' = IF Read < Len(stream) THEN "scan" ELSE "return"
          /\ (ctx.got_start /\ ctx.got_end) \/ offs # Len(stream)
      BY <1>1, <2>3 DEF AtFileEnd, AfterPiece
    <3>2. CASE ctx.got_end
      <4>1. KeptInv /\ Piece
        BY <1>1 DEF ParserInv, PiecesInv
      <4>2. Read < Len(stream)
        BY <3>2, <4>1 DEF KeptInv, Piece
      <4>3. Turn = 3 /\ Turn' = 2
        BY <1>1, <3>1, <3>2, <4>2 DEF Turn
      <4> QED  BY <4>3
    <3>3. CASE ~ctx.got_end
      <4>1. Read = Len(stream)
        BY <1>1, <1>2, <3>3 DEF ParserInv, ParserTypes, Rest, Read
      <4>2. ~ctx'.got_end
        BY <1>1, <3>3, LeftIs DEF ParserInv
      <4>3. phase' = "return" /\ offs' = Len(stream)'
        BY <1>1, <1>2, <3>1, <4>1
      <4>4. Turn = 2 /\ Turn' = 1
        BY <1>1, <3>1, <3>3, <4>2, <4>3 DEF Turn
      <4> QED  BY <4>4
    <3> QED  BY <3>2, <3>3
  <2> QED  BY <2>2, <2>3
<1> QED  BY <1>1, <1>2, <1>3, <1>4 DEF ToDo

(* Every step of a parser function and of the loop that calls it brings them
   nearer to the end of the file, as long as no piece is too large: neither
   goes round without reading, whatever the stream. *)
THEOREM ParserAdvances == ParserSpec => [][~overflowed' => ToDo' \in Nat /\ ToDo' < ToDo]_parserVars
<1>1. ParserInv /\ ParserInv' /\ [ParserNext]_parserVars
      => [~overflowed' => ToDo' \in Nat /\ ToDo' < ToDo]_parserVars
  <2> SUFFICES ASSUME ParserInv, ParserInv', ParserNext, ~overflowed'
               PROVE  ToDo' \in Nat /\ ToDo' < ToDo
    OBVIOUS
  <2>1. ToDo' \in Nat
    BY ToDoIsNext DEF ParserInv, ToDoTypes
  <2>2. ~ReturnTooLarge
    BY TooLargeCases DEF ParserInv
  <2>3. ToDo' < ToDo
    BY <2>2, ScanAdvances, ReturnAdvances DEF ParserNext
  <2> QED  BY <2>1, <2>3
<1> QED  BY <1>1, ParserInvariant, PTL DEF ParserSpec
=============================================================================
