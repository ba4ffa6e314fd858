---------------------------- MODULE FfmpegTools ----------------------------
(***************************************************************************)
(* The three tools that pass a media file through FFmpeg one packet after  *)
(* the other: the demultiplexer (packets of a file into two files), the    *)
(* audio decoder (bytes through a parser and a decoder into a file), and   *)
(* the audio player (packets through a decoder into the sound card).       *)
(*                                                                         *)
(* FFmpeg is external.  Its parser cuts what it takes from the input       *)
(* buffer into packets, at places of its own; a packet holds one or more   *)
(* frames; its decoder keeps up to Delay frames back until it is flushed.  *)
(* A stream is its place in the file, a byte too; packets and frames of a  *)
(* stream stay in order, so that they are counted only.  A write to an     *)
(* output may fail, and the tools do not look at each result.              *)
(***************************************************************************)
EXTENDS Naturals, FiniteSetsExt

CONSTANTS BufSize,      \* AUDIO_INBUF_SIZE
          Thresh,       \* AUDIO_REFILL_THRESH
          Delay,        \* frames the decoder may keep back
          MaxBytes,     \* bound: bytes in a file
          MaxPackets,   \* bound: packets in a file
          MaxStreams,   \* bound: streams in a file
          PerPacket     \* bound: frames in a packet

ASSUME ToolsAssumption ==
    /\ BufSize \in Nat /\ Thresh \in 1..BufSize /\ Delay \in Nat
    /\ MaxBytes \in Nat /\ MaxPackets \in Nat /\ MaxStreams \in Nat /\ PerPacket \in Nat \ {0}

VARIABLES program, pc,
          broken,                 \* the file cannot be read to its end
          streams, unread,        \* its streams, and its packets that were not read yet
          size, pos,              \* its bytes, and how many were read
          inbuf, data, dataSize,  \* the decoder's buffer, and where its unparsed bytes are
          taken,                  \* bytes the parser has taken
          index, made,            \* video_stream_idx, audio_stream_idx; the streams that the
                                  \* outputs' streams were made from
          got, written,           \* packets read of each stream; packets each output accepted
          filed, cut,             \* packets in the file of each output; the outputs whose
                                  \* trailer failed
          dest, packet,           \* of the packet at hand: its output; the number of its frames
          inDecoder, flushed,     \* frames in the decoder; it was told that there are no more
          frames, out,            \* frames in the packets so far; those the decoder gave
          passed, missed,         \* frames the sound card, or the output, took; those it did
                                  \* not: the player's pcm_writei_failed_cnt
          ret

file    == <<broken, streams, size>>
buffer  == <<pos, inbuf, data, dataSize, taken>>
outputs == <<index, made, written, filed, cut>>
hand    == <<dest, packet>>
coder   == <<inDecoder, flushed, out>>
sink    == <<passed, missed>>
vars    == <<program, pc, file, unread, buffer, outputs, got, hand, coder, frames, sink, ret>>

Kinds == {"video", "audio"}
Slots == 0..BufSize - 1

At(tool, place) == program = tool /\ pc = place

Init ==
    /\ program \in {"demux", "decode", "play"} /\ pc = "open" /\ broken \in BOOLEAN
    /\ streams \in IF program = "decode" THEN {<<>>}
                   ELSE UNION {[1..n -> Kinds \cup {"other"}] : n \in 1..MaxStreams}
    /\ unread \in IF program = "decode" THEN {0} ELSE 0..MaxPackets
    /\ size \in IF program = "decode" THEN 0..MaxBytes ELSE {0}
    /\ pos = 0 /\ taken = 0 /\ data = 0 /\ dataSize = 0
    /\ inbuf = [k \in Slots |-> 0]
    /\ index = [k \in Kinds |-> 0] /\ made = [k \in Kinds |-> {}]
    /\ got = [s \in DOMAIN streams |-> 0] /\ written = [k \in Kinds |-> 0]
    /\ filed = [k \in Kinds |-> 0] /\ cut = {}
    /\ dest = "video" /\ packet = 0 /\ inDecoder = 0 /\ flushed = FALSE /\ frames = 0 /\ out = 0
    /\ passed = 0 /\ missed = 0 /\ ret = 0

(* exit(1) *)
Exit == pc' = "exited"

-----------------------------------------------------------------------------
(* Faulty variants of the definitions below, caught by the properties at the
   end of this module. *)

(* the bytes that were not parsed are not moved to the beginning *)
MovedForgotten == inbuf

(* the decoder is not flushed *)
FlushNever ==
    /\ At("decode", "flush")
    /\ pc' = "close"
    /\ UNCHANGED <<program, file, unread, buffer, outputs, got, hand, coder, frames, sink, ret>>

(* after a packet that could not be written the next one is tried *)
DemuxWriteFailsGoesOn ==
    /\ At("demux", "write")
    /\ ret' = 1 /\ pc' = "read"
    /\ UNCHANGED <<program, file, unread, buffer, outputs, got, hand, coder, frames, sink>>

-----------------------------------------------------------------------------
(* prepare_common and add_stream of the demultiplexer: the outputs get a
   stream for each stream of their kind, up to the first stream that is
   neither, and the last one of a kind is remembered. *)
Leading == {s \in DOMAIN streams : \A t \in 1..s : streams[t] \in Kinds}
Of(kind) == {s \in Leading : streams[s] = kind}

DemuxOpen ==
    /\ At("demux", "open")
    /\ \/ Exit /\ UNCHANGED <<index, made>>
       \/ /\ pc' = "header"
          /\ index' = [k \in Kinds |-> IF Of(k) = {} THEN 0 ELSE Max(Of(k))]
          /\ made' = [k \in Kinds |-> Of(k)]
    /\ UNCHANGED <<program, file, unread, buffer, written, filed, cut, got, hand, coder, frames, sink, ret>>

(* write_output_file opens the outputs and writes their headers, which a
   format may refuse for a file without streams. *)
DemuxHeader ==
    /\ At("demux", "header")
    /\ pc' = "read" \/ Exit
    /\ UNCHANGED <<program, file, unread, buffer, outputs, got, hand, coder, frames, sink, ret>>

(* A packet of a stream that is remembered goes to the output of its kind,
   any other is passed over. *)
DemuxRead ==
    /\ At("demux", "read") /\ unread > 0
    /\ unread' = unread - 1
    /\ \E s \in DOMAIN streams :
          /\ got' = [got EXCEPT ![s] = @ + 1]
          /\ \/ /\ s \in {index[k] : k \in Kinds}
                /\ dest' = streams[s] /\ pc' = "write"
             \/ /\ s \notin {index[k] : k \in Kinds}
                /\ UNCHANGED <<dest, pc>>
    /\ UNCHANGED <<program, file, buffer, outputs, packet, coder, frames, sink, ret>>

DemuxWrite ==
    /\ At("demux", "write")
    /\ written' = [written EXCEPT ![dest] = @ + 1]
    /\ ret' = 0 /\ pc' = "read"
    /\ UNCHANGED <<program, file, unread, buffer, index, made, filed, cut, got, hand, coder, frames, sink>>

(* A packet that cannot be written ends the loop. *)
DemuxWriteFails ==
    /\ At("demux", "write")
    /\ ret' = 1 /\ pc' = "trailers"
    /\ UNCHANGED <<program, file, unread, buffer, outputs, got, hand, coder, frames, sink>>

(* The end of the file, and an error, end the loop. *)
DemuxEnd ==
    /\ At("demux", "read")
    /\ unread = 0 \/ broken
    /\ pc' = "trailers"
    /\ UNCHANGED <<program, file, unread, buffer, outputs, got, hand, coder, frames, sink, ret>>

(* av_write_trailer writes what an output still has in its buffers, too.
   When it fails, which nobody looks at, the last packets are not in the
   file.  After a packet that could not be written main returns without
   cleaning up. *)
DemuxTrailers ==
    /\ At("demux", "trailers")
    /\ cut' \in SUBSET Kinds /\ filed' \in [Kinds -> 0..MaxPackets]
    /\ \A k \in Kinds : IF k \in cut' THEN filed'[k] <= written[k] ELSE filed'[k] = written[k]
    /\ pc' = (IF ret = 0 THEN "cleanup" ELSE "done")
    /\ UNCHANGED <<program, file, unread, buffer, index, made, written, got, hand, coder, frames, sink, ret>>

(* cleanup exits if an output cannot be closed. *)
DemuxCleanup ==
    /\ At("demux", "cleanup")
    /\ pc' = "done" \/ Exit
    /\ UNCHANGED <<program, file, unread, buffer, outputs, got, hand, coder, frames, sink, ret>>

-----------------------------------------------------------------------------
(* fread of up to `room` bytes: it returns fewer at the end of the file, and
   anywhere if that is where the file breaks. *)
Reads(room) == LET all == Min({room, size - pos}) IN IF broken THEN 0..all ELSE {all}

(* b, with the next n bytes of the file from slot `at` on *)
Filled(b, at, n) == [k \in Slots |-> IF k \in at..at + n - 1 THEN pos + (k - at) + 1 ELSE b[k]]

(* memmove(inbuf, data, data_size) *)
Moved == [k \in Slots |-> IF k < dataSize THEN inbuf[data + k] ELSE inbuf[k]]

(* main up to the first fread *)
DecodeOpen ==
    /\ At("decode", "open")
    /\ \/ Exit /\ UNCHANGED <<pos, inbuf, data, dataSize>>
       \/ \E n \in Reads(BufSize) :
             /\ inbuf' = Filled(inbuf, 0, n)
             /\ data' = 0 /\ dataSize' = n /\ pos' = pos + n
             /\ pc' = "parse"
    /\ UNCHANGED <<program, file, unread, taken, outputs, got, hand, coder, frames, sink, ret>>

(* av_parser_parse2 takes some of the bytes it is shown and may have a
   packet complete. *)
DecodeParse ==
    /\ At("decode", "parse") /\ dataSize > 0
    /\ \/ Exit /\ UNCHANGED <<data, dataSize, taken, packet, frames>>
       \/ \E n \in 1..dataSize, p \in 0..PerPacket :
             /\ data' = data + n /\ dataSize' = dataSize - n /\ taken' = taken + n
             /\ packet' = p /\ frames' = frames + p
             /\ pc' = (IF p > 0 THEN "send" ELSE "refill")
    /\ UNCHANGED <<program, file, unread, pos, inbuf, outputs, got, dest, coder, sink, ret>>

DecodeRefill ==
    /\ At("decode", "refill")
    /\ IF dataSize < Thresh
       THEN \E n \in Reads(BufSize - dataSize) :
               /\ inbuf' = Filled(Moved, dataSize, n)
               /\ data' = 0 /\ dataSize' = dataSize + n /\ pos' = pos + n
       ELSE UNCHANGED <<pos, inbuf, data, dataSize>>
    /\ pc' = "parse"
    /\ UNCHANGED <<program, file, unread, taken, outputs, got, hand, coder, frames, sink, ret>>

DecodeEnd ==
    /\ At("decode", "parse") /\ dataSize = 0
    /\ pc' = "flush"
    /\ UNCHANGED <<program, file, unread, buffer, outputs, got, hand, coder, frames, sink, ret>>

(* fclose of the output, whose result is not looked at: when it fails, the
   frames that were still in the FILE's buffer are not in the file. *)
DecodeClose ==
    /\ At("decode", "close")
    /\ \E n \in 0..passed : passed' = passed - n /\ missed' = missed + n
    /\ pc' = "done"
    /\ UNCHANGED <<program, file, unread, buffer, outputs, got, hand, coder, frames, ret>>

(* decode of the empty packet *)
DecodeFlush ==
    /\ At("decode", "flush")
    /\ \/ Exit /\ UNCHANGED flushed
       \/ flushed' = TRUE /\ pc' = "receive"
    /\ UNCHANGED <<program, file, unread, buffer, outputs, got, hand, inDecoder, out, frames, sink, ret>>

-----------------------------------------------------------------------------
(* open_codec_context: one of the audio streams is the best. *)
AudioStreams == {s \in DOMAIN streams : streams[s] = "audio"}

(* prepare_common of the player: there is none, or a call fails, and the
   program exits. *)
PlayOpen ==
    /\ At("play", "open")
    /\ \/ Exit /\ UNCHANGED index
       \/ \E s \in AudioStreams : pc' = "init_pcm" /\ index' = [index EXCEPT !["audio"] = s]
    /\ UNCHANGED <<program, file, unread, buffer, made, written, filed, cut, got, hand, coder, frames, sink, ret>>

(* init_pcm: the card takes the stream's format, or the program exits. *)
PlayInitPcm ==
    /\ At("play", "init_pcm")
    /\ pc' = "read" \/ Exit
    /\ UNCHANGED <<program, file, unread, buffer, outputs, got, hand, coder, frames, sink, ret>>

(* Packets of other streams, and empty ones, are passed over. *)
PlayRead ==
    /\ At("play", "read") /\ unread > 0
    /\ unread' = unread - 1
    /\ \E s \in DOMAIN streams, p \in 0..PerPacket :
          /\ got' = [got EXCEPT ![s] = @ + 1]
          /\ IF s = index["audio"] /\ p > 0
             THEN packet' = p /\ frames' = frames + p /\ pc' = "send"
             ELSE UNCHANGED <<packet, frames, pc>>
    /\ UNCHANGED <<program, file, buffer, outputs, dest, coder, sink, ret>>

(* The card plays what it has; the decoder is not flushed. *)
PlayEnd ==
    /\ At("play", "read")
    /\ unread = 0 \/ broken
    /\ pc' = "done"
    /\ UNCHANGED <<program, file, unread, buffer, outputs, got, hand, coder, frames, sink, ret>>

(* init_swr_ctx makes the resampler at the first frame, or the program
   exits. *)
PlayResample ==
    /\ At("play", "resample")
    /\ pc' = "write" \/ (out = 1 /\ Exit)
    /\ UNCHANGED <<program, file, unread, buffer, outputs, got, hand, coder, frames, sink, ret>>

(* A frame that the card refuses is counted and left out, whether the card
   recovers or not. *)
PlayWrite ==
    /\ At("play", "write")
    /\ \/ passed' = passed + 1 /\ UNCHANGED missed
       \/ missed' = missed + 1 /\ UNCHANGED passed
    /\ pc' = "receive"
    /\ UNCHANGED <<program, file, unread, buffer, outputs, got, hand, coder, frames, ret>>

-----------------------------------------------------------------------------
(* decode, of which the decoder and the player have one each.  The packet
   is submitted, then frames are received until there is none. *)
Send ==
    /\ pc = "send"
    /\ \/ Exit /\ UNCHANGED inDecoder
       \/ inDecoder' = inDecoder + packet /\ pc' = "receive"
    /\ UNCHANGED <<program, file, unread, buffer, outputs, got, hand, flushed, out, frames, sink, ret>>

(* What the decoder answers when it is asked for a frame *)
HasFrame == inDecoder > 0
HasNone  == inDecoder = 0 \/ (~flushed /\ inDecoder <= Delay)

(* The audio decoder writes the frame, and does not look whether fwrite took
   all of it. *)
ReceiveFrame ==
    /\ pc = "receive" /\ HasFrame
    /\ inDecoder' = inDecoder - 1 /\ out' = out + 1
    /\ \/ program = "play" /\ pc' = "resample" /\ UNCHANGED sink
       \/ program = "decode" /\ passed' = passed + 1 /\ UNCHANGED <<pc, missed>>
       \/ program = "decode" /\ missed' = missed + 1 /\ UNCHANGED <<pc, passed>>
    /\ UNCHANGED <<program, file, unread, buffer, outputs, got, hand, flushed, frames, ret>>

ReceiveNone ==
    /\ pc = "receive" /\ HasNone
    /\ pc' = (IF program = "play" THEN "read" ELSE IF flushed THEN "close" ELSE "refill")
    /\ UNCHANGED <<program, file, unread, buffer, outputs, got, hand, coder, frames, sink, ret>>

ReceiveFails ==
    /\ pc = "receive"
    /\ Exit
    /\ UNCHANGED <<program, file, unread, buffer, outputs, got, hand, coder, frames, sink, ret>>

Demux  == DemuxOpen \/ DemuxHeader \/ DemuxRead \/ DemuxWrite \/ DemuxWriteFails \/ DemuxEnd
            \/ DemuxTrailers \/ DemuxCleanup
Decode == DecodeOpen \/ DecodeParse \/ DecodeRefill \/ DecodeEnd \/ DecodeFlush \/ DecodeClose
Play   == PlayOpen \/ PlayInitPcm \/ PlayRead \/ PlayEnd \/ PlayResample \/ PlayWrite
Coder  == Send \/ ReceiveFrame \/ ReceiveNone \/ ReceiveFails

Next == Demux \/ Decode \/ Play \/ Coder

Spec == Init /\ [][Next]_vars
-----------------------------------------------------------------------------
(* The buffer of the audio decoder is a window of the file: what the parser
   is shown goes on where it stopped, lies within the buffer, and is not
   shorter than AUDIO_REFILL_THRESH before the end of the file, wherever
   the parser cuts and however the buffer is moved and filled up. *)
BufferIsWindow ==
    program = "decode" =>
        /\ taken + dataSize = pos /\ data + dataSize <= BufSize
        /\ \A k \in 0..dataSize - 1 : inbuf[data + k] = taken + k + 1
        /\ pc = "parse" /\ ~broken => dataSize >= Min({Thresh, size - taken})

(* A tool that comes to its end has passed on all that it was given.  The
   audio decoder has shown the parser the whole file and received each
   frame of each packet.  The player has not flushed its decoder, which may
   keep frames at the end of the file.  Each frame that was received is
   heard, or in the output, or is one that the sink did not take: the
   player counts those, the audio decoder reports success whatever fwrite
   and fclose said. *)
FramesPassedOn ==
    pc = "done" =>
        /\ program = "decode" => out = frames /\ (~broken => taken = size)
        /\ program = "play" => out + Delay >= frames
        /\ program \in {"decode", "play"} => passed + missed = out

(* A demultiplexer that returns zero has in its files all packets it has
   read of the streams it remembers, but for the last ones of an output
   whose trailer failed, which it does not look at; and each is in an
   output whose first stream was made from the packet's own.  That is so as
   long as no two streams of a kind lead the file: then the packets of the
   last go into the stream that was made from the first. *)
DemuxedWhole ==
    program = "demux" /\ pc = "done" /\ ret = 0 =>
        \A k \in Kinds :
            /\ index[k] # 0 => written[k] = got[index[k]]
            /\ filed[k] = written[k] \/ (k \in cut /\ filed[k] < written[k])
            /\ written[k] > 0 /\ Cardinality(Of(k)) <= 1 => made[k] # {} /\ Min(made[k]) = index[k]
=============================================================================
