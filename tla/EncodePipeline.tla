--------------------------- MODULE EncodePipeline ---------------------------
(***************************************************************************)
(* v4l2_encode: an encode thread copies the frames of a mapped file into   *)
(* stream buffers for the codec (OUTPUT queue), an mfc thread takes the    *)
(* encoded frames (CAPTURE queue) and appends them to a file, a daemon     *)
(* thread ends everything when no frame has come for two seconds, and main *)
(* joins the three and closes the file.  The codec is external.            *)
(*                                                                         *)
(* A frame is its number in the file; buffers hold frames, so that what is *)
(* written shows which buffer was overwritten too soon.                    *)
(***************************************************************************)
EXTENDS Naturals, Sequences

CONSTANTS OutBufs,   \* stream buffers, 0 .. out_buf_cnt - 1
          CapBufs,   \* buffers for encoded frames
          Frames,    \* bound: frames in the file, a partial one included
          NULL

ASSUME EncoderAssumption ==
    /\ OutBufs \subseteq Nat /\ OutBufs # {}
    /\ Frames \in Nat
    /\ NULL \notin CapBufs \cup OutBufs

VARIABLES error, finish, encodedCnt, lastEncodedCnt,
          frames, partial,               \* whole frames in the file, and whether it has more bytes
          outFlag, outBuf, fed,          \* out_buf_flag, the buffers, offs in frames
          streamOn, outQueue, outDone,   \* the codec's OUTPUT queue
          capOwner, capBuf, capDone,     \* and its CAPTURE queue
          cur, sLastDequeue,
          written, fileLock,             \* the output file; its lock is free, held or lost
          pc,
          timely, fragile                \* two seconds always suffice; calls may fail

flags   == <<error, finish>>
counts  == <<encodedCnt, lastEncodedCnt>>
encoder == <<outFlag, outBuf, fed>>
codec   == <<streamOn, outQueue, outDone, capOwner, capBuf, capDone>>
mfc     == <<cur, sLastDequeue>>
output  == <<written, fileLock>>
setting == <<frames, partial, timely, fragile>>
vars    == <<flags, counts, encoder, codec, mfc, output, pc, setting>>

EncodePC == {"loop", "feed", "dequeue", "done"}
MfcPC    == {"loop", "dequeue", "write", "requeue", "done", "cancelled"}
DaemonPC == {"sleep", "cancel", "done"}
MainPC   == {"join_encode", "join_mfc", "join_daemon", "close", "done", "exited", "crashed"}

Over == pc["main"] \in {"done", "exited", "crashed"}

At(t, here) == ~Over /\ pc[t] = here

Go(t, there) == pc' = [pc EXCEPT ![t] = there]

(* main has queued all the buffers for encoded frames.  An empty file cannot
   be mapped. *)
Init ==
    /\ error = FALSE /\ finish = FALSE
    /\ encodedCnt = 0 /\ lastEncodedCnt = 0
    /\ partial \in BOOLEAN
    /\ frames \in IF partial THEN 0..Frames - 1 ELSE 1..Frames
    /\ outFlag = [n \in OutBufs |-> FALSE] /\ outBuf = [n \in OutBufs |-> 0] /\ fed = 0
    /\ streamOn = FALSE /\ outQueue = <<>> /\ outDone = <<>>
    /\ capOwner = [c \in CapBufs |-> "codec"] /\ capBuf = [c \in CapBufs |-> 0] /\ capDone = <<>>
    /\ cur = NULL /\ sLastDequeue = NULL
    /\ written = <<>> /\ fileLock = "free"
    /\ pc = [encode |-> "loop", mfc |-> "loop", daemon |-> "sleep", main |-> "join_encode"]
    /\ timely \in BOOLEAN /\ fragile \in BOOLEAN

-----------------------------------------------------------------------------
(* Faulty variants of the actions below, caught by the properties at the
   end of this module. *)

(* a stream buffer is taken that is still in use *)
PickAny(n) == n \in OutBufs

(* the daemon does not cancel the mfc thread *)
DaemonCancelNobody ==
    /\ At("daemon", "cancel")
    /\ Go("daemon", "done")
    /\ UNCHANGED <<flags, counts, encoder, codec, mfc, output, setting>>

(* the frame goes back to the codec before it is written *)
MfcDequeueAndRequeue ==
    /\ At("mfc", "dequeue")
    /\ capDone # <<>>
    /\ cur' = Head(capDone)
    /\ capDone' = Tail(capDone)
    /\ capOwner' = [capOwner EXCEPT ![Head(capDone)] = "codec"]
    /\ encodedCnt' = encodedCnt + 1
    /\ Go("mfc", "write")
    /\ UNCHANGED <<flags, lastEncodedCnt, encoder, streamOn, outQueue, outDone, capBuf,
                   sLastDequeue, output, setting>>

(* no buffer is ever given back *)
MfcKeep ==
    /\ At("mfc", "requeue")
    /\ sLastDequeue' = cur
    /\ Go("mfc", "loop")
    /\ UNCHANGED <<flags, counts, encoder, codec, cur, output, setting>>

-----------------------------------------------------------------------------
(* encode_thread_func *)
EncodeLoop ==
    /\ At("encode", "loop")
    /\ Go("encode", IF error \/ finish THEN "done"
                    ELSE IF \A n \in OutBufs : outFlag[n] THEN "dequeue" ELSE "feed")
    /\ UNCHANGED <<flags, counts, encoder, codec, mfc, output, setting>>

Pick(n) == ~outFlag[n] /\ \A m \in OutBufs : m < n => outFlag[m]

(* mfc_enc_queue_buf_out, whose result is not looked at *)
QueueOut(n) ==
    /\ \/ outQueue' = Append(outQueue, n)
       \/ fragile /\ UNCHANGED outQueue
    /\ outFlag' = [outFlag EXCEPT ![n] = TRUE]

(* offs = size: a file that has a part of a frame at its end has no end. *)
FileEnds == fed = frames /\ ~partial

(* The next frame is copied and queued; the OUTPUT queue starts streaming
   with the second frame.  Beyond a partial frame whatever lies there is
   copied, as long as it can be read. *)
EncodeFeed ==
    /\ At("encode", "feed")
    /\ ~FileEnds /\ fed <= frames
    /\ streamOn' = (streamOn \/ fed > 0)
    /\ \E n \in OutBufs :
          /\ Pick(n)
          /\ QueueOut(n)
          /\ outBuf' = [outBuf EXCEPT ![n] = fed + 1]
    /\ fed' = fed + 1
    /\ Go("encode", "loop")
    /\ UNCHANGED <<flags, counts, outDone, capOwner, capBuf, capDone, mfc, output, setting>>

(* memcpy reads beyond the mapped file *)
EncodeOverrun ==
    /\ At("encode", "feed")
    /\ partial /\ fed >= frames
    /\ Go("main", "crashed")
    /\ UNCHANGED <<flags, counts, encoder, codec, mfc, output, setting>>

(* The file has ended, or STREAMON fails and nobody is told. *)
EncodeEnd ==
    /\ At("encode", "feed")
    /\ FileEnds \/ (fragile /\ ~streamOn /\ fed > 0)
    /\ Go("encode", "done")
    /\ UNCHANGED <<flags, counts, encoder, codec, mfc, output, setting>>

(* dequeue_output blocks until the codec is done with a stream buffer. *)
EncodeDequeue ==
    /\ At("encode", "dequeue")
    /\ streamOn /\ outDone # <<>>
    /\ outFlag' = [outFlag EXCEPT ![Head(outDone)] = FALSE]
    /\ outDone' = Tail(outDone)
    /\ Go("encode", "loop")
    /\ UNCHANGED <<flags, counts, outBuf, fed, streamOn, outQueue, capOwner, capBuf, capDone, mfc,
                   output, setting>>

EncodeDequeueFails ==
    /\ At("encode", "dequeue")
    /\ ~streamOn \/ fragile
    /\ error' = TRUE
    /\ Go("encode", "loop")
    /\ UNCHANGED <<finish, counts, encoder, codec, mfc, output, setting>>

-----------------------------------------------------------------------------
(* mfc_thread_func *)
MfcLoop ==
    /\ At("mfc", "loop")
    /\ Go("mfc", IF error \/ finish THEN "done" ELSE "dequeue")
    /\ UNCHANGED <<flags, counts, encoder, codec, mfc, output, setting>>

(* dequeue_capture blocks until there is an encoded frame. *)
MfcDequeue ==
    /\ At("mfc", "dequeue")
    /\ capDone # <<>>
    /\ cur' = Head(capDone)
    /\ capDone' = Tail(capDone)
    /\ capOwner' = [capOwner EXCEPT ![Head(capDone)] = "program"]
    /\ encodedCnt' = encodedCnt + 1
    /\ Go("mfc", "write")
    /\ UNCHANGED <<flags, lastEncodedCnt, encoder, streamOn, outQueue, outDone, capBuf,
                   sLastDequeue, output, setting>>

(* A buffer of no bytes is the last one. *)
MfcEmpty ==
    /\ At("mfc", "dequeue")
    /\ streamOn /\ fed >= frames /\ outQueue = <<>> /\ capDone = <<>>
    /\ \E c \in CapBufs : capOwner[c] = "codec"
    /\ encodedCnt' = encodedCnt + 1
    /\ finish' = TRUE
    /\ Go("mfc", "done")
    /\ UNCHANGED <<error, lastEncodedCnt, encoder, codec, mfc, output, setting>>

MfcDequeueFails ==
    /\ At("mfc", "dequeue")
    /\ fragile
    /\ error' = TRUE
    /\ Go("mfc", "done")
    /\ UNCHANGED <<finish, counts, encoder, codec, mfc, output, setting>>

(* printf and fwrite begin and take a lock... *)
MfcWriteBegin ==
    /\ At("mfc", "write") /\ fileLock = "free"
    /\ fileLock' = "held"
    /\ UNCHANGED <<flags, counts, encoder, codec, mfc, written, pc, setting>>

(* ...and end.  What fwrite could not write is lost. *)
MfcWriteEnd ==
    /\ At("mfc", "write") /\ fileLock = "held"
    /\ \/ written' = Append(written, capBuf[cur])
       \/ fragile /\ UNCHANGED written
    /\ fileLock' = "free"
    /\ Go("mfc", "requeue")
    /\ UNCHANGED <<flags, counts, encoder, codec, mfc, setting>>

(* The frame written before goes back to the codec. *)
MfcRequeue ==
    /\ At("mfc", "requeue")
    /\ \/ /\ sLastDequeue # NULL
          /\ capOwner' = [capOwner EXCEPT ![sLastDequeue] = "codec"]
       \/ /\ sLastDequeue = NULL \/ fragile
          /\ UNCHANGED capOwner
    /\ sLastDequeue' = cur
    /\ Go("mfc", "loop")
    /\ UNCHANGED <<flags, counts, encoder, streamOn, outQueue, outDone, capBuf, capDone, cur,
                   output, setting>>

-----------------------------------------------------------------------------
(* The codec, external: it encodes the stream buffers in the order in which
   they were queued, each into a buffer it has. *)
CanEncode == streamOn /\ outQueue # <<>> /\ \E c \in CapBufs : capOwner[c] = "codec"

Encode ==
    /\ ~Over /\ CanEncode
    /\ \E c \in CapBufs :
          /\ capOwner[c] = "codec"
          /\ capOwner' = [capOwner EXCEPT ![c] = "encoded"]
          /\ capBuf' = [capBuf EXCEPT ![c] = outBuf[Head(outQueue)]]
          /\ capDone' = Append(capDone, c)
    /\ outDone' = Append(outDone, Head(outQueue))
    /\ outQueue' = Tail(outQueue)
    /\ UNCHANGED <<flags, counts, encoder, streamOn, mfc, output, pc, setting>>

-----------------------------------------------------------------------------
(* daemon_thread_func, main and timeout_thread_func *)
Idle ==
    /\ pc["encode"] = "done" \/ (pc["encode"] = "dequeue" /\ streamOn /\ outDone = <<>>)
    /\ ~CanEncode
    /\ pc["mfc"] = "done" \/ (pc["mfc"] = "dequeue" /\ capDone = <<>>)

DaemonTick ==
    /\ At("daemon", "sleep")
    /\ timely => encodedCnt # lastEncodedCnt \/ Idle
    /\ lastEncodedCnt' = encodedCnt
    /\ IF lastEncodedCnt = encodedCnt
       THEN finish' = TRUE /\ Go("daemon", "cancel")
       ELSE UNCHANGED <<finish, pc>>
    /\ UNCHANGED <<error, encodedCnt, encoder, codec, mfc, output, setting>>

(* pthread_cancel(mfc_thread), asynchronous: inside of fwrite, which is not
   made for it, the lock may be released or not. *)
DaemonCancel ==
    /\ At("daemon", "cancel")
    /\ pc' = [pc EXCEPT !["daemon"] = "done",
                        !["mfc"] = IF @ = "done" THEN "done" ELSE "cancelled"]
    /\ fileLock' \in (IF fileLock = "held" THEN {"free", "lost"} ELSE {fileLock})
    /\ UNCHANGED <<flags, counts, encoder, codec, mfc, written, setting>>

JoinEncode ==
    /\ At("main", "join_encode") /\ pc["encode"] = "done"
    /\ Go("main", "join_mfc")
    /\ UNCHANGED <<flags, counts, encoder, codec, mfc, output, setting>>

JoinMfc ==
    /\ At("main", "join_mfc") /\ pc["mfc"] \in {"done", "cancelled"}
    /\ Go("main", "join_daemon")
    /\ UNCHANGED <<flags, counts, encoder, codec, mfc, output, setting>>

JoinDaemon ==
    /\ At("main", "join_daemon") /\ pc["daemon"] = "done"
    /\ Go("main", "close")
    /\ UNCHANGED <<flags, counts, encoder, codec, mfc, output, setting>>

(* "Threads have finished" is printed, and fclose writes what is left. *)
Close ==
    /\ At("main", "close") /\ fileLock = "free"
    /\ Go("main", "done")
    /\ UNCHANGED <<flags, counts, encoder, codec, mfc, output, setting>>

Timeout ==
    /\ ~Over
    /\ Go("main", "exited")
    /\ UNCHANGED <<flags, counts, encoder, codec, mfc, output, setting>>

EncodeThread == EncodeLoop \/ EncodeFeed \/ EncodeOverrun \/ EncodeEnd \/ EncodeDequeue
                  \/ EncodeDequeueFails
MfcThread    == MfcLoop \/ MfcDequeue \/ MfcDequeueFails \/ MfcWriteBegin \/ MfcWriteEnd
                  \/ MfcRequeue
DaemonThread == DaemonTick \/ DaemonCancel
Main         == JoinEncode \/ JoinMfc \/ JoinDaemon \/ Close

Next == EncodeThread \/ MfcThread \/ MfcEmpty \/ Encode \/ DaemonThread \/ Main \/ Timeout

(* The threads are scheduled, sleep(2) ends and the codec encodes what it can.
   It need not deliver an empty buffer, nor must -t be given. *)
Spec == /\ Init /\ [][Next]_vars
        /\ WF_vars(EncodeThread) /\ WF_vars(MfcThread) /\ WF_vars(DaemonThread) /\ WF_vars(Main)
        /\ WF_vars(Encode)
-----------------------------------------------------------------------------
(* Every variable has its type, whatever the codec delivers and whichever
   call of the encode and mfc threads fails. *)
TypeOK ==
    /\ error \in BOOLEAN /\ finish \in BOOLEAN /\ partial \in BOOLEAN
    /\ timely \in BOOLEAN /\ fragile \in BOOLEAN /\ streamOn \in BOOLEAN
    /\ encodedCnt \in Nat /\ lastEncodedCnt \in Nat /\ frames \in Nat /\ fed \in Nat
    /\ outFlag \in [OutBufs -> BOOLEAN] /\ outBuf \in [OutBufs -> Nat]
    /\ outQueue \in Seq(OutBufs) /\ outDone \in Seq(OutBufs)
    /\ capOwner \in [CapBufs -> {"codec", "encoded", "program"}] /\ capBuf \in [CapBufs -> Nat]
    /\ capDone \in Seq(CapBufs)
    /\ cur \in CapBufs \cup {NULL} /\ sLastDequeue \in CapBufs \cup {NULL}
    /\ written \in Seq(Nat) /\ fileLock \in {"free", "held", "lost"}
    /\ DOMAIN pc = {"encode", "mfc", "daemon", "main"}
    /\ pc["encode"] \in EncodePC /\ pc["mfc"] \in MfcPC
    /\ pc["daemon"] \in DaemonPC /\ pc["main"] \in MainPC

(* The output file is the encoding of the input in order, each frame once:
   no stream buffer is refilled before the codec has read it and no encoded
   frame is overwritten before it is written out, whatever the threads'
   interleaving.  Calls that fail unnoticed leave gaps. *)
WrittenInOrder ==
    /\ \A i \in 1..Len(written) - 1 : written[i] < written[i + 1]
    /\ ~fragile => \A i \in 1..Len(written) : written[i] = i

(* A program that ends by itself has written every frame, if two seconds
   always suffice, no call fails and the file has two frames at least: with
   only one the OUTPUT queue never streams. *)
WholeFileEncoded ==
    pc["main"] = "done" /\ timely /\ ~fragile /\ ~partial /\ frames > 1 => Len(written) = frames

(* The encode thread waits for the codec, the codec for the thread that is
   gone; or main waits for a lock of the thread that was cancelled in fwrite.
   Either needs a call that failed or a daemon that was too early. *)
Wedged ==
    \/ /\ pc["encode"] = "dequeue" /\ streamOn /\ outDone = <<>> /\ ~CanEncode
       /\ pc["mfc"] \in {"done", "cancelled"}
    \/ fileLock = "lost"

(* The program ends, unless it is wedged in one of these ways; and that
   happens only when a call failed or two seconds did not suffice. *)
EndsUnlessWedged == <>Over \/ ((fragile \/ ~timely) /\ <>[]Wedged)
=============================================================================
