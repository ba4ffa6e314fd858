--------------------------- MODULE DecodePipeline ---------------------------
(***************************************************************************)
(* The decoding pipeline of v4l2_decode, and of ffmpeg_media_player/video: *)
(* a parser thread hands stream buffers to the codec (OUTPUT queue), an    *)
(* mfc thread takes decoded pictures from it (CAPTURE queue), puts them on *)
(* the LCD and gives back the picture shown before, a daemon thread ends   *)
(* everything when no picture has come for two seconds, and main joins the *)
(* three.  The codec driver and the LCD controller are external: they do   *)
(* what the program relies on.                                             *)
(*                                                                         *)
(* A frame of the stream is a number.  The two programs differ in where a  *)
(* frame comes from, a mapped file here and the player's video queue in    *)
(* VideoPlayer, and in a delay before a picture is given back, which only  *)
(* `timely` sees.                                                          *)
(***************************************************************************)
EXTENDS Naturals, Sequences

CONSTANTS OutBufs,   \* stream buffers, 0 .. out_buf_cnt - 1
          CapBufs,   \* picture buffers
          Frames,    \* bound: frames in the stream
          NULL

ASSUME PipelineAssumption ==
    /\ OutBufs \subseteq Nat /\ OutBufs # {}
    /\ Frames \in Nat
    /\ NULL \notin CapBufs \cup OutBufs

VARIABLES error, finish, decodedCnt,     \* the control fields of the instance
          outFlag, fed, bigAfter,        \* stream buffers in use, frames queued so far, and
                                         \* the number of them whose bytes exceed 512
          cur, sLastDequeue,             \* the mfc thread's buffer indexes
          lastDecodedCnt,
          streamOn, outQueue, outDone,   \* the codec's OUTPUT queue
          capOwner, capDone,             \* and its CAPTURE queue
          pbase, scanout, refused,       \* the LCD registers; the panel refused an address
          pc, lost,                      \* lost: the stdio stream whose lock the mfc thread has
                                         \* kept when it was cancelled, or "none"
          timely, fragile                \* two seconds always suffice; calls may fail

codec   == <<streamOn, outQueue, outDone, capOwner, capDone>>
panel   == <<pbase, scanout, refused>>
parser  == <<outFlag, fed>>
display == <<cur, sLastDequeue, decodedCnt>>
setting == <<bigAfter, timely, fragile>>
flags   == <<error, finish>>
vars    == <<flags, parser, display, lastDecodedCnt, codec, panel, pc, lost, setting>>

ParserPC == {"loop", "feed", "dequeue", "print", "stuck", "done"}
MfcPC    == {"loop", "dequeue", "show", "vsync", "stuck", "record", "requeue", "print", "done",
             "cancelled"}
DaemonPC == {"sleep", "finish", "cancel", "done"}
MainPC   == {"join_parser", "join_mfc", "join_daemon", "close", "done", "exited"}
Streams  == {"record", "stdout", "stderr"}

Over == pc["main"] \in {"done", "exited"}

At(t, here) == ~Over /\ pc[t] = here

Go(t, there) == pc' = [pc EXCEPT ![t] = there]

(* The codec has all picture buffers and the CAPTURE queue is streaming. *)
Init ==
    /\ error = FALSE /\ finish = FALSE /\ decodedCnt = 0 /\ lastDecodedCnt = 0
    /\ outFlag = [n \in OutBufs |-> FALSE] /\ fed = 0
    /\ bigAfter \in 1..Frames + 1
    /\ cur = NULL /\ sLastDequeue = NULL
    /\ streamOn = FALSE /\ outQueue = <<>> /\ outDone = <<>>
    /\ capOwner = [c \in CapBufs |-> "codec"] /\ capDone = <<>>
    /\ pbase = NULL /\ scanout = NULL /\ refused = FALSE
    /\ lost = "none"
    /\ pc = [parser |-> "loop", mfc |-> "loop", daemon |-> "sleep", main |-> "join_parser"]
    /\ timely \in BOOLEAN /\ fragile \in BOOLEAN

-----------------------------------------------------------------------------
(* Faulty variants of the actions below, caught by the properties at the
   end of this module. *)

(* a stream buffer is taken that is still in use *)
PickAny(n) == n \in OutBufs

(* the picture just shown is given back, instead of the one before *)
RequeueShown ==
    /\ At("mfc", "requeue")
    /\ capOwner' = [capOwner EXCEPT ![cur] = "codec"]
    /\ sLastDequeue' = cur
    /\ Go("mfc", "loop")
    /\ UNCHANGED <<flags, parser, cur, decodedCnt, lastDecodedCnt, streamOn, outQueue, outDone,
                   capDone, panel, lost, setting>>

(* a picture is given back only every other time *)
RequeueForgets ==
    /\ At("mfc", "requeue")
    /\ sLastDequeue' = cur
    /\ Go("mfc", "loop")
    /\ UNCHANGED <<flags, parser, cur, decodedCnt, lastDecodedCnt, codec, panel, lost, setting>>

(* the daemon stops after its first look *)
DaemonLookOnce ==
    /\ At("daemon", "sleep")
    /\ lastDecodedCnt' = decodedCnt
    /\ Go("daemon", "finish")
    /\ UNCHANGED <<flags, parser, display, codec, panel, lost, setting>>

(* the daemon does not cancel the mfc thread *)
DaemonCancelNobody ==
    /\ At("daemon", "cancel")
    /\ Go("daemon", "done")
    /\ UNCHANGED <<flags, parser, display, lastDecodedCnt, codec, panel, lost, setting>>

-----------------------------------------------------------------------------
(* parser_thread_func: the head of the loop *)
ParserLoop ==
    /\ At("parser", "loop")
    /\ Go("parser", IF error \/ finish THEN "print"
                    ELSE IF \A n \in OutBufs : outFlag[n] THEN "dequeue" ELSE "feed")
    /\ UNCHANGED <<flags, parser, display, lastDecodedCnt, codec, panel, lost, setting>>

(* the first stream buffer that is not in use *)
Pick(n) == ~outFlag[n] /\ \A m \in OutBufs : m < n => outFlag[m]

(* mfc_dec_queue_buf_out: a failure is not looked at, and the buffer is
   thought to be in use. *)
QueueOut(n) ==
    /\ \/ outQueue' = Append(outQueue, n)
       \/ fragile /\ lost # "stderr" /\ UNCHANGED outQueue
    /\ outFlag' = [outFlag EXCEPT ![n] = TRUE]
    /\ fed' = fed + 1

(* The parser function cuts the next frame out of the stream into the buffer.
   The OUTPUT queue starts streaming when the frames queued before exceed
   512 bytes. *)
ParserFeed ==
    /\ At("parser", "feed")
    /\ fed < Frames
    /\ streamOn' = (streamOn \/ fed >= bigAfter)
    /\ \E n \in OutBufs : Pick(n) /\ QueueOut(n)
    /\ Go("parser", "loop")
    /\ UNCHANGED <<flags, display, lastDecodedCnt, outDone, capOwner, capDone, panel, lost, setting>>

(* The stream has ended. *)
ParserEnd ==
    /\ At("parser", "feed")
    /\ fed = Frames
    /\ Go("parser", "print")
    /\ UNCHANGED <<flags, parser, display, lastDecodedCnt, codec, panel, lost, setting>>

(* STREAMON fails, the thread returns and nobody is told. *)
ParserStreamFails ==
    /\ At("parser", "feed")
    /\ fragile /\ lost # "stderr"
    /\ fed < Frames /\ ~streamOn /\ fed >= bigAfter
    /\ Go("parser", "done")
    /\ UNCHANGED <<flags, parser, display, lastDecodedCnt, codec, panel, lost, setting>>

(* dequeue_output blocks until the codec is done with a stream buffer. *)
ParserDequeue ==
    /\ At("parser", "dequeue")
    /\ streamOn /\ outDone # <<>>
    /\ outFlag' = [outFlag EXCEPT ![Head(outDone)] = FALSE]
    /\ outDone' = Tail(outDone)
    /\ Go("parser", "loop")
    /\ UNCHANGED <<flags, fed, display, lastDecodedCnt, streamOn, outQueue, capOwner,
                   capDone, panel, lost, setting>>

(* It fails at once when the OUTPUT queue is not streaming. *)
ParserDequeueFails ==
    /\ At("parser", "dequeue")
    /\ ~streamOn \/ fragile
    /\ lost # "stderr"
    /\ error' = TRUE
    /\ Go("parser", "loop")
    /\ UNCHANGED <<finish, parser, display, lastDecodedCnt, codec, panel, lost, setting>>

(* A call fails, but the message about it needs the lock of stderr. *)
ParserHangs ==
    /\ lost = "stderr"
    /\ \/ At("parser", "feed") /\ fed < Frames
          /\ streamOn' \in {streamOn, streamOn \/ fed >= bigAfter}
       \/ At("parser", "dequeue") /\ UNCHANGED streamOn
    /\ Go("parser", "stuck")
    /\ UNCHANGED <<flags, parser, display, lastDecodedCnt, outQueue, outDone, capOwner, capDone,
                   panel, lost, setting>>

(* "Parser thread finished" *)
ParserPrint ==
    /\ At("parser", "print")
    /\ lost # "stdout"
    /\ Go("parser", "done")
    /\ UNCHANGED <<flags, parser, display, lastDecodedCnt, codec, panel, lost, setting>>

-----------------------------------------------------------------------------
MfcLoop ==
    /\ At("mfc", "loop")
    /\ Go("mfc", IF error \/ finish THEN "print" ELSE "dequeue")
    /\ UNCHANGED <<flags, parser, display, lastDecodedCnt, codec, panel, lost, setting>>

(* dequeue_capture blocks until there is a picture; an empty one is the last. *)
MfcDequeue ==
    /\ At("mfc", "dequeue")
    /\ capDone # <<>>
    /\ LET c == Head(capDone).buf
       IN /\ cur' = c
          /\ capOwner' = [capOwner EXCEPT ![c] = "program"]
    /\ capDone' = Tail(capDone)
    /\ decodedCnt' = decodedCnt + 1
    /\ finish' = (finish \/ Head(capDone).empty)
    /\ Go("mfc", IF Head(capDone).empty THEN "print" ELSE "show")
    /\ UNCHANGED <<error, parser, sLastDequeue, lastDecodedCnt, streamOn, outQueue, outDone,
                   panel, lost, setting>>

MfcDequeueFails ==
    /\ At("mfc", "dequeue")
    /\ fragile
    /\ error' = TRUE
    /\ Go("mfc", "print")
    /\ UNCHANGED <<finish, parser, display, lastDecodedCnt, codec, panel, lost, setting>>

(* CSKY_FBIO_SET_PBASE_YUV, whose result is not looked at *)
MfcShow ==
    /\ At("mfc", "show")
    /\ \/ pbase' = cur /\ UNCHANGED refused
       \/ fragile /\ refused' = TRUE /\ UNCHANGED pbase
    /\ Go("mfc", "vsync")
    /\ UNCHANGED <<flags, parser, display, lastDecodedCnt, codec, scanout, lost, setting>>

(* fb_wait_for_vsync: the panel has taken the new address over. *)
MfcVsync ==
    /\ At("mfc", "vsync")
    /\ scanout' = pbase
    /\ Go("mfc", "record")
    /\ UNCHANGED <<flags, parser, display, lastDecodedCnt, codec, pbase, refused, lost, setting>>

(* record_yuv_pic writes the picture to the record file, if -r has named one. *)
MfcRecord ==
    /\ At("mfc", "record")
    /\ Go("mfc", "requeue")
    /\ UNCHANGED <<flags, parser, display, lastDecodedCnt, codec, panel, lost, setting>>

(* "MFC thread finished" *)
MfcPrint ==
    /\ At("mfc", "print")
    /\ Go("mfc", "done")
    /\ UNCHANGED <<flags, parser, display, lastDecodedCnt, codec, panel, lost, setting>>

(* When the wait fails the thread sleeps for ever. *)
MfcVsyncFails ==
    /\ At("mfc", "vsync")
    /\ fragile
    /\ Go("mfc", "stuck")
    /\ UNCHANGED <<flags, parser, display, lastDecodedCnt, codec, panel, lost, setting>>

(* The picture shown before goes back to the codec; a failure is not looked at. *)
MfcRequeue ==
    /\ At("mfc", "requeue")
    /\ \/ /\ sLastDequeue # NULL
          /\ capOwner' = [capOwner EXCEPT ![sLastDequeue] = "codec"]
       \/ /\ sLastDequeue = NULL \/ fragile
          /\ UNCHANGED capOwner
    /\ sLastDequeue' = cur
    /\ Go("mfc", "loop")
    /\ UNCHANGED <<flags, parser, cur, decodedCnt, lastDecodedCnt, streamOn, outQueue, outDone,
                   capDone, panel, lost, setting>>

-----------------------------------------------------------------------------
(* The codec, external: it decodes the stream buffers in the order in which
   they were queued, each into a picture buffer it has.  After the last
   frame it may deliver an empty picture. *)
CanDecode == streamOn /\ outQueue # <<>> /\ \E c \in CapBufs : capOwner[c] = "codec"

Decode ==
    /\ ~Over /\ CanDecode
    /\ \E c \in CapBufs :
          /\ capOwner[c] = "codec"
          /\ capOwner' = [capOwner EXCEPT ![c] = "decoded"]
          /\ capDone' = Append(capDone, [buf |-> c, empty |-> FALSE])
    /\ outDone' = Append(outDone, Head(outQueue))
    /\ outQueue' = Tail(outQueue)
    /\ UNCHANGED <<flags, parser, display, lastDecodedCnt, streamOn, panel, pc, lost, setting>>

DeliverEmpty ==
    /\ ~Over /\ streamOn /\ fed = Frames /\ outQueue = <<>>
    /\ \A i \in DOMAIN capDone : ~capDone[i].empty
    /\ \E c \in CapBufs :
          /\ capOwner[c] = "codec"
          /\ capOwner' = [capOwner EXCEPT ![c] = "decoded"]
          /\ capDone' = Append(capDone, [buf |-> c, empty |-> TRUE])
    /\ UNCHANGED <<flags, parser, display, lastDecodedCnt, streamOn, outQueue, outDone, panel, pc,
                   lost, setting>>

(* The LCD controller, external: at each vsync it latches the address. *)
Latch ==
    /\ ~Over /\ scanout # pbase
    /\ scanout' = pbase
    /\ UNCHANGED <<flags, parser, display, lastDecodedCnt, codec, pbase, refused, pc, lost, setting>>

-----------------------------------------------------------------------------
(* Nothing more will be decoded or shown. *)
ParserIdle ==
    \/ pc["parser"] = "done"
    \/ pc["parser"] = "feed" /\ fed = Frames
    \/ pc["parser"] = "dequeue" /\ streamOn /\ outDone = <<>>

Idle ==
    /\ ParserIdle
    /\ ~CanDecode
    /\ pc["mfc"] \in {"stuck", "done", "cancelled"} \/ (pc["mfc"] = "dequeue" /\ capDone = <<>>)

(* sleep(2), then a look at the count of decoded frames.  When `timely`, the
   sleep lasts until a frame has been decoded or nothing is going on. *)
DaemonTick ==
    /\ At("daemon", "sleep")
    /\ timely => decodedCnt # lastDecodedCnt \/ Idle
    /\ lastDecodedCnt' = decodedCnt
    /\ Go("daemon", IF lastDecodedCnt = decodedCnt THEN "finish" ELSE "sleep")
    /\ UNCHANGED <<flags, parser, display, codec, panel, lost, setting>>

DaemonFinish ==
    /\ At("daemon", "finish")
    /\ finish' = TRUE
    /\ Go("daemon", "cancel")
    /\ UNCHANGED <<error, parser, display, lastDecodedCnt, codec, panel, lost, setting>>

(* The mfc thread may be in a call that has the lock of the stream s: fwrite,
   printf, or the message about a call that has failed. *)
Writing(s) ==
    \/ s = "record" /\ pc["mfc"] = "record"
    \/ s = "stdout" /\ pc["mfc"] = "print"
    \/ s = "stderr" /\ pc["mfc"] \in {"dequeue", "vsync", "requeue"} /\ fragile

(* pthread_cancel(mfc_thread), asynchronous: at whatever place it is.  stdio
   is not made for it, and nobody will release the lock. *)
DaemonCancel ==
    /\ At("daemon", "cancel")
    /\ pc' = [pc EXCEPT !["daemon"] = "done",
                        !["mfc"] = IF @ = "done" THEN "done" ELSE "cancelled"]
    /\ lost' \in {"none"} \cup {s \in Streams : Writing(s)}
    /\ UNCHANGED <<flags, parser, display, lastDecodedCnt, codec, panel, setting>>

JoinParser ==
    /\ At("main", "join_parser") /\ pc["parser"] = "done"
    /\ Go("main", "join_mfc")
    /\ UNCHANGED <<flags, parser, display, lastDecodedCnt, codec, panel, lost, setting>>

JoinMfc ==
    /\ At("main", "join_mfc") /\ pc["mfc"] \in {"done", "cancelled"}
    /\ Go("main", "join_daemon")
    /\ UNCHANGED <<flags, parser, display, lastDecodedCnt, codec, panel, lost, setting>>

JoinDaemon ==
    /\ At("main", "join_daemon") /\ pc["daemon"] = "done"
    /\ Go("main", "close")
    /\ UNCHANGED <<flags, parser, display, lastDecodedCnt, codec, panel, lost, setting>>

(* "Threads have finished" is printed, and cleanup closes the devices and the
   record file. *)
Close ==
    /\ At("main", "close")
    /\ lost \notin {"stdout", "record"}
    /\ Go("main", "done")
    /\ UNCHANGED <<flags, parser, display, lastDecodedCnt, codec, panel, lost, setting>>

(* timeout_thread_func, with -t: exit(0) *)
Timeout ==
    /\ ~Over
    /\ Go("main", "exited")
    /\ UNCHANGED <<flags, parser, display, lastDecodedCnt, codec, panel, lost, setting>>

-----------------------------------------------------------------------------
Parser == ParserLoop \/ ParserFeed \/ ParserEnd \/ ParserStreamFails \/ ParserDequeue
            \/ ParserDequeueFails \/ ParserHangs \/ ParserPrint
Mfc    == MfcLoop \/ MfcDequeue \/ MfcDequeueFails \/ MfcShow \/ MfcVsync
            \/ MfcVsyncFails \/ MfcRecord \/ MfcRequeue \/ MfcPrint
Daemon == DaemonTick \/ DaemonFinish \/ DaemonCancel
Main   == JoinParser \/ JoinMfc \/ JoinDaemon \/ Close

Next == Parser \/ Mfc \/ Decode \/ DeliverEmpty \/ Latch \/ Daemon \/ Main \/ Timeout

(* A call that blocks need not fail. *)
ParserMoves == Parser /\ (At("parser", "dequeue") /\ streamOn => outDone # <<>>)
MfcMoves    == Mfc /\ (At("mfc", "dequeue") => capDone # <<>>)

(* The threads are scheduled, sleep(2) ends, vsyncs come and the codec decodes
   what it can.  It need not deliver an empty picture, nor must -t be given. *)
Fairness ==
    /\ WF_vars(ParserMoves) /\ WF_vars(MfcMoves) /\ WF_vars(Daemon) /\ WF_vars(Main)
    /\ WF_vars(Decode)

Spec == Init /\ [][Next]_vars /\ Fairness
-----------------------------------------------------------------------------
(* Every variable has its type, whatever the codec delivers and whichever
   call of the parser and mfc threads fails. *)
TypeOK ==
    /\ error \in BOOLEAN /\ finish \in BOOLEAN
    /\ decodedCnt \in Nat /\ lastDecodedCnt \in Nat
    /\ outFlag \in [OutBufs -> BOOLEAN]
    /\ fed \in Nat /\ bigAfter \in Nat
    /\ cur \in CapBufs \cup {NULL} /\ sLastDequeue \in CapBufs \cup {NULL}
    /\ streamOn \in BOOLEAN
    /\ outQueue \in Seq(OutBufs) /\ outDone \in Seq(OutBufs)
    /\ capOwner \in [CapBufs -> {"codec", "decoded", "program"}]
    /\ capDone \in Seq([buf : CapBufs, empty : BOOLEAN])
    /\ pbase \in CapBufs \cup {NULL} /\ scanout \in CapBufs \cup {NULL}
    /\ refused \in BOOLEAN /\ timely \in BOOLEAN /\ fragile \in BOOLEAN
    /\ lost \in Streams \cup {"none"}
    /\ DOMAIN pc = {"parser", "mfc", "daemon", "main"}
    /\ pc["parser"] \in ParserPC /\ pc["mfc"] \in MfcPC
    /\ pc["daemon"] \in DaemonPC /\ pc["main"] \in MainPC

(* The parser never writes into a stream buffer that the codec has: what is
   queued or waits to be dequeued is in use according to out_buf_flag, and
   is there only once. *)
NoRepeats(s) == \A i, j \in 1..Len(s) : i # j => s[i] # s[j]

OutputOwned ==
    /\ \A i \in 1..Len(outQueue) : outFlag[outQueue[i]]
    /\ \A i \in 1..Len(outDone) : outFlag[outDone[i]]
    /\ NoRepeats(outQueue) /\ NoRepeats(outDone)
    /\ \A i \in 1..Len(outQueue), j \in 1..Len(outDone) : outQueue[i] # outDone[j]

(* The codec never has the picture that is on the screen, nor the one the
   panel will show next, so that no half-written picture is seen: it gets a
   picture back only when the next one has been scanned out.  A panel that
   refuses an address, unnoticed, keeps the old one. *)
TearFree ==
    ~refused => \A c \in CapBufs : c \in {pbase, scanout} => capOwner[c] = "program"

(* No picture buffer is lost: those the codec does not have are the one the
   mfc thread is showing and the one shown before, as many as
   RESULT_EXTRA_BUFFER_CNT adds to what the codec needs. *)
NoBufferLost ==
    ~fragile => \A c \in CapBufs : capOwner[c] = "program" => c \in {cur, sLastDequeue}

(* A program that ends by itself has decoded the whole stream, if two seconds
   always suffice, no call fails, and the OUTPUT queue starts streaming
   before both the stream and the free stream buffers are used up. *)
WholeStreamDecoded ==
    (pc["main"] = "done" /\ timely /\ ~fragile /\ \E n \in OutBufs : bigAfter <= n /\ bigAfter < Frames)
        => decodedCnt >= Frames

(* The parser waits for the codec, the codec for a picture buffer or for a
   stream buffer, and the thread that would give one back is gone. *)
Wedged ==
    /\ pc["parser"] = "dequeue" /\ streamOn /\ outDone = <<>> /\ ~CanDecode
    /\ pc["mfc"] \in {"done", "cancelled"}

(* A thread waits for the lock that the mfc thread has kept: to print that it
   ends or that a call has failed, or to close the record file. *)
LockedOut ==
    \/ lost = "stdout" /\ (pc["parser"] = "print" \/ pc["main"] = "close")
    \/ lost = "record" /\ pc["main"] = "close"
    \/ lost = "stderr" /\ pc["parser"] = "stuck"

(* The program ends, unless the parser is left waiting or a thread is locked
   out; and that happens only when a call failed or two seconds did not
   suffice.  But if the codec delivers its empty picture just when the daemon
   has seen enough, the mfc thread may be cancelled in its last printf. *)
EndsUnlessWedged ==
    \/ <>Over
    \/ (fragile \/ ~timely) /\ <>[](Wedged \/ LockedOut)
    \/ <>[](LockedOut /\ lost = "stdout")

=============================================================================
