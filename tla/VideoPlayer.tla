---------------------------- MODULE VideoPlayer ----------------------------
(***************************************************************************)
(* The player of a file that has a video stream and no other: the          *)
(* demultiplexing thread of csky_ffmpeg_media_player.c, the video packet   *)
(* queue, and the decoding pipeline of ffmpeg_media_player/video, whose    *)
(* parser thread takes its frames from the queue.                          *)
(*                                                                         *)
(* The pipeline is DecodePipeline's, to which this module adds the other   *)
(* end: where DecodePipeline's parser finds the next frame or the end of   *)
(* the stream in memory, this one waits for a packet and takes an empty    *)
(* queue with `quit` set for the end.  MediaPlayer has the audio side and  *)
(* knows of the pipeline only that it may end at any time; here is why it  *)
(* ends, and that it does not end too early.                               *)
(*                                                                         *)
(* A packet that cannot be queued is lost unnoticed: Frames counts those   *)
(* that can.                                                               *)
(***************************************************************************)
EXTENDS DecodePipeline

CONSTANT MaxVideo     \* MAX_VIDEO_QUEUE_SIZE

ASSUME VideoAssumption == MaxVideo \in Nat \ {0}

VARIABLES demux,      \* where the demultiplexing thread is
          unread,     \* packets still in the file
          broken,     \* the file has turned out to end in an I/O error
          queued,     \* videoPacketQueue.nbPkts
          quit,       \* ps->quit
          get,        \* where the parser thread is in get_one_avpacket
          outlast     \* the final sleep has to outlast the look at the queue

player     == <<demux, unread, broken, queued, quit, get, outlast>>
pipeline   == vars
playerVars == <<vars, player>>

DemuxPC == {"gate", "read", "sleep", "done"}
GetPC   == {"check", "empty", "get"}

PlayerInit ==
    /\ Init
    /\ demux = "gate" /\ unread = Frames /\ broken = FALSE
    /\ queued = 0 /\ quit = FALSE
    /\ get = "check" /\ outlast = FALSE

(* The parser thread is in get_one_avpacket. *)
Getting(here) == At("parser", "feed") /\ get = here

-----------------------------------------------------------------------------
(* Faulty variants of the actions below, caught by the properties at the
   end of this module. *)

(* quit is set as soon as the file ends *)
DemuxEndAtOnce ==
    /\ ~Over /\ demux = "read" /\ unread = 0 /\ ~broken
    /\ demux' = "sleep" /\ outlast' = FALSE
    /\ UNCHANGED <<pipeline, unread, broken, queued, quit, get>>

(* get_one_avpacket waits for a packet whether quit is set or not *)
GetEmptyForever ==
    /\ Getting("empty")
    /\ get' = "check" /\ outlast' = FALSE
    /\ UNCHANGED <<pipeline, demux, unread, broken, queued, quit>>

(* quit ends the thread whether there is a packet or not *)
GetEndOnQuit ==
    /\ At("parser", "feed") /\ quit
    /\ Go("parser", "print")
    /\ get' = "check" /\ outlast' = FALSE
    /\ UNCHANGED <<flags, parser, display, lastDecodedCnt, codec, panel, lost, setting,
                   demux, unread, broken, queued, quit>>

-----------------------------------------------------------------------------
(* demuxing_thread.  A full queue makes it sleep and look again. *)
DemuxGate ==
    /\ ~Over /\ demux = "gate" /\ queued < MaxVideo
    /\ demux' = "read"
    /\ UNCHANGED <<pipeline, unread, broken, queued, quit, get, outlast>>

(* av_read_frame and packet_queue_put *)
DemuxRead ==
    /\ ~Over /\ demux = "read" /\ unread > 0
    /\ unread' = unread - 1 /\ queued' = queued + 1
    /\ demux' = "gate"
    /\ UNCHANGED <<pipeline, broken, quit, get, outlast>>

(* demuxing_thread logs what follows, and that needs the lock of stdout. *)
MayLog == lost # "stdout"

(* An I/O error is tried again, at once. *)
DemuxReadError ==
    /\ ~Over /\ demux = "read" /\ unread = 0 /\ MayLog
    /\ broken' = TRUE
    /\ demux' = "gate"
    /\ UNCHANGED <<pipeline, unread, queued, quit, get, outlast>>

(* The file has ended: sleep(4) begins. *)
DemuxEnd ==
    /\ ~Over /\ demux = "read" /\ unread = 0 /\ ~broken /\ MayLog
    /\ demux' = "sleep"
    /\ outlast' = (pc["parser"] = "feed")
    /\ UNCHANGED <<pipeline, unread, broken, queued, quit, get>>

(* It lasts longer than a look at the queue, or the usleep after it. *)
DemuxQuit ==
    /\ ~Over /\ demux = "sleep" /\ ~outlast /\ MayLog
    /\ quit' = TRUE /\ demux' = "done"
    /\ UNCHANGED <<pipeline, unread, broken, queued, get, outlast>>

-----------------------------------------------------------------------------
(* get_one_avpacket: is there a packet?  nbPkts is read outside the mutex. *)
GetCheck ==
    /\ Getting("check")
    /\ get' = (IF queued = 0 THEN "empty" ELSE "get")
    /\ outlast' = FALSE
    /\ UNCHANGED <<pipeline, demux, unread, broken, queued, quit>>

(* There was none, and quit is not set yet: usleep, and look again. *)
GetWait ==
    /\ Getting("empty") /\ ~quit
    /\ get' = "check" /\ outlast' = FALSE
    /\ UNCHANGED <<pipeline, demux, unread, broken, queued, quit>>

(* There was none, and quit is set: the thread ends. *)
GetEnd ==
    /\ Getting("empty") /\ quit
    /\ Go("parser", "print")
    /\ get' = "check" /\ outlast' = FALSE
    /\ UNCHANGED <<flags, parser, display, lastDecodedCnt, codec, panel, lost, setting,
                   demux, unread, broken, queued, quit>>

(* A packet is taken, cut by the parser function, which begins anew with
   each, and queued as the next frame. *)
PlayerFeed ==
    /\ Getting("get") /\ queued > 0
    /\ ParserFeed
    /\ queued' = queued - 1 /\ get' = "check" /\ outlast' = FALSE
    /\ UNCHANGED <<demux, unread, broken, quit>>

(* A packet is taken, and STREAMON fails or a message about a failure hangs. *)
PlayerFeedFails ==
    /\ Getting("get") /\ queued > 0
    /\ ParserStreamFails \/ ParserHangs
    /\ queued' = queued - 1 /\ get' = "check" /\ outlast' = FALSE
    /\ UNCHANGED <<demux, unread, broken, quit>>

(* The rest of parser_thread_func *)
PlayerParserLoop ==
    /\ \/ ParserLoop \/ ParserDequeue \/ ParserDequeueFails \/ ParserPrint
       \/ At("parser", "dequeue") /\ ParserHangs
    /\ UNCHANGED player

PlayerMfc == Mfc /\ UNCHANGED player

PlayerCodec == (Decode \/ DeliverEmpty \/ Latch) /\ UNCHANGED player

PlayerDaemon == Daemon /\ UNCHANGED player

(* main joins the demultiplexing thread first; video_deinit joins the others. *)
PlayerMain ==
    /\ demux = "done"
    /\ Main
    /\ UNCHANGED player

PlayerTimeout == Timeout /\ UNCHANGED player

-----------------------------------------------------------------------------
Demux        == DemuxGate \/ DemuxRead \/ DemuxReadError \/ DemuxEnd \/ DemuxQuit
PlayerParser == GetCheck \/ GetWait \/ GetEnd \/ PlayerFeed \/ PlayerFeedFails \/ PlayerParserLoop

PlayerNext == Demux \/ PlayerParser \/ PlayerMfc \/ PlayerCodec \/ PlayerDaemon \/ PlayerMain
                \/ PlayerTimeout

(* As in DecodePipeline; the demultiplexing thread is scheduled too. *)
PlayerFairness ==
    /\ WF_playerVars(Demux)
    /\ WF_playerVars(PlayerParser /\ (At("parser", "dequeue") /\ streamOn => outDone # <<>>))
    /\ WF_playerVars(MfcMoves /\ UNCHANGED player)
    /\ WF_playerVars(PlayerDaemon) /\ WF_playerVars(PlayerMain)
    /\ WF_playerVars(Decode /\ UNCHANGED player)

PlayerSpec == PlayerInit /\ [][PlayerNext]_playerVars /\ PlayerFairness
-----------------------------------------------------------------------------
(* The pipeline of the player does nothing that the pipeline of v4l2_decode
   may not do with a stream of the same frames: in particular its parser
   thread does not take the queue for finished while a packet is still to
   come, although it reads nbPkts and quit one after the other.  So what
   holds of the stream buffers and pictures there holds here. *)
ImplementsDecode == Init /\ [][Next]_vars

(* The parser thread never waits in packet_queue_get, where it would not see
   quit: a packet that it has seen, outside the mutex, is still there. *)
GetFindsPacket == Getting("get") => queued > 0

(* The ways in which the player never ends: the parser waits for a stream
   buffer that never comes; it has ended early and left the queue full, so
   that the demultiplexer waits for room; the file ends in an I/O error. *)
LeftFull    == demux = "gate" /\ queued >= MaxVideo /\ pc["parser"] = "done"
ReadsForever == broken /\ unread = 0 /\ demux \in {"gate", "read"}

(* Something went wrong: a call fails, two seconds do not suffice, the OUTPUT
   queue starts too late to get a stream buffer back, or the file breaks. *)
StartsLate == \A n \in OutBufs : bigAfter > n
Mishap     == fragile \/ ~timely \/ StartsLate \/ broken

(* A thread waits for the lock that the cancelled mfc thread has kept: the
   demultiplexer too, which logs the end of the file and of the play. *)
PlayerLockedOut ==
    LockedOut \/ (lost = "stdout" /\ (demux = "sleep" \/ (demux = "read" /\ unread = 0)))

(* The player comes to an end by itself, however its four threads are
   scheduled, unless something went wrong, and then what it hangs in is one
   of these, or the lock of a stream that the cancelled mfc thread has kept.
   In its last printf it may be cancelled though nothing went wrong. *)
PlayerEnds ==
    \/ <>Over
    \/ <>[](Mishap /\ (Wedged \/ PlayerLockedOut \/ LeftFull \/ ReadsForever))
    \/ <>[](PlayerLockedOut /\ lost = "stdout")

(* A player that ends without a mishap, and not by -t, has decoded every
   packet of the queue and shown every picture, but the empty one. *)
PlayedWhole ==
    pc["main"] = "done" /\ ~Mishap /\ bigAfter < Frames
        => decodedCnt >= Frames /\ queued = 0 /\ \A i \in DOMAIN capDone : capDone[i].empty
=============================================================================
