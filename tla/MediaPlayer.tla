---------------------------- MODULE MediaPlayer ----------------------------
(***************************************************************************)
(* ffmpeg_media_player: main starts a demultiplexing thread that fills an  *)
(* audio and a video packet queue, an audio thread and a video pipeline    *)
(* that empty them, and joins them all.  `quit` is the only way the        *)
(* demultiplexer tells the others that the file has ended.                 *)
(*                                                                         *)
(* A queue is the number of packets in it (nbPkts): PacketQueue shows that *)
(* a put and a get are atomic and keep the order.  Every read of nbPkts    *)
(* and of `quit` that a thread makes outside the mutex is a step of its    *)
(* own.  Of the video pipeline this module has what touches the queue,     *)
(* get_one_avpacket in the parser thread; DecodePipeline has the rest.     *)
(***************************************************************************)
EXTENDS Naturals

CONSTANTS MaxAudio,    \* MAX_AUDIO_QUEUE_SIZE
          MaxVideo,    \* MAX_VIDEO_QUEUE_SIZE
          MaxPackets   \* bound: packets in the file

ASSUME PlayerAssumption ==
    /\ MaxAudio \in Nat \ {0}
    /\ MaxVideo \in Nat \ {0}
    /\ MaxPackets \in Nat

VARIABLES pc,                        \* where each thread is
          hasAudio, hasVideo,        \* the file has such a stream
          videoStream,               \* ps->videoStream # -1
          nbAudio, nbVideo,          \* nbPkts of the two queues
          quit,                      \* ps->quit
          unread, broken,            \* packets still in the file; it ends in an I/O error
          packet,                    \* the packet the demultiplexer has read
          before                     \* threads the final sleep has to outlast

file  == <<hasAudio, hasVideo, broken>>
queues == <<nbAudio, nbVideo>>
vars  == <<pc, file, videoStream, queues, quit, unread, packet, before>>

Threads == {"main", "demux", "audio", "video"}

MainPC  == {"open", "start_demux", "start_audio", "prepare_video", "init_video",
            "join_demux", "join_audio", "join_video", "done", "exited"}
DemuxPC == {"none", "gate", "read", "route", "sleep", "done"}
AudioPC == {"none", "prepare", "init_pcm", "loop", "empty", "decode", "check", "get", "play",
            "close", "done"}
VideoPC == {"none", "loop", "check", "empty", "get", "feed", "done"}

(* exit() and the return of main end every thread. *)
Over == pc["main"] \in {"done", "exited"}

At(t, here) == ~Over /\ pc[t] = here

Go(t, there) == pc' = [pc EXCEPT ![t] = there]

(* Places from which a thread goes on, without blocking, to a packet it takes
   or to an empty queue.  A thread found at one of them when the final
   sleep(4) begins gets there before the sleep ends.  Opening the sound card,
   playing a packet and waiting for the video pipeline may outlast it. *)
Brisk(t) ==
    \/ pc[t] \in {"empty", "decode", "check", "get"}
    \/ t = "audio" /\ pc[t] = "loop"

Moved(t) == before' = before \ {t}

Init ==
    /\ pc = [t \in Threads |-> IF t = "main" THEN "open" ELSE "none"]
    /\ hasAudio \in BOOLEAN /\ hasVideo \in BOOLEAN /\ broken \in BOOLEAN
    /\ videoStream = hasVideo
    /\ nbAudio \in {0, MaxAudio} /\ nbVideo \in {0, MaxVideo}
    /\ quit = FALSE
    /\ unread \in 0..MaxPackets
    /\ packet = "none"
    /\ before = {}

-----------------------------------------------------------------------------
(* Faulty variants of the actions below, caught by the properties at the
   end of this module. *)

(* the gate is shut only when both queues are full *)
GateOpenIfEither == nbAudio < MaxAudio \/ nbVideo < MaxVideo

(* quit is set as soon as the file ends, without the sleep *)
DemuxEndAtOnce ==
    /\ At("demux", "read")
    /\ unread = 0 /\ ~broken
    /\ Go("demux", "sleep")
    /\ before' = {}
    /\ UNCHANGED <<file, videoStream, queues, quit, unread, packet>>

(* the audio thread does not look at quit when its queue is empty *)
AudioEmptyForever ==
    /\ At("audio", "empty")
    /\ Go("audio", "loop")
    /\ Moved("audio")
    /\ UNCHANGED <<file, videoStream, queues, quit, unread, packet>>

(* the video side gets without looking whether there is a packet *)
VideoCheckSkipped ==
    /\ At("video", "check")
    /\ Go("video", "get")
    /\ UNCHANGED <<file, videoStream, queues, quit, unread, packet, before>>

-----------------------------------------------------------------------------
(* prepare_common and find_stream_index: the file is opened and its streams
   are found, or the program exits.  Then the queues of the streams that
   exist are initialised; the other keeps what av_malloc left in it, and of
   that all that matters is whether it makes the queue look full. *)
Open ==
    /\ At("main", "open")
    /\ \/ /\ Go("main", "start_demux")
          /\ nbAudio' = IF hasAudio THEN 0 ELSE nbAudio
          /\ nbVideo' = IF hasVideo THEN 0 ELSE nbVideo
       \/ /\ Go("main", "exited")
          /\ UNCHANGED queues
    /\ UNCHANGED <<file, videoStream, quit, unread, packet, before>>

StartDemux ==
    /\ At("main", "start_demux")
    /\ pc' = [pc EXCEPT !["main"] = "start_audio", !["demux"] = "gate"]
    /\ UNCHANGED <<file, videoStream, queues, quit, unread, packet, before>>

StartAudio ==
    /\ At("main", "start_audio")
    /\ pc' = [pc EXCEPT !["main"] = IF videoStream THEN "prepare_video" ELSE "join_demux",
                        !["audio"] = IF hasAudio THEN "prepare" ELSE "none"]
    /\ UNCHANGED <<file, videoStream, queues, quit, unread, packet, before>>

(* prepare_video may fail: then main gives the video stream up, while the
   demultiplexer has been filling its queue. *)
PrepareVideo ==
    /\ At("main", "prepare_video")
    /\ \/ Go("main", "init_video") /\ UNCHANGED videoStream
       \/ Go("main", "join_demux") /\ videoStream' = FALSE
    /\ UNCHANGED <<file, queues, quit, unread, packet, before>>

(* video_init starts the pipeline, or the program exits. *)
InitVideo ==
    /\ At("main", "init_video")
    /\ \/ pc' = [pc EXCEPT !["main"] = "join_demux", !["video"] = "loop"]
       \/ Go("main", "exited")
    /\ UNCHANGED <<file, videoStream, queues, quit, unread, packet, before>>

JoinDemux ==
    /\ At("main", "join_demux")
    /\ pc["demux"] = "done"
    /\ Go("main", "join_audio")
    /\ UNCHANGED <<file, videoStream, queues, quit, unread, packet, before>>

JoinAudio ==
    /\ At("main", "join_audio")
    /\ hasAudio => pc["audio"] = "done"
    /\ Go("main", "join_video")
    /\ UNCHANGED <<file, videoStream, queues, quit, unread, packet, before>>

(* video_deinit, then ps is freed and main returns. *)
JoinVideo ==
    /\ At("main", "join_video")
    /\ videoStream => pc["video"] = "done"
    /\ Go("main", "done")
    /\ UNCHANGED <<file, videoStream, queues, quit, unread, packet, before>>

(* timeout_thread_func, started by video_init when -t is given: exit(0). *)
Timeout ==
    /\ ~Over /\ pc["video"] # "none"
    /\ Go("main", "exited")
    /\ UNCHANGED <<file, videoStream, queues, quit, unread, packet, before>>

-----------------------------------------------------------------------------
GateOpen == nbAudio < MaxAudio /\ nbVideo < MaxVideo

(* A full queue makes the demultiplexer sleep and look again. *)
DemuxGate ==
    /\ At("demux", "gate")
    /\ GateOpen
    /\ Go("demux", "read")
    /\ UNCHANGED <<file, videoStream, queues, quit, unread, packet, before>>

DemuxRead ==
    /\ At("demux", "read")
    /\ unread > 0
    /\ unread' = unread - 1
    /\ packet' \in {"other"} \cup (IF hasAudio THEN {"audio"} ELSE {})
                             \cup (IF hasVideo THEN {"video"} ELSE {})
    /\ Go("demux", "route")
    /\ UNCHANGED <<file, videoStream, queues, quit, before>>

(* av_read_frame fails with an I/O error: try again, without a delay. *)
DemuxReadError ==
    /\ At("demux", "read")
    /\ unread = 0 /\ broken
    /\ Go("demux", "gate")
    /\ UNCHANGED <<file, videoStream, queues, quit, unread, packet, before>>

(* The file has ended: sleep(4) begins. *)
DemuxEnd ==
    /\ At("demux", "read")
    /\ unread = 0 /\ ~broken
    /\ Go("demux", "sleep")
    /\ before' = {t \in {"audio", "video"} : Brisk(t)}
    /\ UNCHANGED <<file, videoStream, queues, quit, unread, packet>>

(* packet_queue_put of the packet just read, in the queue of its stream. *)
Put ==
    /\ nbAudio' = IF packet = "audio" THEN nbAudio + 1 ELSE nbAudio
    /\ nbVideo' = IF packet = "video" /\ videoStream THEN nbVideo + 1 ELSE nbVideo

(* A failed put is not noticed: the packet is lost. *)
DemuxRoute ==
    /\ At("demux", "route")
    /\ Put \/ UNCHANGED queues
    /\ packet' = "none"
    /\ Go("demux", "gate")
    /\ UNCHANGED <<file, videoStream, quit, unread, before>>

(* "Play finished!" *)
DemuxQuit ==
    /\ At("demux", "sleep")
    /\ before = {}
    /\ quit' = TRUE
    /\ Go("demux", "done")
    /\ UNCHANGED <<file, videoStream, queues, unread, packet, before>>

-----------------------------------------------------------------------------
(* prepare_audio may fail: the thread exits and nobody is told. *)
AudioPrepare ==
    /\ At("audio", "prepare")
    /\ Go("audio", "init_pcm") \/ Go("audio", "done")
    /\ UNCHANGED <<file, videoStream, queues, quit, unread, packet, before>>

(* init_pcm and ffmpeg_fmt_to_alsa_fmt: the sound card takes the format of
   the stream, or the program exits. *)
InitPcm ==
    /\ At("audio", "init_pcm")
    /\ Go("audio", "loop") \/ Go("main", "exited")
    /\ UNCHANGED <<file, videoStream, queues, quit, unread, packet, before>>

(* play_audio: is there a packet? *)
AudioLoop ==
    /\ At("audio", "loop")
    /\ Go("audio", IF nbAudio = 0 THEN "empty" ELSE "decode")
    /\ UNCHANGED <<file, videoStream, queues, quit, unread, packet, before>>

AudioEmpty ==
    /\ At("audio", "empty")
    /\ Go("audio", IF quit THEN "close" ELSE "loop")
    /\ Moved("audio")
    /\ UNCHANGED <<file, videoStream, queues, quit, unread, packet>>

(* audio_decode_frame: -1 when quit is set or the queue is empty *)
AudioDecode ==
    /\ At("audio", "decode")
    /\ Go("audio", IF quit THEN "loop" ELSE "check")
    /\ UNCHANGED <<file, videoStream, queues, quit, unread, packet, before>>

AudioCheck ==
    /\ At("audio", "check")
    /\ Go("audio", IF nbAudio = 0 THEN "loop" ELSE "get")
    /\ UNCHANGED <<file, videoStream, queues, quit, unread, packet, before>>

(* packet_queue_get blocks while the queue is empty. *)
AudioGet ==
    /\ At("audio", "get")
    /\ nbAudio > 0
    /\ nbAudio' = nbAudio - 1
    /\ Go("audio", "play")
    /\ Moved("audio")
    /\ UNCHANGED <<file, videoStream, nbVideo, quit, unread, packet>>

(* The packet is decoded and written to the sound card, or is not decodable
   (-1); a frame that cannot be decoded (-2) ends the thread, and a
   resampler that cannot be set up ends the program. *)
AudioPlay ==
    /\ At("audio", "play")
    /\ Go("audio", "loop") \/ Go("audio", "close") \/ Go("main", "exited")
    /\ UNCHANGED <<file, videoStream, queues, quit, unread, packet, before>>

AudioClose ==
    /\ At("audio", "close")
    /\ Go("audio", "done")
    /\ UNCHANGED <<file, videoStream, queues, quit, unread, packet, before>>

-----------------------------------------------------------------------------
(* parser_thread_func: the loop ends when the pipeline reports an error or
   has finished, which it may do at any time; else the next packet is
   fetched for a free stream buffer. *)
VideoLoop ==
    /\ At("video", "loop")
    /\ Go("video", "check") \/ Go("video", "done")
    /\ UNCHANGED <<file, videoStream, queues, quit, unread, packet, before>>

(* get_one_avpacket: while the queue is empty, give up if quit is set *)
VideoCheck ==
    /\ At("video", "check")
    /\ Go("video", IF nbVideo = 0 THEN "empty" ELSE "get")
    /\ UNCHANGED <<file, videoStream, queues, quit, unread, packet, before>>

VideoEmpty ==
    /\ At("video", "empty")
    /\ Go("video", IF quit THEN "done" ELSE "check")
    /\ Moved("video")
    /\ UNCHANGED <<file, videoStream, queues, quit, unread, packet>>

VideoGet ==
    /\ At("video", "get")
    /\ nbVideo > 0
    /\ nbVideo' = nbVideo - 1
    /\ Go("video", "feed")
    /\ Moved("video")
    /\ UNCHANGED <<file, videoStream, nbAudio, quit, unread, packet>>

VideoFeed ==
    /\ At("video", "feed")
    /\ Go("video", "loop")
    /\ UNCHANGED <<file, videoStream, queues, quit, unread, packet, before>>

-----------------------------------------------------------------------------
Main  == Open \/ StartDemux \/ StartAudio \/ PrepareVideo \/ InitVideo
           \/ JoinDemux \/ JoinAudio \/ JoinVideo
Demux == DemuxGate \/ DemuxRead \/ DemuxReadError \/ DemuxEnd \/ DemuxRoute \/ DemuxQuit
Audio == AudioPrepare \/ InitPcm \/ AudioLoop \/ AudioEmpty \/ AudioDecode \/ AudioCheck
           \/ AudioGet \/ AudioPlay \/ AudioClose
Video == VideoLoop \/ VideoCheck \/ VideoEmpty \/ VideoGet \/ VideoFeed

Next == Main \/ Demux \/ Audio \/ Video \/ Timeout

(* Every thread keeps being scheduled; the timeout may never come. *)
Fairness == WF_vars(Main) /\ WF_vars(Demux) /\ WF_vars(Audio) /\ WF_vars(Video)

Spec == Init /\ [][Next]_vars /\ Fairness
-----------------------------------------------------------------------------
(* Every variable has its type: each thread of csky_ffmpeg_media_player.c
   is where its function can be. *)
TypeOK ==
    /\ pc \in [Threads -> MainPC \cup DemuxPC \cup AudioPC \cup VideoPC]
    /\ pc["main"] \in MainPC /\ pc["demux"] \in DemuxPC
    /\ pc["audio"] \in AudioPC /\ pc["video"] \in VideoPC
    /\ hasAudio \in BOOLEAN /\ hasVideo \in BOOLEAN /\ broken \in BOOLEAN
    /\ videoStream \in BOOLEAN /\ quit \in BOOLEAN
    /\ nbAudio \in Nat /\ nbVideo \in Nat
    /\ unread \in 0..MaxPackets
    /\ packet \in {"none", "other", "audio", "video"}
    /\ before \in SUBSET {"audio", "video"}

(* The look at both counters before each read is all that bounds the queues:
   with one producer neither grows past its maximum, although the gate is
   read outside the mutex and the packet read may belong to either. *)
QueuesBounded ==
    /\ hasAudio => nbAudio <= MaxAudio
    /\ hasVideo => nbVideo <= MaxVideo

(* A decoding thread that has seen a packet, outside the mutex, finds one
   when it calls packet_queue_get: nobody is ever left in the blocking get,
   where setting quit would not be noticed. *)
GetNeverBlocks ==
    /\ pc["audio"] = "get" => nbAudio > 0
    /\ pc["video"] = "get" => nbVideo > 0

(* A thread that leaves because its queue is empty and quit is set leaves no
   packet behind, although it reads the two one after the other: this is
   what the sleep before quit is good for. *)
NothingLeftBehind ==
    [][/\ pc["audio"] = "empty" /\ pc'["audio"] = "close" => nbAudio = 0
       /\ pc["video"] = "empty" /\ pc'["video"] = "done" => nbVideo = 0]_vars

(* main frees the player state only when no thread that uses it is left. *)
ThreadsDoneBeforeFree ==
    pc["main"] = "done" =>
        \A t \in {"demux", "audio", "video"} : pc[t] \in {"none", "done"}

(* The ways in which the player never ends: quit was set while the audio
   queue still held packets, so that audio_decode_frame returns at once and
   play_audio keeps calling it; a queue is full and nobody empties it any
   more; the file ends in an I/O error. *)
AudioSpins == quit /\ nbAudio > 0 /\ pc["audio"] \in {"loop", "decode"}

GateShut ==
    /\ pc["demux"] = "gate"
    /\ \/ nbAudio >= MaxAudio /\ (~hasAudio \/ pc["audio"] = "done")
       \/ nbVideo >= MaxVideo /\ (~videoStream \/ pc["video"] = "done")

ReadsForever == broken /\ unread = 0 /\ pc["demux"] \in {"gate", "read"}

Wedged == AudioSpins \/ GateShut \/ ReadsForever

(* Apart from these the player always comes to an end, as long as the video
   pipeline always gets a stream buffer back, which is the subject of
   DecodePipeline. *)
EndsUnlessWedged == <>Over \/ <>[]Wedged

(* "Play finished!" is logged when quit is set, and the README shows the
   threads finishing and the program ending after it. *)
FinishedEnds == quit ~> Over
=============================================================================
