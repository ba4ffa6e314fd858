------------------------- MODULE MediaPlayerProofs -------------------------
(***************************************************************************)
(* The safety properties of MediaPlayer, for queues of any size and files  *)
(* of any length.                                                          *)
(*                                                                         *)
(* IInv adds to them what each one rests on: that the demultiplexer only   *)
(* reads while there is room in both queues, that nobody but the thread    *)
(* itself empties the queue it has looked at, and that no packet arrives   *)
(* once the final sleep has begun.                                         *)
(***************************************************************************)
EXTENDS MediaPlayer, TLAPS

(* The threads main has not started yet. *)
NotStarted ==
    /\ pc["main"] \in {"open", "start_demux"} => pc["demux"] = "none"
    /\ pc["main"] \in {"open", "start_demux", "start_audio"} => pc["audio"] = "none"
    /\ pc["main"] \in {"open", "start_demux", "start_audio", "prepare_video", "init_video"}
         => pc["video"] = "none"
    /\ ~hasAudio => pc["audio"] = "none"
    /\ ~videoStream => pc["video"] = "none"
    /\ pc["main"] \in {"prepare_video", "init_video"} => videoStream

(* There is room for the packet the demultiplexer is about to put. *)
RoomForPacket ==
    /\ nbAudio <= MaxAudio /\ nbVideo <= MaxVideo
    /\ pc["demux"] \in {"read", "route"} => nbAudio < MaxAudio /\ nbVideo < MaxVideo

(* The threads main has joined. *)
Joined ==
    /\ pc["main"] \in {"join_audio", "join_video", "done"} => pc["demux"] \in {"none", "done"}
    /\ pc["main"] \in {"join_video", "done"} => pc["audio"] \in {"none", "done"}
    /\ pc["main"] = "done" => pc["video"] \in {"none", "done"}

(* A thread that did not wait to be outlasted and has found its queue empty
   found it empty after the last packet was put. *)
Outlasted ==
    /\ quit => pc["demux"] = "done"
    /\ pc["demux"] = "done" => before = {}
    /\ pc["demux"] \in {"sleep", "done"} =>
          /\ pc["audio"] = "empty" /\ "audio" \notin before => nbAudio = 0
          /\ pc["video"] = "empty" /\ "video" \notin before => nbVideo = 0

IInv == TypeOK /\ NotStarted /\ RoomForPacket /\ GetNeverBlocks /\ Joined /\ Outlasted

-----------------------------------------------------------------------------
LEMMA InitIInv == Init => IInv
<1> SUFFICES ASSUME Init  PROVE IInv
  OBVIOUS
<1>1. /\ pc \in [Threads -> MainPC \cup DemuxPC \cup AudioPC \cup VideoPC]
      /\ pc["main"] = "open"
      /\ pc["demux"] = "none" /\ pc["audio"] = "none" /\ pc["video"] = "none"
  BY DEF Init, Threads, MainPC, DemuxPC
<1>2. TypeOK
  <2>1. nbAudio \in Nat /\ nbVideo \in Nat /\ unread \in 0..MaxPackets
    BY PlayerAssumption DEF Init
  <2>2. /\ hasAudio \in BOOLEAN /\ hasVideo \in BOOLEAN /\ broken \in BOOLEAN
        /\ videoStream \in BOOLEAN /\ quit \in BOOLEAN
    BY Zenon DEF Init
  <2>3. packet \in {"none", "other", "audio", "video"} /\ before \in SUBSET {"audio", "video"}
    BY DEF Init
  <2> QED  BY <1>1, <2>1, <2>2, <2>3 DEF TypeOK, MainPC, DemuxPC, AudioPC, VideoPC
<1>3. NotStarted
  BY <1>1, Zenon DEF Init, NotStarted
<1>4. RoomForPacket /\ GetNeverBlocks /\ Joined
  BY <1>1, PlayerAssumption DEF Init, RoomForPacket, GetNeverBlocks, Joined
<1>5. Outlasted
  BY <1>1 DEF Init, Outlasted
<1> QED  BY <1>2, <1>3, <1>4, <1>5 DEF IInv

LEMMA MainKeepsIInv == IInv /\ (Main \/ Timeout) => IInv'
<1> SUFFICES ASSUME IInv, Main \/ Timeout  PROVE IInv'
  OBVIOUS
<1> USE PlayerAssumption DEF IInv, TypeOK, NotStarted, RoomForPacket, GetNeverBlocks, Joined,
      Outlasted, Threads, MainPC, DemuxPC, AudioPC, VideoPC, At, Go, Over, file, queues
<1>1. CASE Open  BY <1>1 DEF Open
<1>2. CASE StartDemux
  <2>1. pc["main"] = "start_demux" /\ pc' = [pc EXCEPT !["main"] = "start_audio", !["demux"] = "gate"]
    BY <1>2 DEF StartDemux
  <2>2. /\ pc' \in [Threads -> MainPC \cup DemuxPC \cup AudioPC \cup VideoPC]
        /\ pc'["main"] = "start_audio" /\ pc'["demux"] = "gate"
        /\ pc'["audio"] = pc["audio"] /\ pc'["video"] = pc["video"]
    BY <2>1
  <2> QED  BY <1>2, <2>1, <2>2 DEF StartDemux
<1>3. CASE StartAudio  BY <1>3 DEF StartAudio
<1>4. CASE PrepareVideo
  <2>1. CASE Go("main", "init_video") /\ UNCHANGED videoStream
    BY <1>4, <2>1 DEF PrepareVideo
  <2>2. CASE Go("main", "join_demux") /\ videoStream' = FALSE
    <3>1. pc["main"] = "prepare_video" /\ pc["video"] = "none"
      BY <1>4 DEF PrepareVideo
    <3>2. /\ pc' \in [Threads -> MainPC \cup DemuxPC \cup AudioPC \cup VideoPC]
          /\ pc'["main"] = "join_demux" /\ pc'["demux"] = pc["demux"]
          /\ pc'["audio"] = pc["audio"] /\ pc'["video"] = "none"
      BY <2>2, <3>1
    <3>3. UNCHANGED <<hasAudio, hasVideo, broken, nbAudio, nbVideo, quit, unread, packet, before>>
      BY <1>4 DEF PrepareVideo
    <3>4. TypeOK'
      BY <2>2, <3>2, <3>3
    <3>5. NotStarted'
      BY <3>2, <3>3
    <3>6. RoomForPacket' /\ GetNeverBlocks' /\ Joined' /\ Outlasted'
      BY <3>2, <3>3
    <3> QED  BY <3>4, <3>5, <3>6
  <2> QED  BY <1>4, <2>1, <2>2 DEF PrepareVideo
<1>5. CASE InitVideo  BY <1>5 DEF InitVideo
<1>6. CASE JoinDemux  BY <1>6 DEF JoinDemux
<1>7. CASE JoinAudio  BY <1>7 DEF JoinAudio
<1>8. CASE JoinVideo  BY <1>8 DEF JoinVideo
<1>9. CASE Timeout  BY <1>9 DEF Timeout
<1> QED  BY <1>1, <1>2, <1>3, <1>4, <1>5, <1>6, <1>7, <1>8, <1>9 DEF Main

LEMMA DemuxKeepsIInv == IInv /\ Demux => IInv'
<1> SUFFICES ASSUME IInv, Demux  PROVE IInv'
  OBVIOUS
<1> USE PlayerAssumption DEF IInv, TypeOK, NotStarted, RoomForPacket, GetNeverBlocks, Joined,
      Outlasted, Threads, MainPC, DemuxPC, AudioPC, VideoPC, At, Go, Over, file, queues
<1>1. CASE DemuxGate  BY <1>1 DEF DemuxGate, GateOpen
<1>2. CASE DemuxRead  BY <1>2 DEF DemuxRead
<1>3. CASE DemuxReadError  BY <1>3 DEF DemuxReadError
<1>4. CASE DemuxEnd  BY <1>4 DEF DemuxEnd, Brisk
<1>5. CASE DemuxRoute  BY <1>5 DEF DemuxRoute, Put
<1>6. CASE DemuxQuit  BY <1>6 DEF DemuxQuit
<1> QED  BY <1>1, <1>2, <1>3, <1>4, <1>5, <1>6 DEF Demux

LEMMA AudioKeepsIInv == IInv /\ Audio => IInv'
<1> SUFFICES ASSUME IInv, Audio  PROVE IInv'
  OBVIOUS
<1> USE PlayerAssumption DEF IInv, TypeOK, NotStarted, RoomForPacket, GetNeverBlocks, Joined,
      Outlasted, Threads, MainPC, DemuxPC, AudioPC, VideoPC, At, Go, Over, Moved, file, queues
<1>1. CASE AudioPrepare  BY <1>1 DEF AudioPrepare
<1>2. CASE AudioLoop  BY <1>2 DEF AudioLoop
<1>3. CASE AudioEmpty  BY <1>3 DEF AudioEmpty
<1>4. CASE AudioDecode  BY <1>4 DEF AudioDecode
<1>5. CASE AudioCheck  BY <1>5 DEF AudioCheck
<1>6. CASE AudioGet  BY <1>6 DEF AudioGet
<1>7. CASE AudioPlay  BY <1>7 DEF AudioPlay
<1>8. CASE AudioClose  BY <1>8 DEF AudioClose
<1>9. CASE InitPcm  BY <1>9 DEF InitPcm
<1> QED  BY <1>1, <1>2, <1>3, <1>4, <1>5, <1>6, <1>7, <1>8, <1>9 DEF Audio

LEMMA VideoKeepsIInv == IInv /\ Video => IInv'
<1> SUFFICES ASSUME IInv, Video  PROVE IInv'
  OBVIOUS
<1> USE PlayerAssumption DEF IInv, TypeOK, NotStarted, RoomForPacket, GetNeverBlocks, Joined,
      Outlasted, Threads, MainPC, DemuxPC, AudioPC, VideoPC, At, Go, Over, Moved, file, queues
<1>1. CASE VideoLoop  BY <1>1 DEF VideoLoop
<1>2. CASE VideoCheck  BY <1>2 DEF VideoCheck
<1>3. CASE VideoEmpty  BY <1>3 DEF VideoEmpty
<1>4. CASE VideoGet  BY <1>4 DEF VideoGet
<1>5. CASE VideoFeed  BY <1>5 DEF VideoFeed
<1> QED  BY <1>1, <1>2, <1>3, <1>4, <1>5 DEF Video

LEMMA NextIInv == IInv /\ [Next]_vars => IInv'
<1> SUFFICES ASSUME IInv, [Next]_vars  PROVE IInv'
  OBVIOUS
<1>1. CASE UNCHANGED vars
  BY <1>1 DEF vars, file, queues, IInv, TypeOK, NotStarted, RoomForPacket, GetNeverBlocks, Joined, Outlasted
<1> QED  BY <1>1, MainKeepsIInv, DemuxKeepsIInv, AudioKeepsIInv, VideoKeepsIInv DEF Next

-----------------------------------------------------------------------------
(* The inductive invariant holds throughout. *)
THEOREM PlayerInvariant == Spec => []IInv
BY InitIInv, NextIInv, PTL DEF Spec

(* The program counters, counters and flags stay in their domains. *)
THEOREM PlayerTypeOK == Spec => []TypeOK
BY PlayerInvariant, PTL DEF IInv

(* With the gate of demuxing_thread neither packet queue outgrows its maximum,
   whatever the order in which the streams are interleaved in the file. *)
THEOREM PlayerQueuesBounded == Spec => []QueuesBounded
<1>1. IInv => QueuesBounded
  BY DEF IInv, RoomForPacket, QueuesBounded
<1> QED  BY <1>1, PlayerInvariant, PTL

(* A thread that calls packet_queue_get finds a packet there. *)
THEOREM PlayerGetNeverBlocks == Spec => []GetNeverBlocks
BY PlayerInvariant, PTL DEF IInv

(* main frees the player state only after the last thread that uses it. *)
THEOREM PlayerThreadsDone == Spec => []ThreadsDoneBeforeFree
<1>1. IInv => ThreadsDoneBeforeFree
  BY DEF IInv, Joined, ThreadsDoneBeforeFree
<1> QED  BY <1>1, PlayerInvariant, PTL

(* A decoding thread that leaves because the file has ended leaves an empty
   queue, although it looks at the queue before it looks at quit. *)
THEOREM PlayerNothingLeft == Spec => NothingLeftBehind
<1> DEFINE LeavesNothing ==
        /\ pc["audio"] = "empty" /\ pc'["audio"] = "close" => nbAudio = 0
        /\ pc["video"] = "empty" /\ pc'["video"] = "done" => nbVideo = 0
<1>1. IInv /\ [Next]_vars => [LeavesNothing]_vars
  <2> SUFFICES ASSUME IInv, Next  PROVE LeavesNothing
    OBVIOUS
  <2>1. pc["audio"] = "empty" /\ pc'["audio"] = "close" => quit
    BY DEF IInv, TypeOK, Next, Main, Demux, Audio, Video, Timeout, Open, StartDemux, StartAudio,
        PrepareVideo, InitVideo, JoinDemux, JoinAudio, JoinVideo, DemuxGate, DemuxRead,
        DemuxReadError, DemuxEnd, DemuxRoute, DemuxQuit, AudioPrepare, InitPcm, AudioLoop, AudioEmpty,
        AudioDecode, AudioCheck, AudioGet, AudioPlay, AudioClose, VideoLoop, VideoCheck,
        VideoEmpty, VideoGet, VideoFeed, At, Go, Threads
  <2>2. pc["video"] = "empty" /\ pc'["video"] = "done" => quit
    BY DEF IInv, TypeOK, Next, Main, Demux, Audio, Video, Timeout, Open, StartDemux, StartAudio,
        PrepareVideo, InitVideo, JoinDemux, JoinAudio, JoinVideo, DemuxGate, DemuxRead,
        DemuxReadError, DemuxEnd, DemuxRoute, DemuxQuit, AudioPrepare, InitPcm, AudioLoop, AudioEmpty,
        AudioDecode, AudioCheck, AudioGet, AudioPlay, AudioClose, VideoLoop, VideoCheck,
        VideoEmpty, VideoGet, VideoFeed, At, Go, Threads
  <2>3. quit => /\ pc["audio"] = "empty" => nbAudio = 0
                /\ pc["video"] = "empty" => nbVideo = 0
    BY DEF IInv, Outlasted
  <2> QED  BY <2>1, <2>2, <2>3
<1> QED  BY <1>1, PlayerInvariant, PTL DEF Spec, NothingLeftBehind
=============================================================================
