---------------------------- MODULE DeviceSetup ----------------------------
(***************************************************************************)
(* What the decoder, the encoder and the player's video part do before     *)
(* their threads run, and after: open the input, the frame buffer and the  *)
(* codec, set up and map the codec's two buffer queues, queue every        *)
(* capture buffer, start the stream, open the output file, create the      *)
(* threads, join them, clean up.  Any call may fail, and every failure     *)
(* ends in cleanup too.                                                    *)
(*                                                                         *)
(* A descriptor is the lowest number that is free in the process; the      *)
(* struct's fd fields start as zero, which the code takes for "not open".  *)
(* The driver, which may grant other numbers of buffers than were asked    *)
(* for, is external.  The struct's arrays have MFC_MAX_OUT_BUF and         *)
(* MFC_MAX_CAP_BUF entries, and the loops that fill them do not look: past *)
(* the end of an array they write into the next one.                       *)
(***************************************************************************)
EXTENDS Integers

CONSTANTS OutGrants, CapGrants,  \* the numbers of buffers a driver may grant
          MaxOut, MaxCap,        \* MFC_MAX_OUT_BUF, MFC_MAX_CAP_BUF
          MaxTable               \* bound: descriptors of the process

(* What is past twice an array is not followed: the kernel grants 32
   buffers at most (VIDEO_MAX_FRAME), and MFC_MAX_OUT_BUF is 16. *)
ASSUME SetupAssumption ==
    /\ MaxOut \in Nat \ {0} /\ MaxCap \in Nat \ {0}
    /\ OutGrants \subseteq 1..2 * MaxOut /\ CapGrants \subseteq 1..2 * MaxCap
    /\ MaxTable \in Nat /\ MaxTable >= 8

VARIABLES program,           \* which of the three programs runs
          pc, failed,        \* the stage that is next; a call of main's has failed
          fd,                \* in.fd, fb.fd, mfc.fd and the FILE of the output
          table,             \* the process's descriptors: what each is open on
          panel,             \* "as_found", "dark" (powered down by fb_open)
          outCnt, outMapped, \* out_buf_cnt; the first outMapped were mapped
          outSpoiled,        \* those whose out_buf_addr was overwritten afterwards
          capCnt, capMapped, \* cap_buf_cnt; the same
          capSpoiled,        \* the same of cap_buf_addr
          granted,           \* ghost: the capture buffers the driver really made
          queued,            \* cap_buf_queued: the first ones are in the codec's queue
          streaming,         \* STREAMON was done on CAPTURE
          threads            \* the threads that run

files   == <<fd, table>>
outputs == <<outCnt, outMapped, outSpoiled>>
capture == <<capCnt, capMapped, capSpoiled, granted>>
stream  == <<queued, streaming>>
vars    == <<program, pc, failed, files, panel, outputs, capture, stream, threads>>

Programs  == {"decode", "encode", "play"}
Resources == {"input", "fb", "mfc", "file"}
Threads   == {"feeder", "mfc", "daemon"}
Descs     == 0..MaxTable - 1

(* The order of the calls in each of the programs: what follows a stage
   that went well. *)
DecodeMain ==
    [input |-> "fb", fb |-> "mfc", mfc |-> "output", controls |-> "output",
     output |-> "map_output", map_output |-> "capture",
     capture |-> "map_capture", map_capture |-> "queue",
     queue |-> "stream_on", stream_on |-> "file", file |-> "create_feeder",
     create_feeder |-> "create_mfc", create_mfc |-> "create_daemon",
     create_daemon |-> "join", join |-> "cleanup", cleanup |-> "over"]

VideoInit == DecodeMain

EncodeMain == [DecodeMain EXCEPT !.input = "mfc", !.mfc = "controls"]

(* the encoder has no frame buffer *)
Devices(p) == IF p = "encode" THEN {"input", "mfc"} ELSE {"input", "fb", "mfc"}

Order == [p \in Programs |-> CASE p = "decode" -> DecodeMain
                               [] p = "play"   -> VideoInit
                               [] p = "encode" -> EncodeMain]

Stages == DOMAIN DecodeMain \cup {"over"}

(* The struct is zeroed by parse_args.  A shell may have started the
   program without a standard input; the player has other files open. *)
Init ==
    /\ program \in Programs /\ pc = "input" /\ failed = FALSE
    /\ fd = [r \in Resources |-> 0]
    /\ \E zero \in IF program = "play" THEN {"std"} ELSE {"std", "free"} :
         table = [d \in Descs |-> IF d = 0 THEN zero ELSE IF d < 3 THEN "std" ELSE "free"]
    /\ panel = "as_found"
    /\ outCnt = 0 /\ outMapped = 0 /\ capCnt = 0 /\ capMapped = 0 /\ granted = 0
    /\ outSpoiled = {} /\ capSpoiled = {}
    /\ queued = 0 /\ streaming = FALSE /\ threads = {}

-----------------------------------------------------------------------------
At(stage) == pc = stage /\ UNCHANGED program

Goes == pc' = Order[program][pc] /\ UNCHANGED failed

Stays == UNCHANGED <<pc, failed>>

Fails == pc' = "cleanup" /\ failed' = TRUE

Lowest(t) == CHOOSE d \in Descs : t[d] = "free" /\ \A e \in 0..d - 1 : t[e] # "free"

(* open: resource r has descriptor d of the table t *)
Opens(r, t) ==
    /\ fd' = [fd EXCEPT ![r] = Lowest(t)]
    /\ table' = [t EXCEPT ![Lowest(t)] = r]

OpenFails(r, t) == fd' = [fd EXCEPT ![r] = -1] /\ table' = t

-----------------------------------------------------------------------------
(* Faulty variants of the definitions below, caught by the properties at
   the end of this module. *)

(* a check that fails closes the descriptor, which cleanup does again *)
OpenMfcClosing ==
    /\ At("mfc")
    /\ \/ OpenFails("mfc", table) /\ Fails
       \/ Opens("mfc", table) /\ Goes
       \/ fd' = [fd EXCEPT !["mfc"] = Lowest(table)] /\ UNCHANGED table /\ Fails
    /\ UNCHANGED <<panel, outputs, capture, stream, threads>>

(* the number that was asked for is kept *)
SetupCaptureKeeping ==
    /\ At("capture")
    /\ \/ capCnt' \in CapGrants /\ granted' \in CapGrants /\ Goes
       \/ UNCHANGED <<capCnt, granted>> /\ Fails
    /\ UNCHANGED <<files, panel, outputs, capMapped, capSpoiled, stream, threads>>

(* a field is only closed when its stage went well *)
ClosesInOrder(r) == IF fd[r] > 0 /\ (r = "fb" => panel = "dark") THEN {fd[r]} ELSE {}

-----------------------------------------------------------------------------
(* input_open: the descriptor zero is taken for a failure.  The file is
   mapped after that, but not by the player. *)
OpenInput ==
    /\ At("input")
    /\ \/ OpenFails("input", table) /\ Fails
       \/ Opens("input", table) /\ fd'["input"] > 0 /\ Goes
       \/ Opens("input", table) /\ (fd'["input"] = 0 \/ program # "play") /\ Fails
    /\ UNCHANGED <<panel, outputs, capture, stream, threads>>

(* fb_open first opens the backlight, and goes on when it cannot; it never
   closes it.  The panel is powered down whatever its format was
   (TEST_LCDC_RESET), before the format is set. *)
WithBacklight == {table, [table EXCEPT ![Lowest(table)] = "backlight"]}

OpenFb ==
    /\ At("fb")
    /\ \E t \in WithBacklight :
         \/ OpenFails("fb", t) /\ Fails /\ UNCHANGED panel
         \/ Opens("fb", t) /\ Fails /\ panel' \in {panel, "dark"}
         \/ Opens("fb", t) /\ Goes /\ panel' = "dark"
    /\ UNCHANGED <<outputs, capture, stream, threads>>

(* mfc_open: the device may lack a capability *)
OpenMfc ==
    /\ At("mfc")
    /\ \/ OpenFails("mfc", table) /\ Fails
       \/ Opens("mfc", table) /\ Goes
       \/ Opens("mfc", table) /\ Fails
    /\ UNCHANGED <<panel, outputs, capture, stream, threads>>

(* mfc_enc_setup_output: the bit rate, the group of pictures, the quality
   and the frame rate, those that were given *)
SetControls ==
    /\ At("controls")
    /\ Goes \/ Fails
    /\ UNCHANGED <<files, panel, outputs, capture, stream, threads>>

(* mfc_dec_setup_output, and mfc_enc_setup_output, up to REQBUFS *)
SetupOutput ==
    /\ At("output")
    /\ \/ outCnt' \in OutGrants /\ Goes
       \/ UNCHANGED outCnt /\ Fails
    /\ UNCHANGED <<files, panel, outMapped, outSpoiled, capture, stream, threads>>

(* the end of a loop from 0 over cnt buffers *)
LoopEnds(n, cnt) == n >= cnt

(* What writing entry n of an array with max entries spoils.  On this
   processor an offset and an address take a word each, and the array of
   the addresses follows that of the offsets: the offset of buffer max + k
   goes over the address of buffer k.  (The address of buffer max + k goes
   over the flag of buffer k.) *)
Spoils(n, max) == IF n < max THEN {} ELSE {n - max}

(* one round of the loop over the OUTPUT buffers: QUERYBUF and mmap, whose
   results are kept as the entries outMapped.  The offset is kept before
   mmap is called. *)
MapOutput ==
    /\ At("map_output")
    /\ \/ LoopEnds(outMapped, outCnt) /\ Goes /\ UNCHANGED <<outMapped, outSpoiled>>
       \/ /\ ~LoopEnds(outMapped, outCnt) /\ Stays /\ outMapped' = outMapped + 1
          /\ outSpoiled' = outSpoiled \cup Spoils(outMapped, MaxOut)
       \/ /\ ~LoopEnds(outMapped, outCnt) /\ Fails /\ UNCHANGED outMapped
          /\ outSpoiled' \in {outSpoiled, outSpoiled \cup Spoils(outMapped, MaxOut)}
    /\ UNCHANGED <<files, panel, outCnt, capture, stream, threads>>

(* mfc_dec_setup_capture, and mfc_enc_setup_capture, up to REQBUFS: what
   was granted replaces what was asked for *)
SetupCapture ==
    /\ At("capture")
    /\ \/ capCnt' \in CapGrants /\ granted' = capCnt' /\ Goes
       \/ UNCHANGED <<capCnt, granted>> /\ Fails
    /\ UNCHANGED <<files, panel, outputs, capMapped, capSpoiled, stream, threads>>

(* one round of the loop over the CAPTURE buffers; the driver refuses a
   buffer it has not made *)
MapCapture ==
    /\ At("map_capture")
    /\ \/ LoopEnds(capMapped, capCnt) /\ Goes /\ UNCHANGED <<capMapped, capSpoiled>>
       \/ /\ ~LoopEnds(capMapped, capCnt) /\ capMapped < granted /\ Stays
          /\ capMapped' = capMapped + 1
          /\ capSpoiled' = capSpoiled \cup Spoils(capMapped, MaxCap)
       \/ /\ ~LoopEnds(capMapped, capCnt) /\ Fails /\ UNCHANGED capMapped
          /\ capSpoiled' \in {capSpoiled, capSpoiled \cup Spoils(capMapped, MaxCap)}
    /\ UNCHANGED <<files, panel, outputs, capCnt, granted, stream, threads>>

(* one round of main's loop that queues the CAPTURE buffers *)
QueueCapture ==
    /\ At("queue")
    /\ \/ LoopEnds(queued, capCnt) /\ Goes /\ UNCHANGED queued
       \/ ~LoopEnds(queued, capCnt) /\ Stays /\ queued' = queued + 1
       \/ ~LoopEnds(queued, capCnt) /\ Fails /\ UNCHANGED queued
    /\ UNCHANGED <<files, panel, outputs, capture, streaming, threads>>

(* mfc_stream on CAPTURE *)
StreamOn ==
    /\ At("stream_on")
    /\ \/ streaming' = TRUE /\ Goes
       \/ UNCHANGED streaming /\ Fails
    /\ UNCHANGED <<files, panel, outputs, capture, queued, threads>>

(* record_init, output_init: only when a name was given; a file that cannot
   be opened leaves NULL, which is the zero of a FILE *)
OpenFile ==
    /\ At("file")
    /\ \/ UNCHANGED files /\ Goes
       \/ Opens("file", table) /\ Goes
       \/ UNCHANGED files /\ Fails
    /\ UNCHANGED <<panel, outputs, capture, stream, threads>>

(* pthread_create *)
Create(stage, t) ==
    /\ At(stage)
    /\ \/ threads' = threads \cup {t} /\ Goes
       \/ UNCHANGED threads /\ Fails
    /\ UNCHANGED <<files, panel, outputs, capture, stream>>

CreateFeeder == Create("create_feeder", "feeder")

CreateMfc == Create("create_mfc", "mfc")

CreateDaemon == Create("create_daemon", "daemon")

(* A thread comes to its end, whatever main does then. *)
ThreadEnds ==
    /\ pc # "over"
    /\ \E t \in threads : threads' = threads \ {t}
    /\ UNCHANGED <<program, pc, failed, files, panel, outputs, capture, stream>>

Join ==
    /\ At("join") /\ threads = {} /\ Goes
    /\ UNCHANGED <<files, panel, outputs, capture, stream, threads>>

(* what cleanup closes for a resource: nothing when the field is zero; a
   close of -1 does nothing *)
Closes(r) == IF fd[r] > 0 THEN {fd[r]} ELSE {}

(* cleanup, after which main returns and the process ends.  Only the file's
   field is reset. *)
Cleanup ==
    /\ At("cleanup") /\ Goes
    /\ table' = [d \in Descs |-> IF \E r \in Resources : d \in Closes(r) THEN "free" ELSE table[d]]
    /\ fd' = [fd EXCEPT !["file"] = 0]
    /\ UNCHANGED <<panel, outputs, capture, stream, threads>>

Next ==
    \/ OpenInput \/ OpenFb \/ OpenMfc
    \/ SetControls \/ SetupOutput \/ MapOutput \/ SetupCapture \/ MapCapture
    \/ QueueCapture \/ StreamOn \/ OpenFile
    \/ CreateFeeder \/ CreateMfc \/ CreateDaemon
    \/ ThreadEnds \/ Join \/ Cleanup

Spec == Init /\ [][Next]_vars

-----------------------------------------------------------------------------
(* Every variable has its type, and no loop of the set-up goes past the
   buffers it is about (the loops of mfc_dec_setup_output,
   mfc_dec_setup_capture and of main). *)
TypeOK ==
    /\ program \in Programs /\ pc \in Stages /\ failed \in BOOLEAN
    /\ fd \in [Resources -> -1..MaxTable - 1]
    /\ table \in [Descs -> Resources \cup {"std", "free", "backlight"}]
    /\ panel \in {"as_found", "dark"}
    /\ outCnt \in Nat /\ outMapped \in Nat /\ outMapped <= outCnt
    /\ outSpoiled \subseteq Nat
    /\ capCnt \in Nat /\ capMapped \in Nat /\ capMapped <= capCnt /\ granted \in Nat
    /\ capSpoiled \subseteq Nat
    /\ queued \in Nat /\ queued <= capCnt /\ streaming \in BOOLEAN
    /\ threads \subseteq Threads

(* "Now we're safe to run the threads": while main sees no failure, a
   thread only runs when every buffer the driver has made is mapped, every
   capture buffer is in the codec's queue, the stream is on and the devices
   are open, whether the driver granted what was asked for or not.  Each
   address is still where the threads look for it as long as no more
   buffers were granted than the struct's arrays hold; when more were, which
   no line checks, the first ones have lost theirs and nothing is promised of
   the threads.  (A thread that cannot be created is a failure: cleanup
   then closes the devices under the threads that were.) *)
ReadyForThreads ==
    threads # {} /\ ~failed =>
        /\ streaming
        /\ outCnt > 0 /\ outMapped = outCnt
        /\ \A n \in 0..outCnt - 1 : n \in outSpoiled <=> MaxOut + n < outCnt
        /\ granted > 0 /\ capMapped = granted /\ queued = granted
        /\ \A n \in 0..granted - 1 : n \in capSpoiled <=> MaxCap + n < granted
        /\ \A r \in Devices(program) : fd[r] > 0 /\ table[fd[r]] = r

(* What cleanup closes is open, and is what the field says: no descriptor
   is closed twice or in the place of another (cleanup, mfc_close, fb_close,
   input_close). *)
OwnsWhatItCloses ==
    pc # "over" => \A r \in Resources : \A d \in Closes(r) : table[d] = r

(* When the program is over, after whatever failure, everything the set-up
   opened is closed, but for the backlight, which fb_open forgets, and an
   input that got the descriptor zero, which cleanup takes for none. *)
NothingLeft ==
    pc = "over" => \A d \in Descs : table[d] \in Resources => d = 0
=============================================================================
