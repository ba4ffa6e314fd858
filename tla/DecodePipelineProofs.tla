------------------------ MODULE DecodePipelineProofs ------------------------
(***************************************************************************)
(* The ownership of the stream buffers and of the picture buffers in       *)
(* DecodePipeline, for any number of buffers and streams of any length;    *)
(* that the whole stream is decoded when nothing fails; and that the       *)
(* player of VideoPlayer is such a pipeline behind a queue.                *)
(*                                                                         *)
(* The two properties about pictures rest on knowing, at each place of the *)
(* mfc thread, which buffer the LCD registers name: OnScreen.              *)
(***************************************************************************)
EXTENDS VideoPlayer, TLAPS

(* What is decoded and waits to be dequeued is there once, and owned so. *)
Decoded ==
    /\ \A i \in 1..Len(capDone) : capOwner[capDone[i].buf] = "decoded"
    /\ \A i, j \in 1..Len(capDone) : i # j => capDone[i].buf # capDone[j].buf

(* The pictures the mfc thread works with. *)
Held ==
    /\ sLastDequeue # NULL => capOwner[sLastDequeue] = "program"
    /\ pc["mfc"] \in {"show", "vsync", "stuck", "record", "requeue"} =>
          /\ cur # NULL /\ cur # sLastDequeue
          /\ capOwner[cur] = "program"
    /\ (~fragile /\ pc["mfc"] \in {"loop", "dequeue"}) =>
          \A c \in CapBufs : capOwner[c] = "program" => c = sLastDequeue

OnScreen ==
    ~refused =>
        /\ pc["mfc"] \in {"loop", "dequeue", "show"} => pbase = sLastDequeue /\ scanout = sLastDequeue
        /\ pc["mfc"] \in {"vsync", "stuck"} => pbase = cur /\ scanout \in {cur, sLastDequeue}
        /\ pc["mfc"] \in {"record", "requeue"} => pbase = cur /\ scanout = cur

PictureInv == Decoded /\ Held /\ OnScreen /\ TearFree /\ NoBufferLost

IInv == TypeOK /\ OutputOwned /\ PictureInv

(* The lock of stderr is lost only in a message about a call that failed. *)
LockInv == lost = "stderr" => fragile

-----------------------------------------------------------------------------
LEMMA InitIInv == Init => IInv
<1> SUFFICES ASSUME Init  PROVE IInv
  OBVIOUS
<1> USE PipelineAssumption
<1>1. TypeOK
  <2>1. /\ error \in BOOLEAN /\ finish \in BOOLEAN /\ streamOn \in BOOLEAN
        /\ refused \in BOOLEAN /\ timely \in BOOLEAN /\ fragile \in BOOLEAN
    BY Zenon DEF Init
  <2>2. /\ decodedCnt \in Nat /\ lastDecodedCnt \in Nat /\ fed \in Nat /\ bigAfter \in Nat
    BY DEF Init
  <2>3. /\ outFlag \in [OutBufs -> BOOLEAN]
        /\ outQueue \in Seq(OutBufs) /\ outDone \in Seq(OutBufs)
        /\ capOwner \in [CapBufs -> {"codec", "decoded", "program"}]
        /\ capDone \in Seq([buf : CapBufs, empty : BOOLEAN])
    BY DEF Init
  <2>4. /\ cur \in CapBufs \cup {NULL} /\ sLastDequeue \in CapBufs \cup {NULL}
        /\ pbase \in CapBufs \cup {NULL} /\ scanout \in CapBufs \cup {NULL}
        /\ DOMAIN pc = {"parser", "mfc", "daemon", "main"}
        /\ pc["parser"] \in ParserPC /\ pc["mfc"] \in MfcPC
        /\ pc["daemon"] \in DaemonPC /\ pc["main"] \in MainPC
        /\ lost \in Streams \cup {"none"}
    BY DEF Init, ParserPC, MfcPC, DaemonPC, MainPC
  <2> QED  BY <2>1, <2>2, <2>3, <2>4 DEF TypeOK
<1>2. OutputOwned
  BY DEF Init, OutputOwned, NoRepeats
<1>3. PictureInv
  BY DEF Init, PictureInv, Decoded, Held, OnScreen, TearFree, NoBufferLost
<1> QED  BY <1>1, <1>2, <1>3 DEF IInv

(* Where a step sends a thread is all that it changes of pc. *)
LEMMA GoTo ==
    ASSUME NEW t \in {"parser", "mfc", "daemon", "main"}, NEW there, TypeOK, Go(t, there)
    PROVE  /\ DOMAIN pc' = {"parser", "mfc", "daemon", "main"}
           /\ pc'[t] = there
           /\ \A u \in {"parser", "mfc", "daemon", "main"} \ {t} : pc'[u] = pc[u]
BY DEF TypeOK, Go

LEMMA ElementOf == ASSUME NEW S, NEW s \in Seq(S), NEW i \in 1..Len(s)  PROVE s[i] \in S
OBVIOUS

LEMMA CapDoneElements ==
    ASSUME TypeOK
    PROVE  \A i \in 1..Len(capDone) :
              /\ capDone[i] \in [buf : CapBufs, empty : BOOLEAN]
              /\ capDone[i].buf \in CapBufs
<1>1. capDone \in Seq([buf : CapBufs, empty : BOOLEAN])
  BY DEF TypeOK
<1>2. \A i \in 1..Len(capDone) : capDone[i] \in [buf : CapBufs, empty : BOOLEAN]
  BY <1>1, ElementOf
<1> QED  BY <1>2

(* The type invariant, without and of pc. *)
DataOK ==
    /\ error \in BOOLEAN /\ finish \in BOOLEAN
    /\ decodedCnt \in Nat /\ lastDecodedCnt \in Nat
    /\ outFlag \in [OutBufs -> BOOLEAN]
    /\ fed \in Nat /\ bigAfter \in Nat
    /\ cur \in CapBufs \cup {NULL} /\ sLastDequeue \in CapBufs \cup {NULL}
    /\ streamOn \in BOOLEAN
    /\ outQueue \in Seq(OutBufs) /\ outDone \in Seq(OutBufs)
    /\ capOwner \in [CapBufs -> {"codec", "decoded", "program"}]
    /\ capDone \in Seq([buf : CapBufs, empty : BOOLEAN])
    /\ pbase \in CapBufs \cup {NULL} /\ scanout \in CapBufs \cup {NULL}
    /\ refused \in BOOLEAN /\ timely \in BOOLEAN /\ fragile \in BOOLEAN
    /\ lost \in Streams \cup {"none"}

PlacesOK ==
    /\ DOMAIN pc = {"parser", "mfc", "daemon", "main"}
    /\ pc["parser"] \in ParserPC /\ pc["mfc"] \in MfcPC
    /\ pc["daemon"] \in DaemonPC /\ pc["main"] \in MainPC

LEMMA TypeParts == TypeOK <=> DataOK /\ PlacesOK
BY DEF TypeOK, DataOK, PlacesOK

LEMMA TypePartsNext == DataOK' /\ PlacesOK' => TypeOK'
BY DEF TypeOK, DataOK, PlacesOK

LEMMA PlaceOf ==
    ASSUME TypeOK, NEW there,
           \/ there \in ParserPC /\ Go("parser", there)
           \/ there \in MfcPC /\ Go("mfc", there)
           \/ there \in DaemonPC /\ Go("daemon", there)
           \/ there \in MainPC /\ Go("main", there)
    PROVE  PlacesOK'
<1>1. PlacesOK
  BY TypeParts
<1>2. CASE there \in ParserPC /\ Go("parser", there)
  BY <1>1, <1>2, GoTo DEF PlacesOK
<1>3. CASE there \in MfcPC /\ Go("mfc", there)
  BY <1>1, <1>3, GoTo DEF PlacesOK
<1>4. CASE there \in DaemonPC /\ Go("daemon", there)
  BY <1>1, <1>4, GoTo DEF PlacesOK
<1>5. CASE there \in MainPC /\ Go("main", there)
  BY <1>1, <1>5, GoTo DEF PlacesOK
<1> QED  BY <1>2, <1>3, <1>4, <1>5

LEMMA GoParser ==
    ASSUME NEW there, TypeOK, Go("parser", there)
    PROVE  /\ DOMAIN pc' = {"parser", "mfc", "daemon", "main"}
           /\ pc'["parser"] = there
           /\ pc'["mfc"] = pc["mfc"] /\ pc'["daemon"] = pc["daemon"] /\ pc'["main"] = pc["main"]
BY GoTo

LEMMA GoMfc ==
    ASSUME NEW there, TypeOK, Go("mfc", there)
    PROVE  /\ DOMAIN pc' = {"parser", "mfc", "daemon", "main"}
           /\ pc'["mfc"] = there
           /\ pc'["parser"] = pc["parser"] /\ pc'["daemon"] = pc["daemon"] /\ pc'["main"] = pc["main"]
BY GoTo

-----------------------------------------------------------------------------
LEMMA PictureUntouched ==
    ASSUME IInv, UNCHANGED <<capOwner, capDone, cur, sLastDequeue, panel, fragile, pc["mfc"]>>
    PROVE  PictureInv'
BY DEF IInv, PictureInv, Decoded, Held, OnScreen, TearFree, NoBufferLost, panel

LEMMA OutputUntouched ==
    ASSUME IInv, UNCHANGED <<outFlag, outQueue, outDone>>
    PROVE  OutputOwned'
BY DEF IInv, OutputOwned, NoRepeats

(* A step of the parser, the daemon or main leaves the pictures alone. *)
LEMMA ParserKeepsIInv == IInv /\ Parser => IInv'
<1> SUFFICES ASSUME IInv, Parser  PROVE IInv'
  OBVIOUS
<1> USE PipelineAssumption DEF flags, parser, display, codec, panel, setting
<1>1. CASE ParserLoop
  <2>1. PICK there \in {"feed", "dequeue", "print"} : Go("parser", there)
    BY <1>1 DEF ParserLoop
  <2>2. TypeOK'
    <3>1. PlacesOK'
      BY <2>1, PlaceOf DEF IInv, ParserPC
    <3>2. DataOK'
      BY <1>1, TypeParts DEF ParserLoop, IInv, DataOK
    <3> QED  BY <3>1, <3>2, TypePartsNext
  <2> QED  BY <1>1, <2>1, <2>2, GoParser, PictureUntouched, OutputUntouched DEF ParserLoop, IInv
<1>2. CASE ParserFeed
  <2>1. Go("parser", "loop")
    BY <1>2 DEF ParserFeed
  <2>2. PICK n \in OutBufs : Pick(n) /\ QueueOut(n)
    BY <1>2 DEF ParserFeed
  <2>3. outQueue' \in Seq(OutBufs) /\ outFlag' \in [OutBufs -> BOOLEAN] /\ fed' \in Nat
    <3>1. outQueue \in Seq(OutBufs) /\ outFlag \in [OutBufs -> BOOLEAN] /\ fed \in Nat
      BY DEF IInv, TypeOK
    <3> QED  BY <2>2, <3>1 DEF QueueOut
  <2>4. streamOn' \in BOOLEAN
    BY <1>2, Zenon DEF ParserFeed
  <2>5. TypeOK'
    <3>1. PlacesOK'
      BY <2>1, PlaceOf DEF IInv, ParserPC
    <3>2. DataOK'
      BY <1>2, <2>3, <2>4, TypeParts DEF ParserFeed, IInv, DataOK
    <3> QED  BY <3>1, <3>2, TypePartsNext
  <2>6. OutputOwned'
    <3>1. ~outFlag[n] /\ outDone' = outDone
      BY <1>2, <2>2 DEF Pick, ParserFeed
    <3>2. CASE outQueue' = Append(outQueue, n)
      <4>1. /\ Len(outQueue) \in Nat /\ Len(outQueue') = Len(outQueue) + 1
            /\ \A i \in 1..Len(outQueue) : outQueue'[i] = outQueue[i]
            /\ outQueue'[Len(outQueue) + 1] = n
        <5>1. outQueue \in Seq(OutBufs)
          BY DEF IInv, TypeOK
        <5> QED  BY <3>2, <5>1
      <4>2. /\ outFlag'[n]
            /\ \A m \in OutBufs : outFlag[m] => outFlag'[m] /\ m # n
        BY <2>2, <3>1 DEF QueueOut, IInv, TypeOK
      <4>3. /\ \A i \in 1..Len(outQueue) : outQueue[i] \in OutBufs /\ outFlag[outQueue[i]]
            /\ \A i \in 1..Len(outDone) : outDone[i] \in OutBufs /\ outFlag[outDone[i]]
            /\ NoRepeats(outQueue) /\ NoRepeats(outDone)
            /\ \A i \in 1..Len(outQueue), j \in 1..Len(outDone) : outQueue[i] # outDone[j]
        <5>1. outQueue \in Seq(OutBufs) /\ outDone \in Seq(OutBufs)
          BY DEF IInv, TypeOK
        <5>2. /\ \A i \in 1..Len(outQueue) : outQueue[i] \in OutBufs
              /\ \A i \in 1..Len(outDone) : outDone[i] \in OutBufs
          BY <5>1, ElementOf
        <5> QED  BY <5>2 DEF IInv, OutputOwned
      <4>4. ASSUME NEW i \in 1..Len(outQueue')  PROVE outFlag'[outQueue'[i]]
        <5>1. CASE i \in 1..Len(outQueue)
          <6>1. outQueue'[i] = outQueue[i] /\ outQueue[i] \in OutBufs /\ outFlag[outQueue[i]]
            BY <4>1, <4>3, <5>1
          <6> QED  BY <4>2, <6>1
        <5>2. CASE i = Len(outQueue) + 1
          <6>1. outQueue'[i] = n
            BY <4>1, <5>2
          <6> QED  BY <4>2, <6>1
        <5> QED  BY <4>1, <5>1, <5>2
      <4>5. \A i \in 1..Len(outDone') : outFlag'[outDone'[i]]
        BY <3>1, <4>2, <4>3
      <4>6. NoRepeats(outQueue') /\ NoRepeats(outDone')
        BY <3>1, <4>1, <4>2, <4>3 DEF NoRepeats
      <4>7. \A i \in 1..Len(outQueue'), j \in 1..Len(outDone') : outQueue'[i] # outDone'[j]
        BY <3>1, <4>1, <4>2, <4>3
      <4> QED  BY <4>4, <4>5, <4>6, <4>7 DEF OutputOwned, NoRepeats
    <3>3. CASE UNCHANGED outQueue
      BY <2>2, <3>1, <3>3 DEF QueueOut, IInv, TypeOK, OutputOwned, NoRepeats
    <3> QED  BY <2>2, <3>2, <3>3 DEF QueueOut
  <2>7. PictureInv'
    BY <1>2, <2>1, GoParser, PictureUntouched DEF ParserFeed, IInv
  <2> QED  BY <2>5, <2>6, <2>7 DEF IInv
<1>3. CASE ParserEnd \/ ParserStreamFails \/ ParserPrint
  <2>1. PICK there \in {"print", "done"} : Go("parser", there)
    BY <1>3 DEF ParserEnd, ParserStreamFails, ParserPrint
  <2>2. TypeOK'
    <3>1. PlacesOK'
      BY <2>1, PlaceOf DEF IInv, ParserPC
    <3>2. DataOK'
      BY <1>3, TypeParts DEF ParserEnd, ParserStreamFails, ParserPrint, IInv, DataOK
    <3> QED  BY <3>1, <3>2, TypePartsNext
  <2> QED
    BY <1>3, <2>1, <2>2, GoParser, PictureUntouched, OutputUntouched
    DEF ParserEnd, ParserStreamFails, ParserPrint, IInv
<1>4. CASE ParserDequeue
  <2>1. Go("parser", "loop")
    BY <1>4 DEF ParserDequeue
  <2>2. /\ outDone # <<>> /\ outDone' = Tail(outDone) /\ outQueue' = outQueue
        /\ outFlag' = [outFlag EXCEPT ![Head(outDone)] = FALSE]
    BY <1>4 DEF ParserDequeue
  <2>3. outDone' \in Seq(OutBufs) /\ outFlag' \in [OutBufs -> BOOLEAN]
    BY <2>2 DEF IInv, TypeOK
  <2>4. TypeOK'
    <3>1. PlacesOK'
      BY <2>1, PlaceOf DEF IInv, ParserPC
    <3>2. DataOK'
      BY <1>4, <2>3, TypeParts DEF ParserDequeue, IInv, DataOK
    <3> QED  BY <3>1, <3>2, TypePartsNext
  <2>5. OutputOwned'
    <3>1. /\ Len(outDone) \in Nat \ {0} /\ Len(outDone') = Len(outDone) - 1
          /\ \A i \in 1..Len(outDone') : outDone'[i] = outDone[i + 1]
          /\ Head(outDone) = outDone[1]
      BY <2>2 DEF IInv, TypeOK
    <3>2. \A m \in OutBufs : outFlag[m] /\ m # outDone[1] => outFlag'[m]
      BY <2>2, <3>1 DEF IInv, TypeOK
    <3>3. /\ \A i \in 1..Len(outQueue) : outQueue[i] \in OutBufs /\ outFlag[outQueue[i]]
          /\ \A i \in 1..Len(outDone) : outDone[i] \in OutBufs /\ outFlag[outDone[i]]
          /\ NoRepeats(outQueue) /\ NoRepeats(outDone)
          /\ \A i \in 1..Len(outQueue), j \in 1..Len(outDone) : outQueue[i] # outDone[j]
      BY DEF IInv, TypeOK, OutputOwned
    <3> QED  BY <2>2, <3>1, <3>2, <3>3 DEF OutputOwned, NoRepeats
  <2>6. PictureInv'
    BY <1>4, <2>1, GoParser, PictureUntouched DEF ParserDequeue, IInv
  <2> QED  BY <2>4, <2>5, <2>6 DEF IInv
<1>5. CASE ParserDequeueFails
  <2>1. Go("parser", "loop")
    BY <1>5 DEF ParserDequeueFails
  <2>2. TypeOK'
    <3>1. PlacesOK'
      BY <2>1, PlaceOf DEF IInv, ParserPC
    <3>2. DataOK'
      BY <1>5, TypeParts DEF ParserDequeueFails, IInv, DataOK
    <3> QED  BY <3>1, <3>2, TypePartsNext
  <2> QED
    BY <1>5, <2>1, <2>2, GoParser, PictureUntouched, OutputUntouched DEF ParserDequeueFails, IInv
<1>6. CASE ParserHangs
  <2>1. Go("parser", "stuck") /\ streamOn' \in BOOLEAN
    BY <1>6 DEF ParserHangs, IInv, TypeOK
  <2>2. TypeOK'
    <3>1. PlacesOK'
      BY <2>1, PlaceOf DEF IInv, ParserPC
    <3>2. DataOK'
      BY <1>6, <2>1, TypeParts DEF ParserHangs, IInv, DataOK
    <3> QED  BY <3>1, <3>2, TypePartsNext
  <2> QED
    BY <1>6, <2>1, <2>2, GoParser, PictureUntouched, OutputUntouched DEF ParserHangs, IInv
<1> QED  BY <1>1, <1>2, <1>3, <1>4, <1>5, <1>6 DEF Parser

LEMMA DaemonAndMainKeepIInv == IInv /\ (DaemonTick \/ DaemonFinish \/ Main \/ Timeout) => IInv'
<1> SUFFICES ASSUME IInv, DaemonTick \/ DaemonFinish \/ Main \/ Timeout  PROVE IInv'
  OBVIOUS
<1> USE DEF DaemonTick, DaemonFinish, Main, JoinParser, JoinMfc, JoinDaemon, Close, Timeout,
      flags, parser, display, codec, panel, setting
<1>1. \/ \E there \in DaemonPC : Go("daemon", there)
      \/ \E there \in MainPC : Go("main", there)
  BY DEF DaemonPC, MainPC
<1>2. pc'["mfc"] = pc["mfc"]
  BY <1>1, GoTo DEF IInv
<1>3. DataOK'
  BY TypeParts DEF IInv, DataOK
<1>4. TypeOK'
  <2>1. PlacesOK'
    BY <1>1, PlaceOf DEF IInv
  <2> QED  BY <1>3, <2>1, TypePartsNext
<1> QED  BY <1>2, <1>4, PictureUntouched, OutputUntouched DEF IInv

(* The daemon may cancel the mfc thread anywhere: the pictures stay with
   whoever has them. *)
LEMMA CancelKeepsIInv == IInv /\ DaemonCancel => IInv'
<1> SUFFICES ASSUME IInv, DaemonCancel  PROVE IInv'
  OBVIOUS
<1> USE DEF flags, parser, display, codec, panel, setting
<1>1. /\ DOMAIN pc' = {"parser", "mfc", "daemon", "main"}
      /\ pc'["parser"] = pc["parser"] /\ pc'["main"] = pc["main"]
      /\ pc'["daemon"] = "done" /\ pc'["mfc"] \in {"done", "cancelled"}
  BY DEF DaemonCancel, IInv, TypeOK
<1>2. TypeOK'
  <2>1. lost' \in Streams \cup {"none"}
    BY DEF DaemonCancel
  <2> QED  BY <1>1, <2>1 DEF DaemonCancel, IInv, TypeOK, DaemonPC, MfcPC
<1>3. PictureInv'
  BY <1>1 DEF DaemonCancel, IInv, PictureInv, Decoded, Held, OnScreen, TearFree, NoBufferLost
<1> QED  BY <1>2, <1>3, OutputUntouched DEF DaemonCancel, IInv

-----------------------------------------------------------------------------
LEMMA MfcKeepsIInv == IInv /\ Mfc => IInv'
<1> SUFFICES ASSUME IInv, Mfc  PROVE IInv'
  OBVIOUS
<1> USE PipelineAssumption DEF flags, parser, display, codec, panel, setting
<1>0. OutputOwned'
  BY OutputUntouched DEF Mfc, MfcLoop, MfcDequeue, MfcDequeueFails, MfcShow, MfcVsync,
      MfcVsyncFails, MfcRecord, MfcRequeue, MfcPrint
<1>1. CASE MfcLoop
  <2>1. PICK there \in {"print", "dequeue"} : Go("mfc", there)
    BY <1>1 DEF MfcLoop
  <2>2. TypeOK'
    <3>1. PlacesOK'
      BY <2>1, PlaceOf DEF IInv, MfcPC
    <3>2. DataOK'
      BY <1>1, TypeParts DEF MfcLoop, IInv, DataOK
    <3> QED  BY <3>1, <3>2, TypePartsNext
  <2>3. PictureInv'
    BY <1>1, <2>1, GoMfc DEF MfcLoop, At, IInv, PictureInv, Decoded, Held, OnScreen, TearFree, NoBufferLost
  <2> QED  BY <1>0, <2>2, <2>3 DEF IInv
<1>2. CASE MfcDequeue
  <2> DEFINE c == Head(capDone).buf
  <2>1. PICK there \in {"print", "show"} : Go("mfc", there)
    BY <1>2 DEF MfcDequeue
  <2>2. /\ pc["mfc"] = "dequeue" /\ capDone # <<>> /\ capDone' = Tail(capDone)
        /\ cur' = c /\ capOwner' = [capOwner EXCEPT ![c] = "program"]
        /\ UNCHANGED <<sLastDequeue, pbase, scanout, refused, fragile>>
    BY <1>2 DEF MfcDequeue, At
  <2>3. /\ Len(capDone) \in Nat \ {0} /\ capDone[1] \in [buf : CapBufs, empty : BOOLEAN]
        /\ c = capDone[1].buf
    <3>1. Len(capDone) \in Nat \ {0} /\ Head(capDone) = capDone[1]
      BY <2>2 DEF IInv, TypeOK
    <3> QED  BY <3>1, CapDoneElements DEF IInv
  <2>4. c \in CapBufs /\ c # NULL /\ capOwner[c] = "decoded"
    BY <2>3 DEF IInv, PictureInv, Decoded
  <2>5. c # sLastDequeue /\ (~refused => c # pbase /\ c # scanout)
    BY <2>4 DEF IInv, PictureInv, Held, TearFree
  <2>6. /\ \A d \in CapBufs \ {c} : capOwner'[d] = capOwner[d]
        /\ capOwner'[c] = "program"
        /\ capOwner' \in [CapBufs -> {"codec", "decoded", "program"}]
    BY <2>2, <2>4 DEF IInv, TypeOK
  <2>7. /\ Len(capDone') = Len(capDone) - 1
        /\ \A i \in 1..Len(capDone') : capDone'[i] = capDone[i + 1]
        /\ capDone' \in Seq([buf : CapBufs, empty : BOOLEAN])
    BY <2>2 DEF IInv, TypeOK
  <2>8. TypeOK'
    <3>1. finish' \in BOOLEAN
      BY <1>2, Zenon DEF MfcDequeue
    <3>2. PlacesOK'
      BY <2>1, PlaceOf DEF IInv, MfcPC
    <3>3. cur' \in CapBufs \cup {NULL} /\ decodedCnt' \in Nat
      BY <1>2, <2>2, <2>4 DEF MfcDequeue, IInv, TypeOK
    <3>4. DataOK'
      BY <1>2, <2>6, <2>7, <3>1, <3>3, TypeParts DEF MfcDequeue, IInv, DataOK
    <3> QED  BY <3>2, <3>4, TypePartsNext
  <2>9. Decoded'
    <3>1. /\ \A i \in 1..Len(capDone) : capDone[i].buf \in CapBufs /\ capOwner[capDone[i].buf] = "decoded"
          /\ \A i, j \in 1..Len(capDone) : i # j => capDone[i].buf # capDone[j].buf
      BY CapDoneElements DEF IInv, PictureInv, Decoded
    <3>2. Len(capDone) \in Nat \ {0} /\ Len(capDone') = Len(capDone) - 1
      BY <2>3, <2>7
    <3>3. \A i \in 1..Len(capDone') : /\ i + 1 \in 1..Len(capDone) /\ i + 1 # 1
                                     /\ capDone'[i].buf = capDone[i + 1].buf
      BY <2>7, <3>2
    <3>4. \A i \in 1..Len(capDone') : capOwner'[capDone'[i].buf] = "decoded"
      <4>1. 1 \in 1..Len(capDone)
        BY <3>2
      <4> QED  BY <2>3, <2>6, <3>1, <3>3, <4>1
    <3>5. \A i, j \in 1..Len(capDone') : i # j => capDone'[i].buf # capDone'[j].buf
      BY <3>1, <3>2, <3>3
    <3> QED  BY <3>4, <3>5 DEF Decoded
  <2>10. pc'["mfc"] \in {"print", "show"}
    BY <2>1, GoMfc DEF IInv
  <2>11. Held' /\ NoBufferLost'
    <3>1. sLastDequeue \in CapBufs \cup {NULL}
      BY DEF IInv, TypeOK
    <3> QED  BY <2>2, <2>4, <2>5, <2>6, <2>10, <3>1 DEF IInv, PictureInv, Held, NoBufferLost
  <2>12. OnScreen' /\ TearFree'
    <3>1. ~refused => pbase = sLastDequeue /\ scanout = sLastDequeue
      BY <2>2 DEF IInv, PictureInv, OnScreen
    <3> QED  BY <2>2, <2>5, <2>6, <2>10, <3>1 DEF IInv, PictureInv, OnScreen, TearFree
  <2> QED  BY <1>0, <2>8, <2>9, <2>11, <2>12 DEF IInv, PictureInv
<1>3. CASE MfcDequeueFails
  <2>1. Go("mfc", "print") /\ error' = TRUE
    BY <1>3 DEF MfcDequeueFails
  <2>2. TypeOK'
    <3>1. PlacesOK'
      BY <2>1, PlaceOf DEF IInv, MfcPC
    <3>2. DataOK'
      BY <1>3, TypeParts DEF MfcDequeueFails, IInv, DataOK
    <3> QED  BY <3>1, <3>2, TypePartsNext
  <2>3. PictureInv'
    BY <1>3, <2>1, GoMfc DEF MfcDequeueFails, IInv, PictureInv, Decoded, Held, OnScreen, TearFree, NoBufferLost
  <2> QED  BY <1>0, <2>2, <2>3 DEF IInv
<1>4. CASE MfcShow
  <2>1. Go("mfc", "vsync")
    BY <1>4 DEF MfcShow
  <2>2. refused' \in BOOLEAN /\ pbase' \in CapBufs \cup {NULL}
    BY <1>4 DEF MfcShow, IInv, TypeOK
  <2>3. TypeOK'
    <3>1. PlacesOK'
      BY <2>1, PlaceOf DEF IInv, MfcPC
    <3>2. DataOK'
      BY <1>4, <2>2, TypeParts DEF MfcShow, IInv, DataOK
    <3> QED  BY <3>1, <3>2, TypePartsNext
  <2>4. Decoded' /\ Held' /\ NoBufferLost'
    BY <1>4, <2>1, GoMfc DEF MfcShow, At, IInv, PictureInv, Decoded, Held, NoBufferLost
  <2>5. ~refused' => ~refused /\ pbase' = cur
    BY <1>4 DEF MfcShow
  <2>6. OnScreen' /\ TearFree'
    <3>1. /\ pc["mfc"] = "show" /\ pc'["mfc"] = "vsync"
          /\ UNCHANGED <<scanout, cur, sLastDequeue, capOwner>>
      BY <1>4, <2>1, GoMfc DEF MfcShow, At, IInv
    <3>2. capOwner[cur] = "program"
      BY <3>1 DEF IInv, PictureInv, Held
    <3>3. ~refused => scanout = sLastDequeue
      BY <3>1 DEF IInv, PictureInv, OnScreen
    <3>4. \A c \in CapBufs : ~refused /\ c = scanout => capOwner[c] = "program"
      BY DEF IInv, PictureInv, TearFree
    <3> QED  BY <2>5, <3>1, <3>2, <3>3, <3>4 DEF OnScreen, TearFree
  <2> QED  BY <1>0, <2>3, <2>4, <2>6 DEF IInv, PictureInv
<1>5. CASE MfcVsync \/ MfcVsyncFails
  <2>1. PICK there \in {"record", "stuck"} : Go("mfc", there)
    BY <1>5 DEF MfcVsync, MfcVsyncFails
  <2>2. TypeOK'
    <3>1. PlacesOK'
      BY <2>1, PlaceOf DEF IInv, MfcPC
    <3>2. DataOK'
      BY <1>5, TypeParts DEF MfcVsync, MfcVsyncFails, IInv, DataOK
    <3> QED  BY <3>1, <3>2, TypePartsNext
  <2>3. Decoded' /\ Held' /\ NoBufferLost'
    BY <1>5, <2>1, GoMfc DEF MfcVsync, MfcVsyncFails, At, IInv, PictureInv, Decoded, Held, NoBufferLost
  <2>4. OnScreen' /\ TearFree'
    <3>1. /\ pc["mfc"] = "vsync"
          /\ UNCHANGED <<pbase, refused, cur, sLastDequeue, capOwner>>
      BY <1>5 DEF MfcVsync, MfcVsyncFails, At
    <3>2. \/ pc'["mfc"] = "record" /\ scanout' = pbase
          \/ pc'["mfc"] = "stuck" /\ scanout' = scanout
      BY <1>5, GoMfc DEF MfcVsync, MfcVsyncFails, IInv
    <3>3. ~refused => pbase = cur /\ scanout \in {cur, sLastDequeue}
      BY <3>1 DEF IInv, PictureInv, OnScreen
    <3> QED  BY <3>1, <3>2, <3>3 DEF IInv, PictureInv, OnScreen, TearFree
  <2> QED  BY <1>0, <2>2, <2>3, <2>4 DEF IInv, PictureInv
<1>6. CASE MfcRequeue
  <2>1. Go("mfc", "loop")
    BY <1>6 DEF MfcRequeue
  <2>2. /\ pc["mfc"] = "requeue" /\ sLastDequeue' = cur
        /\ UNCHANGED <<cur, capDone, pbase, scanout, refused, fragile>>
    BY <1>6 DEF MfcRequeue, At
  <2>3. /\ cur # NULL /\ cur # sLastDequeue /\ capOwner[cur] = "program"
        /\ ~refused => pbase = cur /\ scanout = cur
    BY <2>2 DEF IInv, PictureInv, Held, OnScreen
  <2>4. \/ /\ sLastDequeue \in CapBufs
           /\ capOwner' = [capOwner EXCEPT ![sLastDequeue] = "codec"]
        \/ (sLastDequeue = NULL \/ fragile) /\ capOwner' = capOwner
    BY <1>6 DEF MfcRequeue, IInv, TypeOK
  <2>5. TypeOK'
    <3>1. capOwner' \in [CapBufs -> {"codec", "decoded", "program"}]
      BY <2>4 DEF IInv, TypeOK
    <3> QED  BY <1>6, <2>1, <2>2, <3>1, GoMfc DEF MfcRequeue, IInv, TypeOK, MfcPC
  <2>6. sLastDequeue # NULL => capOwner[sLastDequeue] = "program"
    BY DEF IInv, PictureInv, Held
  <2>10. \A c \in CapBufs : capOwner'[c] = IF c = sLastDequeue /\ capOwner' # capOwner THEN "codec" ELSE capOwner[c]
    BY <2>4, <2>6 DEF IInv, TypeOK
  <2>7. Decoded'
    <3>1. \A i \in 1..Len(capDone) : capDone[i].buf \in CapBufs /\ capOwner[capDone[i].buf] = "decoded"
      BY CapDoneElements DEF IInv, PictureInv, Decoded
    <3>2. \A i \in 1..Len(capDone) : capDone[i].buf # sLastDequeue
      BY <2>6, <3>1, PipelineAssumption
    <3> QED  BY <2>2, <2>10, <3>1, <3>2 DEF IInv, PictureInv, Decoded
  <2>8. Held' /\ NoBufferLost'
    <3>1. pc'["mfc"] = "loop" /\ cur \in CapBufs
      BY <2>1, <2>3, GoMfc DEF IInv, TypeOK
    <3>2. ~fragile => \A c \in CapBufs : capOwner[c] = "program" => c \in {cur, sLastDequeue}
      BY DEF IInv, PictureInv, NoBufferLost
    <3>3. ~fragile => sLastDequeue = NULL \/ capOwner'[sLastDequeue] = "codec"
      BY <2>4 DEF IInv, TypeOK
    <3>4. ~fragile => \A c \in CapBufs : capOwner'[c] = "program" => c = cur
      BY <2>10, <3>2, <3>3, PipelineAssumption
    <3> QED  BY <2>2, <2>3, <2>10, <3>1, <3>4 DEF Held, NoBufferLost
  <2>9. OnScreen' /\ TearFree'
    <3>1. pc'["mfc"] = "loop" /\ capOwner'[cur] = "program"
      BY <2>1, <2>3, <2>4, GoMfc DEF IInv, TypeOK
    <3> QED  BY <2>2, <2>3, <3>1 DEF OnScreen, TearFree
  <2> QED  BY <1>0, <2>5, <2>7, <2>8, <2>9 DEF IInv, PictureInv
<1>7. CASE MfcRecord \/ MfcPrint
  <2>1. \/ pc["mfc"] = "record" /\ Go("mfc", "requeue")
        \/ pc["mfc"] = "print" /\ Go("mfc", "done")
    BY <1>7 DEF MfcRecord, MfcPrint, At
  <2>2. TypeOK'
    <3>1. PlacesOK'
      BY <2>1, PlaceOf DEF IInv, MfcPC
    <3>2. DataOK'
      BY <1>7, TypeParts DEF MfcRecord, MfcPrint, IInv, DataOK
    <3> QED  BY <3>1, <3>2, TypePartsNext
  <2>3. PictureInv'
    <3>1. UNCHANGED <<capOwner, capDone, cur, sLastDequeue, panel, fragile>>
      BY <1>7 DEF MfcRecord, MfcPrint
    <3>2. \/ pc["mfc"] = "record" /\ pc'["mfc"] = "requeue"
          \/ pc["mfc"] = "print" /\ pc'["mfc"] = "done"
      BY <2>1, GoMfc DEF IInv
    <3> QED
      BY <3>1, <3>2 DEF IInv, PictureInv, Decoded, Held, OnScreen, TearFree, NoBufferLost
  <2> QED  BY <1>0, <2>2, <2>3 DEF IInv
<1> QED  BY <1>1, <1>2, <1>3, <1>4, <1>5, <1>6, <1>7 DEF Mfc

-----------------------------------------------------------------------------
(* A decoded picture comes after those that wait already. *)
LEMMA DecodedAppend ==
    ASSUME IInv, NEW c \in CapBufs, NEW e \in BOOLEAN, capOwner[c] = "codec",
           capOwner' = [capOwner EXCEPT ![c] = "decoded"],
           capDone' = Append(capDone, [buf |-> c, empty |-> e]),
           UNCHANGED <<cur, sLastDequeue, panel, fragile, pc>>
    PROVE  /\ PictureInv'
           /\ capOwner' \in [CapBufs -> {"codec", "decoded", "program"}]
           /\ capDone' \in Seq([buf : CapBufs, empty : BOOLEAN])
<1> USE DEF IInv, TypeOK, PictureInv
<1>1. /\ capOwner' \in [CapBufs -> {"codec", "decoded", "program"}]
      /\ capDone' \in Seq([buf : CapBufs, empty : BOOLEAN])
  OBVIOUS
<1>2. /\ Len(capDone') = Len(capDone) + 1
      /\ \A i \in 1..Len(capDone) : capDone'[i] = capDone[i] /\ capDone[i].buf # c
      /\ capDone'[Len(capDone) + 1].buf = c
      /\ capOwner'[c] = "decoded"
      /\ \A d \in CapBufs \ {c} : capOwner'[d] = capOwner[d]
      /\ \A i \in 1..Len(capDone) : capDone[i].buf \in CapBufs
  <2>1. \A i \in 1..Len(capDone) : capDone[i] \in [buf : CapBufs, empty : BOOLEAN]
    BY CapDoneElements
  <2>2. \A i \in 1..Len(capDone) : capDone[i].buf \in CapBufs /\ capDone[i].buf # c
    BY <2>1 DEF Decoded
  <2> QED  BY <2>2
<1>3. Decoded'
  BY <1>2 DEF Decoded
<1>4. Held' /\ NoBufferLost' /\ OnScreen' /\ TearFree'
  BY DEF Held, NoBufferLost, OnScreen, TearFree, panel
<1> QED  BY <1>1, <1>3, <1>4

LEMMA ExternalKeepsIInv == IInv /\ (Decode \/ DeliverEmpty \/ Latch) => IInv'
<1> SUFFICES ASSUME IInv, Decode \/ DeliverEmpty \/ Latch  PROVE IInv'
  OBVIOUS
<1> USE PipelineAssumption DEF flags, parser, display, setting
<1>1. CASE Decode
  <2>1. PICK c \in CapBufs : /\ capOwner[c] = "codec"
                             /\ capOwner' = [capOwner EXCEPT ![c] = "decoded"]
                             /\ capDone' = Append(capDone, [buf |-> c, empty |-> FALSE])
    BY <1>1 DEF Decode
  <2>2. /\ outQueue # <<>> /\ outQueue' = Tail(outQueue)
        /\ outDone' = Append(outDone, Head(outQueue)) /\ outFlag' = outFlag
    BY <1>1 DEF Decode, CanDecode
  <2>3. outQueue' \in Seq(OutBufs) /\ outDone' \in Seq(OutBufs)
    BY <2>2 DEF IInv, TypeOK
  <2>4. UNCHANGED <<cur, sLastDequeue, panel, fragile, pc>>
    BY <1>1 DEF Decode
  <2>5. PictureInv' /\ capOwner' \in [CapBufs -> {"codec", "decoded", "program"}]
          /\ capDone' \in Seq([buf : CapBufs, empty : BOOLEAN])
    BY <2>1, <2>4, DecodedAppend
  <2>6. TypeOK'
    BY <1>1, <2>3, <2>5 DEF Decode, IInv, TypeOK, panel
  <2>7. OutputOwned'
    <3>1. /\ Len(outQueue') = Len(outQueue) - 1 /\ Len(outDone') = Len(outDone) + 1
          /\ \A i \in 1..Len(outQueue') : outQueue'[i] = outQueue[i + 1]
          /\ \A i \in 1..Len(outDone) : outDone'[i] = outDone[i]
          /\ outDone'[Len(outDone) + 1] = outQueue[1]
      BY <2>2 DEF IInv, TypeOK
    <3>2. Len(outQueue) \in Nat \ {0} /\ Len(outDone) \in Nat
      BY <2>2 DEF IInv, TypeOK
    <3> QED  BY <2>2, <3>1, <3>2 DEF IInv, OutputOwned, NoRepeats
  <2> QED  BY <2>5, <2>6, <2>7 DEF IInv
<1>2. CASE DeliverEmpty
  <2>1. PICK c \in CapBufs : /\ capOwner[c] = "codec"
                             /\ capOwner' = [capOwner EXCEPT ![c] = "decoded"]
                             /\ capDone' = Append(capDone, [buf |-> c, empty |-> TRUE])
    BY <1>2 DEF DeliverEmpty
  <2>2. UNCHANGED <<cur, sLastDequeue, panel, fragile, pc>>
    BY <1>2 DEF DeliverEmpty
  <2>3. PictureInv' /\ capOwner' \in [CapBufs -> {"codec", "decoded", "program"}]
          /\ capDone' \in Seq([buf : CapBufs, empty : BOOLEAN])
    BY <2>1, <2>2, DecodedAppend
  <2>4. TypeOK'
    BY <1>2, <2>3 DEF DeliverEmpty, IInv, TypeOK, panel
  <2>5. OutputOwned'
    BY <1>2, OutputUntouched DEF DeliverEmpty
  <2> QED  BY <2>3, <2>4, <2>5 DEF IInv
<1>3. CASE Latch
  <2> USE <1>3 DEF Latch, codec
  <2>1. TypeOK'
    BY DEF IInv, TypeOK
  <2>2. PictureInv'
    BY DEF IInv, PictureInv, Decoded, Held, OnScreen, TearFree, NoBufferLost
  <2> QED  BY <2>1, <2>2, OutputUntouched DEF IInv
<1> QED  BY <1>1, <1>2, <1>3

LEMMA NextIInv == IInv /\ [Next]_vars => IInv'
<1> SUFFICES ASSUME IInv, [Next]_vars  PROVE IInv'
  OBVIOUS
<1>1. CASE UNCHANGED vars
  <2> USE <1>1 DEF vars, flags, parser, display, codec, panel, setting
  <2>1. TypeOK'
    BY DEF IInv, TypeOK
  <2> QED  BY <2>1, PictureUntouched, OutputUntouched DEF IInv
<1> QED
  BY <1>1, ParserKeepsIInv, DaemonAndMainKeepIInv, CancelKeepsIInv, MfcKeepsIInv, ExternalKeepsIInv
  DEF Next, Daemon

LEMMA InitLockInv == Init => LockInv
BY DEF Init, LockInv

LEMMA NextLockInv == LockInv /\ [Next]_vars => LockInv'
<1> SUFFICES ASSUME LockInv, [Next]_vars  PROVE LockInv'
  OBVIOUS
<1>1. CASE DaemonCancel
  <2>1. PICK s \in {"none"} \cup {t \in Streams : Writing(t)} : lost' = s
    BY <1>1 DEF DaemonCancel
  <2>2. s = "stderr" => fragile
    BY <2>1 DEF Writing
  <2>3. UNCHANGED fragile
    BY <1>1 DEF DaemonCancel, setting
  <2> QED  BY <2>1, <2>2, <2>3 DEF LockInv
<1>2. CASE UNCHANGED <<lost, setting>>
  BY <1>2 DEF LockInv, setting
<1>3. ~DaemonCancel => UNCHANGED <<lost, setting>>
  BY DEF Next, vars, Parser, ParserLoop, ParserFeed, ParserEnd, ParserStreamFails, ParserDequeue,
      ParserDequeueFails, ParserHangs, ParserPrint, Mfc, MfcLoop, MfcDequeue, MfcDequeueFails, MfcShow,
      MfcVsync, MfcVsyncFails, MfcRecord, MfcRequeue, MfcPrint, Decode, DeliverEmpty, Latch, Daemon,
      DaemonTick, DaemonFinish, Main, JoinParser, JoinMfc, JoinDaemon, Close, Timeout
<1> QED  BY <1>1, <1>2, <1>3

-----------------------------------------------------------------------------
(* The inductive invariants hold throughout. *)
THEOREM PipelineInvariant == Spec => [](IInv /\ LockInv)
BY InitIInv, NextIInv, InitLockInv, NextLockInv, PTL DEF Spec

(* Buffer indexes, queues and registers stay in their domains. *)
THEOREM PipelineTypeOK == Spec => []TypeOK
BY PipelineInvariant, PTL DEF IInv

(* parser_thread_func never parses into a buffer that the codec has. *)
THEOREM PipelineOutputOwned == Spec => []OutputOwned
BY PipelineInvariant, PTL DEF IInv

(* mfc_thread_func never gives back a picture that is, or is about to be, on
   the screen, wherever it is cancelled and whichever calls fail, unless the
   panel refused an address. *)
THEOREM PipelineTearFree == Spec => []TearFree
<1>1. IInv => TearFree
  BY DEF IInv, PictureInv
<1> QED  BY <1>1, PipelineInvariant, PTL

(* As long as no call fails the program holds no picture but the one shown
   before and the one being shown. *)
THEOREM PipelineNoBufferLost == Spec => []NoBufferLost
<1>1. IInv => NoBufferLost
  BY DEF IInv, PictureInv
<1> QED  BY <1>1, PipelineInvariant, PTL
-----------------------------------------------------------------------------
(* That nothing is missing at the end: the stream buffers are filled one
   after the other until OUTPUT streams, so it does before they are used up;
   and when the daemon finds nobody at work there is a picture buffer the
   codec could use, so no frame is left in the codec. *)
Premise == timely /\ ~fragile /\ \E n \in OutBufs : bigAfter <= n /\ bigAfter < Frames

IsIn(e, s) == \E i \in 1..Len(s) : s[i] = e

FeedInv ==
    /\ ~error /\ fed <= Frames
    /\ ~streamOn => fed <= bigAfter /\ \A m \in OutBufs : outFlag[m] <=> m < fed
    /\ pc["parser"] = "dequeue" => \A n \in OutBufs : outFlag[n]
    /\ pc["parser"] \in {"print", "done"} => finish \/ fed = Frames
    /\ pc["parser"] # "stuck"
    /\ \A n \in OutBufs : outFlag[n] => IsIn(n, outQueue) \/ IsIn(n, outDone)

HandInv == \A c \in CapBufs : capOwner[c] = "decoded" => \E i \in 1..Len(capDone) : capDone[i].buf = c

(* The codec has delivered its empty picture, which is the last. *)
Ended == \E i \in 1..Len(capDone) : capDone[i].empty

CountInv ==
    pc["mfc"] \notin {"print", "done", "cancelled"} =>
        /\ \A i \in 1..Len(capDone) : capDone[i].empty => i = Len(capDone) /\ fed = Frames /\ outQueue = <<>>
        /\ fed + (IF Ended THEN 1 ELSE 0) = decodedCnt + Len(capDone) + Len(outQueue)

AllDecoded ==
    /\ decodedCnt >= Frames /\ fed = Frames /\ outQueue = <<>>
    /\ \A i \in 1..Len(capDone) : capDone[i].empty

EndInv ==
    /\ finish \/ pc["daemon"] = "finish" => AllDecoded
    /\ pc["mfc"] \in {"print", "done"} => finish
    /\ pc["mfc"] = "cancelled" => pc["daemon"] = "done"
    /\ pc["mfc"] # "stuck"
    /\ pc["daemon"] \in {"cancel", "done"} => finish
    /\ pc["main"] \in {"close", "done"} => pc["daemon"] = "done"

WholeInv == Premise => FeedInv /\ HandInv /\ CountInv /\ EndInv

LEMMA AppendFacts ==
    ASSUME NEW S, NEW s \in Seq(S), NEW e \in S
    PROVE  /\ Len(s) \in Nat /\ Len(Append(s, e)) = Len(s) + 1
           /\ \A i \in 1..Len(s) : Append(s, e)[i] = s[i]
           /\ Append(s, e)[Len(s) + 1] = e
OBVIOUS

LEMMA TailFacts ==
    ASSUME NEW S, NEW s \in Seq(S), s # <<>>
    PROVE  /\ Len(s) \in Nat \ {0} /\ Len(Tail(s)) = Len(s) - 1
           /\ \A i \in 1..Len(Tail(s)) : Tail(s)[i] = s[i + 1]
           /\ Head(s) = s[1] /\ Head(s) \in S
OBVIOUS

LEMMA IsInAppend ==
    ASSUME NEW S, NEW s \in Seq(S), NEW x \in S
    PROVE  /\ IsIn(x, Append(s, x))
           /\ \A e : IsIn(e, s) => IsIn(e, Append(s, x))
BY AppendFacts DEF IsIn

LEMMA IsInTail ==
    ASSUME NEW S, NEW s \in Seq(S), s # <<>>, NEW e, IsIn(e, s)
    PROVE  e = Head(s) \/ IsIn(e, Tail(s))
<1>1. PICK i \in 1..Len(s) : s[i] = e
  BY DEF IsIn
<1>2. CASE i = 1
  BY <1>1, <1>2, TailFacts
<1>3. CASE i # 1
  <2>1. i - 1 \in 1..Len(Tail(s)) /\ (i - 1) + 1 = i
    BY <1>3, TailFacts
  <2>2. Tail(s)[i - 1] = e
    BY <1>1, <2>1, TailFacts
  <2> QED  BY <2>1, <2>2 DEF IsIn
<1> QED  BY <1>2, <1>3

LEMMA IsInSome == ASSUME NEW e, NEW s, IsIn(e, s), s = <<>>  PROVE FALSE
BY DEF IsIn

LEMMA DataFacts ==
    ASSUME IInv
    PROVE  /\ fed \in Nat /\ Frames \in Nat /\ bigAfter \in Nat /\ decodedCnt \in Nat
           /\ Len(capDone) \in Nat /\ Len(outQueue) \in Nat
           /\ outFlag \in [OutBufs -> BOOLEAN] /\ outQueue \in Seq(OutBufs) /\ outDone \in Seq(OutBufs)
           /\ capOwner \in [CapBufs -> {"codec", "decoded", "program"}]
           /\ capDone \in Seq([buf : CapBufs, empty : BOOLEAN])
BY PipelineAssumption DEF IInv, TypeOK

LEMMA InitWholeInv == Init => WholeInv
<1> SUFFICES ASSUME Init, Premise  PROVE FeedInv /\ HandInv /\ CountInv /\ EndInv
  BY DEF WholeInv
<1>1. /\ ~error /\ ~finish /\ fed = 0 /\ Frames \in Nat /\ decodedCnt = 0 /\ bigAfter \in Nat
      /\ outQueue = <<>> /\ capDone = <<>>
      /\ pc["parser"] = "loop" /\ pc["mfc"] = "loop" /\ pc["daemon"] = "sleep" /\ pc["main"] = "join_parser"
      /\ \A n \in OutBufs : ~outFlag[n] /\ n \in Nat
      /\ \A c \in CapBufs : capOwner[c] = "codec"
  BY PipelineAssumption DEF Init
<1>2. FeedInv
  BY <1>1 DEF FeedInv
<1>3. HandInv /\ EndInv
  BY <1>1 DEF HandInv, EndInv
<1>4. CountInv
  BY <1>1 DEF CountInv, Ended
<1> QED  BY <1>2, <1>3, <1>4

(* What a step keeps that leaves the stream buffers, or the pictures, alone. *)
LEMMA FeedStands ==
    ASSUME FeedInv, UNCHANGED <<error, parser, streamOn, bigAfter, outQueue, outDone>>,
           finish => finish', pc'["parser"] = pc["parser"]
    PROVE  FeedInv'
BY DEF FeedInv, IsIn, parser

LEMMA PicturesStand ==
    ASSUME HandInv, CountInv, UNCHANGED <<fed, decodedCnt, outQueue, capOwner, capDone>>,
           pc["mfc"] \in {"print", "done", "cancelled"} => pc'["mfc"] \in {"print", "done", "cancelled"}
    PROVE  HandInv' /\ CountInv'
<1>1. HandInv'
  BY DEF HandInv
<1>2. Ended' = Ended
  BY DEF Ended
<1>3. CountInv'
  BY <1>2 DEF CountInv
<1> QED  BY <1>1, <1>3

LEMMA EndStands ==
    ASSUME EndInv, UNCHANGED <<finish, fed, decodedCnt, outQueue, capDone>>,
           UNCHANGED <<pc["mfc"], pc["daemon"], pc["main"]>>
    PROVE  EndInv'
BY DEF EndInv, AllDecoded

LEMMA ParserKeepsWhole ==
    ASSUME NEW k \in Nat, OutBufs = 0..k,
           IInv, LockInv, Premise, FeedInv, HandInv, CountInv, EndInv, Parser
    PROVE  FeedInv' /\ HandInv' /\ CountInv' /\ EndInv'
<1> USE DEF flags, parser, display, codec, panel, setting
<1>0. /\ TypeOK /\ ~fragile /\ lost # "stderr"
      /\ fed \in Nat /\ Frames \in Nat /\ bigAfter \in Nat /\ decodedCnt \in Nat
      /\ outFlag \in [OutBufs -> BOOLEAN] /\ outQueue \in Seq(OutBufs) /\ outDone \in Seq(OutBufs)
  BY DataFacts DEF IInv, LockInv, Premise
<1>1. ASSUME NEW there, Go("parser", there), there # "stuck",
             UNCHANGED <<flags, parser, display, lastDecodedCnt, codec, panel, setting>>,
             there = "dequeue" => \A n \in OutBufs : outFlag[n],
             there \in {"print", "done"} => finish \/ fed = Frames
      PROVE  FeedInv' /\ HandInv' /\ CountInv' /\ EndInv'
  <2>1. /\ pc'["parser"] = there
        /\ pc'["mfc"] = pc["mfc"] /\ pc'["daemon"] = pc["daemon"] /\ pc'["main"] = pc["main"]
    BY <1>0, <1>1, GoParser
  <2>2. FeedInv'
    BY <1>1, <2>1 DEF FeedInv, IsIn
  <2>3. HandInv' /\ CountInv'
    BY <1>1, <2>1, PicturesStand
  <2>4. EndInv'
    BY <1>1, <2>1, EndStands
  <2> QED  BY <2>2, <2>3, <2>4
<1>2. CASE ParserLoop
  <2> DEFINE there == IF error \/ finish THEN "print"
                      ELSE IF \A n \in OutBufs : outFlag[n] THEN "dequeue" ELSE "feed"
  <2>1. /\ Go("parser", there)
        /\ UNCHANGED <<flags, parser, display, lastDecodedCnt, codec, panel, setting>>
    BY <1>2 DEF ParserLoop
  <2>2. there \in {"print", "done"} => finish
    BY DEF FeedInv
  <2>3. (there = "dequeue" => \A n \in OutBufs : outFlag[n]) /\ there # "stuck"
    OBVIOUS
  <2> HIDE DEF there
  <2> QED  BY <2>1, <2>2, <2>3, <1>1
<1>3. CASE ParserEnd
  <2>1. /\ Go("parser", "print") /\ fed = Frames
        /\ UNCHANGED <<flags, parser, display, lastDecodedCnt, codec, panel, setting>>
    BY <1>0, <1>3 DEF ParserEnd
  <2> QED  BY <2>1, <1>1
<1>4. CASE ParserDequeueFails
  <2>1. pc["parser"] = "dequeue" /\ ~streamOn
    BY <1>0, <1>4 DEF ParserDequeueFails, At
  <2>2. PICK n \in OutBufs : bigAfter <= n
    BY DEF Premise
  <2>3. n < fed /\ fed <= bigAfter /\ n \in Nat
    BY <2>1, <2>2 DEF FeedInv
  <2> QED  BY <1>0, <2>2, <2>3
<1>5. CASE ParserFeed
  <2>1. /\ Go("parser", "loop") /\ fed' = fed + 1 /\ fed < Frames
        /\ UNCHANGED <<flags, display, lastDecodedCnt, outDone, capOwner, capDone, panel, setting>>
        /\ streamOn' = (streamOn \/ fed >= bigAfter)
    BY <1>5 DEF ParserFeed, QueueOut
  <2>2. PICK n \in OutBufs : /\ Pick(n)
                             /\ outQueue' = Append(outQueue, n)
                             /\ outFlag' = [outFlag EXCEPT ![n] = TRUE]
    BY <1>0, <1>5 DEF ParserFeed, QueueOut
  <2>3. /\ pc'["parser"] = "loop" /\ pc'["mfc"] = pc["mfc"] /\ pc'["daemon"] = pc["daemon"]
        /\ pc'["main"] = pc["main"]
    BY <1>0, <2>1, GoParser
  <2>4. ~error' /\ fed' <= Frames
    BY <1>0, <2>1 DEF FeedInv
  <2>5. ASSUME ~streamOn'
        PROVE  fed' <= bigAfter' /\ \A m \in OutBufs : outFlag'[m] <=> m < fed'
    <3>1. ~streamOn
      BY <2>1, <2>5, Zenon
    <3>2. ~(fed >= bigAfter)
      BY <2>1, <2>5, Zenon
    <3>3. \A m \in OutBufs : outFlag[m] <=> m < fed
      BY <3>1 DEF FeedInv
    <3>4. n = fed
      <4>1. n \in 0..k /\ ~(n < fed)
        BY <2>2, <3>3 DEF Pick
      <4>2. fed < n => fed \in OutBufs /\ outFlag[fed]
        BY <1>0, <2>2, <4>1 DEF Pick
      <4>3. fed < n => fed < fed
        BY <3>3, <4>2
      <4> QED  BY <1>0, <4>1, <4>3
    <3>5. bigAfter' = bigAfter
      BY <2>1
    <3>6. ASSUME NEW m \in OutBufs  PROVE outFlag'[m] <=> m < fed'
      <4>1. CASE m = n
        <5>1. outFlag'[m]
          BY <1>0, <2>2, <4>1
        <5>2. m < fed'
          BY <1>0, <2>1, <3>4, <4>1
        <5> QED  BY <5>1, <5>2
      <4>2. CASE m # n
        <5>1. outFlag'[m] = outFlag[m]
          BY <1>0, <2>2, <4>2
        <5>2. m < fed' <=> m < fed
          BY <1>0, <2>1, <3>4, <4>2
        <5> QED  BY <3>3, <5>1, <5>2
      <4> QED  BY <4>1, <4>2
    <3> QED  BY <1>0, <2>1, <3>2, <3>5, <3>6
  <2>6. \A m \in OutBufs : outFlag'[m] => IsIn(m, outQueue') \/ IsIn(m, outDone')
    <3>1. /\ IsIn(n, outQueue') /\ \A m : IsIn(m, outQueue) => IsIn(m, outQueue')
      BY <1>0, <2>2, IsInAppend
    <3>2. \A m \in OutBufs : m # n => outFlag'[m] = outFlag[m]
      BY <1>0, <2>2
    <3>3. \A m : IsIn(m, outDone') = IsIn(m, outDone)
      BY <2>1 DEF IsIn
    <3> QED  BY <3>1, <3>2, <3>3 DEF FeedInv
  <2>7. FeedInv'
    BY <2>3, <2>4, <2>5, <2>6 DEF FeedInv
  <2>8. HandInv'
    BY <2>1 DEF HandInv
  <2>9. CountInv'
    <3> SUFFICES ASSUME pc["mfc"] \notin {"print", "done", "cancelled"}
                 PROVE  /\ \A i \in 1..Len(capDone) : ~capDone[i].empty
                        /\ fed' + (IF Ended' THEN 1 ELSE 0) = decodedCnt + Len(capDone) + Len(outQueue')
      BY <2>1, <2>3 DEF CountInv
    <3>1. \A i \in 1..Len(capDone) : ~capDone[i].empty
      BY <1>0, <2>1 DEF CountInv
    <3>2. ~Ended /\ ~Ended'
      BY <2>1, <3>1 DEF Ended
    <3>3. Len(outQueue') = Len(outQueue) + 1
      BY <1>0, <2>2, AppendFacts
    <3>4. fed = decodedCnt + Len(capDone) + Len(outQueue)
      BY <1>0, <3>2 DEF CountInv
    <3>5. fed' = fed + 1
      BY <2>1
    <3>6. /\ fed \in Nat /\ decodedCnt \in Nat
          /\ Len(capDone) \in Nat /\ Len(outQueue) \in Nat
      BY DataFacts
    <3>7. fed' + 0 = decodedCnt + Len(capDone) + Len(outQueue')
      BY <3>3, <3>4, <3>5, <3>6
    <3> QED  BY <3>1, <3>2, <3>7
  <2>10. EndInv'
    <3>1. ~(finish \/ pc["daemon"] = "finish")
      BY <1>0, <2>1 DEF EndInv, AllDecoded
    <3> QED  BY <2>1, <2>3, <3>1 DEF EndInv
  <2> QED  BY <2>7, <2>8, <2>9, <2>10
<1>6. CASE ParserDequeue
  <2>1. /\ Go("parser", "loop") /\ streamOn /\ outDone # <<>> /\ outDone' = Tail(outDone)
        /\ outFlag' = [outFlag EXCEPT ![Head(outDone)] = FALSE]
        /\ UNCHANGED <<flags, fed, display, lastDecodedCnt, streamOn, outQueue, capOwner, capDone, panel,
                       setting>>
    BY <1>6 DEF ParserDequeue
  <2>2. /\ pc'["parser"] = "loop" /\ pc'["mfc"] = pc["mfc"] /\ pc'["daemon"] = pc["daemon"]
        /\ pc'["main"] = pc["main"]
    BY <1>0, <2>1, GoParser
  <2>3. \A m \in OutBufs : outFlag'[m] => IsIn(m, outQueue') \/ IsIn(m, outDone')
    <3>1. ASSUME NEW m \in OutBufs, outFlag'[m]
          PROVE  IsIn(m, outQueue) \/ IsIn(m, Tail(outDone))
      <4>1. m # Head(outDone) /\ outFlag[m]
        BY <1>0, <2>1, <3>1
      <4>2. CASE IsIn(m, outDone)
        BY <1>0, <2>1, <4>1, <4>2, IsInTail
      <4> QED  BY <4>1, <4>2 DEF FeedInv
    <3> QED  BY <2>1, <3>1
  <2>4. FeedInv'
    BY <2>1, <2>2, <2>3 DEF FeedInv
  <2>5. HandInv' /\ CountInv'
    BY <2>1, <2>2, PicturesStand
  <2>6. EndInv'
    BY <2>1, <2>2, EndStands
  <2> QED  BY <2>4, <2>5, <2>6
<1>7. CASE ParserPrint
  <2>1. /\ Go("parser", "done") /\ (finish \/ fed = Frames)
        /\ UNCHANGED <<flags, parser, display, lastDecodedCnt, codec, panel, setting>>
    BY <1>7 DEF ParserPrint, At, FeedInv
  <2> QED  BY <2>1, <1>1
<1>8. CASE ParserStreamFails \/ ParserHangs
  BY <1>0, <1>8 DEF ParserStreamFails, ParserHangs
<1> QED  BY <1>2, <1>3, <1>4, <1>5, <1>6, <1>7, <1>8 DEF Parser

(* The picture at the head of the queue is taken: it is counted instead. *)
LEMMA DequeueCounts ==
    ASSUME IInv, Premise, FeedInv, HandInv, CountInv, EndInv, pc["mfc"] = "dequeue",
           capDone # <<>>, capDone' = Tail(capDone), decodedCnt' = decodedCnt + 1,
           UNCHANGED <<fed, outQueue>>
    PROVE  /\ Head(capDone).empty => capDone' = <<>> /\ decodedCnt' >= Frames /\ fed = Frames /\ outQueue = <<>>
           /\ ~Head(capDone).empty =>
                /\ \A i \in 1..Len(capDone') : capDone'[i].empty => i = Len(capDone') /\ fed = Frames /\ outQueue = <<>>
                /\ fed + (IF Ended' THEN 1 ELSE 0) = decodedCnt' + Len(capDone') + Len(outQueue)
           /\ AllDecoded => AllDecoded'
<1>0. /\ capDone \in Seq([buf : CapBufs, empty : BOOLEAN]) /\ Len(outQueue) \in Nat
      /\ fed \in Nat /\ Frames \in Nat /\ decodedCnt \in Nat
  BY DataFacts
<1>1. /\ Len(capDone) \in Nat \ {0} /\ Len(capDone') = Len(capDone) - 1
      /\ \A i \in 1..Len(capDone') : capDone'[i] = capDone[i + 1]
      /\ Head(capDone) = capDone[1]
      /\ capDone' \in Seq([buf : CapBufs, empty : BOOLEAN])
  BY <1>0, TailFacts
<1>2. /\ \A i \in 1..Len(capDone) : capDone[i].empty => i = Len(capDone) /\ fed = Frames /\ outQueue = <<>>
      /\ fed + (IF Ended THEN 1 ELSE 0) = decodedCnt + Len(capDone) + Len(outQueue)
  BY DEF CountInv
<1>3. ASSUME Head(capDone).empty
      PROVE  capDone' = <<>> /\ decodedCnt' >= Frames /\ fed = Frames /\ outQueue = <<>>
  <2>0. 1 \in 1..Len(capDone) /\ capDone[1].empty
    BY <1>1, <1>3
  <2>1. Len(capDone) = 1 /\ fed = Frames /\ outQueue = <<>>
    BY <1>2, <2>0, Zenon
  <2>2. Ended
    BY <1>1, <1>3 DEF Ended
  <2>3. fed + 1 = decodedCnt + 1 + 0
    BY <1>2, <2>1, <2>2
  <2>4. capDone' = <<>>
    BY <1>1, <2>1
  <2> QED  BY <1>0, <2>1, <2>3, <2>4
<1>4. ASSUME ~Head(capDone).empty
      PROVE  /\ \A i \in 1..Len(capDone') : capDone'[i].empty => i = Len(capDone') /\ fed = Frames /\ outQueue = <<>>
             /\ fed + (IF Ended' THEN 1 ELSE 0) = decodedCnt' + Len(capDone') + Len(outQueue)
  <2>1. \A i \in 1..Len(capDone') : i + 1 \in 1..Len(capDone)
    BY <1>1
  <2>2. \A i \in 1..Len(capDone') : capDone'[i].empty => i = Len(capDone') /\ fed = Frames /\ outQueue = <<>>
    <3> SUFFICES ASSUME NEW i \in 1..Len(capDone'), capDone'[i].empty
                 PROVE  i = Len(capDone') /\ fed = Frames /\ outQueue = <<>>
      OBVIOUS
    <3>1. i + 1 \in 1..Len(capDone) /\ capDone[i + 1].empty
      <4>1. capDone'[i] = capDone[i + 1] /\ i + 1 \in 1..Len(capDone)
        BY <1>1, <2>1
      <4> QED  BY <4>1
    <3>2. i + 1 = Len(capDone) /\ fed = Frames /\ outQueue = <<>>
      BY <1>2, <3>1, Zenon
    <3>3. i + 1 = Len(capDone)
      BY <3>2
    <3>4. i = Len(capDone')
      <4>1. i \in Nat /\ Len(capDone) \in Nat /\ Len(capDone') = Len(capDone) - 1
        BY <1>1
      <4> QED  BY <3>3, <4>1
    <3> QED  BY <3>2, <3>4, Zenon
  <2>3. Ended' => Ended
    BY <1>1, <2>1 DEF Ended
  <2>4. Ended => Ended'
    <3> SUFFICES ASSUME NEW i \in 1..Len(capDone), capDone[i].empty  PROVE Ended'
      BY DEF Ended
    <3>1. i # 1
      BY <1>1, <1>4
    <3>2. i - 1 \in 1..Len(capDone') /\ (i - 1) + 1 = i
      BY <1>1, <3>1
    <3>3. capDone'[i - 1] = capDone[i]
      BY <1>1, <3>2
    <3> QED  BY <3>2, <3>3 DEF Ended
  <2>5. fed = fed' /\ Len(outQueue) = Len(outQueue')
    OBVIOUS
  <2>6. decodedCnt + Len(capDone) = decodedCnt' + Len(capDone')
    BY <1>0, <1>1
  <2>7. CASE Ended
    <3>1. fed + 1 = decodedCnt + Len(capDone) + Len(outQueue)
      BY <1>2, <2>7
    <3>2. fed + 1 = decodedCnt' + Len(capDone') + Len(outQueue)
      BY <2>6, <3>1
    <3> QED  BY <2>2, <2>4, <2>7, <3>2
  <2>8. CASE ~Ended
    <3>1. fed + 0 = decodedCnt + Len(capDone) + Len(outQueue)
      BY <1>2, <2>8
    <3>2. fed + 0 = decodedCnt' + Len(capDone') + Len(outQueue)
      BY <2>6, <3>1
    <3> QED  BY <2>2, <2>3, <2>8, <3>2
  <2> QED  BY <2>7, <2>8
<1>5. ASSUME AllDecoded  PROVE AllDecoded'
  <2>1. \A i \in 1..Len(capDone') : i + 1 \in 1..Len(capDone)
    BY <1>1
  <2>2. \A i \in 1..Len(capDone') : capDone'[i].empty
    BY <1>1, <1>5, <2>1 DEF AllDecoded
  <2> QED  BY <1>0, <1>5, <2>2 DEF AllDecoded
<1> QED  BY <1>3, <1>4, <1>5

LEMMA MfcKeepsWhole ==
    ASSUME IInv, Premise, FeedInv, HandInv, CountInv, EndInv, Mfc
    PROVE  FeedInv' /\ HandInv' /\ CountInv' /\ EndInv'
<1> USE DEF flags, parser, display, codec, panel, setting
<1>0. /\ TypeOK /\ ~fragile
      /\ capOwner \in [CapBufs -> {"codec", "decoded", "program"}]
      /\ capDone \in Seq([buf : CapBufs, empty : BOOLEAN])
  BY DataFacts DEF IInv, Premise
<1>1. ASSUME NEW here, NEW there, pc["mfc"] = here, Go("mfc", there),
             here \notin {"done", "cancelled"}, here = "print" => there = "done",
             there \notin {"stuck", "cancelled"}, there \in {"print", "done"} => finish,
             UNCHANGED <<flags, parser, decodedCnt, streamOn, outQueue, outDone, capOwner, capDone, setting>>
      PROVE  FeedInv' /\ HandInv' /\ CountInv' /\ EndInv'
  <2>1. /\ pc'["mfc"] = there
        /\ pc'["parser"] = pc["parser"] /\ pc'["daemon"] = pc["daemon"] /\ pc'["main"] = pc["main"]
    BY <1>0, <1>1, GoMfc
  <2>2. FeedInv'
    BY <1>1, <2>1, FeedStands
  <2>3. HandInv' /\ CountInv'
    BY <1>1, <2>1, PicturesStand
  <2>4. EndInv'
    BY <1>1, <2>1 DEF EndInv, AllDecoded
  <2> QED  BY <2>2, <2>3, <2>4
<1>2. CASE MfcLoop
  <2>1. PICK there \in {"print", "dequeue"} : Go("mfc", there) /\ (there = "print" => error \/ finish)
    BY <1>2 DEF MfcLoop
  <2>2. there \in {"print", "done"} => finish
    BY <2>1 DEF FeedInv
  <2> QED  BY <1>2, <2>1, <2>2, <1>1 DEF MfcLoop, At
<1>3. CASE MfcDequeue
  <2>1. PICK c : c = Head(capDone).buf
    OBVIOUS
  <2>2. /\ pc["mfc"] = "dequeue" /\ capDone # <<>> /\ capDone' = Tail(capDone)
        /\ capOwner' = [capOwner EXCEPT ![c] = "program"]
        /\ decodedCnt' = decodedCnt + 1
        /\ finish' = (finish \/ Head(capDone).empty)
        /\ Go("mfc", IF Head(capDone).empty THEN "print" ELSE "show")
        /\ UNCHANGED <<error, parser, lastDecodedCnt, streamOn, outQueue, outDone, setting>>
    BY <1>3, <2>1 DEF MfcDequeue, At
  <2>3. /\ pc'["mfc"] = (IF Head(capDone).empty THEN "print" ELSE "show")
        /\ pc'["parser"] = pc["parser"] /\ pc'["daemon"] = pc["daemon"] /\ pc'["main"] = pc["main"]
    BY <1>0, <2>2, GoMfc
  <2>4. FeedInv'
    BY <2>2, <2>3, FeedStands
  <2>5. HandInv'
    <3> SUFFICES ASSUME NEW d \in CapBufs, capOwner'[d] = "decoded"
                 PROVE  \E i \in 1..Len(capDone') : capDone'[i].buf = d
      BY DEF HandInv
    <3>1. d # c /\ capOwner[d] = "decoded"
      BY <1>0, <2>2
    <3>2. PICK i \in 1..Len(capDone) : capDone[i].buf = d
      BY <3>1 DEF HandInv
    <3>3. /\ Len(capDone) \in Nat \ {0} /\ Len(capDone') = Len(capDone) - 1 /\ Head(capDone) = capDone[1]
          /\ \A j \in 1..Len(capDone') : capDone'[j] = capDone[j + 1]
      BY <1>0, <2>2, TailFacts
    <3>4. i # 1
      BY <2>1, <3>1, <3>2, <3>3
    <3>5. i - 1 \in 1..Len(capDone') /\ (i - 1) + 1 = i
      BY <3>3, <3>4
    <3>6. capDone'[i - 1] = capDone[i]
      BY <3>3, <3>5
    <3> QED  BY <3>2, <3>5, <3>6
  <2>6. CountInv'
    <3>1. UNCHANGED <<fed, outQueue>>
      BY <2>2
    <3>2. CASE Head(capDone).empty
      BY <2>3, <3>2 DEF CountInv
    <3>3. CASE ~Head(capDone).empty
      <4>1. /\ \A i \in 1..Len(capDone') : capDone'[i].empty => i = Len(capDone') /\ fed = Frames /\ outQueue = <<>>
            /\ fed + (IF Ended' THEN 1 ELSE 0) = decodedCnt' + Len(capDone') + Len(outQueue)
        BY <2>2, <3>1, <3>3, DequeueCounts
      <4> QED  BY <3>1, <4>1 DEF CountInv
    <3> QED  BY <3>2, <3>3
  <2>7. EndInv'
    <3>1. UNCHANGED <<fed, outQueue>>
      BY <2>2
    <3>2. AllDecoded => AllDecoded'
      BY <2>2, <3>1, DequeueCounts
    <3>3. Head(capDone).empty => AllDecoded'
      <4>1. Head(capDone).empty => capDone' = <<>> /\ decodedCnt' >= Frames /\ fed = Frames /\ outQueue = <<>>
        BY <2>2, <3>1, DequeueCounts
      <4> QED  BY <3>1, <4>1 DEF AllDecoded
    <3>4. finish' \/ pc'["daemon"] = "finish" => AllDecoded'
      BY <2>2, <2>3, <3>2, <3>3, Zenon DEF EndInv
    <3>5. pc'["mfc"] \in {"print", "done"} => finish'
      BY <2>2, <2>3
    <3>6. finish => finish'
      BY <2>2
    <3> QED  BY <2>3, <3>4, <3>5, <3>6 DEF EndInv
  <2> QED  BY <2>4, <2>5, <2>6, <2>7
<1>4. CASE MfcDequeueFails
  BY <1>0, <1>4 DEF MfcDequeueFails
<1>5. CASE MfcShow
  BY <1>5, <1>1 DEF MfcShow, At
<1>6. CASE MfcVsync
  BY <1>6, <1>1 DEF MfcVsync, At
<1>7. CASE MfcVsyncFails
  BY <1>0, <1>7 DEF MfcVsyncFails
<1>8. CASE MfcRequeue
  <2>1. /\ pc["mfc"] = "requeue" /\ Go("mfc", "loop")
        /\ \/ capOwner' = [capOwner EXCEPT ![sLastDequeue] = "codec"]
           \/ capOwner' = capOwner
        /\ UNCHANGED <<flags, parser, decodedCnt, streamOn, outQueue, outDone, capDone, setting>>
    BY <1>8 DEF MfcRequeue, At
  <2>2. /\ pc'["mfc"] = "loop"
        /\ pc'["parser"] = pc["parser"] /\ pc'["daemon"] = pc["daemon"] /\ pc'["main"] = pc["main"]
    BY <1>0, <2>1, GoMfc
  <2>3. HandInv'
    <3>1. \A c \in CapBufs : capOwner'[c] = "decoded" => capOwner[c] = "decoded"
      BY <1>0, <2>1
    <3> QED  BY <2>1, <3>1 DEF HandInv
  <2>4. CountInv'
    <3>1. Ended' = Ended
      BY <2>1 DEF Ended
    <3> QED  BY <2>1, <2>2, <3>1 DEF CountInv
  <2>5. FeedInv'
    BY <2>1, <2>2, FeedStands
  <2>6. EndInv'
    BY <2>1, <2>2 DEF EndInv, AllDecoded
  <2> QED  BY <2>3, <2>4, <2>5, <2>6
<1>9. CASE MfcRecord
  BY <1>9, <1>1 DEF MfcRecord, At
<1>10. CASE MfcPrint
  <2>1. finish
    BY <1>10 DEF MfcPrint, At, EndInv
  <2> QED  BY <1>10, <2>1, <1>1 DEF MfcPrint, At
<1> QED  BY <1>2, <1>3, <1>4, <1>5, <1>6, <1>7, <1>8, <1>9, <1>10 DEF Mfc

(* A picture is delivered: it waits after the others. *)
LEMMA DeliveryStands ==
    ASSUME IInv, HandInv, NEW c \in CapBufs, NEW e \in BOOLEAN,
           capOwner' = [capOwner EXCEPT ![c] = "decoded"],
           capDone' = Append(capDone, [buf |-> c, empty |-> e])
    PROVE  /\ HandInv'
           /\ Len(capDone') = Len(capDone) + 1
           /\ \A i \in 1..Len(capDone) : capDone'[i] = capDone[i]
           /\ capDone'[Len(capDone) + 1].empty = e
           /\ Ended' <=> Ended \/ e
<1>1. capDone \in Seq([buf : CapBufs, empty : BOOLEAN]) /\ Len(capDone) \in Nat
  BY DataFacts
<1>2. [buf |-> c, empty |-> e] \in [buf : CapBufs, empty : BOOLEAN]
  OBVIOUS
<1>3. /\ Len(capDone') = Len(capDone) + 1
      /\ \A i \in 1..Len(capDone) : capDone'[i] = capDone[i]
      /\ capDone'[Len(capDone) + 1] = [buf |-> c, empty |-> e]
  BY <1>1, <1>2, AppendFacts
<1>4. \A i \in 1..Len(capDone) : i \in 1..Len(capDone')
  BY <1>1, <1>3
<1>5. Len(capDone) + 1 \in 1..Len(capDone')
  BY <1>1, <1>3
<1>6. \A i \in 1..Len(capDone') : i \in 1..Len(capDone) \/ i = Len(capDone) + 1
  BY <1>1, <1>3
<1>7. capDone'[Len(capDone) + 1].empty = e /\ capDone'[Len(capDone) + 1].buf = c
  BY <1>3
<1>8. HandInv'
  <2> SUFFICES ASSUME NEW d \in CapBufs, capOwner'[d] = "decoded"
               PROVE  \E i \in 1..Len(capDone') : capDone'[i].buf = d
    BY DEF HandInv
  <2>1. CASE d = c
    BY <1>5, <1>7, <2>1
  <2>2. CASE d # c
    <3>1. capOwner[d] = "decoded"
      BY <2>2, DataFacts
    <3> QED  BY <1>3, <1>4, <3>1 DEF HandInv
  <2> QED  BY <2>1, <2>2
<1>9. Ended' => Ended \/ e
  BY <1>3, <1>6, <1>7 DEF Ended
<1>10. Ended => Ended'
  BY <1>3, <1>4 DEF Ended
<1>11. e => Ended'
  BY <1>5, <1>7 DEF Ended
<1> QED  BY <1>3, <1>7, <1>8, <1>9, <1>10, <1>11

LEMMA CodecKeepsWhole ==
    ASSUME IInv, Premise, FeedInv, HandInv, CountInv, EndInv, Decode \/ DeliverEmpty \/ Latch
    PROVE  FeedInv' /\ HandInv' /\ CountInv' /\ EndInv'
<1> USE DEF flags, parser, display, setting
<1>0. /\ fed \in Nat /\ Frames \in Nat /\ decodedCnt \in Nat
      /\ Len(capDone) \in Nat /\ Len(outQueue) \in Nat
      /\ outQueue \in Seq(OutBufs) /\ outDone \in Seq(OutBufs)
      /\ capDone \in Seq([buf : CapBufs, empty : BOOLEAN])
  BY DataFacts
<1>1. CASE Decode
  <2>1. PICK c \in CapBufs : /\ capOwner[c] = "codec"
                             /\ capOwner' = [capOwner EXCEPT ![c] = "decoded"]
                             /\ capDone' = Append(capDone, [buf |-> c, empty |-> FALSE])
    BY <1>1 DEF Decode
  <2>2. /\ outQueue # <<>> /\ outQueue' = Tail(outQueue) /\ outDone' = Append(outDone, Head(outQueue))
        /\ UNCHANGED <<flags, parser, display, lastDecodedCnt, streamOn, pc, setting>>
    BY <1>1 DEF Decode, CanDecode
  <2>3. /\ HandInv' /\ Len(capDone') = Len(capDone) + 1
        /\ \A i \in 1..Len(capDone) : capDone'[i] = capDone[i]
        /\ ~capDone'[Len(capDone) + 1].empty
        /\ Ended' <=> Ended
    BY <2>1, DeliveryStands
  <2>4. Head(outQueue) \in OutBufs /\ Len(outQueue') = Len(outQueue) - 1
    BY <1>0, <2>2, TailFacts
  <2>5. FeedInv'
    <3>1. IsIn(Head(outQueue), outDone') /\ \A n : IsIn(n, outDone) => IsIn(n, outDone')
      BY <1>0, <2>2, <2>4, IsInAppend
    <3>2. \A n \in OutBufs : IsIn(n, outQueue) => n = Head(outQueue) \/ IsIn(n, outQueue')
      BY <1>0, <2>2, IsInTail
    <3>3. \A n \in OutBufs : outFlag'[n] => IsIn(n, outQueue') \/ IsIn(n, outDone')
      BY <2>2, <3>1, <3>2 DEF FeedInv
    <3> QED  BY <2>2, <3>3 DEF FeedInv
  <2>6. CountInv'
    <3> SUFFICES ASSUME pc["mfc"] \notin {"print", "done", "cancelled"}
                 PROVE  /\ \A i \in 1..Len(capDone') : ~capDone'[i].empty
                        /\ fed + (IF Ended' THEN 1 ELSE 0) = decodedCnt + Len(capDone') + Len(outQueue')
      BY <2>2 DEF CountInv
    <3>1. \A i \in 1..Len(capDone) : ~capDone[i].empty
      BY <2>2 DEF CountInv
    <3>2. ~Ended /\ ~Ended'
      BY <2>3, <3>1 DEF Ended
    <3>3. \A i \in 1..Len(capDone') : ~capDone'[i].empty
      BY <3>2 DEF Ended
    <3>4. fed = decodedCnt + Len(capDone) + Len(outQueue)
      BY <1>0, <3>2 DEF CountInv
    <3> QED  BY <1>0, <2>3, <2>4, <3>2, <3>3, <3>4
  <2>7. EndInv'
    <3>1. ~(finish \/ pc["daemon"] = "finish")
      BY <2>2 DEF EndInv, AllDecoded
    <3> QED  BY <2>2, <3>1 DEF EndInv
  <2> QED  BY <2>3, <2>5, <2>6, <2>7
<1>2. CASE DeliverEmpty
  <2>1. PICK c \in CapBufs : /\ capOwner' = [capOwner EXCEPT ![c] = "decoded"]
                             /\ capDone' = Append(capDone, [buf |-> c, empty |-> TRUE])
    BY <1>2 DEF DeliverEmpty
  <2>2. /\ fed = Frames /\ outQueue = <<>>
        /\ UNCHANGED <<flags, parser, display, lastDecodedCnt, streamOn, outQueue, outDone, pc, setting>>
    BY <1>2 DEF DeliverEmpty
  <2>3. /\ HandInv' /\ Len(capDone') = Len(capDone) + 1
        /\ \A i \in 1..Len(capDone) : capDone'[i] = capDone[i]
        /\ capDone'[Len(capDone) + 1].empty
        /\ Ended'
    BY <2>1, DeliveryStands
  <2>4. \A i \in 1..Len(capDone) : ~capDone[i].empty
    <3>1. DOMAIN capDone = 1..Len(capDone)
      BY <1>0
    <3> QED  BY <1>2, <3>1 DEF DeliverEmpty
  <2>5. FeedInv'
    BY <2>2, FeedStands
  <2>6. \A i \in 1..Len(capDone') : i \in 1..Len(capDone) \/ i = Len(capDone')
    BY <1>0, <2>3
  <2>7. CountInv'
    <3>1. ~Ended
      BY <2>4 DEF Ended
    <3>2. pc["mfc"] \notin {"print", "done", "cancelled"} => fed = decodedCnt + Len(capDone) + Len(outQueue)
      BY <1>0, <3>1 DEF CountInv
    <3>3. pc["mfc"] \notin {"print", "done", "cancelled"} => fed + 1 = decodedCnt + Len(capDone') + Len(outQueue)
      BY <1>0, <2>3, <3>2
    <3>4. \A i \in 1..Len(capDone') : capDone'[i].empty => i = Len(capDone')
      BY <2>3, <2>4, <2>6
    <3> QED  BY <2>2, <2>3, <3>3, <3>4 DEF CountInv
  <2>8. EndInv'
    <3>1. AllDecoded => AllDecoded'
      <4>1. \A i \in 1..Len(capDone') : i \in 1..Len(capDone) \/ i = Len(capDone) + 1
        BY <1>0, <2>3
      <4> QED  BY <2>2, <2>3, <4>1 DEF AllDecoded
    <3> QED  BY <2>2, <3>1 DEF EndInv
  <2> QED  BY <2>3, <2>5, <2>7, <2>8
<1>3. CASE Latch
  <2>1. UNCHANGED <<flags, parser, display, codec, pc, setting>>
    BY <1>3 DEF Latch
  <2>2. FeedInv'
    BY <2>1, FeedStands DEF codec
  <2>3. HandInv' /\ CountInv'
    BY <2>1, PicturesStand DEF codec
  <2>4. EndInv'
    BY <2>1, EndStands DEF codec
  <2> QED  BY <2>2, <2>3, <2>4
<1> QED  BY <1>1, <1>2, <1>3

(* When nobody is at work and the end has not come, all of it is decoded. *)
LEMMA IdleMeansDecoded ==
    ASSUME IInv, Premise, FeedInv, HandInv, CountInv, EndInv, Idle,
           NEW c \in CapBufs, NEW d \in CapBufs, c # d
    PROVE  AllDecoded
<1>1. CASE finish
  BY <1>1 DEF EndInv
<1>2. CASE ~finish
  <2>0. /\ ~fragile /\ fed \in Nat /\ Frames \in Nat /\ decodedCnt \in Nat /\ bigAfter \in Nat
        /\ capOwner \in [CapBufs -> {"codec", "decoded", "program"}]
    BY DataFacts DEF Premise
  <2>1. pc["mfc"] = "dequeue" /\ capDone = <<>>
    BY <1>2 DEF Idle, EndInv
  <2>2. \E b \in CapBufs : capOwner[b] = "codec"
    <3>1. \A b \in CapBufs : capOwner[b] # "decoded"
      BY <2>1 DEF HandInv
    <3>2. \A b \in CapBufs : capOwner[b] = "program" => b = sLastDequeue
      BY <2>0, <2>1 DEF IInv, PictureInv, Held
    <3>3. capOwner[c] # "program" \/ capOwner[d] # "program"
      BY <3>2
    <3> QED  BY <2>0, <3>1, <3>3
  <2>3. streamOn
    <3>1. PICK n \in OutBufs : bigAfter <= n /\ bigAfter < Frames
      BY DEF Premise
    <3>2. ~streamOn => fed # Frames
      BY <2>0, <3>1 DEF FeedInv
    <3>3. fed = Frames \/ streamOn
      BY <1>2 DEF Idle, ParserIdle, FeedInv
    <3> QED  BY <3>2, <3>3
  <2>4. outQueue = <<>>
    BY <2>2, <2>3 DEF Idle, CanDecode
  <2>5. fed = Frames
    <3> SUFFICES ASSUME pc["parser"] = "dequeue", outDone = <<>>  PROVE FALSE
      BY <1>2 DEF Idle, ParserIdle, FeedInv
    <3>1. PICK n \in OutBufs : TRUE
      BY PipelineAssumption
    <3>2. IsIn(n, outQueue) \/ IsIn(n, outDone)
      BY DEF FeedInv
    <3> QED  BY <2>4, <3>2, IsInSome
  <2>6. ~Ended
    BY <2>1 DEF Ended
  <2>7. fed + 0 = decodedCnt + Len(capDone) + Len(outQueue)
    BY <2>1, <2>6 DEF CountInv
  <2>8. Len(capDone) = 0 /\ Len(outQueue) = 0
    BY <2>1, <2>4
  <2>9. decodedCnt >= Frames
    BY <2>0, <2>5, <2>7, <2>8
  <2> QED  BY <2>1, <2>4, <2>5, <2>9 DEF AllDecoded
<1> QED  BY <1>1, <1>2

LEMMA DaemonKeepsWhole ==
    ASSUME IInv, Premise, FeedInv, HandInv, CountInv, EndInv, Daemon,
           NEW c \in CapBufs, NEW d \in CapBufs, c # d
    PROVE  FeedInv' /\ HandInv' /\ CountInv' /\ EndInv'
<1> USE DEF flags, parser, display, codec, panel, setting
<1>0. TypeOK /\ timely
  BY DEF IInv, Premise
<1>1. /\ UNCHANGED <<error, parser, display, codec, panel, setting>>
      /\ finish => finish'
  BY DEF Daemon, DaemonTick, DaemonFinish, DaemonCancel
<1>2. CASE DaemonTick
  <2>1. /\ pc["daemon"] = "sleep" /\ finish' = finish
        /\ Go("daemon", IF lastDecodedCnt = decodedCnt THEN "finish" ELSE "sleep")
        /\ decodedCnt = lastDecodedCnt => Idle
    BY <1>0, <1>2 DEF DaemonTick, At
  <2>2. /\ pc'["daemon"] = (IF lastDecodedCnt = decodedCnt THEN "finish" ELSE "sleep")
        /\ pc'["parser"] = pc["parser"] /\ pc'["mfc"] = pc["mfc"] /\ pc'["main"] = pc["main"]
    BY <1>0, <2>1, GoTo
  <2>3. pc'["daemon"] = "finish" => AllDecoded
    BY <2>1, <2>2, IdleMeansDecoded
  <2>4. AllDecoded' = AllDecoded
    BY <1>1 DEF AllDecoded
  <2>5. EndInv'
    BY <2>1, <2>2, <2>3, <2>4 DEF EndInv
  <2>6. FeedInv' /\ HandInv' /\ CountInv'
    BY <1>1, <2>2, FeedStands, PicturesStand
  <2> QED  BY <2>5, <2>6
<1>3. CASE DaemonFinish
  <2>1. pc["daemon"] = "finish" /\ finish' /\ Go("daemon", "cancel")
    BY <1>3 DEF DaemonFinish, At
  <2>2. /\ pc'["daemon"] = "cancel"
        /\ pc'["parser"] = pc["parser"] /\ pc'["mfc"] = pc["mfc"] /\ pc'["main"] = pc["main"]
    BY <1>0, <2>1, GoTo
  <2>3. AllDecoded' = AllDecoded
    BY <1>1 DEF AllDecoded
  <2>4. EndInv'
    BY <2>1, <2>2, <2>3 DEF EndInv
  <2>5. FeedInv' /\ HandInv' /\ CountInv'
    BY <1>1, <2>2, FeedStands, PicturesStand
  <2> QED  BY <2>4, <2>5
<1>4. CASE DaemonCancel
  <2>1. /\ pc'["parser"] = pc["parser"] /\ pc'["main"] = pc["main"]
        /\ pc'["daemon"] = "done" /\ pc["daemon"] = "cancel"
        /\ pc'["mfc"] = (IF pc["mfc"] = "done" THEN "done" ELSE "cancelled")
        /\ finish' = finish
    BY <1>0, <1>4 DEF DaemonCancel, TypeOK, At
  <2>2. AllDecoded' = AllDecoded
    BY <1>1 DEF AllDecoded
  <2>3. EndInv'
    BY <2>1, <2>2 DEF EndInv
  <2>4. FeedInv'
    BY <1>1, <2>1, FeedStands
  <2>5. HandInv' /\ CountInv'
    BY <1>1, <2>1, PicturesStand
  <2> QED  BY <2>3, <2>4, <2>5
<1> QED  BY <1>2, <1>3, <1>4 DEF Daemon

LEMMA MainKeepsWhole ==
    ASSUME IInv, Premise, FeedInv, HandInv, CountInv, EndInv, Main \/ Timeout
    PROVE  FeedInv' /\ HandInv' /\ CountInv' /\ EndInv'
<1> USE DEF flags, parser, display, codec, panel, setting
<1>1. UNCHANGED <<flags, parser, display, lastDecodedCnt, codec, panel, setting>>
  BY DEF Main, JoinParser, JoinMfc, JoinDaemon, Close, Timeout
<1>2. PICK there : Go("main", there) /\ (there \in {"close", "done"} => pc["daemon"] = "done")
  BY DEF Main, JoinParser, JoinMfc, JoinDaemon, Close, Timeout, At, EndInv
<1>3. /\ pc'["main"] = there
      /\ pc'["parser"] = pc["parser"] /\ pc'["mfc"] = pc["mfc"] /\ pc'["daemon"] = pc["daemon"]
  BY <1>2, GoTo DEF IInv
<1>4. FeedInv'
  BY <1>1, <1>3, FeedStands
<1>5. HandInv' /\ CountInv'
  BY <1>1, <1>3, PicturesStand
<1>6. EndInv'
  BY <1>1, <1>2, <1>3 DEF EndInv, AllDecoded
<1> QED  BY <1>4, <1>5, <1>6

LEMMA NextWholeInv ==
    ASSUME NEW k \in Nat, OutBufs = 0..k, NEW c \in CapBufs, NEW d \in CapBufs, c # d
    PROVE  IInv /\ LockInv /\ WholeInv /\ [Next]_vars => WholeInv'
<1> SUFFICES ASSUME IInv, LockInv, WholeInv, [Next]_vars, Premise'
             PROVE  FeedInv' /\ HandInv' /\ CountInv' /\ EndInv'
  BY DEF WholeInv
<1> USE DEF flags, parser, display, codec, panel, setting
<1>1. CASE UNCHANGED vars
  <2>1. UNCHANGED <<flags, parser, display, codec, panel, setting, pc>>
    BY <1>1 DEF vars
  <2>2. FeedInv /\ HandInv /\ CountInv /\ EndInv
    BY <2>1 DEF WholeInv, Premise
  <2>3. FeedInv'
    BY <2>1, <2>2, FeedStands
  <2>4. HandInv' /\ CountInv'
    BY <2>1, <2>2, PicturesStand
  <2>5. EndInv'
    BY <2>1, <2>2, EndStands
  <2> QED  BY <2>3, <2>4, <2>5
<1>2. CASE Next
  <2>1. Premise
    <3>1. UNCHANGED setting
      BY <1>2 DEF Next, Parser, ParserLoop, ParserFeed, ParserEnd, ParserStreamFails, ParserDequeue,
           ParserDequeueFails, ParserHangs, ParserPrint, Mfc, MfcLoop, MfcDequeue, MfcDequeueFails, MfcShow,
           MfcVsync, MfcVsyncFails, MfcRecord, MfcRequeue, MfcPrint, Decode,
           DeliverEmpty, Latch, Daemon, DaemonTick, DaemonFinish, DaemonCancel, Main, JoinParser, JoinMfc,
           JoinDaemon, Close, Timeout
    <3> QED  BY <3>1 DEF Premise
  <2>2. FeedInv /\ HandInv /\ CountInv /\ EndInv
    BY <2>1 DEF WholeInv
  <2> QED
    BY <1>2, <2>1, <2>2, ParserKeepsWhole, MfcKeepsWhole, CodecKeepsWhole, DaemonKeepsWhole, MainKeepsWhole
    DEF Next
<1> QED  BY <1>1, <1>2

(* A decoder that main's joins let end has decoded the whole stream under the
   premises of the property, when the stream buffers are numbered as in
   out_buf_flag and there are two picture buffers. *)
THEOREM PipelineWholeStream ==
    ASSUME NEW k \in Nat, OutBufs = 0..k, NEW c \in CapBufs, NEW d \in CapBufs, c # d
    PROVE  Spec => []WholeStreamDecoded
<1>1. WholeInv => WholeStreamDecoded
  BY DEF WholeInv, Premise, EndInv, AllDecoded, WholeStreamDecoded
<1>2. IInv /\ LockInv /\ WholeInv /\ [Next]_vars => WholeInv'
  BY NextWholeInv
<1> QED  BY <1>1, <1>2, PipelineInvariant, InitWholeInv, PTL DEF Spec
-----------------------------------------------------------------------------
(* The player.  What it does to the pipeline the pipeline may do: the parser
   thread finds the queue empty with quit set only when every packet was
   fed, for no packet is put after the final sleep began and the sleep
   outlasts a look at the queue. *)
Accounted ==
    \/ fed + queued + unread = Frames
    \/ fragile /\ pc["parser"] \in {"stuck", "done"} /\ fed + queued + unread <= Frames

PlayerInv ==
    /\ demux \in DemuxPC /\ get \in GetPC
    /\ fed \in Nat /\ queued \in Nat /\ unread \in Nat
    /\ Accounted
    /\ pc["parser"] # "feed" => get = "check"
    /\ get = "get" => queued > 0
    /\ quit => demux = "done"
    /\ demux \in {"sleep", "done"} => unread = 0
    /\ demux # "sleep" => ~outlast
    /\ demux \in {"sleep", "done"} /\ ~outlast /\ get = "empty" => queued = 0
    /\ pc["main"] \in {"join_mfc", "join_daemon", "close", "done"} => demux = "done"

LEMMA PlayerInitInv == PlayerInit => PlayerInv
<1> SUFFICES ASSUME PlayerInit  PROVE PlayerInv
  OBVIOUS
<1>1. /\ fed = 0 /\ queued = 0 /\ unread = Frames /\ Frames \in Nat
      /\ demux = "gate" /\ get = "check" /\ ~quit /\ ~outlast
      /\ pc["parser"] = "loop" /\ pc["main"] = "join_parser"
  BY PipelineAssumption DEF PlayerInit, Init
<1> QED  BY <1>1 DEF PlayerInv, Accounted, DemuxPC, GetPC

LEMMA DemuxSteps == IInv /\ PlayerInv /\ Demux => PlayerInv' /\ UNCHANGED vars
<1> SUFFICES ASSUME IInv, PlayerInv, Demux  PROVE PlayerInv' /\ UNCHANGED vars
  OBVIOUS
<1> USE DEF PlayerInv, DemuxPC, GetPC
<1>1. UNCHANGED vars
  BY DEF Demux, DemuxGate, DemuxRead, DemuxReadError, DemuxEnd, DemuxQuit, pipeline
<1>2. UNCHANGED <<fed, fragile, pc, get>>
  BY <1>1 DEF Demux, DemuxGate, DemuxRead, DemuxReadError, DemuxEnd, DemuxQuit,
      vars, parser, setting
<1>3. Frames \in Nat
  BY PipelineAssumption
<1>4. CASE DemuxGate
  BY <1>1, <1>2, <1>4 DEF DemuxGate, Accounted
<1>5. CASE DemuxRead
  <2>1. unread' = unread - 1 /\ queued' = queued + 1 /\ unread > 0
    BY <1>5 DEF DemuxRead
  <2>2. queued' \in Nat /\ unread' \in Nat /\ queued' > 0
    BY <2>1
  <2>3. fed' + queued' + unread' = fed + queued + unread
    BY <1>2, <2>1
  <2>4. Accounted'
    BY <1>2, <2>3 DEF Accounted
  <2> QED  BY <1>1, <1>2, <1>5, <2>1, <2>2, <2>4 DEF DemuxRead
<1>6. CASE DemuxReadError
  BY <1>1, <1>2, <1>6 DEF DemuxReadError, Accounted
<1>7. CASE DemuxEnd
  BY <1>1, <1>2, <1>7 DEF DemuxEnd, Accounted
<1>8. CASE DemuxQuit
  BY <1>1, <1>2, <1>8 DEF DemuxQuit, Accounted
<1> QED  BY <1>4, <1>5, <1>6, <1>7, <1>8 DEF Demux

LEMMA GetSteps == IInv /\ PlayerInv /\ (GetCheck \/ GetWait) => PlayerInv' /\ UNCHANGED vars
<1> SUFFICES ASSUME IInv, PlayerInv, GetCheck \/ GetWait  PROVE PlayerInv' /\ UNCHANGED vars
  OBVIOUS
<1> USE DEF PlayerInv, GetPC, Getting, At
<1>1. UNCHANGED vars /\ UNCHANGED <<demux, unread, queued, quit>>
  BY DEF GetCheck, GetWait, pipeline
<1>2. UNCHANGED <<fed, fragile, pc>>
  BY <1>1 DEF vars, parser, setting
<1>3. Accounted'
  BY <1>1, <1>2 DEF Accounted
<1>4. CASE GetCheck
  BY <1>1, <1>2, <1>3, <1>4 DEF GetCheck
<1>5. CASE GetWait
  BY <1>1, <1>2, <1>3, <1>5 DEF GetWait
<1> QED  BY <1>4, <1>5

LEMMA GetEndSteps == IInv /\ PlayerInv /\ GetEnd => PlayerInv' /\ ParserEnd
<1> SUFFICES ASSUME IInv, PlayerInv, GetEnd  PROVE PlayerInv' /\ ParserEnd
  OBVIOUS
<1>1. /\ At("parser", "feed") /\ get = "empty" /\ quit /\ Go("parser", "print")
      /\ get' = "check" /\ ~outlast'
      /\ UNCHANGED <<flags, parser, display, lastDecodedCnt, codec, panel, lost, setting>>
      /\ UNCHANGED <<demux, unread, queued, quit>>
  BY DEF GetEnd, Getting
<1>2. demux = "done" /\ unread = 0 /\ queued = 0
  BY <1>1 DEF PlayerInv
<1>3. pc["parser"] = "feed"
  BY <1>1 DEF At
<1>4. fed = Frames
  <2>1. fed + queued + unread = Frames
    BY <1>3 DEF PlayerInv, Accounted
  <2> QED  BY <1>2, <2>1 DEF PlayerInv
<1>5. ParserEnd
  BY <1>1, <1>4 DEF ParserEnd
<1>6. pc'["parser"] = "print" /\ pc'["main"] = pc["main"]
  BY <1>1, GoParser DEF IInv
<1>7. UNCHANGED <<fed, fragile>>
  BY <1>1 DEF parser, setting
<1>8. PlayerInv'
  BY <1>1, <1>2, <1>3, <1>6, <1>7 DEF PlayerInv, Accounted, GetPC
<1> QED  BY <1>5, <1>8

LEMMA FeedSteps ==
    IInv /\ LockInv /\ PlayerInv /\ (PlayerFeed \/ PlayerFeedFails) => PlayerInv' /\ Parser
<1> SUFFICES ASSUME IInv, LockInv, PlayerInv, PlayerFeed \/ PlayerFeedFails
             PROVE  PlayerInv' /\ Parser
  OBVIOUS
<1>1. /\ pc["parser"] = "feed" /\ queued > 0 /\ queued' = queued - 1 /\ get' = "check" /\ ~outlast'
      /\ UNCHANGED <<demux, unread, quit>>
  BY DEF PlayerFeed, PlayerFeedFails, Getting, At
<1>2. queued' \in Nat /\ unread' \in Nat
  BY <1>1 DEF PlayerInv
<1>3. fed + queued + unread = Frames
  BY <1>1 DEF PlayerInv, Accounted
<1>4. CASE PlayerFeed
  <2>1. ParserFeed
    BY <1>4 DEF PlayerFeed
  <2>2. fed' = fed + 1 /\ UNCHANGED fragile /\ Go("parser", "loop")
    BY <2>1 DEF ParserFeed, QueueOut, setting
  <2>3. pc'["parser"] = "loop" /\ pc'["main"] = pc["main"]
    BY <2>2, GoParser DEF IInv
  <2>4. fed' \in Nat /\ fed' + queued' + unread' = fed + queued + unread
    BY <1>1, <2>2 DEF PlayerInv
  <2>5. Accounted'
    BY <1>3, <2>4 DEF Accounted
  <2>6. PlayerInv'
    BY <1>1, <1>2, <2>3, <2>4, <2>5 DEF PlayerInv, GetPC
  <2> QED  BY <2>1, <2>6 DEF Parser
<1>5. CASE PlayerFeedFails
  <2>1. (ParserStreamFails \/ ParserHangs) /\ fragile
    BY <1>5 DEF PlayerFeedFails, ParserStreamFails, ParserHangs, LockInv
  <2>2. PICK there \in {"stuck", "done"} : UNCHANGED <<fed, fragile>> /\ Go("parser", there)
    BY <2>1 DEF ParserStreamFails, ParserHangs, parser, setting
  <2>3. pc'["parser"] \in {"stuck", "done"} /\ pc'["main"] = pc["main"]
    BY <2>2, GoParser DEF IInv
  <2>4. fed' \in Nat /\ fed' + queued' + unread' <= Frames
    BY <1>1, <1>3, <2>2, PipelineAssumption DEF PlayerInv
  <2>5. Accounted'
    BY <2>1, <2>2, <2>3, <2>4 DEF Accounted
  <2>6. PlayerInv'
    BY <1>1, <1>2, <2>3, <2>4, <2>5 DEF PlayerInv, GetPC
  <2> QED  BY <2>1, <2>6 DEF Parser
<1> QED  BY <1>4, <1>5

(* The steps that the player shares with the pipeline *)
Shared == \/ ParserLoop \/ ParserDequeue \/ ParserDequeueFails \/ ParserPrint
          \/ At("parser", "dequeue") /\ ParserHangs
          \/ Mfc \/ Decode \/ DeliverEmpty \/ Latch \/ Daemon \/ Timeout
          \/ demux = "done" /\ Main

LEMMA SharedSteps ==
    IInv /\ PlayerInv /\ Shared /\ UNCHANGED player => PlayerInv' /\ Next
<1> SUFFICES ASSUME IInv, PlayerInv, Shared, UNCHANGED player  PROVE PlayerInv' /\ Next
  OBVIOUS
<1>1. Next
  BY DEF Shared, Next, Parser
<1>2. UNCHANGED <<fed, fragile>>
  BY DEF Shared, Mfc, Daemon, Main, ParserLoop, ParserDequeue, ParserDequeueFails, ParserPrint,
      ParserHangs, MfcLoop, MfcDequeue, MfcDequeueFails, MfcShow, MfcVsync, MfcVsyncFails, MfcRecord,
      MfcRequeue, MfcPrint, Decode, DeliverEmpty, Latch,
      DaemonTick, DaemonFinish, DaemonCancel, JoinParser, JoinMfc, JoinDaemon, Close, Timeout,
      parser, setting
<1>3. /\ pc'["parser"] # pc["parser"] => pc["parser"] \notin {"feed", "stuck", "done"}
      /\ pc'["main"] # pc["main"] => demux = "done" \/ pc'["main"] = "exited"
  <2>1. CASE \/ ParserLoop \/ ParserDequeue \/ ParserDequeueFails \/ ParserPrint
             \/ At("parser", "dequeue") /\ ParserHangs
    <3>1. PICK there \in ParserPC : Go("parser", there)
      BY <2>1 DEF ParserLoop, ParserDequeue, ParserDequeueFails, ParserPrint, ParserHangs, ParserPC
    <3>2. pc["parser"] \in {"loop", "dequeue", "print"}
      BY <2>1 DEF ParserLoop, ParserDequeue, ParserDequeueFails, ParserPrint, At
    <3> QED  BY <3>1, <3>2, GoParser DEF IInv
  <2>2. CASE Mfc
    <3>1. PICK there \in MfcPC : Go("mfc", there)
      BY <2>2 DEF Mfc, MfcLoop, MfcDequeue, MfcDequeueFails, MfcShow, MfcVsync, MfcVsyncFails, MfcRecord,
           MfcRequeue, MfcPrint, MfcPC
    <3> QED  BY <3>1, GoMfc DEF IInv
  <2>3. CASE Decode \/ DeliverEmpty \/ Latch
    BY <2>3 DEF Decode, DeliverEmpty, Latch
  <2>4. CASE DaemonTick \/ DaemonFinish
    <3>1. PICK there \in DaemonPC : Go("daemon", there)
      BY <2>4 DEF DaemonTick, DaemonFinish, DaemonPC
    <3> QED  BY <3>1, GoTo DEF IInv
  <2>5. CASE DaemonCancel
    BY <2>5 DEF DaemonCancel, IInv, TypeOK
  <2>6. CASE Timeout
    BY <2>6, GoTo DEF Timeout, IInv
  <2>7. CASE demux = "done" /\ Main
    <3>1. PICK there \in MainPC : Go("main", there)
      BY <2>7 DEF Main, JoinParser, JoinMfc, JoinDaemon, Close, MainPC
    <3> QED  BY <2>7, <3>1, GoTo DEF IInv
  <2> QED  BY <2>1, <2>2, <2>3, <2>4, <2>5, <2>6, <2>7 DEF Shared, Daemon
<1>4. UNCHANGED <<demux, unread, queued, quit, get, outlast>>
  BY DEF player
<1>5. Accounted'
  BY <1>2, <1>3, <1>4 DEF PlayerInv, Accounted
<1>6. pc'["parser"] # "feed" => get' = "check"
  BY <1>3, <1>4 DEF PlayerInv
<1>7. PlayerInv'
  BY <1>2, <1>3, <1>4, <1>5, <1>6 DEF PlayerInv
<1> QED  BY <1>1, <1>7

LEMMA PlayerSteps ==
    IInv /\ LockInv /\ PlayerInv /\ [PlayerNext]_playerVars => PlayerInv' /\ [Next]_vars
<1> SUFFICES ASSUME IInv, LockInv, PlayerInv, [PlayerNext]_playerVars  PROVE PlayerInv' /\ [Next]_vars
  OBVIOUS
<1>1. CASE UNCHANGED playerVars
  <2>1. UNCHANGED vars /\ UNCHANGED <<demux, unread, queued, quit, get, outlast>>
    BY <1>1 DEF playerVars, player
  <2>2. UNCHANGED <<fed, fragile, pc>>
    BY <2>1 DEF vars, parser, setting
  <2> QED  BY <2>1, <2>2 DEF PlayerInv, Accounted
<1>2. CASE PlayerParserLoop \/ PlayerMfc \/ PlayerCodec \/ PlayerDaemon \/ PlayerMain \/ PlayerTimeout
  <2>1. Shared /\ UNCHANGED player
    BY <1>2 DEF Shared, PlayerParserLoop, PlayerMfc, PlayerCodec, PlayerDaemon, PlayerMain, PlayerTimeout
  <2> QED  BY <2>1, SharedSteps
<1>3. CASE Demux
  BY <1>3, DemuxSteps
<1>4. CASE GetCheck \/ GetWait
  BY <1>4, GetSteps
<1>5. CASE GetEnd
  BY <1>5, GetEndSteps DEF Next, Parser
<1>6. CASE PlayerFeed \/ PlayerFeedFails
  BY <1>6, FeedSteps DEF Next, Parser
<1> QED  BY <1>1, <1>2, <1>3, <1>4, <1>5, <1>6 DEF PlayerNext, PlayerParser

(* The inductive invariants of pipeline and player hold in the player. *)
THEOREM PlayerInvariant == PlayerSpec => [](IInv /\ LockInv /\ PlayerInv)
<1>1. PlayerInit => IInv /\ LockInv /\ PlayerInv
  BY InitIInv, InitLockInv, PlayerInitInv DEF PlayerInit
<1>2. IInv /\ LockInv /\ PlayerInv /\ [PlayerNext]_playerVars => (IInv /\ LockInv /\ PlayerInv)'
  BY NextIInv, NextLockInv, PlayerSteps
<1> QED  BY <1>1, <1>2, PTL DEF PlayerSpec

(* Whatever parser_thread_func of the player makes of the packet queue, the
   pipeline goes through a behaviour of the pipeline of v4l2_decode. *)
THEOREM PlayerImplementsDecode == PlayerSpec => ImplementsDecode
<1>1. PlayerInit => Init
  BY DEF PlayerInit
<1>2. IInv /\ LockInv /\ PlayerInv /\ [PlayerNext]_playerVars => [Next]_vars
  BY PlayerSteps
<1> QED  BY <1>1, <1>2, PlayerInvariant, PTL DEF PlayerSpec, ImplementsDecode

(* get_one_avpacket never blocks in packet_queue_get. *)
THEOREM PlayerGetFindsPacket == PlayerSpec => []GetFindsPacket
<1>1. PlayerInv => GetFindsPacket
  BY DEF PlayerInv, GetFindsPacket, Getting
<1> QED  BY <1>1, PlayerInvariant, PTL

(* The player does not give the codec the picture on the screen either. *)
THEOREM PlayerTearFree == PlayerSpec => []TearFree
<1>1. IInv => TearFree
  BY DEF IInv, PictureInv
<1> QED  BY <1>1, PlayerInvariant, PTL

(* A player that ends without a mishap has decoded every packet of the file
   and left nothing in its queue, for every queue and file. *)
THEOREM PlayerPlayedWhole ==
    ASSUME NEW k \in Nat, OutBufs = 0..k, NEW c \in CapBufs, NEW d \in CapBufs, c # d
    PROVE  PlayerSpec => []PlayedWhole
<1>1. IInv /\ PlayerInv /\ WholeInv => PlayedWhole
  <2> SUFFICES ASSUME IInv, PlayerInv, WholeInv, pc["main"] = "done", ~Mishap, bigAfter < Frames
               PROVE  decodedCnt >= Frames /\ queued = 0 /\ \A i \in DOMAIN capDone : capDone[i].empty
    BY DEF PlayedWhole
  <2>1. Premise
    <3>1. PICK n \in OutBufs : ~(bigAfter > n)
      BY DEF Mishap, StartsLate
    <3>2. n \in Nat /\ bigAfter \in Nat
      BY PipelineAssumption DEF IInv, TypeOK
    <3>3. bigAfter <= n
      BY <3>1, <3>2
    <3> QED  BY <3>3 DEF Premise, Mishap
  <2>2. AllDecoded
    BY <2>1 DEF WholeInv, EndInv
  <2>3. fed + queued + unread = Frames
    BY <2>1 DEF PlayerInv, Accounted, Premise
  <2>4. fed = Frames /\ queued \in Nat /\ unread \in Nat /\ Frames \in Nat
    BY <2>2, PipelineAssumption DEF AllDecoded, PlayerInv
  <2>5. DOMAIN capDone = 1..Len(capDone)
    BY DEF IInv, TypeOK
  <2> QED  BY <2>2, <2>3, <2>4, <2>5 DEF AllDecoded
<1>2. IInv /\ LockInv /\ PlayerInv /\ WholeInv /\ [PlayerNext]_playerVars => WholeInv'
  BY PlayerSteps, NextWholeInv
<1>3. PlayerInit => WholeInv
  BY InitWholeInv DEF PlayerInit
<1> QED  BY <1>1, <1>2, <1>3, PlayerInvariant, PTL DEF PlayerSpec
=============================================================================
