------------------------ MODULE EncodePipelineProofs ------------------------
(***************************************************************************)
(* What the encoder writes is the encoding of its input, frame by frame    *)
(* and in order, for any number of buffers and files of any length; and    *)
(* all of it, with two buffers of each kind at least.                      *)
(*                                                                         *)
(* A frame is on its way from the file to the file: in a stream buffer     *)
(* that is queued, in a buffer that waits to be dequeued, in the buffer    *)
(* the mfc thread writes, and written.  The invariant orders the frames    *)
(* along that way (OrderInv); when no call fails there are no gaps         *)
(* (ExactInv).  Both need that nobody writes into a buffer on the way      *)
(* (OwnInv).                                                               *)
(***************************************************************************)
EXTENDS EncodePipeline, TLAPS

Threads == {"encode", "mfc", "daemon", "main"}

(* Where the mfc thread has a frame in its hands *)
Busy == pc["mfc"] \in {"write", "requeue"}

OwnInv ==
    /\ \A i \in 1..Len(outQueue) : outFlag[outQueue[i]]
    /\ \A i, j \in 1..Len(outQueue) : i # j => outQueue[i] # outQueue[j]
    /\ \A i \in 1..Len(outDone) : outFlag[outDone[i]]
    /\ \A i, j \in 1..Len(outDone) : i # j => outDone[i] # outDone[j]
    /\ \A i \in 1..Len(outQueue), j \in 1..Len(outDone) : outQueue[i] # outDone[j]
    /\ \A i \in 1..Len(capDone) : capOwner[capDone[i]] = "encoded"
    /\ \A i, j \in 1..Len(capDone) : i # j => capDone[i] # capDone[j]
    /\ sLastDequeue # NULL => capOwner[sLastDequeue] = "program"
    /\ Busy => cur # NULL /\ cur # sLastDequeue /\ capOwner[cur] = "program"

OrderInv ==
    /\ \A i \in 1..Len(outQueue) : outBuf[outQueue[i]] <= fed
    /\ \A i, j \in 1..Len(outQueue) : i < j => outBuf[outQueue[i]] < outBuf[outQueue[j]]
    /\ \A i \in 1..Len(capDone) : capBuf[capDone[i]] <= fed
    /\ \A i, j \in 1..Len(capDone) : i < j => capBuf[capDone[i]] < capBuf[capDone[j]]
    /\ \A i \in 1..Len(capDone), j \in 1..Len(outQueue) : capBuf[capDone[i]] < outBuf[outQueue[j]]
    /\ pc["mfc"] = "write" =>
          /\ capBuf[cur] <= fed
          /\ \A i \in 1..Len(capDone) : capBuf[cur] < capBuf[capDone[i]]
          /\ \A i \in 1..Len(outQueue) : capBuf[cur] < outBuf[outQueue[i]]
          /\ \A i \in 1..Len(written) : written[i] < capBuf[cur]
    /\ \A i \in 1..Len(written) : written[i] <= fed
    /\ \A i, j \in 1..Len(written) : i < j => written[i] < written[j]
    /\ \A i \in 1..Len(written), j \in 1..Len(capDone) : written[i] < capBuf[capDone[j]]
    /\ \A i \in 1..Len(written), j \in 1..Len(outQueue) : written[i] < outBuf[outQueue[j]]

(* Frames that have left the codec's queues *)
Taken == Len(written) + (IF pc["mfc"] = "write" THEN 1 ELSE 0)

ExactInv ==
    ~fragile =>
      /\ \A i \in 1..Len(written) : written[i] = i
      /\ pc["mfc"] \notin {"done", "cancelled"} =>
          /\ pc["mfc"] = "write" => capBuf[cur] = Len(written) + 1
          /\ \A i \in 1..Len(capDone) : capBuf[capDone[i]] = Taken + i
          /\ \A i \in 1..Len(outQueue) : outBuf[outQueue[i]] = Taken + Len(capDone) + i
          /\ fed = Taken + Len(capDone) + Len(outQueue)

IInv == TypeOK /\ OwnInv /\ OrderInv /\ ExactInv

-----------------------------------------------------------------------------
LEMMA AppendFacts ==
    ASSUME NEW S, NEW s \in Seq(S), NEW e \in S
    PROVE  /\ Append(s, e) \in Seq(S)
           /\ Len(s) \in Nat /\ Len(Append(s, e)) = Len(s) + 1
           /\ \A i \in 1..Len(s) : Append(s, e)[i] = s[i]
           /\ Append(s, e)[Len(s) + 1] = e
OBVIOUS

LEMMA TailFacts ==
    ASSUME NEW S, NEW s \in Seq(S), s # <<>>
    PROVE  /\ Tail(s) \in Seq(S)
           /\ Len(s) \in Nat \ {0} /\ Len(Tail(s)) = Len(s) - 1
           /\ \A i \in 1..Len(Tail(s)) : Tail(s)[i] = s[i + 1]
           /\ Head(s) = s[1] /\ Head(s) \in S
OBVIOUS

LEMMA ElementOf == ASSUME NEW S, NEW s \in Seq(S), NEW i \in 1..Len(s)  PROVE s[i] \in S
OBVIOUS

LEMMA SequenceTypes ==
    ASSUME TypeOK
    PROVE  /\ Len(outQueue) \in Nat /\ Len(outDone) \in Nat /\ Len(capDone) \in Nat /\ Len(written) \in Nat
           /\ \A i \in 1..Len(outQueue) : outQueue[i] \in OutBufs /\ outBuf[outQueue[i]] \in Nat
           /\ \A i \in 1..Len(outDone) : outDone[i] \in OutBufs
           /\ \A i \in 1..Len(capDone) : capDone[i] \in CapBufs /\ capBuf[capDone[i]] \in Nat
           /\ \A i \in 1..Len(written) : written[i] \in Nat
<1>1. /\ outQueue \in Seq(OutBufs) /\ outDone \in Seq(OutBufs) /\ capDone \in Seq(CapBufs)
      /\ written \in Seq(Nat) /\ outBuf \in [OutBufs -> Nat] /\ capBuf \in [CapBufs -> Nat]
  BY DEF TypeOK
<1>2. /\ \A i \in 1..Len(outQueue) : outQueue[i] \in OutBufs
      /\ \A i \in 1..Len(outDone) : outDone[i] \in OutBufs
      /\ \A i \in 1..Len(capDone) : capDone[i] \in CapBufs
      /\ \A i \in 1..Len(written) : written[i] \in Nat
  BY <1>1, ElementOf
<1> QED  BY <1>1, <1>2

(* The type invariant, without and of pc. *)
DataOK ==
    /\ error \in BOOLEAN /\ finish \in BOOLEAN /\ partial \in BOOLEAN
    /\ timely \in BOOLEAN /\ fragile \in BOOLEAN /\ streamOn \in BOOLEAN
    /\ encodedCnt \in Nat /\ lastEncodedCnt \in Nat /\ frames \in Nat /\ fed \in Nat
    /\ outFlag \in [OutBufs -> BOOLEAN] /\ outBuf \in [OutBufs -> Nat]
    /\ outQueue \in Seq(OutBufs) /\ outDone \in Seq(OutBufs)
    /\ capOwner \in [CapBufs -> {"codec", "encoded", "program"}] /\ capBuf \in [CapBufs -> Nat]
    /\ capDone \in Seq(CapBufs)
    /\ cur \in CapBufs \cup {NULL} /\ sLastDequeue \in CapBufs \cup {NULL}
    /\ written \in Seq(Nat) /\ fileLock \in {"free", "held", "lost"}

PlacesOK ==
    /\ DOMAIN pc = Threads
    /\ pc["encode"] \in EncodePC /\ pc["mfc"] \in MfcPC
    /\ pc["daemon"] \in DaemonPC /\ pc["main"] \in MainPC

LEMMA TypeParts == TypeOK <=> DataOK /\ PlacesOK
BY DEF TypeOK, DataOK, PlacesOK, Threads

LEMMA TypePartsNext == DataOK' /\ PlacesOK' => TypeOK'
BY DEF TypeOK, DataOK, PlacesOK, Threads

(* Where a step sends a thread is all that it changes of pc. *)
LEMMA GoTo ==
    ASSUME NEW t \in Threads, NEW there, TypeOK, Go(t, there)
    PROVE  /\ DOMAIN pc' = Threads
           /\ pc'[t] = there
           /\ \A u \in Threads \ {t} : pc'[u] = pc[u]
BY DEF TypeOK, Go, Threads

LEMMA PlaceOf ==
    ASSUME TypeOK, NEW there,
           \/ there \in EncodePC /\ Go("encode", there)
           \/ there \in MfcPC /\ Go("mfc", there)
           \/ there \in DaemonPC /\ Go("daemon", there)
           \/ there \in MainPC /\ Go("main", there)
    PROVE  PlacesOK'
<1>1. PlacesOK
  BY TypeParts
<1>2. CASE there \in EncodePC /\ Go("encode", there)
  BY <1>1, <1>2, GoTo DEF PlacesOK, Threads
<1>3. CASE there \in MfcPC /\ Go("mfc", there)
  BY <1>1, <1>3, GoTo DEF PlacesOK, Threads
<1>4. CASE there \in DaemonPC /\ Go("daemon", there)
  BY <1>1, <1>4, GoTo DEF PlacesOK, Threads
<1>5. CASE there \in MainPC /\ Go("main", there)
  BY <1>1, <1>5, GoTo DEF PlacesOK, Threads
<1> QED  BY <1>2, <1>3, <1>4, <1>5

LEMMA GoMfc ==
    ASSUME NEW there, TypeOK, Go("mfc", there)
    PROVE  pc'["mfc"] = there
BY GoTo DEF Threads

LEMMA GoOther ==
    ASSUME NEW t \in {"encode", "daemon", "main"}, NEW there, TypeOK, Go(t, there)
    PROVE  pc'["mfc"] = pc["mfc"]
BY GoTo DEF Threads

-----------------------------------------------------------------------------
LEMMA InitIInv == Init => IInv
<1> SUFFICES ASSUME Init  PROVE IInv
  OBVIOUS
<1> USE EncoderAssumption
<1>1. TypeOK
  <2>1. /\ error \in BOOLEAN /\ finish \in BOOLEAN /\ partial \in BOOLEAN
        /\ timely \in BOOLEAN /\ fragile \in BOOLEAN /\ streamOn \in BOOLEAN
    BY Zenon DEF Init
  <2>2. /\ encodedCnt \in Nat /\ lastEncodedCnt \in Nat /\ frames \in Nat /\ fed \in Nat
    BY DEF Init
  <2>3. /\ outFlag \in [OutBufs -> BOOLEAN] /\ outBuf \in [OutBufs -> Nat]
        /\ outQueue \in Seq(OutBufs) /\ outDone \in Seq(OutBufs)
        /\ capOwner \in [CapBufs -> {"codec", "encoded", "program"}] /\ capBuf \in [CapBufs -> Nat]
        /\ capDone \in Seq(CapBufs) /\ written \in Seq(Nat)
    BY DEF Init
  <2>4. /\ cur \in CapBufs \cup {NULL} /\ sLastDequeue \in CapBufs \cup {NULL}
        /\ fileLock \in {"free", "held", "lost"}
        /\ DOMAIN pc = Threads
        /\ pc["encode"] \in EncodePC /\ pc["mfc"] \in MfcPC
        /\ pc["daemon"] \in DaemonPC /\ pc["main"] \in MainPC
    BY DEF Init, EncodePC, MfcPC, DaemonPC, MainPC, Threads
  <2> QED  BY <2>1, <2>2, <2>3, <2>4 DEF TypeOK, Threads
<1>2. pc["mfc"] = "loop"
  BY DEF Init
<1>3. /\ Len(outQueue) = 0 /\ Len(outDone) = 0 /\ Len(capDone) = 0 /\ Len(written) = 0
      /\ fed = 0 /\ sLastDequeue = NULL
  BY DEF Init
<1> QED  BY <1>1, <1>2, <1>3 DEF IInv, OwnInv, OrderInv, ExactInv, Taken, Busy

-----------------------------------------------------------------------------
(* Steps that touch neither buffers nor file leave the order as it is. *)
LEMMA FlowUntouched ==
    ASSUME IInv,
           UNCHANGED <<outFlag, outBuf, fed, outQueue, outDone, capOwner, capBuf, capDone, cur,
                       sLastDequeue, written, fragile>>,
           \/ pc'["mfc"] = pc["mfc"]
           \/ pc["mfc"] \in {"loop", "dequeue"} /\ pc'["mfc"] \in {"loop", "dequeue", "done", "cancelled"}
           \/ pc'["mfc"] \in {"done", "cancelled"}
    PROVE  OwnInv' /\ OrderInv' /\ ExactInv'
<1>1. OwnInv'
  BY DEF IInv, OwnInv, Busy
<1>2. OrderInv'
  BY DEF IInv, OrderInv
<1>3. ExactInv'
  BY DEF IInv, ExactInv, Taken
<1> QED  BY <1>1, <1>2, <1>3

LEMMA EncodeKeepsIInv == IInv /\ EncodeThread => IInv'
<1> SUFFICES ASSUME IInv, EncodeThread  PROVE IInv'
  OBVIOUS
<1> USE EncoderAssumption DEF flags, counts, encoder, codec, mfc, output, setting
<1>0. TypeOK
  BY DEF IInv
<1>1. CASE EncodeLoop \/ EncodeEnd \/ EncodeDequeueFails
  <2>1. PICK there \in EncodePC : Go("encode", there)
    BY <1>1 DEF EncodeLoop, EncodeEnd, EncodeDequeueFails, EncodePC
  <2>2. TypeOK'
    <3>1. PlacesOK'
      BY <1>0, <2>1, PlaceOf
    <3>2. DataOK'
      <4>1. error' \in BOOLEAN
        <5>1. error \in BOOLEAN
          BY <1>0 DEF TypeOK
        <5> QED  BY <1>1, <5>1 DEF EncodeLoop, EncodeEnd, EncodeDequeueFails
      <4>2. UNCHANGED <<finish, counts, encoder, codec, mfc, output, setting>>
        BY <1>1 DEF EncodeLoop, EncodeEnd, EncodeDequeueFails
      <4>3. DataOK
        BY <1>0, TypeParts
      <4> QED  BY <4>1, <4>2, <4>3 DEF DataOK
    <3> QED  BY <3>1, <3>2, TypePartsNext
  <2>3. pc'["mfc"] = pc["mfc"]
    BY <1>0, <2>1, GoOther
  <2> QED  BY <1>1, <2>2, <2>3, FlowUntouched DEF EncodeLoop, EncodeEnd, EncodeDequeueFails, IInv
<1>2. CASE EncodeOverrun
  <2>1. Go("main", "crashed")
    BY <1>2 DEF EncodeOverrun
  <2>2. TypeOK'
    <3>1. PlacesOK'
      BY <1>0, <2>1, PlaceOf DEF MainPC
    <3>2. DataOK'
      BY <1>0, <1>2, TypeParts DEF EncodeOverrun, DataOK
    <3> QED  BY <3>1, <3>2, TypePartsNext
  <2>3. pc'["mfc"] = pc["mfc"]
    BY <1>0, <2>1, GoOther
  <2> QED  BY <1>2, <2>2, <2>3, FlowUntouched DEF EncodeOverrun, IInv
<1>3. CASE EncodeFeed
  <2>1. /\ Go("encode", "loop") /\ fed' = fed + 1
        /\ UNCHANGED <<flags, counts, outDone, capOwner, capBuf, capDone, mfc, output, setting>>
        /\ streamOn' = (streamOn \/ fed > 0)
    BY <1>3 DEF EncodeFeed
  <2>2. PICK n \in OutBufs : /\ ~outFlag[n]
                             /\ outQueue' = Append(outQueue, n) \/ (fragile /\ outQueue' = outQueue)
                             /\ outFlag' = [outFlag EXCEPT ![n] = TRUE]
                             /\ outBuf' = [outBuf EXCEPT ![n] = fed + 1]
    BY <1>3 DEF EncodeFeed, Pick, QueueOut
  <2>3. /\ fed' \in Nat /\ outFlag' \in [OutBufs -> BOOLEAN] /\ outBuf' \in [OutBufs -> Nat]
        /\ outQueue' \in Seq(OutBufs)
    <3>1. /\ fed \in Nat /\ outFlag \in [OutBufs -> BOOLEAN] /\ outBuf \in [OutBufs -> Nat]
          /\ outQueue \in Seq(OutBufs)
      BY <1>0 DEF TypeOK
    <3>2. outFlag' \in [OutBufs -> BOOLEAN]
      BY <2>2, <3>1
    <3>3. fed' \in Nat /\ outBuf' \in [OutBufs -> Nat]
      BY <2>1, <2>2, <3>1
    <3>4. Append(outQueue, n) \in Seq(OutBufs)
      BY <3>1, AppendFacts
    <3> QED  BY <2>2, <3>1, <3>2, <3>3, <3>4
  <2>4. streamOn' \in BOOLEAN
    BY <2>1, Zenon
  <2>5. TypeOK'
    <3>1. PlacesOK'
      BY <1>0, <2>1, PlaceOf DEF EncodePC
    <3>2. DataOK'
      BY <1>0, <2>1, <2>3, <2>4, TypeParts DEF DataOK
    <3> QED  BY <3>1, <3>2, TypePartsNext
  <2>6. pc'["mfc"] = pc["mfc"]
    BY <1>0, <2>1, GoOther
  <2>7. /\ \A m \in OutBufs : outFlag[m] => m # n /\ outFlag'[m] /\ outBuf'[m] = outBuf[m]
        /\ outFlag'[n] /\ outBuf'[n] = fed + 1
    BY <1>0, <2>2 DEF TypeOK
  <2>8. /\ \A i \in 1..Len(outQueue) : outQueue[i] # n /\ outFlag'[outQueue[i]] /\ outBuf'[outQueue[i]] = outBuf[outQueue[i]]
        /\ \A i \in 1..Len(outDone) : outDone[i] # n /\ outFlag'[outDone[i]]
    BY <1>0, <2>7, SequenceTypes DEF IInv, OwnInv
  <2>9. CASE outQueue' = outQueue /\ fragile
    <3>1. OwnInv'
      BY <2>1, <2>6, <2>8, <2>9 DEF IInv, OwnInv, Busy
    <3>2. OrderInv'
      <4>1. fed \in Nat /\ fed' = fed + 1
        BY <1>0, <2>1 DEF TypeOK
      <4>2. pc["mfc"] = "write" => capBuf[cur] \in Nat
        BY <1>0 DEF IInv, OwnInv, Busy, TypeOK
      <4>3. /\ \A i \in 1..Len(outQueue) : outBuf[outQueue[i]] <= fed'
            /\ \A i \in 1..Len(capDone) : capBuf[capDone[i]] <= fed'
            /\ \A i \in 1..Len(written) : written[i] <= fed'
            /\ pc["mfc"] = "write" => capBuf[cur] <= fed'
        BY <1>0, <4>1, <4>2, SequenceTypes DEF IInv, OrderInv
      <4> QED  BY <2>1, <2>6, <2>8, <2>9, <4>3 DEF IInv, OrderInv
    <3>3. ExactInv'
      BY <2>1, <2>9 DEF ExactInv
    <3> QED  BY <2>5, <3>1, <3>2, <3>3 DEF IInv
  <2>10. CASE outQueue' = Append(outQueue, n)
    <3>1. /\ Len(outQueue') = Len(outQueue) + 1 /\ Len(outQueue) \in Nat
          /\ \A i \in 1..Len(outQueue) : outQueue'[i] = outQueue[i]
          /\ outQueue'[Len(outQueue) + 1] = n
      BY <1>0, <2>10, AppendFacts DEF TypeOK
    <3>2. \A i \in 1..Len(outQueue') : i \in 1..Len(outQueue) \/ i = Len(outQueue) + 1
      BY <3>1
    <3>3. OwnInv'
      <4>1. \A i \in 1..Len(outQueue') : outFlag'[outQueue'[i]]
        BY <2>7, <2>8, <3>1, <3>2
      <4>2. \A i, j \in 1..Len(outQueue') : i # j => outQueue'[i] # outQueue'[j]
        BY <2>8, <3>1, <3>2 DEF IInv, OwnInv
      <4>3. \A i \in 1..Len(outQueue'), j \in 1..Len(outDone) : outQueue'[i] # outDone[j]
        BY <2>8, <3>1, <3>2 DEF IInv, OwnInv
      <4> QED  BY <2>1, <2>6, <2>8, <4>1, <4>2, <4>3 DEF IInv, OwnInv, Busy
    <3>4. fed \in Nat
      BY <1>0 DEF TypeOK
    <3>5. /\ \A i \in 1..Len(outQueue) : outBuf'[outQueue'[i]] = outBuf[outQueue[i]]
          /\ outBuf'[outQueue'[Len(outQueue) + 1]] = fed + 1
      BY <2>7, <2>8, <3>1
    <3>6. OrderInv'
      <4>1. \A i \in 1..Len(outQueue') : outBuf'[outQueue'[i]] <= fed'
        <5>1. ASSUME NEW i \in 1..Len(outQueue)  PROVE outBuf'[outQueue'[i]] <= fed'
          <6>1. outBuf[outQueue[i]] \in Nat /\ outBuf[outQueue[i]] <= fed
            BY <1>0, SequenceTypes DEF IInv, OrderInv
          <6> QED  BY <2>1, <3>4, <3>5, <6>1
        <5>2. outBuf'[outQueue'[Len(outQueue) + 1]] <= fed'
          BY <2>1, <3>4, <3>5
        <5> QED  BY <3>2, <5>1, <5>2
      <4>2. \A i, j \in 1..Len(outQueue') : i < j => outBuf'[outQueue'[i]] < outBuf'[outQueue'[j]]
        BY <1>0, <3>1, <3>2, <3>4, <3>5, SequenceTypes, SMTT(60) DEF IInv, OrderInv
      <4>3. UNCHANGED <<capBuf, capDone, cur, written>>
        BY <2>1
      <4>4. \A i \in 1..Len(capDone), j \in 1..Len(outQueue') : capBuf[capDone[i]] < outBuf'[outQueue'[j]]
        BY <1>0, <3>2, <3>4, <3>5, SequenceTypes, SMTT(60) DEF IInv, OrderInv
      <4>5. \A i \in 1..Len(written), j \in 1..Len(outQueue') : written[i] < outBuf'[outQueue'[j]]
        BY <1>0, <3>2, <3>4, <3>5, SequenceTypes, SMTT(60) DEF IInv, OrderInv
      <4>6. pc["mfc"] = "write" => /\ capBuf[cur] <= fed'
                                   /\ \A i \in 1..Len(outQueue') : capBuf[cur] < outBuf'[outQueue'[i]]
        <5>1. pc["mfc"] = "write" => capBuf[cur] \in Nat
          BY <1>0 DEF IInv, OwnInv, Busy, TypeOK
        <5> QED  BY <2>1, <3>2, <3>4, <3>5, <5>1 DEF IInv, OrderInv
      <4>7. /\ \A i \in 1..Len(capDone) : capBuf[capDone[i]] <= fed'
            /\ \A i \in 1..Len(written) : written[i] <= fed'
        BY <1>0, <2>1, <3>4, SequenceTypes DEF IInv, OrderInv
      <4> QED  BY <2>6, <4>1, <4>2, <4>3, <4>4, <4>5, <4>6, <4>7 DEF IInv, OrderInv
    <3>7. ExactInv'
      <4>1. UNCHANGED <<capBuf, capDone, cur, written, fragile>> /\ Taken' = Taken
        BY <2>1, <2>6 DEF Taken
      <4>2. Taken \in Nat
        BY <1>0, SequenceTypes DEF Taken
      <4>3. ASSUME ~fragile, pc["mfc"] \notin {"done", "cancelled"}
            PROVE  /\ \A i \in 1..Len(outQueue') : outBuf'[outQueue'[i]] = Taken + Len(capDone) + i
                   /\ fed' = Taken + Len(capDone) + Len(outQueue')
        <5>1. /\ fed = Taken + Len(capDone) + Len(outQueue)
              /\ \A i \in 1..Len(outQueue) : outBuf[outQueue[i]] = Taken + Len(capDone) + i
          BY <4>3 DEF IInv, ExactInv
        <5>2. Len(capDone) \in Nat
          BY <1>0, SequenceTypes
        <5> QED  BY <2>1, <3>1, <3>2, <3>5, <4>2, <5>1, <5>2, SMTT(60)
      <4> QED  BY <2>6, <4>1, <4>3 DEF IInv, ExactInv
    <3> QED  BY <2>5, <3>3, <3>6, <3>7 DEF IInv
  <2> QED  BY <2>2, <2>9, <2>10
<1>4. CASE EncodeDequeue
  <2>1. /\ Go("encode", "loop") /\ outDone # <<>> /\ outDone' = Tail(outDone)
        /\ outFlag' = [outFlag EXCEPT ![Head(outDone)] = FALSE]
        /\ UNCHANGED <<flags, counts, outBuf, fed, streamOn, outQueue, capOwner, capBuf, capDone, mfc,
                       output, setting>>
    BY <1>4 DEF EncodeDequeue
  <2>2. /\ outDone' \in Seq(OutBufs) /\ outDone[1] \in OutBufs
        /\ Len(outDone) \in Nat \ {0} /\ Len(outDone') = Len(outDone) - 1
        /\ \A i \in 1..Len(outDone') : outDone'[i] = outDone[i + 1]
        /\ Head(outDone) = outDone[1]
    BY <1>0, <2>1, TailFacts DEF TypeOK
  <2>3. outFlag' \in [OutBufs -> BOOLEAN]
    BY <1>0, <2>1 DEF TypeOK
  <2>4. TypeOK'
    <3>1. PlacesOK'
      BY <1>0, <2>1, PlaceOf DEF EncodePC
    <3>2. DataOK'
      BY <1>0, <2>1, <2>2, <2>3, TypeParts DEF DataOK
    <3> QED  BY <3>1, <3>2, TypePartsNext
  <2>5. pc'["mfc"] = pc["mfc"]
    BY <1>0, <2>1, GoOther
  <2>6. OwnInv'
    <3>1. \A m \in OutBufs : outFlag[m] /\ m # outDone[1] => outFlag'[m]
      BY <1>0, <2>1, <2>2 DEF TypeOK
    <3>2. \A i \in 1..Len(outQueue) : outQueue[i] \in OutBufs /\ outQueue[i] # outDone[1]
      BY <1>0, <2>2, SequenceTypes DEF IInv, OwnInv
    <3>3. \A i \in 1..Len(outDone') : i + 1 \in 1..Len(outDone) /\ i + 1 # 1
      BY <2>2
    <3>4. \A i \in 1..Len(outDone') : outDone'[i] \in OutBufs /\ outDone'[i] # outDone[1] /\ outFlag[outDone'[i]]
      <4>1. ASSUME NEW i \in 1..Len(outDone')
            PROVE  outDone[i + 1] \in OutBufs /\ outDone[i + 1] # outDone[1] /\ outFlag[outDone[i + 1]]
        <5>1. i + 1 \in 1..Len(outDone) /\ i + 1 # 1 /\ 1 \in 1..Len(outDone)
          BY <2>2, <3>3
        <5> QED  BY <1>0, <5>1, SequenceTypes DEF IInv, OwnInv
      <4> QED  BY <2>2, <4>1
    <3>5. /\ \A i, j \in 1..Len(outDone') : i # j => outDone'[i] # outDone'[j]
          /\ \A i \in 1..Len(outQueue), j \in 1..Len(outDone') : outQueue[i] # outDone'[j]
      BY <2>2, <3>3, SMTT(60) DEF IInv, OwnInv
    <3> QED  BY <2>1, <2>5, <3>1, <3>2, <3>4, <3>5 DEF IInv, OwnInv, Busy
  <2>7. OrderInv' /\ ExactInv'
    BY <2>1, <2>5 DEF IInv, OrderInv, ExactInv, Taken
  <2> QED  BY <2>4, <2>6, <2>7 DEF IInv
<1> QED  BY <1>1, <1>2, <1>3, <1>4 DEF EncodeThread

-----------------------------------------------------------------------------
LEMMA MfcKeepsIInv == IInv /\ (MfcThread \/ MfcEmpty) => IInv'
<1> SUFFICES ASSUME IInv, MfcThread \/ MfcEmpty  PROVE IInv'
  OBVIOUS
<1> USE EncoderAssumption DEF flags, counts, encoder, codec, mfc, output, setting
<1>0. TypeOK
  BY DEF IInv
<1>1. CASE MfcLoop \/ MfcEmpty \/ MfcDequeueFails
  <2>1. PICK there \in {"done", "dequeue"} : Go("mfc", there)
    BY <1>1 DEF MfcLoop, MfcEmpty, MfcDequeueFails
  <2>2. pc["mfc"] \in {"loop", "dequeue"} /\ pc'["mfc"] = there
    BY <1>0, <1>1, <2>1, GoMfc DEF MfcLoop, MfcEmpty, MfcDequeueFails, At
  <2>3. TypeOK'
    <3>1. PlacesOK'
      BY <1>0, <2>1, PlaceOf DEF MfcPC
    <3>2. DataOK'
      <4>1. /\ error' \in BOOLEAN /\ finish' \in BOOLEAN
            /\ encodedCnt \in Nat => encodedCnt' \in Nat
            /\ UNCHANGED <<lastEncodedCnt, encoder, codec, mfc, output, setting>>
        <5>1. error \in BOOLEAN /\ finish \in BOOLEAN /\ encodedCnt \in Nat
          BY <1>0 DEF TypeOK
        <5>2. CASE MfcLoop
          BY <5>1, <5>2 DEF MfcLoop
        <5>3. CASE MfcEmpty
          BY <5>1, <5>3 DEF MfcEmpty
        <5>4. CASE MfcDequeueFails
          BY <5>1, <5>4 DEF MfcDequeueFails
        <5> QED  BY <1>1, <5>2, <5>3, <5>4
      <4> QED  BY <1>0, <4>1, TypeParts DEF DataOK
    <3> QED  BY <3>1, <3>2, TypePartsNext
  <2> QED  BY <1>1, <2>2, <2>3, FlowUntouched DEF MfcLoop, MfcEmpty, MfcDequeueFails, IInv
<1>2. CASE MfcDequeue
  <2> DEFINE c == Head(capDone)
  <2>1. /\ pc["mfc"] = "dequeue" /\ capDone # <<>> /\ cur' = c /\ capDone' = Tail(capDone)
        /\ capOwner' = [capOwner EXCEPT ![c] = "program"] /\ encodedCnt' = encodedCnt + 1
        /\ Go("mfc", "write")
        /\ UNCHANGED <<flags, lastEncodedCnt, encoder, streamOn, outQueue, outDone, capBuf,
                       sLastDequeue, output, setting>>
    BY <1>2 DEF MfcDequeue, At
  <2>2. /\ capDone' \in Seq(CapBufs) /\ c = capDone[1] /\ c \in CapBufs
        /\ Len(capDone) \in Nat \ {0} /\ Len(capDone') = Len(capDone) - 1
        /\ \A i \in 1..Len(capDone') : capDone'[i] = capDone[i + 1]
    BY <1>0, <2>1, TailFacts DEF TypeOK
  <2>3. pc'["mfc"] = "write"
    BY <1>0, <2>1, GoMfc
  <2>4. capOwner' \in [CapBufs -> {"codec", "encoded", "program"}] /\ encodedCnt' \in Nat
    BY <1>0, <2>1 DEF TypeOK
  <2>5. TypeOK'
    <3>1. PlacesOK'
      BY <1>0, <2>1, PlaceOf DEF MfcPC
    <3>2. DataOK'
      BY <1>0, <2>1, <2>2, <2>4, TypeParts DEF DataOK
    <3> QED  BY <3>1, <3>2, TypePartsNext
  <2>6. 1 \in 1..Len(capDone) /\ \A i \in 1..Len(capDone') : i + 1 \in 1..Len(capDone) /\ i + 1 # 1
    BY <2>2
  <2>7. OwnInv'
    <3>1. capOwner[c] = "encoded" /\ c # NULL /\ c # sLastDequeue
      BY <2>2, <2>6 DEF IInv, OwnInv
    <3>2. capOwner'[c] = "program" /\ \A d \in CapBufs : d # c => capOwner'[d] = capOwner[d]
      BY <1>0, <2>1, <2>2 DEF TypeOK
    <3>3. \A i \in 1..Len(capDone') : capDone'[i] \in CapBufs /\ capDone'[i] # c /\ capOwner[capDone'[i]] = "encoded"
      <4>1. ASSUME NEW i \in 1..Len(capDone')
            PROVE  capDone[i + 1] \in CapBufs /\ capDone[i + 1] # capDone[1] /\ capOwner[capDone[i + 1]] = "encoded"
        BY <1>0, <2>6, SequenceTypes DEF IInv, OwnInv
      <4> QED  BY <2>2, <4>1
    <3>4. \A i, j \in 1..Len(capDone') : i # j => capDone'[i] # capDone'[j]
      <4>1. ASSUME NEW i \in 1..Len(capDone'), NEW j \in 1..Len(capDone'), i # j
            PROVE  capDone[i + 1] # capDone[j + 1]
        <5>1. i + 1 \in 1..Len(capDone) /\ j + 1 \in 1..Len(capDone) /\ i + 1 # j + 1
          BY <2>6, <4>1
        <5> QED  BY <5>1 DEF IInv, OwnInv
      <4> QED  BY <2>2, <4>1
    <3>5. sLastDequeue # NULL => sLastDequeue \in CapBufs
      BY <1>0 DEF TypeOK
    <3>6. UNCHANGED <<outFlag, outQueue, outDone, sLastDequeue>>
      BY <2>1
    <3>7. /\ \A i \in 1..Len(outQueue') : outFlag'[outQueue'[i]]
          /\ \A i, j \in 1..Len(outQueue') : i # j => outQueue'[i] # outQueue'[j]
          /\ \A i \in 1..Len(outDone') : outFlag'[outDone'[i]]
          /\ \A i, j \in 1..Len(outDone') : i # j => outDone'[i] # outDone'[j]
          /\ \A i \in 1..Len(outQueue'), j \in 1..Len(outDone') : outQueue'[i] # outDone'[j]
      BY <3>6 DEF IInv, OwnInv
    <3>8. \A i \in 1..Len(capDone') : capOwner'[capDone'[i]] = "encoded"
      BY <3>2, <3>3
    <3>9. sLastDequeue' # NULL => capOwner'[sLastDequeue'] = "program"
      <4>1. sLastDequeue # NULL => capOwner[sLastDequeue] = "program"
        BY DEF IInv, OwnInv
      <4> QED  BY <3>1, <3>2, <3>5, <3>6, <4>1
    <3>10. cur' # NULL /\ cur' # sLastDequeue' /\ capOwner'[cur'] = "program"
      BY <2>1, <3>1, <3>2, <3>6
    <3> QED  BY <3>4, <3>7, <3>8, <3>9, <3>10 DEF OwnInv, Busy
  <2>8. OrderInv'
    <3>1. \A i \in 1..Len(capDone') : capBuf[capDone'[i]] = capBuf[capDone[i + 1]]
      BY <2>2
    <3>2. \A i, j \in 1..Len(capDone') : i < j => capBuf[capDone'[i]] < capBuf[capDone'[j]]
      BY <2>2, <2>6, <3>1, SMTT(60) DEF IInv, OrderInv
    <3>3. \A i \in 1..Len(capDone') : capBuf[c] < capBuf[capDone'[i]]
      BY <2>2, <2>6, <3>1 DEF IInv, OrderInv
    <3>4. /\ capBuf[c] <= fed
          /\ \A i \in 1..Len(outQueue) : capBuf[c] < outBuf[outQueue[i]]
          /\ \A i \in 1..Len(written) : written[i] < capBuf[c]
      BY <2>2, <2>6 DEF IInv, OrderInv
    <3> QED  BY <2>1, <2>6, <3>1, <3>2, <3>3, <3>4 DEF IInv, OrderInv
  <2>9. ExactInv'
    <3>1. Taken = Len(written) /\ Taken' = Len(written) + 1
      BY <1>0, <2>1, <2>3, SequenceTypes DEF Taken
    <3>2. ASSUME ~fragile
          PROVE  /\ capBuf[c] = Len(written) + 1
                 /\ \A i \in 1..Len(capDone') : capBuf[capDone'[i]] = Taken' + i
                 /\ \A i \in 1..Len(outQueue) : outBuf[outQueue[i]] = Taken' + Len(capDone') + i
                 /\ fed = Taken' + Len(capDone') + Len(outQueue)
      <4>1. /\ \A i \in 1..Len(capDone) : capBuf[capDone[i]] = Taken + i
            /\ \A i \in 1..Len(outQueue) : outBuf[outQueue[i]] = Taken + Len(capDone) + i
            /\ fed = Taken + Len(capDone) + Len(outQueue)
        BY <2>1, <3>2 DEF IInv, ExactInv
      <4>2. Len(written) \in Nat /\ Len(outQueue) \in Nat
        BY <1>0, SequenceTypes
      <4>3. capBuf[c] = Len(written) + 1
        BY <2>2, <2>6, <3>1, <4>1, <4>2
      <4>4. \A i \in 1..Len(capDone') : capBuf[capDone[i + 1]] = Taken + (i + 1)
        BY <2>6, <4>1
      <4>5. \A i \in 1..Len(capDone') : capBuf[capDone'[i]] = Taken' + i
        BY <2>2, <3>1, <4>2, <4>4
      <4>6. Taken' + Len(capDone') = Taken + Len(capDone)
        BY <2>2, <3>1, <4>2
      <4> QED  BY <4>1, <4>3, <4>5, <4>6
    <3> QED  BY <2>1, <2>3, <3>2 DEF IInv, ExactInv
  <2> QED  BY <2>5, <2>7, <2>8, <2>9 DEF IInv
<1>3. CASE MfcWriteBegin
  <2>1. TypeOK'
    BY <1>0, <1>3 DEF MfcWriteBegin, TypeOK
  <2> QED  BY <1>3, <2>1, FlowUntouched DEF MfcWriteBegin, IInv
<1>4. CASE MfcWriteEnd
  <2>1. /\ pc["mfc"] = "write" /\ Go("mfc", "requeue") /\ fileLock' = "free"
        /\ written' = Append(written, capBuf[cur]) \/ (fragile /\ written' = written)
        /\ UNCHANGED <<flags, counts, encoder, codec, mfc, setting>>
    BY <1>4 DEF MfcWriteEnd, At
  <2>2. pc'["mfc"] = "requeue"
    BY <1>0, <2>1, GoMfc
  <2>3. cur \in CapBufs /\ capBuf[cur] \in Nat
    BY <1>0, <2>1 DEF IInv, OwnInv, Busy, TypeOK
  <2>4. written' \in Seq(Nat)
    <3>1. written \in Seq(Nat)
      BY <1>0 DEF TypeOK
    <3> QED  BY <2>1, <2>3, <3>1, AppendFacts
  <2>5. TypeOK'
    <3>1. PlacesOK'
      BY <1>0, <2>1, PlaceOf DEF MfcPC
    <3>2. DataOK'
      BY <1>0, <2>1, <2>4, TypeParts DEF DataOK
    <3> QED  BY <3>1, <3>2, TypePartsNext
  <2>6. OwnInv'
    BY <2>1, <2>2 DEF IInv, OwnInv, Busy
  <2>7. CASE written' = Append(written, capBuf[cur])
    <3>1. /\ Len(written) \in Nat /\ Len(written') = Len(written) + 1
          /\ \A i \in 1..Len(written) : written'[i] = written[i]
          /\ written'[Len(written) + 1] = capBuf[cur]
      BY <1>0, <2>3, <2>7, AppendFacts DEF TypeOK
    <3>2. \A i \in 1..Len(written') : i \in 1..Len(written) \/ i = Len(written) + 1
      BY <3>1
    <3>3. OrderInv'
      <4>1. /\ capBuf[cur] <= fed
            /\ \A i \in 1..Len(capDone) : capBuf[cur] < capBuf[capDone[i]]
            /\ \A i \in 1..Len(outQueue) : capBuf[cur] < outBuf[outQueue[i]]
            /\ \A i \in 1..Len(written) : written[i] < capBuf[cur]
        BY <2>1 DEF IInv, OrderInv
      <4>2. /\ \A i \in 1..Len(written') : written'[i] <= fed
            /\ \A i \in 1..Len(written'), j \in 1..Len(capDone) : written'[i] < capBuf[capDone[j]]
            /\ \A i \in 1..Len(written'), j \in 1..Len(outQueue) : written'[i] < outBuf[outQueue[j]]
        BY <3>1, <3>2, <4>1 DEF IInv, OrderInv
      <4>3. \A i, j \in 1..Len(written') : i < j => written'[i] < written'[j]
        BY <3>1, <3>2, <4>1 DEF IInv, OrderInv
      <4> QED  BY <2>1, <2>2, <4>2, <4>3 DEF IInv, OrderInv
    <3>4. ExactInv'
      <4>1. Taken' = Taken
        BY <2>1, <2>2, <3>1 DEF Taken
      <4>2. ~fragile => \A i \in 1..Len(written') : written'[i] = i
        BY <2>1, <3>1, <3>2 DEF IInv, ExactInv
      <4> QED  BY <2>1, <2>2, <4>1, <4>2 DEF IInv, ExactInv
    <3> QED  BY <2>5, <2>6, <3>3, <3>4 DEF IInv
  <2>8. CASE fragile /\ written' = written
    BY <2>1, <2>2, <2>5, <2>6, <2>8 DEF IInv, OrderInv, ExactInv
  <2> QED  BY <2>1, <2>7, <2>8
<1>5. CASE MfcRequeue
  <2>1. /\ pc["mfc"] = "requeue" /\ Go("mfc", "loop") /\ sLastDequeue' = cur
        /\ \/ sLastDequeue # NULL /\ capOwner' = [capOwner EXCEPT ![sLastDequeue] = "codec"]
           \/ capOwner' = capOwner
        /\ UNCHANGED <<flags, counts, encoder, streamOn, outQueue, outDone, capBuf, capDone, cur,
                       output, setting>>
    BY <1>5 DEF MfcRequeue, At
  <2>2. pc'["mfc"] = "loop"
    BY <1>0, <2>1, GoMfc
  <2>3. capOwner' \in [CapBufs -> {"codec", "encoded", "program"}]
    BY <1>0, <2>1 DEF TypeOK
  <2>4. TypeOK'
    <3>1. PlacesOK'
      BY <1>0, <2>1, PlaceOf DEF MfcPC
    <3>2. DataOK'
      BY <1>0, <2>1, <2>3, TypeParts DEF DataOK
    <3> QED  BY <3>1, <3>2, TypePartsNext
  <2>5. OwnInv'
    <3>1. /\ cur # NULL /\ cur # sLastDequeue /\ capOwner[cur] = "program" /\ cur \in CapBufs
          /\ sLastDequeue # NULL => capOwner[sLastDequeue] = "program"
      BY <1>0, <2>1 DEF IInv, OwnInv, Busy, TypeOK
    <3>2. \A d \in CapBufs : d # sLastDequeue => capOwner'[d] = capOwner[d]
      BY <1>0, <2>1 DEF TypeOK
    <3>3. \A i \in 1..Len(capDone) : capDone[i] \in CapBufs /\ capDone[i] # sLastDequeue
      BY <1>0, <3>1, SequenceTypes DEF IInv, OwnInv
    <3> QED  BY <2>1, <2>2, <3>1, <3>2, <3>3 DEF IInv, OwnInv, Busy
  <2>6. OrderInv' /\ ExactInv'
    BY <2>1, <2>2 DEF IInv, OrderInv, ExactInv, Taken
  <2> QED  BY <2>4, <2>5, <2>6 DEF IInv
<1> QED  BY <1>1, <1>2, <1>3, <1>4, <1>5 DEF MfcThread

-----------------------------------------------------------------------------
LEMMA CodecKeepsIInv == IInv /\ Encode => IInv'
<1> SUFFICES ASSUME IInv, Encode  PROVE IInv'
  OBVIOUS
<1> USE EncoderAssumption DEF flags, counts, encoder, codec, mfc, output, setting
<1>0. TypeOK
  BY DEF IInv
<1> DEFINE n == Head(outQueue)
<1>1. PICK c \in CapBufs : /\ capOwner[c] = "codec"
                           /\ capOwner' = [capOwner EXCEPT ![c] = "encoded"]
                           /\ capBuf' = [capBuf EXCEPT ![c] = outBuf[n]]
                           /\ capDone' = Append(capDone, c)
  BY DEF Encode
<1>2. /\ outQueue # <<>> /\ outQueue' = Tail(outQueue) /\ outDone' = Append(outDone, n)
      /\ UNCHANGED <<flags, counts, encoder, streamOn, mfc, output, pc, setting>>
  BY DEF Encode, CanEncode
<1>3. /\ outQueue' \in Seq(OutBufs) /\ n = outQueue[1] /\ n \in OutBufs
      /\ Len(outQueue) \in Nat \ {0} /\ Len(outQueue') = Len(outQueue) - 1
      /\ \A i \in 1..Len(outQueue') : outQueue'[i] = outQueue[i + 1]
  BY <1>0, <1>2, TailFacts DEF TypeOK
<1>4. /\ outDone' \in Seq(OutBufs) /\ Len(outDone) \in Nat /\ Len(outDone') = Len(outDone) + 1
      /\ \A i \in 1..Len(outDone) : outDone'[i] = outDone[i]
      /\ outDone'[Len(outDone) + 1] = n
  BY <1>0, <1>2, <1>3, AppendFacts DEF TypeOK
<1>5. /\ capDone' \in Seq(CapBufs) /\ Len(capDone) \in Nat /\ Len(capDone') = Len(capDone) + 1
      /\ \A i \in 1..Len(capDone) : capDone'[i] = capDone[i]
      /\ capDone'[Len(capDone) + 1] = c
  BY <1>0, <1>1, AppendFacts DEF TypeOK
<1>6. /\ capOwner' \in [CapBufs -> {"codec", "encoded", "program"}]
      /\ capBuf' \in [CapBufs -> Nat]
  BY <1>0, <1>1, <1>3 DEF TypeOK
<1>7. TypeOK'
  <2>1. PlacesOK'
    BY <1>0, <1>2, TypeParts DEF PlacesOK
  <2>2. DataOK'
    BY <1>0, <1>2, <1>3, <1>4, <1>5, <1>6, TypeParts DEF DataOK
  <2> QED  BY <2>1, <2>2, TypePartsNext
<1>8. /\ 1 \in 1..Len(outQueue)
      /\ \A i \in 1..Len(outQueue') : i + 1 \in 1..Len(outQueue) /\ i + 1 # 1
      /\ \A i \in 1..Len(outDone') : i \in 1..Len(outDone) \/ i = Len(outDone) + 1
      /\ \A i \in 1..Len(capDone') : i \in 1..Len(capDone) \/ i = Len(capDone) + 1
  BY <1>3, <1>4, <1>5
<1>9. /\ capOwner'[c] = "encoded" /\ capBuf'[c] = outBuf[n]
      /\ \A d \in CapBufs : d # c => capOwner'[d] = capOwner[d] /\ capBuf'[d] = capBuf[d]
  BY <1>0, <1>1 DEF TypeOK
<1>10. /\ \A i \in 1..Len(capDone) : capDone[i] \in CapBufs /\ capDone[i] # c
       /\ sLastDequeue # NULL => sLastDequeue \in CapBufs /\ sLastDequeue # c
       /\ Busy => cur \in CapBufs /\ cur # c
  BY <1>0, <1>1, SequenceTypes DEF IInv, OwnInv, TypeOK, Busy
<1>11. OwnInv'
  <2>1. \A i \in 1..Len(capDone') : capOwner'[capDone'[i]] = "encoded"
    <3>1. ASSUME NEW i \in 1..Len(capDone)  PROVE capOwner'[capDone'[i]] = "encoded"
      <4>1. capOwner[capDone[i]] = "encoded"
        BY DEF IInv, OwnInv
      <4> QED  BY <1>5, <1>9, <1>10, <4>1
    <3>2. capOwner'[capDone'[Len(capDone) + 1]] = "encoded"
      BY <1>5, <1>9
    <3> QED  BY <1>8, <3>1, <3>2
  <2>2. \A i, j \in 1..Len(capDone') : i # j => capDone'[i] # capDone'[j]
    BY <1>5, <1>8, <1>10 DEF IInv, OwnInv
  <2>3. /\ sLastDequeue # NULL => capOwner'[sLastDequeue] = "program"
        /\ Busy => cur # NULL /\ cur # sLastDequeue /\ capOwner'[cur] = "program"
    BY <1>9, <1>10 DEF IInv, OwnInv
  <2>4. /\ \A i \in 1..Len(outQueue') : outFlag[outQueue'[i]] /\ outQueue'[i] # n
        /\ \A i, j \in 1..Len(outQueue') : i # j => outQueue'[i] # outQueue'[j]
        /\ \A i \in 1..Len(outQueue'), j \in 1..Len(outDone) : outQueue'[i] # outDone[j]
    <3>1. ASSUME NEW i \in 1..Len(outQueue')
          PROVE  /\ i + 1 \in 1..Len(outQueue) /\ outQueue'[i] = outQueue[i + 1]
                 /\ outFlag[outQueue'[i]] /\ outQueue'[i] # n
                 /\ \A j \in 1..Len(outDone) : outQueue'[i] # outDone[j]
      <4>1. i + 1 \in 1..Len(outQueue) /\ i + 1 # 1 /\ outQueue'[i] = outQueue[i + 1]
        BY <1>3, <1>8
      <4> QED  BY <1>3, <1>8, <4>1 DEF IInv, OwnInv
    <3>2. ASSUME NEW i \in 1..Len(outQueue'), NEW j \in 1..Len(outQueue'), i # j
          PROVE  outQueue'[i] # outQueue'[j]
      <4>1. i + 1 # j + 1
        BY <3>2
      <4> QED  BY <3>1, <4>1 DEF IInv, OwnInv
    <3> QED  BY <3>1, <3>2
  <2>5. /\ outFlag[n] /\ \A i \in 1..Len(outDone) : outDone[i] # n
    BY <1>3, <1>8 DEF IInv, OwnInv
  <2>6. /\ \A i \in 1..Len(outDone') : outFlag[outDone'[i]]
        /\ \A i, j \in 1..Len(outDone') : i # j => outDone'[i] # outDone'[j]
        /\ \A i \in 1..Len(outQueue'), j \in 1..Len(outDone') : outQueue'[i] # outDone'[j]
    <3>1. \A i \in 1..Len(outDone') : outFlag[outDone'[i]]
      BY <1>4, <1>8, <2>5 DEF IInv, OwnInv
    <3>2. \A i, j \in 1..Len(outDone') : i # j => outDone'[i] # outDone'[j]
      BY <1>4, <1>8, <2>5 DEF IInv, OwnInv
    <3>3. \A i \in 1..Len(outQueue'), j \in 1..Len(outDone') : outQueue'[i] # outDone'[j]
      BY <1>4, <1>8, <2>4
    <3> QED  BY <3>1, <3>2, <3>3
  <2> QED  BY <1>2, <2>1, <2>2, <2>3, <2>4, <2>6 DEF OwnInv, Busy
<1>12. /\ \A i \in 1..Len(capDone) : capBuf'[capDone'[i]] = capBuf[capDone[i]]
       /\ capBuf'[capDone'[Len(capDone) + 1]] = outBuf[outQueue[1]]
       /\ Busy => capBuf'[cur] = capBuf[cur]
       /\ \A i \in 1..Len(outQueue') : outBuf[outQueue'[i]] = outBuf[outQueue[i + 1]]
  BY <1>3, <1>5, <1>9, <1>10
<1>13. OrderInv'
  <2>1. \A i \in 1..Len(capDone') : capBuf'[capDone'[i]] <= fed
    <3>1. \A i \in 1..Len(capDone) : capBuf[capDone[i]] <= fed
      BY DEF IInv, OrderInv
    <3>2. outBuf[outQueue[1]] <= fed
      BY <1>8 DEF IInv, OrderInv
    <3> QED  BY <1>8, <1>12, <3>1, <3>2
  <2>2. \A i, j \in 1..Len(capDone') : i < j => capBuf'[capDone'[i]] < capBuf'[capDone'[j]]
    <3>1. ASSUME NEW i \in 1..Len(capDone), NEW j \in 1..Len(capDone), i < j
          PROVE  capBuf'[capDone'[i]] < capBuf'[capDone'[j]]
      <4>1. capBuf[capDone[i]] < capBuf[capDone[j]]
        BY <3>1 DEF IInv, OrderInv
      <4> QED  BY <1>12, <4>1
    <3>2. ASSUME NEW i \in 1..Len(capDone)
          PROVE  capBuf'[capDone'[i]] < capBuf'[capDone'[Len(capDone) + 1]]
      <4>1. capBuf[capDone[i]] < outBuf[outQueue[1]]
        BY <1>8 DEF IInv, OrderInv
      <4> QED  BY <1>12, <4>1
    <3>3. ASSUME NEW i \in 1..Len(capDone'), NEW j \in 1..Len(capDone'), i < j
          PROVE  i \in 1..Len(capDone) /\ (j \in 1..Len(capDone) \/ j = Len(capDone) + 1)
      BY <1>5, <3>3
    <3> QED  BY <3>1, <3>2, <3>3
  <2>3. \A i \in 1..Len(capDone'), j \in 1..Len(outQueue') : capBuf'[capDone'[i]] < outBuf[outQueue'[j]]
    <3>1. ASSUME NEW i \in 1..Len(capDone'), NEW j \in 1..Len(outQueue')
          PROVE  capBuf'[capDone'[i]] < outBuf[outQueue'[j]]
      <4>1. j + 1 \in 1..Len(outQueue) /\ 1 < j + 1
        BY <1>8, <1>3
      <4>2. outBuf[outQueue'[j]] = outBuf[outQueue[j + 1]]
        BY <1>12
      <4>3. CASE i \in 1..Len(capDone)
        <5>1. capBuf[capDone[i]] < outBuf[outQueue[j + 1]]
          BY <4>1, <4>3 DEF IInv, OrderInv
        <5> QED  BY <1>12, <4>2, <4>3, <5>1
      <4>4. CASE i = Len(capDone) + 1
        <5>1. outBuf[outQueue[1]] < outBuf[outQueue[j + 1]]
          BY <1>8, <4>1 DEF IInv, OrderInv
        <5> QED  BY <1>12, <4>2, <4>4, <5>1
      <4> QED  BY <1>8, <4>3, <4>4
    <3> QED  BY <3>1
  <2>4. \A i \in 1..Len(written), j \in 1..Len(capDone') : written[i] < capBuf'[capDone'[j]]
    BY <1>8, <1>12 DEF IInv, OrderInv
  <2>5. /\ \A i \in 1..Len(outQueue') : outBuf[outQueue'[i]] <= fed
        /\ \A i, j \in 1..Len(outQueue') : i < j => outBuf[outQueue'[i]] < outBuf[outQueue'[j]]
        /\ \A i \in 1..Len(written), j \in 1..Len(outQueue') : written[i] < outBuf[outQueue'[j]]
    <3>1. ASSUME NEW i \in 1..Len(outQueue')
          PROVE  /\ outBuf[outQueue[i + 1]] <= fed
                 /\ \A k \in 1..Len(written) : written[k] < outBuf[outQueue[i + 1]]
      BY <1>8 DEF IInv, OrderInv
    <3>2. ASSUME NEW i \in 1..Len(outQueue'), NEW j \in 1..Len(outQueue'), i < j
          PROVE  outBuf[outQueue[i + 1]] < outBuf[outQueue[j + 1]]
      <4>1. i + 1 \in 1..Len(outQueue) /\ j + 1 \in 1..Len(outQueue) /\ i + 1 < j + 1
        BY <1>3, <1>8, <3>2
      <4> QED  BY <4>1 DEF IInv, OrderInv
    <3> QED  BY <1>12, <3>1, <3>2
  <2>6. pc["mfc"] = "write" =>
          /\ capBuf'[cur] <= fed
          /\ \A i \in 1..Len(capDone') : capBuf'[cur] < capBuf'[capDone'[i]]
          /\ \A i \in 1..Len(outQueue') : capBuf'[cur] < outBuf[outQueue'[i]]
          /\ \A i \in 1..Len(written) : written[i] < capBuf'[cur]
    BY <1>8, <1>12 DEF IInv, OrderInv, Busy
  <2> QED  BY <1>2, <2>1, <2>2, <2>3, <2>4, <2>5, <2>6 DEF IInv, OrderInv
<1>14. ExactInv'
  <2>1. Taken' = Taken /\ Taken \in Nat
    BY <1>0, <1>2, SequenceTypes DEF Taken
  <2>2. ASSUME ~fragile, pc["mfc"] \notin {"done", "cancelled"}
        PROVE  /\ pc["mfc"] = "write" => capBuf'[cur] = Len(written) + 1
               /\ \A i \in 1..Len(capDone') : capBuf'[capDone'[i]] = Taken + i
               /\ \A i \in 1..Len(outQueue') : outBuf[outQueue'[i]] = Taken + Len(capDone') + i
               /\ fed = Taken + Len(capDone') + Len(outQueue')
    <3>1. /\ pc["mfc"] = "write" => capBuf[cur] = Len(written) + 1
          /\ \A i \in 1..Len(capDone) : capBuf[capDone[i]] = Taken + i
          /\ \A i \in 1..Len(outQueue) : outBuf[outQueue[i]] = Taken + Len(capDone) + i
          /\ fed = Taken + Len(capDone) + Len(outQueue)
      BY <2>2 DEF IInv, ExactInv
    <3>2. pc["mfc"] = "write" => capBuf'[cur] = Len(written) + 1
      BY <1>12, <3>1 DEF Busy
    <3>3. \A i \in 1..Len(capDone') : capBuf'[capDone'[i]] = Taken + i
      <4>1. capBuf'[capDone'[Len(capDone) + 1]] = Taken + (Len(capDone) + 1)
        BY <1>5, <1>8, <1>12, <2>1, <3>1
      <4> QED  BY <1>8, <1>12, <3>1, <4>1
    <3>4. \A i \in 1..Len(outQueue') : outBuf[outQueue'[i]] = Taken + Len(capDone') + i
      <4>1. \A i \in 1..Len(outQueue') : outBuf[outQueue[i + 1]] = Taken + Len(capDone) + (i + 1)
        BY <1>8, <3>1
      <4> QED  BY <1>3, <1>5, <1>12, <2>1, <4>1
    <3>5. fed = Taken + Len(capDone') + Len(outQueue')
      BY <1>3, <1>5, <2>1, <3>1
    <3> QED  BY <3>2, <3>3, <3>4, <3>5
  <2> QED  BY <1>2, <2>1, <2>2 DEF IInv, ExactInv
<1> QED  BY <1>7, <1>11, <1>13, <1>14 DEF IInv

LEMMA DaemonAndMainKeepIInv == IInv /\ (DaemonThread \/ Main \/ Timeout) => IInv'
<1> SUFFICES ASSUME IInv, DaemonThread \/ Main \/ Timeout  PROVE IInv'
  OBVIOUS
<1> USE DEF flags, counts, encoder, codec, mfc, output, setting
<1>0. TypeOK
  BY DEF IInv
<1>1. CASE DaemonTick
  <2>1. UNCHANGED pc \/ Go("daemon", "cancel")
    BY <1>1 DEF DaemonTick
  <2>2. PlacesOK' /\ pc'["mfc"] = pc["mfc"]
    BY <1>0, <2>1, PlaceOf, GoOther, TypeParts DEF PlacesOK, DaemonPC
  <2>3. DataOK'
    BY <1>0, <1>1, TypeParts DEF DaemonTick, DataOK
  <2>4. TypeOK'
    BY <2>2, <2>3, TypePartsNext
  <2> QED  BY <1>1, <2>2, <2>4, FlowUntouched DEF DaemonTick, IInv
<1>2. CASE DaemonCancel
  <2>1. /\ DOMAIN pc' = Threads
        /\ pc'["encode"] = pc["encode"] /\ pc'["main"] = pc["main"]
        /\ pc'["daemon"] = "done" /\ pc'["mfc"] \in {"done", "cancelled"}
    BY <1>0, <1>2 DEF DaemonCancel, TypeOK, Threads
  <2>2. PlacesOK'
    BY <1>0, <2>1, TypeParts DEF PlacesOK, DaemonPC, MfcPC
  <2>3. DataOK'
    BY <1>0, <1>2, TypeParts DEF DaemonCancel, DataOK
  <2>4. TypeOK'
    BY <2>2, <2>3, TypePartsNext
  <2> QED  BY <1>2, <2>1, <2>4, FlowUntouched DEF DaemonCancel, IInv
<1>3. CASE Main \/ Timeout
  <2> USE DEF Main, JoinEncode, JoinMfc, JoinDaemon, Close, Timeout
  <2>1. PICK there \in MainPC : Go("main", there)
    BY <1>3 DEF MainPC
  <2>2. PlacesOK' /\ pc'["mfc"] = pc["mfc"]
    BY <1>0, <2>1, PlaceOf, GoOther
  <2>3. DataOK'
    BY <1>0, <1>3, TypeParts DEF DataOK
  <2>4. TypeOK'
    BY <2>2, <2>3, TypePartsNext
  <2> QED  BY <1>3, <2>2, <2>4, FlowUntouched DEF IInv
<1> QED  BY <1>1, <1>2, <1>3 DEF DaemonThread

LEMMA NextIInv == IInv /\ [Next]_vars => IInv'
<1> SUFFICES ASSUME IInv, [Next]_vars  PROVE IInv'
  OBVIOUS
<1>1. CASE UNCHANGED vars
  <2> USE <1>1 DEF vars, flags, counts, encoder, codec, mfc, output, setting
  <2>1. TypeOK'
    BY DEF IInv, TypeOK
  <2> QED  BY <2>1, FlowUntouched DEF IInv
<1> QED
  BY <1>1, EncodeKeepsIInv, MfcKeepsIInv, CodecKeepsIInv, DaemonAndMainKeepIInv DEF Next

-----------------------------------------------------------------------------
(* The inductive invariant holds throughout. *)
THEOREM EncoderInvariant == Spec => []IInv
BY InitIInv, NextIInv, PTL DEF Spec

(* Buffer indexes, queues and the file stay in their domains. *)
THEOREM EncoderTypeOK == Spec => []TypeOK
BY EncoderInvariant, PTL DEF IInv

(* mfc_thread_func writes the frames in the order in which encode_thread_func
   read them, each at most once; and without a gap as long as no call fails. *)
THEOREM EncoderWrittenInOrder == Spec => []WrittenInOrder
<1>1. IInv => WrittenInOrder
  <2> SUFFICES ASSUME IInv  PROVE WrittenInOrder
    OBVIOUS
  <2>1. Len(written) \in Nat
    BY SequenceTypes DEF IInv
  <2> QED  BY <2>1 DEF IInv, OrderInv, ExactInv, WrittenInOrder
<1> QED  BY <1>1, EncoderInvariant, PTL
-----------------------------------------------------------------------------
(* That nothing is missing at the end: the encode thread never waits for the
   codec before it streams, and when the daemon finds nobody at work there is
   a free buffer for encoded frames, so no frame is left in the codec. *)
Premise == timely /\ ~fragile /\ ~partial /\ frames > 1

IsIn(e, s) == \E i \in 1..Len(s) : s[i] = e

FeedInv ==
    /\ ~error /\ fed <= frames
    /\ fed > 1 => streamOn
    /\ fed = 0 => \A n \in OutBufs : ~outFlag[n]
    /\ fed = 1 => \A n, m \in OutBufs : outFlag[n] /\ outFlag[m] => n = m
    /\ pc["encode"] = "dequeue" => fed > 1 /\ \A n \in OutBufs : outFlag[n]
    /\ pc["encode"] = "done" => finish \/ fed = frames
    /\ \A n \in OutBufs : outFlag[n] => IsIn(n, outQueue) \/ IsIn(n, outDone)

HandInv ==
    pc["mfc"] \notin {"done", "cancelled"} =>
      \A c \in CapBufs :
          /\ capOwner[c] = "encoded" => IsIn(c, capDone)
          /\ capOwner[c] = "program" => c = sLastDequeue \/ (Busy /\ c = cur)

EndInv ==
    /\ finish => Len(written) = frames
    /\ pc["mfc"] = "done" => finish
    /\ pc["mfc"] = "cancelled" => pc["daemon"] = "done"
    /\ pc["daemon"] \in {"cancel", "done"} => finish
    /\ pc["main"] \in {"close", "done"} => pc["daemon"] = "done"

WholeInv == Premise => FeedInv /\ HandInv /\ EndInv

LEMMA IsInAppend ==
    ASSUME NEW S, NEW s \in Seq(S), NEW x \in S
    PROVE  /\ IsIn(x, Append(s, x))
           /\ \A e : IsIn(e, s) => IsIn(e, Append(s, x))
BY AppendFacts DEF IsIn

LEMMA IsInTail ==
    ASSUME NEW S, NEW s \in Seq(S), s # <<>>, NEW e, IsIn(e, s)
    PROVE  e = Head(s) \/ IsIn(e, Tail(s))
<1>1. PICK i \in 1..Len(s) : s[i] = e
  BY DEF IsIn
<1>2. CASE i = 1
  BY <1>1, <1>2, TailFacts
<1>3. CASE i # 1
  <2>1. i - 1 \in 1..Len(Tail(s)) /\ (i - 1) + 1 = i
    BY <1>3, TailFacts
  <2>2. Tail(s)[i - 1] = e
    BY <1>1, <2>1, TailFacts
  <2> QED  BY <2>1, <2>2 DEF IsIn
<1> QED  BY <1>2, <1>3

(* A sequence that something is in is not empty. *)
LEMMA IsInSome == ASSUME NEW e, NEW s, IsIn(e, s), s = <<>>  PROVE FALSE
BY DEF IsIn

LEMMA InitWholeInv == Init => WholeInv
<1> SUFFICES ASSUME Init, Premise  PROVE FeedInv /\ HandInv /\ EndInv
  BY DEF WholeInv
<1>1. /\ ~error /\ ~finish /\ fed = 0 /\ frames \in Nat
      /\ pc["encode"] = "loop" /\ pc["mfc"] = "loop" /\ pc["daemon"] = "sleep" /\ pc["main"] = "join_encode"
      /\ \A n \in OutBufs : ~outFlag[n]
      /\ \A c \in CapBufs : capOwner[c] = "codec"
  BY EncoderAssumption DEF Init
<1>2. frames > 1
  BY DEF Premise
<1> QED  BY <1>1, <1>2 DEF FeedInv, HandInv, EndInv

(* A step that leaves buffers, file and flags alone and moves a thread where
   these parts say nothing of it. *)
LEMMA OthersStand ==
    ASSUME IInv, FeedInv, HandInv, EndInv,
           NEW t \in {"encode", "main"}, NEW there, Go(t, there),
           UNCHANGED <<flags, counts, encoder, codec, mfc, output, setting>>,
           t = "encode" =>
              /\ there = "dequeue" => fed > 1 /\ \A n \in OutBufs : outFlag[n]
              /\ there = "done" => finish \/ fed = frames,
           t = "main" /\ there \in {"close", "done"} => pc["daemon"] = "done"
    PROVE  FeedInv' /\ HandInv' /\ EndInv'
<1> USE DEF flags, counts, encoder, codec, mfc, output, setting
<1>1. TypeOK
  BY DEF IInv
<1>2. /\ pc'[t] = there
      /\ \A u \in Threads \ {t} : pc'[u] = pc[u]
  BY <1>1, GoTo DEF Threads
<1>3. /\ pc'["mfc"] = pc["mfc"] /\ pc'["daemon"] = pc["daemon"]
      /\ pc'["encode"] = IF t = "encode" THEN there ELSE pc["encode"]
      /\ pc'["main"] = IF t = "main" THEN there ELSE pc["main"]
  BY <1>2 DEF Threads
<1>4. FeedInv'
  BY <1>3 DEF FeedInv, IsIn
<1>5. HandInv'
  BY <1>3 DEF HandInv, IsIn, Busy
<1>6. EndInv'
  BY <1>3 DEF EndInv
<1> QED  BY <1>4, <1>5, <1>6

LEMMA EncodeKeepsWhole ==
    ASSUME IInv, Premise, FeedInv, HandInv, EndInv, EncodeThread,
           NEW a \in OutBufs, NEW b \in OutBufs, a # b
    PROVE  FeedInv' /\ HandInv' /\ EndInv'
<1> USE DEF flags, counts, encoder, codec, mfc, output, setting
<1>0. /\ TypeOK /\ ~fragile /\ ~partial /\ fed \in Nat /\ frames \in Nat /\ frames > 1
      /\ outFlag \in [OutBufs -> BOOLEAN]
  BY DEF IInv, Premise, TypeOK
<1>1. CASE EncodeLoop
  <2> DEFINE there == IF error \/ finish THEN "done"
                      ELSE IF \A n \in OutBufs : outFlag[n] THEN "dequeue" ELSE "feed"
  <2>1. /\ Go("encode", there)
        /\ UNCHANGED <<flags, counts, encoder, codec, mfc, output, setting>>
    BY <1>1 DEF EncodeLoop
  <2>2. there = "done" => finish
    BY DEF FeedInv
  <2>3. there = "dequeue" => fed > 1 /\ \A n \in OutBufs : outFlag[n]
    BY <1>0 DEF FeedInv
  <2> HIDE DEF there
  <2> QED  BY <2>1, <2>2, <2>3, OthersStand
<1>2. CASE EncodeEnd
  <2>1. /\ Go("encode", "done") /\ fed = frames
        /\ UNCHANGED <<flags, counts, encoder, codec, mfc, output, setting>>
    BY <1>0, <1>2 DEF EncodeEnd, FileEnds
  <2> QED  BY <2>1, OthersStand
<1>3. CASE EncodeOverrun
  BY <1>0, <1>3 DEF EncodeOverrun
<1>4. CASE EncodeDequeueFails
  <2>1. pc["encode"] = "dequeue" /\ ~streamOn
    BY <1>0, <1>4 DEF EncodeDequeueFails, At
  <2> QED  BY <2>1 DEF FeedInv
<1>5. CASE EncodeFeed
  <2>1. /\ Go("encode", "loop") /\ fed' = fed + 1 /\ fed # frames
        /\ UNCHANGED <<flags, counts, outDone, capOwner, capBuf, capDone, mfc, output, setting>>
        /\ streamOn' = (streamOn \/ fed > 0)
    BY <1>0, <1>5 DEF EncodeFeed, FileEnds
  <2>2. PICK n \in OutBufs : /\ outQueue' = Append(outQueue, n)
                             /\ outFlag' = [outFlag EXCEPT ![n] = TRUE]
    BY <1>0, <1>5 DEF EncodeFeed, QueueOut
  <2>3. /\ pc'["encode"] = "loop" /\ pc'["mfc"] = pc["mfc"] /\ pc'["daemon"] = pc["daemon"]
        /\ pc'["main"] = pc["main"]
    BY <1>0, <2>1, GoTo DEF Threads
  <2>4. /\ ~error' /\ fed' <= frames' /\ fed' # 0
    BY <1>0, <2>1 DEF FeedInv
  <2>5. fed' > 1 => streamOn'
    <3>1. fed' > 1 => fed > 0
      BY <1>0, <2>1
    <3>2. fed > 0 => streamOn'
      BY <2>1, Zenon
    <3> QED  BY <3>1, <3>2
  <2>6. fed' = 1 => \A m, k \in OutBufs : outFlag'[m] /\ outFlag'[k] => m = k
    <3>1. fed' = 1 => \A m \in OutBufs : ~outFlag[m]
      BY <1>0, <2>1 DEF FeedInv
    <3> QED  BY <1>0, <2>2, <3>1
  <2>7. \A m \in OutBufs : outFlag'[m] => IsIn(m, outQueue') \/ IsIn(m, outDone')
    <3>1. outQueue \in Seq(OutBufs)
      BY <1>0 DEF TypeOK
    <3>2. /\ IsIn(n, outQueue') /\ \A m : IsIn(m, outQueue) => IsIn(m, outQueue')
      BY <2>2, <3>1, IsInAppend
    <3>3. \A m \in OutBufs : m # n => outFlag'[m] = outFlag[m]
      BY <1>0, <2>2
    <3>4. \A m : IsIn(m, outDone') = IsIn(m, outDone)
      BY <2>1 DEF IsIn
    <3> QED  BY <3>2, <3>3, <3>4 DEF FeedInv
  <2>8. FeedInv'
    BY <2>3, <2>4, <2>5, <2>6, <2>7 DEF FeedInv
  <2>9. HandInv'
    BY <2>1, <2>3 DEF HandInv, IsIn, Busy
  <2>10. EndInv'
    BY <2>1, <2>3 DEF EndInv
  <2> QED  BY <2>8, <2>9, <2>10
<1>6. CASE EncodeDequeue
  <2>1. /\ Go("encode", "loop") /\ outDone # <<>> /\ outDone' = Tail(outDone) /\ pc["encode"] = "dequeue"
        /\ outFlag' = [outFlag EXCEPT ![Head(outDone)] = FALSE]
        /\ UNCHANGED <<flags, counts, outBuf, fed, streamOn, outQueue, capOwner, capBuf, capDone, mfc,
                       output, setting>>
    BY <1>6 DEF EncodeDequeue, At
  <2>2. /\ pc'["encode"] = "loop" /\ pc'["mfc"] = pc["mfc"] /\ pc'["daemon"] = pc["daemon"]
        /\ pc'["main"] = pc["main"]
    BY <1>0, <2>1, GoTo DEF Threads
  <2>3. fed > 1
    BY <2>1 DEF FeedInv
  <2>4. \A m \in OutBufs : outFlag'[m] => IsIn(m, outQueue') \/ IsIn(m, outDone')
    <3>1. ASSUME NEW m \in OutBufs, outFlag'[m]
          PROVE  IsIn(m, outQueue) \/ IsIn(m, Tail(outDone))
      <4>1. m # Head(outDone) /\ outFlag[m]
        BY <1>0, <2>1, <3>1
      <4>2. CASE IsIn(m, outDone)
        <5>1. outDone \in Seq(OutBufs)
          BY <1>0 DEF TypeOK
        <5> QED  BY <2>1, <4>1, <4>2, <5>1, IsInTail
      <4> QED  BY <4>1, <4>2 DEF FeedInv
    <3> QED  BY <2>1, <3>1
  <2>5. FeedInv'
    BY <1>0, <2>1, <2>2, <2>3, <2>4 DEF FeedInv
  <2>6. HandInv'
    BY <2>1, <2>2 DEF HandInv, IsIn, Busy
  <2>7. EndInv'
    BY <2>1, <2>2 DEF EndInv
  <2> QED  BY <2>5, <2>6, <2>7
<1> QED  BY <1>1, <1>2, <1>3, <1>4, <1>5, <1>6 DEF EncodeThread

(* Steps of the mfc thread: what it says of the encode thread stands. *)
LEMMA FeedStands ==
    ASSUME FeedInv, UNCHANGED <<error, frames, encoder, streamOn, outQueue, outDone>>,
           finish => finish', pc'["encode"] = pc["encode"]
    PROVE  FeedInv'
BY DEF FeedInv, IsIn, encoder

(* What the mfc thread holds and knows leaves no room for a frame beyond the last. *)
LEMMA WrittenFits ==
    ASSUME IInv, Premise, FeedInv, pc["mfc"] = "write"
    PROVE  Len(written) # frames
<1>1. ~fragile /\ TypeOK
  BY DEF Premise, IInv
<1>2. /\ Taken = Len(written) + 1 /\ fed = Taken + Len(capDone) + Len(outQueue)
  BY <1>1 DEF IInv, ExactInv, Taken
<1>3. /\ Len(written) \in Nat /\ Len(capDone) \in Nat /\ Len(outQueue) \in Nat
      /\ fed \in Nat /\ frames \in Nat /\ fed <= frames
  BY <1>1, SequenceTypes DEF TypeOK, FeedInv
<1> QED  BY <1>2, <1>3

LEMMA MfcKeepsWhole ==
    ASSUME IInv, Premise, FeedInv, HandInv, EndInv, MfcThread \/ MfcEmpty
    PROVE  FeedInv' /\ HandInv' /\ EndInv'
<1> USE DEF flags, counts, codec, mfc, output, setting
<1>0. /\ TypeOK /\ ~fragile /\ fed \in Nat /\ frames \in Nat
      /\ capOwner \in [CapBufs -> {"codec", "encoded", "program"}]
      /\ capDone \in Seq(CapBufs)
  BY DEF IInv, Premise, TypeOK
<1>1. CASE MfcLoop
  <2>1. PICK there \in {"done", "dequeue"} : Go("mfc", there) /\ (there = "done" => error \/ finish)
    BY <1>1 DEF MfcLoop
  <2>2. /\ pc'["mfc"] = there /\ pc'["encode"] = pc["encode"] /\ pc'["daemon"] = pc["daemon"]
        /\ pc'["main"] = pc["main"]
    BY <1>0, <2>1, GoTo DEF Threads
  <2>3. /\ pc["mfc"] = "loop"
        /\ UNCHANGED <<flags, counts, encoder, codec, mfc, output, setting>>
    BY <1>1 DEF MfcLoop, At
  <2>4. FeedInv'
    BY <2>2, <2>3, FeedStands
  <2>5. HandInv'
    BY <2>2, <2>3 DEF HandInv, IsIn, Busy
  <2>6. EndInv'
    BY <2>1, <2>2, <2>3 DEF EndInv, FeedInv
  <2> QED  BY <2>4, <2>5, <2>6
<1>2. CASE MfcEmpty
  <2>1. /\ pc["mfc"] = "dequeue" /\ fed >= frames /\ outQueue = <<>> /\ capDone = <<>>
        /\ finish' /\ Go("mfc", "done")
        /\ UNCHANGED <<error, lastEncodedCnt, encoder, codec, mfc, output, setting>>
    BY <1>2 DEF MfcEmpty, At
  <2>2. /\ pc'["mfc"] = "done" /\ pc'["encode"] = pc["encode"] /\ pc'["daemon"] = pc["daemon"]
        /\ pc'["main"] = pc["main"]
    BY <1>0, <2>1, GoTo DEF Threads
  <2>3. Len(written) = frames
    <3>1. /\ Taken = Len(written) /\ fed = Taken + Len(capDone) + Len(outQueue)
      BY <1>0, <2>1 DEF IInv, ExactInv, Taken
    <3>2. Len(capDone) = 0 /\ Len(outQueue) = 0 /\ Len(written) \in Nat /\ fed <= frames
      BY <1>0, <2>1, SequenceTypes DEF FeedInv
    <3> QED  BY <1>0, <2>1, <3>1, <3>2
  <2>4. FeedInv'
    BY <2>1, <2>2, FeedStands
  <2>5. HandInv'
    BY <2>2 DEF HandInv
  <2>6. EndInv'
    BY <2>1, <2>2, <2>3 DEF EndInv
  <2> QED  BY <2>4, <2>5, <2>6
<1>3. CASE MfcDequeue
  <2>1. /\ pc["mfc"] = "dequeue" /\ capDone # <<>> /\ cur' = Head(capDone) /\ capDone' = Tail(capDone)
        /\ capOwner' = [capOwner EXCEPT ![Head(capDone)] = "program"]
        /\ Go("mfc", "write")
        /\ UNCHANGED <<flags, lastEncodedCnt, encoder, streamOn, outQueue, outDone, capBuf,
                       sLastDequeue, output, setting>>
    BY <1>3 DEF MfcDequeue, At
  <2>2. /\ pc'["mfc"] = "write" /\ pc'["encode"] = pc["encode"] /\ pc'["daemon"] = pc["daemon"]
        /\ pc'["main"] = pc["main"]
    BY <1>0, <2>1, GoTo DEF Threads
  <2>3. HandInv'
    <3>1. ASSUME NEW c \in CapBufs
          PROVE  /\ capOwner'[c] = "encoded" => IsIn(c, Tail(capDone))
                 /\ capOwner'[c] = "program" => c = sLastDequeue \/ c = Head(capDone)
      <4>1. CASE c = Head(capDone)
        BY <1>0, <2>1, <4>1
      <4>2. CASE c # Head(capDone)
        <5>1. capOwner'[c] = capOwner[c]
          BY <1>0, <2>1, <4>2
        <5>2. capOwner[c] = "encoded" => IsIn(c, Tail(capDone))
          BY <1>0, <2>1, <4>2, IsInTail DEF HandInv
        <5>3. capOwner[c] = "program" => c = sLastDequeue
          BY <2>1 DEF HandInv, Busy
        <5> QED  BY <5>1, <5>2, <5>3
      <4> QED  BY <4>1, <4>2
    <3> QED  BY <2>1, <2>2, <3>1 DEF HandInv, Busy
  <2>4. FeedInv'
    BY <2>1, <2>2, FeedStands
  <2>5. EndInv'
    BY <2>1, <2>2 DEF EndInv
  <2> QED  BY <2>3, <2>4, <2>5
<1>4. CASE MfcDequeueFails
  BY <1>0, <1>4 DEF MfcDequeueFails
<1>5. CASE MfcWriteBegin
  <2>1. UNCHANGED <<flags, counts, encoder, codec, mfc, written, pc, setting>>
    BY <1>5 DEF MfcWriteBegin
  <2>2. FeedInv'
    BY <2>1, FeedStands
  <2> QED  BY <2>1, <2>2 DEF HandInv, EndInv, IsIn, Busy
<1>6. CASE MfcWriteEnd
  <2>1. /\ pc["mfc"] = "write" /\ Go("mfc", "requeue")
        /\ UNCHANGED <<flags, counts, encoder, codec, mfc, setting>>
    BY <1>6 DEF MfcWriteEnd, At
  <2>2. /\ pc'["mfc"] = "requeue" /\ pc'["encode"] = pc["encode"] /\ pc'["daemon"] = pc["daemon"]
        /\ pc'["main"] = pc["main"]
    BY <1>0, <2>1, GoTo DEF Threads
  <2>3. ~finish
    BY <2>1, WrittenFits DEF EndInv
  <2>4. FeedInv'
    BY <2>1, <2>2, FeedStands
  <2>5. HandInv'
    BY <2>1, <2>2 DEF HandInv, IsIn, Busy
  <2>6. EndInv'
    BY <2>1, <2>2, <2>3 DEF EndInv
  <2> QED  BY <2>4, <2>5, <2>6
<1>7. CASE MfcRequeue
  <2>1. /\ pc["mfc"] = "requeue" /\ Go("mfc", "loop") /\ sLastDequeue' = cur
        /\ \/ sLastDequeue # NULL /\ capOwner' = [capOwner EXCEPT ![sLastDequeue] = "codec"]
           \/ sLastDequeue = NULL /\ capOwner' = capOwner
        /\ UNCHANGED <<flags, counts, encoder, streamOn, outQueue, outDone, capBuf, capDone, cur,
                       output, setting>>
    BY <1>0, <1>7 DEF MfcRequeue, At
  <2>2. /\ pc'["mfc"] = "loop" /\ pc'["encode"] = pc["encode"] /\ pc'["daemon"] = pc["daemon"]
        /\ pc'["main"] = pc["main"]
    BY <1>0, <2>1, GoTo DEF Threads
  <2>3. HandInv'
    <3>1. ASSUME NEW c \in CapBufs
          PROVE  /\ capOwner'[c] = "encoded" => IsIn(c, capDone)
                 /\ capOwner'[c] = "program" => c = cur
      <4>1. CASE sLastDequeue = c
        <5>1. c # NULL
          BY EncoderAssumption
        <5> QED  BY <1>0, <2>1, <4>1, <5>1
      <4>2. CASE sLastDequeue # c
        <5>1. capOwner'[c] = capOwner[c]
          BY <1>0, <2>1, <4>2
        <5> QED  BY <2>1, <4>2, <5>1 DEF HandInv
      <4> QED  BY <4>1, <4>2
    <3> QED  BY <2>1, <2>2, <3>1 DEF HandInv
  <2>4. FeedInv'
    BY <2>1, <2>2, FeedStands
  <2>5. EndInv'
    BY <2>1, <2>2 DEF EndInv
  <2> QED  BY <2>3, <2>4, <2>5
<1> QED  BY <1>1, <1>2, <1>3, <1>4, <1>5, <1>6, <1>7 DEF MfcThread

LEMMA CodecKeepsWhole ==
    ASSUME IInv, Premise, FeedInv, HandInv, EndInv, Encode
    PROVE  FeedInv' /\ HandInv' /\ EndInv'
<1> USE DEF flags, counts, encoder, mfc, output, setting
<1>0. /\ TypeOK /\ capOwner \in [CapBufs -> {"codec", "encoded", "program"}]
      /\ capDone \in Seq(CapBufs) /\ outQueue \in Seq(OutBufs) /\ outDone \in Seq(OutBufs)
  BY DEF IInv, TypeOK
<1>1. PICK c \in CapBufs : /\ capOwner[c] = "codec"
                           /\ capOwner' = [capOwner EXCEPT ![c] = "encoded"]
                           /\ capDone' = Append(capDone, c)
  BY DEF Encode
<1>2. /\ outQueue # <<>> /\ outQueue' = Tail(outQueue) /\ outDone' = Append(outDone, Head(outQueue))
      /\ UNCHANGED <<flags, counts, encoder, streamOn, mfc, output, pc, setting>>
  BY DEF Encode, CanEncode
<1>3. \A n \in OutBufs : outFlag'[n] => IsIn(n, outQueue') \/ IsIn(n, outDone')
  <2>1. Head(outQueue) \in OutBufs
    BY <1>0, <1>2, TailFacts
  <2>2. IsIn(Head(outQueue), outDone') /\ \A n : IsIn(n, outDone) => IsIn(n, outDone')
    BY <1>0, <1>2, <2>1, IsInAppend
  <2>3. \A n \in OutBufs : IsIn(n, outQueue) => n = Head(outQueue) \/ IsIn(n, outQueue')
    BY <1>0, <1>2, IsInTail
  <2> QED  BY <1>2, <2>2, <2>3 DEF FeedInv
<1>4. FeedInv'
  BY <1>2, <1>3 DEF FeedInv
<1>5. HandInv'
  <2>1. IsIn(c, capDone') /\ \A d : IsIn(d, capDone) => IsIn(d, capDone')
    BY <1>0, <1>1, IsInAppend
  <2>2. capOwner'[c] = "encoded" /\ \A d \in CapBufs : d # c => capOwner'[d] = capOwner[d]
    BY <1>0, <1>1
  <2> QED  BY <1>2, <2>1, <2>2 DEF HandInv, Busy
<1>6. EndInv'
  BY <1>2 DEF EndInv
<1> QED  BY <1>4, <1>5, <1>6

(* When nobody is at work and not everything is over, everything is written. *)
LEMMA IdleMeansWritten ==
    ASSUME IInv, Premise, FeedInv, HandInv, EndInv, Idle,
           NEW c \in CapBufs, NEW d \in CapBufs, c # d
    PROVE  finish \/ Len(written) = frames
<1> SUFFICES ASSUME ~finish  PROVE Len(written) = frames
  OBVIOUS
<1>0. /\ TypeOK /\ ~fragile /\ fed \in Nat /\ frames \in Nat /\ frames > 1 /\ OutBufs # {}
      /\ capOwner \in [CapBufs -> {"codec", "encoded", "program"}]
  BY EncoderAssumption DEF IInv, Premise, TypeOK
<1>1. pc["mfc"] = "dequeue" /\ capDone = <<>>
  BY DEF Idle, EndInv
<1>2. \E e \in CapBufs : capOwner[e] = "codec"
  <2>1. \A e \in CapBufs : capOwner[e] # "encoded"
    BY <1>1, IsInSome DEF HandInv
  <2>2. \A e \in CapBufs : capOwner[e] = "program" => e = sLastDequeue
    BY <1>1 DEF HandInv, Busy
  <2>3. capOwner[c] # "program" \/ capOwner[d] # "program"
    BY <2>2
  <2> QED  BY <1>0, <2>1, <2>3
<1>3. streamOn
  <2>1. pc["encode"] = "done" => streamOn
    BY <1>0 DEF FeedInv
  <2> QED  BY <2>1 DEF Idle
<1>4. outQueue = <<>>
  BY <1>2, <1>3 DEF Idle, CanEncode
<1>5. pc["encode"] = "done"
  <2> SUFFICES ASSUME pc["encode"] = "dequeue", outDone = <<>>  PROVE FALSE
    BY DEF Idle
  <2>1. PICK n \in OutBufs : TRUE
    BY <1>0
  <2>2. IsIn(n, outQueue) \/ IsIn(n, outDone)
    BY DEF FeedInv
  <2> QED  BY <1>4, <2>2, IsInSome
<1>6. fed = frames
  BY <1>5 DEF FeedInv
<1>7. Taken = Len(written) /\ fed = Taken + Len(capDone) + Len(outQueue)
  BY <1>0, <1>1 DEF IInv, ExactInv, Taken
<1>8. Len(capDone) = 0 /\ Len(outQueue) = 0 /\ Len(written) \in Nat
  BY <1>0, <1>1, <1>4, SequenceTypes
<1> QED  BY <1>6, <1>7, <1>8

LEMMA DaemonKeepsWhole ==
    ASSUME IInv, Premise, FeedInv, HandInv, EndInv, DaemonThread,
           NEW c \in CapBufs, NEW d \in CapBufs, c # d
    PROVE  FeedInv' /\ HandInv' /\ EndInv'
<1> USE DEF flags, counts, codec, mfc, output, setting
<1>0. TypeOK /\ timely
  BY DEF IInv, Premise
<1>1. CASE DaemonTick
  <2>1. /\ lastEncodedCnt = encodedCnt => Idle
        /\ IF lastEncodedCnt = encodedCnt
           THEN finish' = TRUE /\ Go("daemon", "cancel")
           ELSE UNCHANGED <<finish, pc>>
        /\ UNCHANGED <<error, encodedCnt, encoder, codec, mfc, output, setting>>
    BY <1>0, <1>1 DEF DaemonTick
  <2>2. CASE lastEncodedCnt = encodedCnt
    <3>1. /\ pc'["daemon"] = "cancel" /\ pc'["encode"] = pc["encode"] /\ pc'["mfc"] = pc["mfc"]
          /\ pc'["main"] = pc["main"]
      BY <1>0, <2>1, <2>2, GoTo DEF Threads
    <3>2. Len(written) = frames
      BY <2>1, <2>2, IdleMeansWritten DEF EndInv
    <3>3. pc["daemon"] = "sleep"
      BY <1>1 DEF DaemonTick, At
    <3>4. FeedInv'
      BY <2>1, <2>2, <3>1, FeedStands
    <3>5. HandInv'
      BY <2>1, <3>1 DEF HandInv, IsIn, Busy
    <3>6. EndInv'
      BY <2>1, <2>2, <3>1, <3>2, <3>3 DEF EndInv
    <3> QED  BY <3>4, <3>5, <3>6
  <2>3. CASE lastEncodedCnt # encodedCnt
    <3>1. FeedInv'
      BY <2>1, <2>3, FeedStands
    <3> QED  BY <2>1, <2>3, <3>1 DEF HandInv, EndInv, IsIn, Busy
  <2> QED  BY <2>2, <2>3
<1>2. CASE DaemonCancel
  <2>1. /\ pc'["encode"] = pc["encode"] /\ pc'["main"] = pc["main"]
        /\ pc'["daemon"] = "done" /\ pc["daemon"] = "cancel"
        /\ pc'["mfc"] = IF pc["mfc"] = "done" THEN "done" ELSE "cancelled"
        /\ UNCHANGED <<flags, counts, encoder, codec, mfc, written, setting>>
    BY <1>0, <1>2 DEF DaemonCancel, TypeOK, At
  <2>2. FeedInv'
    BY <2>1, FeedStands
  <2>3. HandInv'
    BY <2>1 DEF HandInv
  <2>4. EndInv'
    BY <2>1 DEF EndInv
  <2> QED  BY <2>2, <2>3, <2>4
<1> QED  BY <1>1, <1>2 DEF DaemonThread

LEMMA MainKeepsWhole ==
    ASSUME IInv, Premise, FeedInv, HandInv, EndInv, Main \/ Timeout
    PROVE  FeedInv' /\ HandInv' /\ EndInv'
<1> DEFINE Rest == UNCHANGED <<flags, counts, encoder, codec, mfc, output, setting>>
<1>1. CASE JoinEncode
  BY <1>1, OthersStand DEF JoinEncode
<1>2. CASE JoinMfc
  BY <1>2, OthersStand DEF JoinMfc
<1>3. CASE JoinDaemon
  BY <1>3, OthersStand DEF JoinDaemon
<1>4. CASE Close
  <2>1. pc["daemon"] = "done"
    BY <1>4 DEF Close, At, EndInv
  <2> QED  BY <1>4, <2>1, OthersStand DEF Close
<1>5. CASE Timeout
  BY <1>5, OthersStand DEF Timeout
<1> QED  BY <1>1, <1>2, <1>3, <1>4, <1>5 DEF Main

LEMMA NextWholeInv ==
    ASSUME NEW a \in OutBufs, NEW b \in OutBufs, a # b,
           NEW c \in CapBufs, NEW d \in CapBufs, c # d
    PROVE  IInv /\ WholeInv /\ [Next]_vars => WholeInv'
<1> SUFFICES ASSUME IInv, WholeInv, [Next]_vars, Premise'  PROVE FeedInv' /\ HandInv' /\ EndInv'
  BY DEF WholeInv
<1> USE DEF flags, counts, encoder, codec, mfc, output, setting
<1>1. CASE UNCHANGED vars
  <2> USE <1>1 DEF vars
  <2>1. Premise
    BY DEF Premise
  <2>2. pc' = pc
    OBVIOUS
  <2> QED  BY <2>1, <2>2 DEF WholeInv, FeedInv, HandInv, EndInv, IsIn, Busy
<1>2. CASE Next
  <2>1. Premise
    <3>1. UNCHANGED setting
      BY <1>2 DEF Next, EncodeThread, EncodeLoop, EncodeFeed, EncodeOverrun, EncodeEnd, EncodeDequeue,
           EncodeDequeueFails, MfcThread, MfcLoop, MfcDequeue, MfcDequeueFails, MfcWriteBegin,
           MfcWriteEnd, MfcRequeue, MfcEmpty, Encode, DaemonThread, DaemonTick, DaemonCancel, Main,
           JoinEncode, JoinMfc, JoinDaemon, Close, Timeout
    <3> QED  BY <3>1 DEF Premise
  <2>2. FeedInv /\ HandInv /\ EndInv
    BY <2>1 DEF WholeInv
  <2> QED
    BY <1>2, <2>1, <2>2, EncodeKeepsWhole, MfcKeepsWhole, CodecKeepsWhole, DaemonKeepsWhole,
       MainKeepsWhole DEF Next
<1> QED  BY <1>1, <1>2

(* A program that main's joins let end has written the whole file, with two
   buffers of each kind and the premises of the property. *)
THEOREM EncoderWholeFile ==
    ASSUME NEW a \in OutBufs, NEW b \in OutBufs, a # b,
           NEW c \in CapBufs, NEW d \in CapBufs, c # d
    PROVE  Spec => []WholeFileEncoded
<1>1. WholeInv => WholeFileEncoded
  BY DEF WholeInv, Premise, EndInv, WholeFileEncoded
<1>2. IInv /\ WholeInv /\ [Next]_vars => WholeInv'
  BY NextWholeInv
<1> QED  BY <1>1, <1>2, InitIInv, NextIInv, InitWholeInv, PTL DEF Spec
=============================================================================
