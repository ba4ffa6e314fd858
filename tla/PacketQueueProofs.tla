------------------------- MODULE PacketQueueProofs -------------------------
(***************************************************************************)
(* ListShape, NoDanglingPointer and the refinement of PacketFifo, for any  *)
(* number of putters, getters, nodes and packets; and that no wakeup is    *)
(* lost, by counting the threads that attend to the packets of the list.   *)
(***************************************************************************)
EXTENDS PacketQueue, FiniteSets, FiniteSetTheorems, TLAPS

(* A thread owns the mutex exactly while it is inside the critical section,
   and waits exactly while it is registered with the condition variable. *)
Exclusion ==
    /\ \A t \in Threads : mutex = t <=> pc[t] \in Critical
    /\ \A t \in Getters : t \in waiting <=> pc[t] = "wait"

(* Nodes in the list and nodes held by a putter are allocated, hold a packet
   and are all different, and so are the packets that are in hand. *)
Ownership ==
    /\ \A n \in Nodes \ free : pkt[n] \in Packets
    /\ \A i, j \in DOMAIN order : order[i] = order[j] => i = j
    /\ \A i \in DOMAIN order : order[i] \notin free
    /\ \A t \in Threads : Holding(t) =>
          /\ node[t] \in Nodes \ free
          /\ next[node[t]] = NULL
          /\ \A i \in DOMAIN order : order[i] # node[t]
          /\ pkt[node[t]] \notin unsent
    /\ \A t, u \in Threads : Holding(t) /\ Holding(u) /\ t # u =>
          node[t] # node[u] /\ pkt[node[t]] # pkt[node[u]]

(* How much of the list the pair (lastPkt, nbPkts) knows about: all of it,
   except between the link of a new node and the update of the tail. *)
Known == IF \E t \in Putters : pc[t] = "tail" THEN Len(order) - 1 ELSE Len(order)

Pointers ==
    /\ Chained
    /\ \A t \in Putters : pc[t] = "tail" =>
          order # <<>> /\ node[t] = order[Len(order)]
    /\ \A t \in Getters : pc[t] = "unlink" => order # <<>> /\ node[t] = order[1]
    /\ \A t \in Threads : node[t] # NULL =>
          Holding(t) \/ pc[t] = "tail" \/ pc[t] = "unlink"
    /\ lastPkt = IF Known = 0 THEN NULL ELSE order[Known]
    /\ nbPkts = Known

IInv == TypeOK /\ Exclusion /\ Ownership /\ Pointers
-----------------------------------------------------------------------------
LEMMA InitIInv == Init => IInv
  BY QueueAssumption DEF Init, IInv, TypeOK, Exclusion, Ownership, Pointers, Chained, Known,
     Holding, Threads, PutterPC, GetterPC, Critical

LEMMA PutAllocIInv ==
    ASSUME NEW t \in Putters, IInv, PutAlloc(t)
    PROVE  IInv'
<1> USE QueueAssumption DEF PutAlloc, Move, list, memory, locks, traffic, IInv,
       TypeOK, Threads, PutterPC, GetterPC, Critical
<1>1. TypeOK'
  BY DEF Exclusion, Ownership, Pointers, Holding
<1>2. Exclusion'
  BY DEF Exclusion
<1>3. Ownership'
  BY DEF Exclusion, Ownership, Pointers, Holding
<1>4. Pointers'
  BY SMTT(30) DEF Exclusion, Ownership, Pointers, Chained, Known, Holding
<1> QED  BY <1>1, <1>2, <1>3, <1>4

LEMMA PutFailIInv ==
    ASSUME NEW t \in Putters, IInv, PutFail(t)
    PROVE  IInv'
<1> USE QueueAssumption DEF PutFail, Move, list, memory, locks, traffic, IInv,
       TypeOK, Threads, PutterPC, GetterPC, Critical
<1>1. TypeOK'
  BY DEF Exclusion, Ownership, Pointers, Holding
<1>2. Exclusion'
  BY DEF Exclusion
<1>3. Ownership'
  BY DEF Exclusion, Ownership, Pointers, Holding
<1>4. Pointers'
  BY DEF Exclusion, Ownership, Pointers, Chained, Known, Holding
<1> QED  BY <1>1, <1>2, <1>3, <1>4

LEMMA PutLockIInv ==
    ASSUME NEW t \in Putters, IInv, PutLock(t)
    PROVE  IInv'
<1> USE QueueAssumption DEF PutLock, Lock, Move, list, memory, locks, traffic, IInv,
       TypeOK, Threads, PutterPC, GetterPC, Critical
<1>1. TypeOK'
  BY DEF Exclusion, Ownership, Pointers, Holding
<1>2. Exclusion'
  BY DEF Exclusion
<1>3. Ownership'
  BY DEF Exclusion, Ownership, Pointers, Holding
<1>4. Pointers'
  BY DEF Exclusion, Ownership, Pointers, Chained, Known, Holding
<1> QED  BY <1>1, <1>2, <1>3, <1>4

LEMMA PutLinkIInv ==
    ASSUME NEW t \in Putters, IInv, PutLink(t)
    PROVE  IInv'
<1> USE QueueAssumption DEF PutLink, Move, list, memory, locks, traffic, IInv,
       TypeOK, Threads, PutterPC, GetterPC, Critical
<1>1. TypeOK'
  BY DEF Exclusion, Ownership, Pointers, Holding
<1>2. Exclusion'
  BY DEF Exclusion
<1>a. /\ Holding(t) /\ node[t] \in Nodes \ free
      /\ order' \in Seq(Nodes) /\ Len(order') = Len(order) + 1
      /\ \A i \in DOMAIN order : order'[i] = order[i]
      /\ order'[Len(order) + 1] = node[t]
  BY DEF Ownership, Holding
<1>b. \A u \in Threads : Holding(u)' <=> Holding(u) /\ u # t
  BY DEF Holding
<1>c. \A u \in Threads : Holding(u)' => next'[node[u]] = next[node[u]]
  <2> SUFFICES ASSUME NEW u \in Threads, Holding(u)'  PROVE next'[node[u]] = next[node[u]]
    OBVIOUS
  <2>1. lastPkt # NULL => lastPkt \in Nodes /\ lastPkt # node[u]
    BY <1>b DEF Exclusion, Ownership, Pointers, Known
  <2>2. CASE lastPkt = NULL
    BY <2>2
  <2>3. CASE lastPkt # NULL
    BY <2>1, <2>3, <1>b DEF Ownership
  <2> QED  BY <2>2, <2>3
<1>3. Ownership'
  <2>1. \A i, j \in DOMAIN order' : order'[i] = order'[j] => i = j
    BY <1>a DEF Ownership
  <2>2. \A i \in DOMAIN order' : order'[i] \notin free'
    BY <1>a DEF Ownership
  <2>3. ASSUME NEW u \in Threads, Holding(u)'
        PROVE  \A i \in DOMAIN order' : order'[i] # node'[u]
    BY <2>3, <1>a, <1>b DEF Ownership
  <2> QED  BY <2>1, <2>2, <2>3, <1>b, <1>c DEF Ownership
<1>4. Pointers'
  BY DEF Exclusion, Ownership, Pointers, Chained, Known, Holding
<1> QED  BY <1>1, <1>2, <1>3, <1>4

LEMMA PutTailIInv ==
    ASSUME NEW t \in Putters, IInv, PutTail(t)
    PROVE  IInv'
<1> USE QueueAssumption DEF PutTail, Move, list, memory, locks, traffic, IInv,
       TypeOK, Threads, PutterPC, GetterPC, Critical
<1>1. TypeOK'
  BY DEF Exclusion, Ownership, Pointers, Holding
<1>2. Exclusion'
  BY DEF Exclusion
<1>3. Ownership'
  BY DEF Exclusion, Ownership, Pointers, Holding
<1>4. Pointers'
  BY DEF Exclusion, Ownership, Pointers, Chained, Known, Holding
<1> QED  BY <1>1, <1>2, <1>3, <1>4

LEMMA PutSignalIInv ==
    ASSUME NEW t \in Putters, IInv, PutSignal(t)
    PROVE  IInv'
<1> USE QueueAssumption DEF PutSignal, Move, list, memory, locks, traffic, IInv,
       TypeOK, Threads, PutterPC, GetterPC, Critical
<1>a. ASSUME waiting = {}
      PROVE  TypeOK' /\ Ownership'
  <2>1. TypeOK'
    <3>1. /\ pc' \in [Threads -> PutterPC \cup GetterPC]
          /\ \A u \in Putters : pc'[u] \in PutterPC
          /\ \A u \in Getters : pc'[u] \in GetterPC
      <4>1. pc' = [pc EXCEPT ![t] = "idle"]
        BY <1>a
      <4> HIDE DEF PutSignal, Critical, Move
      <4> QED  BY <4>1
    <3>2. waiting' \in SUBSET Getters /\ mutex' \in Threads \cup {NULL}
      BY <1>a
    <3>3. UNCHANGED <<firstPkt, lastPkt, nbPkts, next, order, pkt, free, node, block, unsent, delivered>>
      BY <1>a
    <3> HIDE DEF PutSignal, Move, Threads, PutterPC, GetterPC
    <3> QED  BY <3>1, <3>2, <3>3
  <2>2. \A u \in Threads : Holding(u)' <=> Holding(u)
    BY <1>a DEF Holding
  <2>3. UNCHANGED <<order, next, pkt, free, node, unsent>>
    OBVIOUS
  <2>4. Ownership'
    <3> HIDE DEF PutSignal, TypeOK
    <3> QED  BY <2>2, <2>3 DEF Ownership
  <2> QED  BY <2>1, <2>4
<1>b. ASSUME NEW g \in waiting, waiting' = waiting \ {g},
             pc' = [pc EXCEPT ![t] = "idle", ![g] = "lock"]
      PROVE  TypeOK' /\ Ownership'
  <2>1. /\ g \in Getters /\ g # t /\ pc[g] = "wait"
        /\ pc' \in [Threads -> PutterPC \cup GetterPC]
        /\ pc'[t] = "idle" /\ pc'[g] = "lock"
        /\ \A u \in Threads \ {t, g} : pc'[u] = pc[u]
    BY <1>b DEF Exclusion
  <2>2. TypeOK'
    BY <1>b, <2>1
  <2>3. \A u \in Threads : Holding(u)' <=> Holding(u)
    BY <2>1 DEF Holding
  <2>4. UNCHANGED <<order, next, pkt, free, node, unsent>>
    OBVIOUS
  <2>5. Ownership'
    <3> HIDE DEF PutSignal, TypeOK
    <3> QED  BY <2>3, <2>4 DEF Ownership
  <2> QED  BY <2>2, <2>5
<1>1. TypeOK'
  BY <1>a, <1>b
<1>2. Exclusion'
  BY DEF Exclusion
<1>3. Ownership'
  BY <1>a, <1>b
<1>4. Pointers'
  BY SMTT(30) DEF Exclusion, Ownership, Pointers, Chained, Known, Holding
<1> QED  BY <1>1, <1>2, <1>3, <1>4

LEMMA GetCallIInv ==
    ASSUME NEW t \in Getters, IInv, GetCall(t)
    PROVE  IInv'
<1> USE QueueAssumption DEF GetCall, Move, list, memory, locks, traffic, IInv,
       TypeOK, Threads, PutterPC, GetterPC, Critical
<1>1. TypeOK'
  BY DEF Exclusion, Ownership, Pointers, Holding
<1>2. Exclusion'
  BY DEF Exclusion
<1>3. Ownership'
  BY DEF Exclusion, Ownership, Pointers, Holding
<1>4. Pointers'
  BY DEF Exclusion, Ownership, Pointers, Chained, Known, Holding
<1> QED  BY <1>1, <1>2, <1>3, <1>4

LEMMA GetLockIInv ==
    ASSUME NEW t \in Getters, IInv, GetLock(t)
    PROVE  IInv'
<1> USE QueueAssumption DEF GetLock, Lock, Move, list, memory, locks, traffic, IInv,
       TypeOK, Threads, PutterPC, GetterPC, Critical
<1>1. TypeOK'
  BY DEF Exclusion, Ownership, Pointers, Holding
<1>2. Exclusion'
  BY DEF Exclusion
<1>3. Ownership'
  BY DEF Exclusion, Ownership, Pointers, Holding
<1>4. Pointers'
  BY DEF Exclusion, Ownership, Pointers, Chained, Known, Holding
<1> QED  BY <1>1, <1>2, <1>3, <1>4

LEMMA GetEmptyIInv ==
    ASSUME NEW t \in Getters, IInv, GetEmpty(t)
    PROVE  IInv'
<1> USE QueueAssumption DEF GetEmpty, Move, list, memory, locks, traffic, IInv,
       TypeOK, Threads, PutterPC, GetterPC, Critical
<1>1. TypeOK'
  <2>1. /\ pc' \in [Threads -> PutterPC \cup GetterPC]
        /\ \A u \in Putters : pc'[u] \in PutterPC
        /\ \A u \in Getters : pc'[u] \in GetterPC
    OBVIOUS
  <2>2. waiting' \in SUBSET Getters /\ mutex' \in Threads \cup {NULL}
    OBVIOUS
  <2>3. UNCHANGED <<firstPkt, lastPkt, nbPkts, next, order, pkt, free, node, block, unsent, delivered>>
    OBVIOUS
  <2> HIDE DEF GetEmpty, Move, Threads, PutterPC, GetterPC
  <2> QED  BY <2>1, <2>2, <2>3
<1>2. Exclusion'
  BY DEF Exclusion
<1>3. Ownership'
  BY DEF Exclusion, Ownership, Pointers, Holding
<1>4. Pointers'
  BY DEF Exclusion, Ownership, Pointers, Chained, Known, Holding
<1> QED  BY <1>1, <1>2, <1>3, <1>4

LEMMA GetSpuriousIInv ==
    ASSUME NEW t \in Getters, IInv, GetSpurious(t)
    PROVE  IInv'
<1> USE QueueAssumption DEF GetSpurious, Move, list, memory, locks, traffic, IInv,
       TypeOK, Threads, PutterPC, GetterPC, Critical
<1>1. TypeOK'
  BY DEF Exclusion, Ownership, Pointers, Holding
<1>2. Exclusion'
  BY DEF Exclusion
<1>3. Ownership'
  BY DEF Exclusion, Ownership, Pointers, Holding
<1>4. Pointers'
  BY DEF Exclusion, Ownership, Pointers, Chained, Known, Holding
<1> QED  BY <1>1, <1>2, <1>3, <1>4

LEMMA GetPeekIInv ==
    ASSUME NEW t \in Getters, IInv, GetPeek(t)
    PROVE  IInv'
<1> USE QueueAssumption DEF GetPeek, Move, list, memory, locks, traffic, IInv,
       TypeOK, Threads, PutterPC, GetterPC, Critical
<1>1. TypeOK'
  BY DEF Exclusion, Ownership, Pointers, Holding
<1>2. Exclusion'
  BY DEF Exclusion
<1>3. Ownership'
  BY DEF Exclusion, Ownership, Pointers, Holding
<1>4. Pointers'
  BY DEF Exclusion, Ownership, Pointers, Chained, Known, Holding
<1> QED  BY <1>1, <1>2, <1>3, <1>4

LEMMA GetUnlinkIInv ==
    ASSUME NEW t \in Getters, IInv, GetUnlink(t)
    PROVE  IInv'
<1> USE QueueAssumption DEF GetUnlink, Move, list, memory, locks, traffic, IInv,
       TypeOK, Threads, PutterPC, GetterPC, Critical
<1>a. /\ Len(order) \in Nat \ {0} /\ node[t] = order[1] /\ firstPkt = order[1]
      /\ pkt[node[t]] \in Packets
      /\ \A u \in Putters : pc[u] # "tail"
      /\ nbPkts = Len(order) /\ lastPkt = order[Len(order)]
  BY DEF Exclusion, Ownership, Pointers, Chained, Known
<1>b. /\ order' \in Seq(Nodes) /\ Len(order') = Len(order) - 1
      /\ \A i \in 1..Len(order') : order'[i] = order[i + 1]
  BY <1>a
<1>1. TypeOK'
  BY <1>a, <1>b
<1>2. Exclusion'
  BY DEF Exclusion
<1>3. Ownership'
  BY DEF Exclusion, Ownership, Pointers, Holding
<1>c. /\ \A u \in Putters : pc'[u] # "tail"
      /\ Known' = Len(order')
      /\ \A u \in Getters : pc'[u] # "unlink"
  BY <1>a DEF Known, Exclusion
<1>d. next[firstPkt] = IF Len(order) = 1 THEN NULL ELSE order[2]
  <2>1. 1 \in DOMAIN order
    BY <1>a
  <2>2. next[order[1]] = IF 1 = Len(order) THEN NULL ELSE order[1 + 1]
    BY <2>1 DEF Pointers, Chained
  <2>3. 1 + 1 = 2 /\ (1 = Len(order) <=> Len(order) = 1)
    OBVIOUS
  <2> HIDE DEF GetUnlink, IInv, TypeOK
  <2> QED  BY <2>2, <2>3, <1>a
<1>4. Pointers'
  <2>1. Chained'
    <3>1. firstPkt' = IF order' = <<>> THEN NULL ELSE order'[1]
      <4>1. firstPkt' = next[firstPkt]
        OBVIOUS
      <4>2. order' = <<>> <=> Len(order) = 1
        <5>1. Len(order') = 0 <=> Len(order) = 1
          BY <1>a, <1>b
        <5>2. order' \in Seq(Nodes)
          BY <1>b
        <5> HIDE DEF GetUnlink, IInv, TypeOK
        <5>3. order' = <<>> <=> Len(order') = 0
          BY <5>2
        <5> QED  BY <5>1, <5>3
      <4>3. Len(order) # 1 => order'[1] = order[2]
        BY <1>a, <1>b
      <4> HIDE DEF GetUnlink, IInv, TypeOK
      <4> QED  BY <4>1, <4>2, <4>3, <1>d
    <3>2. ASSUME NEW i \in DOMAIN order'
          PROVE  next'[order'[i]] = IF i = Len(order') THEN NULL ELSE order'[i + 1]
      <4>1. /\ i + 1 \in DOMAIN order /\ order'[i] = order[i + 1]
            /\ i = Len(order') <=> i + 1 = Len(order)
            /\ i # Len(order') => order'[i + 1] = order[i + 1 + 1]
        BY <1>a
      <4>2. next' = next
        OBVIOUS
      <4>3. next[order[i + 1]] = IF i + 1 = Len(order) THEN NULL ELSE order[i + 1 + 1]
        BY <4>1 DEF Pointers, Chained
      <4> HIDE DEF GetUnlink, IInv, TypeOK
      <4> QED  BY <4>1, <4>2, <4>3
    <3> QED  BY <3>1, <3>2 DEF Chained
  <2>2. lastPkt' = IF Known' = 0 THEN NULL ELSE order'[Known']
    BY <1>a, <1>b, <1>c, <1>d
  <2>3. nbPkts' = Known'
    BY <1>a, <1>b, <1>c
  <2>4. \A u \in Threads : node'[u] # NULL =>
          Holding(u)' \/ pc'[u] = "tail" \/ pc'[u] = "unlink"
    BY DEF Pointers, Holding
  <2> QED  BY <2>1, <2>2, <2>3, <2>4, <1>c DEF Pointers
<1> QED  BY <1>1, <1>2, <1>3, <1>4

LEMMA GetUnlockIInv ==
    ASSUME NEW t \in Getters, IInv, GetUnlock(t)
    PROVE  IInv'
<1> USE QueueAssumption DEF GetUnlock, Move, list, memory, locks, traffic, IInv,
       TypeOK, Threads, PutterPC, GetterPC, Critical
<1>1. TypeOK'
  BY DEF Exclusion, Ownership, Pointers, Holding
<1>2. Exclusion'
  BY DEF Exclusion
<1>3. Ownership'
  BY DEF Exclusion, Ownership, Pointers, Holding
<1>4. Pointers'
  BY DEF Exclusion, Ownership, Pointers, Chained, Known, Holding
<1> QED  BY <1>1, <1>2, <1>3, <1>4

LEMMA NextIInv == IInv /\ [Next]_vars => IInv'
<1> SUFFICES ASSUME IInv, [Next]_vars  PROVE IInv'
  OBVIOUS
<1>1. CASE UNCHANGED vars
  BY <1>1 DEF vars, list, memory, locks, traffic, IInv, TypeOK, Exclusion, Ownership,
              Pointers, Chained, Known, Holding
<1>2. ASSUME NEW t \in Putters, PutAlloc(t) \/ PutFail(t) \/ PutStep(t)
      PROVE  IInv'
  BY <1>2, PutAllocIInv, PutFailIInv, PutLockIInv, PutLinkIInv, PutTailIInv, PutSignalIInv
     DEF PutStep
<1>3. ASSUME NEW t \in Getters, GetCall(t) \/ GetSpurious(t) \/ GetStep(t)
      PROVE  IInv'
  BY <1>3, GetCallIInv, GetSpuriousIInv, GetLockIInv, GetEmptyIInv, GetPeekIInv,
     GetUnlinkIInv, GetUnlockIInv
     DEF GetStep
<1> QED  BY <1>1, <1>2, <1>3 DEF Next

(* Every state of packet_queue.c is well typed, respects the mutex and has a
   list whose pointers spell the queued packets in order: the strengthening
   from which the theorems below follow. *)
THEOREM QueueInvariant == Spec => []IInv
<1>1. Init => IInv
  BY InitIInv
<1>2. IInv /\ [Next]_vars => IInv'
  BY NextIInv
<1> QED  BY <1>1, <1>2, PTL DEF Spec

(* packet_queue.c keeps every field and every local within its type. *)
THEOREM QueueTypeOK == Spec => []TypeOK
<1>1. IInv => TypeOK
  BY DEF IInv
<1> QED  BY <1>1, QueueInvariant, PTL

(* Whenever the mutex is free, firstPkt, lastPkt, the next pointers and
   nbPkts describe exactly the packets put and not yet got. *)
THEOREM QueueListShape == Spec => []ListShape
<1>1. IInv => ListShape
  <2> SUFFICES ASSUME IInv, mutex = NULL
               PROVE  /\ Chained
                      /\ lastPkt = IF order = <<>> THEN NULL ELSE order[Len(order)]
                      /\ nbPkts = Len(order)
    BY DEF ListShape
  <2>1. \A t \in Threads : pc[t] \notin Critical
    BY QueueAssumption DEF IInv, Exclusion
  <2>2. Known = Len(order)
    BY <2>1 DEF Known, Critical, Threads
  <2>3. order = <<>> <=> Len(order) = 0
    BY DEF IInv, TypeOK
  <2> QED  BY <2>2, <2>3 DEF IInv, Pointers
<1> QED  BY <1>1, QueueInvariant, PTL

(* No pointer of the queue or of a call in progress outlives its node. *)
THEOREM QueueNoDanglingPointer == Spec => []NoDanglingPointer
<1>1. IInv => NoDanglingPointer
  <2> SUFFICES ASSUME IInv  PROVE NoDanglingPointer
    OBVIOUS
  <2> USE QueueAssumption DEF IInv, TypeOK
  <2>1. \A i \in 1..Len(order) : order[i] \notin free
    BY DEF Ownership
  <2>2. NULL \notin free
    OBVIOUS
  <2>3. firstPkt \notin free
    BY <2>1, <2>2 DEF Pointers, Chained
  <2>4. lastPkt \notin free
    <3>1. Len(order) \in Nat /\ (order # <<>> => Len(order) # 0)
      OBVIOUS
    <3>2. Known \in 0..Len(order)
      BY <3>1 DEF Pointers, Known
    <3> QED  BY <3>2, <2>1, <2>2 DEF Pointers
  <2>5. ASSUME NEW t \in Threads, node[t] # NULL
        PROVE  node[t] \notin free
    <3>1. Holding(t) \/ (t \in Putters /\ pc[t] = "tail") \/ (t \in Getters /\ pc[t] = "unlink")
      BY <2>5 DEF Pointers, Threads, PutterPC, GetterPC
    <3>2. CASE Holding(t)
      BY <3>2 DEF Ownership
    <3>3. CASE ~Holding(t)
      BY <3>1, <3>3, <2>1 DEF Pointers
    <3> QED  BY <3>2, <3>3
  <2> QED  BY <2>2, <2>3, <2>4, <2>5 DEF NoDanglingPointer
<1> QED  BY <1>1, QueueInvariant, PTL

-----------------------------------------------------------------------------
(* The refinement: a put is linked as the abstract Put of its packet, a
   failed put is a Lose, an unlinking is a Get, every other step stutters. *)
LEMMA SilentStep ==
    ASSUME IInv, UNCHANGED <<unsent, delivered, order, pkt>>,
           \A u \in Threads : Holding(u)' <=> Holding(u),
           \A u \in Threads : Holding(u) => node'[u] = node[u]
    PROVE  UNCHANGED Fifo!fifoVars
<1>1. Queued' = Queued
  BY DEF Queued
<1>2. Undelivered' = Undelivered
  BY DEF Undelivered
<1> QED  BY <1>1, <1>2 DEF Fifo!fifoVars

LEMMA PutAllocSilent ==
    ASSUME NEW t \in Putters, IInv, PutAlloc(t)
    PROVE  UNCHANGED Fifo!fifoVars
<1> USE QueueAssumption DEF PutAlloc, Move, IInv, TypeOK, Threads
<1>1. PICK p \in unsent, n \in free :
          /\ unsent' = unsent \ {p}
          /\ pkt' = [pkt EXCEPT ![n] = p]
          /\ node' = [node EXCEPT ![t] = n]
  OBVIOUS
<1>2. /\ Holding(t)' /\ ~Holding(t) /\ pkt'[node'[t]] = p
      /\ \A u \in Threads \ {t} : Holding(u)' <=> Holding(u)
  BY <1>1 DEF Holding
<1>3. \A u \in Threads : Holding(u) => pkt'[node'[u]] = pkt[node[u]]
  BY <1>1, <1>2 DEF Ownership
<1>4. Undelivered' = Undelivered
  BY <1>1, <1>2, <1>3, SMTT(30) DEF Undelivered
<1>5. \A i \in 1..Len(order) : pkt'[order[i]] = pkt[order[i]]
  BY <1>1 DEF Ownership
<1>6. Queued' = Queued
  BY <1>5 DEF Queued, list
<1> QED  BY <1>4, <1>6 DEF Fifo!fifoVars, traffic

LEMMA PutFailLoses ==
    ASSUME NEW t \in Putters, IInv, PutFail(t)
    PROVE  \E p \in Packets : Fifo!Lose(p)
<1> USE DEF PutFail, IInv, TypeOK, list, memory
<1>1. PICK p \in unsent : unsent' = unsent \ {p}
  OBVIOUS
<1>2. \A u \in Threads : Holding(u) => pkt[node[u]] # p
  BY DEF Ownership
<1>3. Undelivered' = Undelivered \ {p}
  BY <1>1, <1>2 DEF Undelivered, Holding
<1>4. Queued' = Queued
  BY DEF Queued
<1> QED  BY <1>1, <1>3, <1>4 DEF Fifo!Lose, Undelivered

LEMMA PutLinkPuts ==
    ASSUME NEW t \in Putters, IInv, PutLink(t)
    PROVE  \E p \in Packets : Fifo!Put(p)
<1> USE QueueAssumption DEF PutLink, Move, IInv, TypeOK, Threads, memory, traffic
<1> DEFINE p == pkt[node[t]]
<1>1. /\ Holding(t) /\ ~Holding(t)' /\ p \in Packets
      /\ \A u \in Threads \ {t} : Holding(u)' <=> Holding(u)
  BY DEF Holding, Ownership
<1>2. /\ p \notin unsent
      /\ \A u \in Threads \ {t} : Holding(u) => pkt[node[u]] # p
  BY <1>1 DEF Ownership
<1>3. Undelivered' = Undelivered \ {p}
  BY <1>1, <1>2 DEF Undelivered
<1>4. p \in Undelivered
  BY <1>1 DEF Undelivered
<1>5. /\ order' = Append(order, node[t]) /\ order \in Seq(Nodes) /\ node[t] \in Nodes
      /\ \A i \in 1..Len(order) : pkt[order[i]] \in Packets
  BY <1>1 DEF Ownership
<1>6. Queued' = Append(Queued, p)
  <2>1. Queued \in Seq(Packets) /\ Len(Queued) = Len(order)
    BY <1>5 DEF Queued
  <2>2. Append(Queued, p) \in Seq(Packets) /\ Len(Append(Queued, p)) = Len(order) + 1
    BY <2>1, <1>1
  <2>3. Queued' \in Seq(Packets) /\ Len(Queued') = Len(order) + 1
    BY <1>5, <1>1 DEF Queued
  <2>4. \A i \in 1..Len(order) + 1 : Queued'[i] = Append(Queued, p)[i]
    BY <1>5, <2>1 DEF Queued
  <2> QED  BY <2>2, <2>3, <2>4
<1> QED  BY <1>1, <1>3, <1>4, <1>6 DEF Fifo!Put

LEMMA GetUnlinkGets ==
    ASSUME NEW t \in Getters, IInv, GetUnlink(t)
    PROVE  Fifo!Get
<1> USE QueueAssumption DEF GetUnlink, Move, IInv, TypeOK, Threads
<1>1. /\ order \in Seq(Nodes) /\ order # <<>> /\ node[t] = order[1]
      /\ \A i \in 1..Len(order) : pkt[order[i]] \in Packets
  BY DEF Pointers, Ownership
<1>2. Undelivered' = Undelivered
  <2>1. ~Holding(t) /\ ~Holding(t)'
    BY DEF Holding
  <2>2. \A u \in Threads \ {t} : (Holding(u)' <=> Holding(u)) /\ node'[u] = node[u]
    BY DEF Holding
  <2> QED  BY <2>1, <2>2 DEF Undelivered
<1>3. Queued \in Seq(Packets) /\ Len(Queued) = Len(order) /\ Queued # <<>>
  BY <1>1 DEF Queued
<1>4. Head(Queued) = pkt[node[t]]
  BY <1>1, <1>3 DEF Queued
<1>5. Queued' = Tail(Queued)
  <2>1. order' = Tail(order) /\ order' \in Seq(Nodes) /\ Len(order') = Len(order) - 1
    BY <1>1
  <2>2. Tail(Queued) \in Seq(Packets) /\ Len(Tail(Queued)) = Len(order) - 1
    BY <1>3
  <2>3. \A i \in 1..Len(order) - 1 : Tail(Queued)[i] = pkt[order[i + 1]] /\ order'[i] = order[i + 1]
    BY <1>1, <1>3, <2>1 DEF Queued
  <2>4. Queued' \in Seq(Packets) /\ Len(Queued') = Len(order) - 1
    BY <1>1, <2>1, <2>3 DEF Queued
  <2>5. \A i \in 1..Len(order) - 1 : Queued'[i] = Tail(Queued)[i]
    BY <2>1, <2>3 DEF Queued
  <2> QED  BY <2>2, <2>4, <2>5
<1> QED  BY <1>2, <1>3, <1>4, <1>5 DEF Fifo!Get

LEMMA NextRefines == IInv /\ [Next]_vars => [Fifo!Next]_Fifo!fifoVars
<1> SUFFICES ASSUME IInv, [Next]_vars  PROVE Fifo!Next \/ UNCHANGED Fifo!fifoVars
  OBVIOUS
<1> USE QueueAssumption DEF Move, Lock, list, memory, locks, traffic, vars
<1>1. CASE UNCHANGED vars
  BY <1>1, SilentStep DEF Holding
<1>2. ASSUME NEW t \in Putters, PutAlloc(t)
      PROVE  UNCHANGED Fifo!fifoVars
  BY <1>2, PutAllocSilent
<1>3. ASSUME NEW t \in Putters, PutFail(t) \/ PutLink(t)
      PROVE  Fifo!Next
  BY <1>3, PutFailLoses, PutLinkPuts DEF Fifo!Next
<1>4. ASSUME NEW t \in Putters, PutLock(t) \/ PutTail(t) \/ PutSignal(t)
      PROVE  UNCHANGED Fifo!fifoVars
  <2>1. UNCHANGED <<unsent, delivered, order, pkt>>
    BY <1>4 DEF PutLock, PutTail, PutSignal
  <2>2. \A u \in Threads : Holding(u)' <=> Holding(u)
    <3>1. CASE PutLock(t)
      BY <3>1 DEF PutLock, Holding, IInv, TypeOK, Threads
    <3>2. CASE PutTail(t)
      BY <3>2 DEF PutTail, Holding, IInv, TypeOK, Threads
    <3>3. CASE PutSignal(t)
      <4>1. ASSUME NEW g \in waiting, pc' = [pc EXCEPT ![t] = "idle", ![g] = "lock"]
            PROVE  \A u \in Threads : Holding(u)' <=> Holding(u)
        BY <3>3, <4>1 DEF PutSignal, Holding, IInv, TypeOK, Threads
      <4>2. CASE pc' = [pc EXCEPT ![t] = "idle"]
        BY <3>3, <4>2 DEF PutSignal, Holding, IInv, TypeOK, Threads
      <4> QED  BY <3>3, <4>1, <4>2 DEF PutSignal
    <3> QED  BY <1>4, <3>1, <3>2, <3>3
  <2>3. \A u \in Threads : Holding(u) => node'[u] = node[u]
    BY <1>4 DEF PutLock, PutTail, PutSignal, Holding, IInv, TypeOK, Threads
  <2> QED  BY <2>1, <2>2, <2>3, SilentStep
<1>5. ASSUME NEW t \in Getters, GetUnlink(t)
      PROVE  Fifo!Next
  BY <1>5, GetUnlinkGets DEF Fifo!Next
<1>6. ASSUME NEW t \in Getters,
             GetCall(t) \/ GetSpurious(t) \/ GetLock(t) \/ GetEmpty(t) \/ GetPeek(t) \/ GetUnlock(t)
      PROVE  UNCHANGED Fifo!fifoVars
  <2> USE <1>6 DEF GetCall, GetSpurious, GetLock, GetEmpty, GetPeek, GetUnlock
  <2>1. UNCHANGED <<unsent, delivered, order, pkt>>
    OBVIOUS
  <2>2. t \notin Putters
    OBVIOUS
  <2>3. \A u \in Threads : Holding(u)' <=> Holding(u)
    BY <2>2 DEF Holding, IInv, TypeOK, Threads
  <2>4. \A u \in Threads : Holding(u) => node'[u] = node[u]
    BY <2>2 DEF Holding, IInv, TypeOK, Threads
  <2> QED  BY <2>1, <2>3, <2>4, SilentStep
<1> QED  BY <1>1, <1>2, <1>3, <1>4, <1>5, <1>6 DEF Next, PutStep, GetStep

(* Any number of threads using packet_queue.c see a FIFO: packets come out
   at most once and in the order in which they were linked. *)
THEOREM QueueImplementsFifo == Spec => ImplementsFifo
<1>1. Init => Fifo!Init
  <2> SUFFICES ASSUME Init  PROVE Fifo!Init
    OBVIOUS
  <2>1. Undelivered = Packets
    BY DEF Init, Undelivered, Holding, Threads
  <2>2. Queued = <<>>
    BY DEF Init, Queued
  <2> QED  BY <2>1, <2>2 DEF Init, Fifo!Init
<1>2. IInv /\ [Next]_vars => [Fifo!Next]_Fifo!fifoVars
  BY NextRefines
<1> QED  BY <1>1, <1>2, QueueInvariant, PTL DEF Spec, ImplementsFifo, Fifo!Spec
-----------------------------------------------------------------------------
(* A thread that is going to signal, or a getter that is going to look at the
   list, or has seen that it is not empty. *)
Attends(t) ==
    \/ t \in Putters /\ pc[t] \in {"tail", "signal"}
    \/ t \in Getters /\ pc[t] \in {"lock", "peek", "unlink"}

Attending == {t \in Threads : Attends(t)}

(* One signal wakes one getter: while some wait, each packet of the list has
   a thread that attends to it. *)
Attended ==
    /\ IsFiniteSet(Attending)
    /\ waiting # {} => Len(order) <= Cardinality(Attending)

(* No wakeup is lost: when a getter sleeps in pthread_cond_wait although the
   list has a packet, a thread is on its way to signal or to look. *)
NoLostWakeup == waiting # {} /\ order # <<>> => Attending # {}

LEMMA InitAttended == Init => Attended
<1> SUFFICES ASSUME Init  PROVE Attended
  OBVIOUS
<1>1. Attending = {}
  BY DEF Init, Attending, Attends, Threads
<1> QED  BY <1>1, FS_EmptySet DEF Init, Attended

(* One more thread attends. *)
LEMMA OneMore ==
    ASSUME IsFiniteSet(Attending), NEW u \in Threads, ~Attends(u),
           Attending' = Attending \cup {u}
    PROVE  /\ IsFiniteSet(Attending')
           /\ Cardinality(Attending') = Cardinality(Attending) + 1
           /\ Cardinality(Attending) \in Nat
<1>1. u \notin Attending
  BY DEF Attending
<1> QED  BY <1>1, FS_AddElement, FS_CardinalityType

(* One thread less attends. *)
LEMMA OneLess ==
    ASSUME IsFiniteSet(Attending), NEW u \in Threads, Attends(u),
           Attending' = Attending \ {u}
    PROVE  /\ IsFiniteSet(Attending')
           /\ Cardinality(Attending') = Cardinality(Attending) - 1
           /\ Cardinality(Attending) \in Nat
<1>1. u \in Attending
  BY DEF Attending
<1> QED  BY <1>1, FS_RemoveElement, FS_CardinalityType

LEMMA PutAttended ==
    ASSUME IInv, Attended, NEW t \in Putters, PutAlloc(t) \/ PutFail(t) \/ PutStep(t)
    PROVE  Attended'
<1> USE DEF IInv, TypeOK, Threads
<1>0. t \in Threads /\ t \notin Getters
  BY QueueAssumption
<1>1. CASE PutAlloc(t) \/ PutFail(t) \/ PutLock(t) \/ PutTail(t)
  <2>1. waiting' = waiting /\ order' = order
    BY <1>1 DEF PutAlloc, PutFail, PutLock, PutTail, Lock, list, locks, Move
  <2>2. \A u \in Threads : Attends(u)' <=> Attends(u)
    BY <1>0, <1>1 DEF PutAlloc, PutFail, PutLock, PutTail, Lock, Move, Attends
  <2>3. Attending' = Attending
    BY <2>2 DEF Attending
  <2> QED  BY <2>1, <2>3 DEF Attended
<1>2. CASE PutLink(t)
  <2>1. waiting' = waiting /\ Len(order') = Len(order) + 1 /\ Len(order) \in Nat
    BY <1>0, <1>2 DEF PutLink, locks, Ownership, Holding
  <2>2. ~Attends(t) /\ \A u \in Threads : Attends(u)' <=> (Attends(u) \/ u = t)
    BY <1>0, <1>2 DEF PutLink, Move, Attends
  <2>3. Attending' = Attending \cup {t}
    BY <1>0, <2>2 DEF Attending
  <2>4. /\ IsFiniteSet(Attending')
        /\ Cardinality(Attending') = Cardinality(Attending) + 1
        /\ Cardinality(Attending) \in Nat
    BY <1>0, <2>2, <2>3, OneMore DEF Attended
  <2> QED  BY <2>1, <2>4 DEF Attended
<1>3. CASE PutSignal(t)
  <2>1. order' = order /\ Attends(t)
    BY <1>0, <1>3 DEF PutSignal, list, Attends
  <2>2. CASE waiting = {} /\ Move(t, "idle") /\ UNCHANGED waiting
    <3>1. \A u \in Threads : Attends(u)' <=> (Attends(u) /\ u # t)
      BY <1>0, <2>2 DEF Move, Attends
    <3>2. Attending' = Attending \ {t}
      BY <3>1 DEF Attending
    <3> QED  BY <1>0, <2>1, <2>2, <3>2, OneLess DEF Attended
  <2>3. ASSUME NEW g \in waiting, waiting' = waiting \ {g},
               pc' = [pc EXCEPT ![t] = "idle", ![g] = "lock"]
        PROVE  Attended'
    <3>1. g \in Getters /\ g # t /\ pc[g] = "wait"
      BY <1>0, <2>3 DEF Exclusion
    <3>2. ~Attends(g)
      BY <3>1, <1>0, QueueAssumption DEF Attends
    <3>3. \A u \in Threads : Attends(u)' <=> (u = g \/ (Attends(u) /\ u # t))
      BY <1>0, <2>3, <3>1, QueueAssumption DEF Attends
    <3>4. Attending' = (Attending \ {t}) \cup {g}
      BY <1>0, <3>1, <3>3 DEF Attending
    <3>5. t \in Attending /\ g \notin Attending
      BY <1>0, <2>1, <3>2 DEF Attending
    <3>6. /\ IsFiniteSet(Attending \ {t})
          /\ Cardinality(Attending \ {t}) = Cardinality(Attending) - 1
          /\ Cardinality(Attending) \in Nat
      BY <3>5, FS_RemoveElement, FS_CardinalityType DEF Attended
    <3>7. /\ IsFiniteSet(Attending')
          /\ Cardinality(Attending') = Cardinality(Attending)
      <4> DEFINE Others == Attending \ {t}
      <4>1. g \notin Others /\ Attending' = Others \cup {g}
        BY <3>4, <3>5
      <4>2. IsFiniteSet(Others) /\ Cardinality(Others) = Cardinality(Attending) - 1
        BY <3>6
      <4> HIDE DEF Others
      <4>3. IsFiniteSet(Others \cup {g}) /\ Cardinality(Others \cup {g}) = Cardinality(Others) + 1
        BY <4>1, <4>2, FS_AddElement
      <4> QED  BY <3>6, <4>1, <4>2, <4>3
    <3> QED  BY <2>1, <2>3, <3>7 DEF Attended
  <2> QED  BY <1>3, <2>2, <2>3 DEF PutSignal
<1> QED  BY <1>1, <1>2, <1>3 DEF PutStep

LEMMA GetAttended ==
    ASSUME IInv, Attended, NEW t \in Getters, GetCall(t) \/ GetSpurious(t) \/ GetStep(t)
    PROVE  Attended'
<1> USE DEF IInv, TypeOK, Threads
<1>0. t \in Threads /\ t \notin Putters
  BY QueueAssumption
<1>1. CASE GetLock(t) \/ GetPeek(t) \/ GetUnlock(t)
  <2>1. waiting' = waiting /\ order' = order
    BY <1>1 DEF GetLock, GetPeek, GetUnlock, Lock, list, locks, Move
  <2>2. \A u \in Threads : Attends(u)' <=> Attends(u)
    BY <1>0, <1>1 DEF GetLock, GetPeek, GetUnlock, Lock, Move, Attends
  <2>3. Attending' = Attending
    BY <2>2 DEF Attending
  <2> QED  BY <2>1, <2>3 DEF Attended
<1>2. CASE GetCall(t) \/ GetSpurious(t)
  <2>1. order' = order /\ Len(order) \in Nat /\ (waiting' = {} \/ waiting # {})
    BY <1>2 DEF GetCall, GetSpurious, list, locks
  <2>2. pc[t] \in {"idle", "wait"} /\ Move(t, "lock")
    BY <1>2 DEF GetCall, GetSpurious, Exclusion
  <2>3. ~Attends(t) /\ \A u \in Threads : Attends(u)' <=> (Attends(u) \/ u = t)
    BY <1>0, <2>2 DEF Move, Attends
  <2>4. Attending' = Attending \cup {t}
    BY <1>0, <2>3 DEF Attending
  <2>5. /\ IsFiniteSet(Attending')
        /\ Cardinality(Attending') = Cardinality(Attending) + 1
        /\ Cardinality(Attending) \in Nat
    BY <1>0, <2>3, <2>4, OneMore DEF Attended
  <2> QED  BY <2>1, <2>5 DEF Attended
<1>3. CASE GetEmpty(t) \/ GetUnlink(t)
  <2>1. Attends(t)
    BY <1>0, <1>3 DEF GetEmpty, GetUnlink, Attends
  <2>2. \A u \in Threads : Attends(u)' <=> (Attends(u) /\ u # t)
    BY <1>0, <1>3 DEF GetEmpty, GetUnlink, Move, Attends
  <2>3. Attending' = Attending \ {t}
    BY <2>2 DEF Attending
  <2>4. /\ IsFiniteSet(Attending')
        /\ Cardinality(Attending') = Cardinality(Attending) - 1
        /\ Cardinality(Attending) \in Nat
    BY <1>0, <2>1, <2>3, OneLess DEF Attended
  <2>5. Cardinality(Attending') \in Nat
    BY <2>4, FS_CardinalityType
  <2>6. CASE GetEmpty(t)
    <3>1. order = <<>> /\ order' = order
      BY <2>6, QueueAssumption DEF GetEmpty, list, Pointers, Chained
    <3> QED  BY <2>4, <2>5, <3>1 DEF Attended
  <2>7. CASE GetUnlink(t)
    <3>1. /\ waiting' = waiting /\ order # <<>> /\ order' = Tail(order)
          /\ Len(order) \in Nat
      BY <2>7 DEF GetUnlink, locks, Pointers
    <3>2. Len(order') = Len(order) - 1
      BY <3>1
    <3> QED  BY <2>4, <3>1, <3>2 DEF Attended
  <2> QED  BY <1>3, <2>6, <2>7
<1> QED  BY <1>1, <1>2, <1>3 DEF GetStep

LEMMA NextAttended == IInv /\ Attended /\ [Next]_vars => Attended'
<1> SUFFICES ASSUME IInv, Attended, [Next]_vars  PROVE Attended'
  OBVIOUS
<1>1. CASE Next
  BY <1>1, PutAttended, GetAttended DEF Next
<1>2. CASE UNCHANGED vars
  <2>1. Attending' = Attending
    BY <1>2 DEF vars, Attending, Attends
  <2> QED  BY <1>2, <2>1 DEF vars, list, locks, Attended
<1> QED  BY <1>1, <1>2

(* Whoever puts and gets, and however many do: a getter of packet_queue.c
   never sleeps on a packet that nobody is going to tell it of. *)
THEOREM QueueNoLostWakeup == Spec => []NoLostWakeup
<1>1. IInv /\ Attended => NoLostWakeup
  <2> SUFFICES ASSUME IInv, Attended, waiting # {}, order # <<>>, Attending = {}
               PROVE  FALSE
    BY DEF NoLostWakeup
  <2>1. Len(order) \in Nat /\ Len(order) # 0
    BY DEF IInv, TypeOK
  <2>2. Cardinality(Attending) = 0
    BY FS_EmptySet
  <2> QED  BY <2>1, <2>2 DEF Attended
<1> QED  BY <1>1, InitAttended, NextAttended, QueueInvariant, PTL DEF Spec
=============================================================================
