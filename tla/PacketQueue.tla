---------------------------- MODULE PacketQueue ----------------------------
(***************************************************************************)
(* ffmpeg_media_player/packet_queue.c: a singly linked list of packets     *)
(* guarded by a mutex, with a condition variable for the getters.          *)
(*                                                                         *)
(* The list is modelled pointer by pointer.  A critical section takes      *)
(* several steps, so that what the mutex protects is visible, and a node   *)
(* that is freed can be handed out again by the next allocation, so that   *)
(* a pointer left behind dangles.  `order` is a ghost: the nodes in the    *)
(* list, oldest first, as the puts and gets say they should be.            *)
(***************************************************************************)
EXTENDS Naturals, Sequences

CONSTANTS Putters,   \* threads that call packet_queue_put
          Getters,   \* threads that call packet_queue_get
          Nodes,     \* addresses av_malloc can return for an AVPacketList
          Packets,   \* the packets the putters ever hold
          NULL

Threads == Putters \cup Getters

ASSUME QueueAssumption ==
    /\ Putters \cap Getters = {}
    /\ NULL \notin Nodes \cup Threads \cup Packets

VARIABLES firstPkt, lastPkt, nbPkts,   \* the fields of the PacketQueue
          next, pkt,                   \* the fields of each AVPacketList node
          free,                        \* nodes that are not allocated
          mutex, waiting,              \* who owns the mutex, who is in pthread_cond_wait
          pc, node,                    \* each thread's place and its local pkt_list
          block,                       \* the getters' last parameter
          unsent, delivered,           \* packets not yet put, packets handed out
          order                        \* ghost: the nodes of the list in order

list    == <<firstPkt, lastPkt, nbPkts, next, order>>
memory  == <<pkt, free>>
locks   == <<mutex, waiting>>
traffic == <<unsent, delivered>>
vars    == <<list, memory, locks, pc, node, block, traffic>>

PutterPC == {"idle", "lock", "link", "tail", "signal"}
GetterPC == {"idle", "lock", "peek", "unlink", "wait", "unlock"}
Critical == {"link", "tail", "signal", "peek", "unlink", "unlock"}

Move(t, there) == pc' = [pc EXCEPT ![t] = there]

Init ==
    /\ firstPkt = NULL /\ lastPkt = NULL /\ nbPkts = 0
    /\ next = [n \in Nodes |-> NULL]
    /\ pkt = [n \in Nodes |-> NULL]
    /\ free = Nodes
    /\ mutex = NULL /\ waiting = {}
    /\ pc = [t \in Threads |-> "idle"]
    /\ node = [t \in Threads |-> NULL]
    /\ block = [t \in Getters |-> TRUE]
    /\ unsent = Packets /\ delivered = <<>>
    /\ order = <<>>

-----------------------------------------------------------------------------
(* Faulty variants of the actions below: each is a slip that the properties
   at the end of this module must catch. *)

(* the mutex is taken although another thread owns it *)
LockIgnoringOwner(t, there) ==
    /\ pc[t] = "lock"
    /\ mutex' = t
    /\ Move(t, there)
    /\ UNCHANGED <<list, memory, waiting, node, block, traffic>>

(* a new node goes to the front of the list *)
PutLinkFront(t) ==
    /\ pc[t] = "link"
    /\ firstPkt' = node[t]
    /\ next' = [next EXCEPT ![node[t]] = firstPkt]
    /\ order' = Append(order, node[t])
    /\ Move(t, "tail")
    /\ UNCHANGED <<lastPkt, nbPkts, memory, locks, node, block, traffic>>

(* nobody is woken *)
PutSignalNobody(t) ==
    /\ pc[t] = "signal"
    /\ mutex' = NULL
    /\ Move(t, "idle")
    /\ UNCHANGED <<list, memory, waiting, node, block, traffic>>

(* lastPkt is not reset when the list becomes empty *)
GetUnlinkKeepTail(t) ==
    /\ pc[t] = "unlink"
    /\ firstPkt' = next[firstPkt]
    /\ nbPkts' = nbPkts - 1
    /\ delivered' = Append(delivered, pkt[node[t]])
    /\ free' = free \cup {node[t]}
    /\ node' = [node EXCEPT ![t] = NULL]
    /\ order' = Tail(order)
    /\ Move(t, "unlock")
    /\ UNCHANGED <<lastPkt, next, pkt, locks, block, unsent>>

-----------------------------------------------------------------------------
(* pthread_mutex_lock, by a thread about to do what stands at `there` *)
Lock(t, there) ==
    /\ pc[t] = "lock"
    /\ mutex = NULL
    /\ mutex' = t
    /\ Move(t, there)
    /\ UNCHANGED <<list, memory, waiting, node, block, traffic>>

(* The packet is referenced and a list node is allocated for it. *)
PutAlloc(t) ==
    /\ pc[t] = "idle"
    /\ \E p \in unsent, n \in free :
          /\ unsent' = unsent \ {p}
          /\ free' = free \ {n}
          /\ pkt' = [pkt EXCEPT ![n] = p]
          /\ next' = [next EXCEPT ![n] = NULL]
          /\ node' = [node EXCEPT ![t] = n]
    /\ Move(t, "lock")
    /\ UNCHANGED <<firstPkt, lastPkt, nbPkts, order, locks, block, delivered>>

(* av_packet_ref or av_malloc fails: -1, and the queue is not touched. *)
PutFail(t) ==
    /\ pc[t] = "idle"
    /\ \E p \in unsent : unsent' = unsent \ {p}
    /\ UNCHANGED <<list, memory, locks, pc, node, block, delivered>>

PutLock(t) == Lock(t, "link")

(* The new node becomes the first one or the successor of the last one. *)
PutLink(t) ==
    /\ pc[t] = "link"
    /\ IF lastPkt = NULL
       THEN firstPkt' = node[t] /\ UNCHANGED next
       ELSE next' = [next EXCEPT ![lastPkt] = node[t]] /\ UNCHANGED firstPkt
    /\ order' = Append(order, node[t])
    /\ Move(t, "tail")
    /\ UNCHANGED <<lastPkt, nbPkts, memory, locks, node, block, traffic>>

PutTail(t) ==
    /\ pc[t] = "tail"
    /\ lastPkt' = node[t]
    /\ nbPkts' = nbPkts + 1
    /\ node' = [node EXCEPT ![t] = NULL]
    /\ Move(t, "signal")
    /\ UNCHANGED <<firstPkt, next, order, memory, locks, block, traffic>>

(* One getter that waits, if there is one, has to take the mutex again;
   then the mutex is released. *)
PutSignal(t) ==
    /\ pc[t] = "signal"
    /\ IF waiting = {}
       THEN Move(t, "idle") /\ UNCHANGED waiting
       ELSE \E g \in waiting :
               /\ waiting' = waiting \ {g}
               /\ pc' = [pc EXCEPT ![t] = "idle", ![g] = "lock"]
    /\ mutex' = NULL
    /\ UNCHANGED <<list, memory, node, block, traffic>>

-----------------------------------------------------------------------------
GetCall(t) ==
    /\ pc[t] = "idle"
    /\ \E b \in BOOLEAN : block' = [block EXCEPT ![t] = b]
    /\ Move(t, "lock")
    /\ UNCHANGED <<list, memory, locks, node, traffic>>

GetLock(t) == Lock(t, "peek")

(* The list is empty: return 0, or wait for a signal without the mutex. *)
GetEmpty(t) ==
    /\ pc[t] = "peek"
    /\ firstPkt = NULL
    /\ IF block[t]
       THEN Move(t, "wait") /\ waiting' = waiting \cup {t} /\ mutex' = NULL
       ELSE Move(t, "unlock") /\ UNCHANGED locks
    /\ UNCHANGED <<list, memory, node, block, traffic>>

(* pthread_cond_wait may return without a signal; the loop looks again. *)
GetSpurious(t) ==
    /\ t \in waiting
    /\ waiting' = waiting \ {t}
    /\ Move(t, "lock")
    /\ UNCHANGED <<list, memory, mutex, node, block, traffic>>

GetPeek(t) ==
    /\ pc[t] = "peek"
    /\ firstPkt # NULL
    /\ node' = [node EXCEPT ![t] = firstPkt]
    /\ Move(t, "unlink")
    /\ UNCHANGED <<list, memory, locks, block, traffic>>

(* The first node leaves the list, its packet is copied out, it is freed. *)
GetUnlink(t) ==
    /\ pc[t] = "unlink"
    /\ firstPkt' = next[firstPkt]
    /\ lastPkt' = IF next[firstPkt] = NULL THEN NULL ELSE lastPkt
    /\ nbPkts' = nbPkts - 1
    /\ delivered' = Append(delivered, pkt[node[t]])
    /\ free' = free \cup {node[t]}
    /\ node' = [node EXCEPT ![t] = NULL]
    /\ order' = Tail(order)
    /\ Move(t, "unlock")
    /\ UNCHANGED <<next, pkt, locks, block, unsent>>

GetUnlock(t) ==
    /\ pc[t] = "unlock"
    /\ mutex' = NULL
    /\ Move(t, "idle")
    /\ UNCHANGED <<list, memory, waiting, node, block, traffic>>

-----------------------------------------------------------------------------
PutStep(t) == PutLock(t) \/ PutLink(t) \/ PutTail(t) \/ PutSignal(t)

GetStep(t) == GetLock(t) \/ GetEmpty(t) \/ GetPeek(t) \/ GetUnlink(t) \/ GetUnlock(t)

Next ==
    \/ \E t \in Putters : PutAlloc(t) \/ PutFail(t) \/ PutStep(t)
    \/ \E t \in Getters : GetCall(t) \/ GetSpurious(t) \/ GetStep(t)

(* A thread inside a call is scheduled as long as it can move.  Whether it
   calls at all, whether a wait ends without a signal, and who gets a mutex
   that several threads want, is not assumed. *)
Fairness ==
    /\ \A t \in Putters : WF_vars(PutStep(t))
    /\ \A t \in Getters : WF_vars(GetStep(t))

Spec == Init /\ [][Next]_vars /\ Fairness
-----------------------------------------------------------------------------
(* Every variable has its type, whatever the threads' interleaving in
   packet_queue_put and packet_queue_get. *)
TypeOK ==
    /\ firstPkt \in Nodes \cup {NULL}
    /\ lastPkt \in Nodes \cup {NULL}
    /\ nbPkts \in Nat
    /\ next \in [Nodes -> Nodes \cup {NULL}]
    /\ pkt \in [Nodes -> Packets \cup {NULL}]
    /\ free \in SUBSET Nodes
    /\ mutex \in Threads \cup {NULL}
    /\ waiting \in SUBSET Getters
    /\ pc \in [Threads -> PutterPC \cup GetterPC]
    /\ \A t \in Putters : pc[t] \in PutterPC
    /\ \A t \in Getters : pc[t] \in GetterPC
    /\ node \in [Threads -> Nodes \cup {NULL}]
    /\ block \in [Getters -> BOOLEAN]
    /\ unsent \in SUBSET Packets
    /\ delivered \in Seq(Packets)
    /\ order \in Seq(Nodes)

(* The chain from firstPkt spells the queued nodes in order and ends there. *)
Chained ==
    /\ firstPkt = IF order = <<>> THEN NULL ELSE order[1]
    /\ \A i \in DOMAIN order :
          next[order[i]] = IF i = Len(order) THEN NULL ELSE order[i + 1]

(* Whoever gets the mutex finds a well-formed list: the pointers agree with
   the puts and gets made so far, and nbPkts, which the player's threads
   read without the mutex to decide whether to call at all, is its length. *)
ListShape ==
    mutex = NULL =>
        /\ Chained
        /\ lastPkt = IF order = <<>> THEN NULL ELSE order[Len(order)]
        /\ nbPkts = Len(order)

(* No thread follows or keeps a pointer to a node that has been freed:
   neither the two ends of the list, nor the node a call is working on. *)
NoDanglingPointer ==
    /\ firstPkt \notin free
    /\ lastPkt \notin free
    /\ \A t \in Threads : node[t] \notin free

(* A getter blocked in packet_queue_get does not sleep on a packet: once one
   is queued, the signal of the put wakes it. *)
GetterServed ==
    \A t \in Getters : (t \in waiting /\ order # <<>>) ~> (t \notin waiting)

(* The queue implements PacketFifo.  A packet leaves the abstract `unsent`
   when its node is linked, an abstract Get is the unlinking. *)
Holding(t) == t \in Putters /\ pc[t] \in {"lock", "link"}

Undelivered == unsent \cup {pkt[node[t]] : t \in {u \in Threads : Holding(u)}}

Queued == [i \in 1..Len(order) |-> pkt[order[i]]]

Fifo == INSTANCE PacketFifo WITH unsent <- Undelivered, fifo <- Queued

ImplementsFifo == Fifo!Spec
=============================================================================
