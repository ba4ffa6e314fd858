----------------------------- MODULE PacketFifo -----------------------------
(***************************************************************************)
(* What the media player relies on when it hands packets from one thread   *)
(* to another: every packet that is queued is delivered at most once, in   *)
(* the order of the puts; a put may fail, and then its packet is lost and  *)
(* nothing else changes.  PacketQueue implements this specification.       *)
(***************************************************************************)
EXTENDS Sequences

CONSTANT Packets    \* the packets the putters ever hold

VARIABLES unsent,     \* packets not yet queued
          fifo,       \* queued packets, oldest first
          delivered   \* packets handed out, in order

fifoVars == <<unsent, fifo, delivered>>

Init ==
    /\ unsent = Packets
    /\ fifo = <<>>
    /\ delivered = <<>>

Put(p) ==
    /\ p \in unsent
    /\ unsent' = unsent \ {p}
    /\ fifo' = Append(fifo, p)
    /\ UNCHANGED delivered

Lose(p) ==
    /\ p \in unsent
    /\ unsent' = unsent \ {p}
    /\ UNCHANGED <<fifo, delivered>>

Get ==
    /\ fifo # <<>>
    /\ delivered' = Append(delivered, Head(fifo))
    /\ fifo' = Tail(fifo)
    /\ UNCHANGED unsent

Next == (\E p \in Packets : Put(p) \/ Lose(p)) \/ Get

Spec == Init /\ [][Next]_fifoVars
=============================================================================
