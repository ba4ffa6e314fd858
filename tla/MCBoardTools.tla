---------------------------- MODULE MCBoardTools ----------------------------
(***************************************************************************)
(* One tool at a time, so that the state of the others rests.  A day of    *)
(* five seconds, and more than two days of them.  Three rates show a       *)
(* change away from the first one, between two others, and back to it.     *)
(***************************************************************************)
EXTENDS ClockTools, LineTools

CONSTANTS valid, other, invalid

MCAddresses == {valid, other, invalid}
MCRejected  == {invalid}
MCTimeouts  == 1..5
MCRates     == <<96, 192, 1152>>

ClockIdle ==
    /\ ClockRest /\ prompt = FALSE
    /\ clock = 0 /\ given = 0 /\ timeout = 0 /\ pause = 0 /\ times = 0

LineIdle == LineRest /\ rate = FirstRate /\ asked = <<>> /\ patient = FALSE

MCInit ==
    /\ mayFail \in BOOLEAN
    /\ \/ ClockInit /\ LineIdle
       \/ ClockIdle /\ LineInit

MCNext ==
    \/ ClockNext /\ UNCHANGED lineVars
    \/ LineNext /\ UNCHANGED clockVars

MCSpec == MCInit /\ [][MCNext]_<<tool, place, mayFail, clockVars, lineVars>>
=============================================================================
