----------------------------- MODULE BoardTool -----------------------------
(***************************************************************************)
(* What the small tools of the board have in common: one process that goes *)
(* from call to call, any of which may fail, and then returns from main.   *)
(***************************************************************************)
VARIABLES tool, place,   \* the tool that runs, and where it is
          mayFail        \* calls may fail

At(t, here) == tool = t /\ place = here

Go(there) == place' = there

(* A call that is looked at fails, and main returns. *)
Fails(t, places) == mayFail /\ tool = t /\ place \in places /\ Go("failed")

Over == place \in {"done", "failed", "refused", "reset"}
=============================================================================
