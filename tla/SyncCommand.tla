---------------------------- MODULE SyncCommand -----------------------------
(***************************************************************************)
(* What CommandExecutor::execute() promises its caller                     *)
(* (src/applib/command_executor.h), without its loop, its child, its       *)
(* signals and its pipes: a call is either declined, or fails to start, or *)
(* runs and comes back; every call that was not declined is announced to   *)
(* the execution log exactly once.                                         *)
(***************************************************************************)
EXTENDS Naturals

VARIABLES
    phase,      \* "idle", "asked", "running" or "stopping"
    result,     \* how the last call ended
    announced   \* emissions of cmdex_sync_signal_execute_finish()

vars == <<phase, result, announced>>

Init == phase = "idle" /\ result = "none" /\ announced = 0

Call == phase = "idle" /\ phase' = "asked" /\ result' = "none" /\ UNCHANGED announced

\* false, without an error message: the tick handler said no.
Decline ==
    /\ phase = "asked" /\ phase' = "idle"
    /\ result' = "declined"
    /\ UNCHANGED announced

\* false, with an error message: the command could not be started.
FailToStart ==
    /\ phase = "asked" /\ phase' = "idle"
    /\ result' = "failed"
    /\ announced' = announced + 1

Start == phase = "asked" /\ phase' = "running" /\ UNCHANGED <<result, announced>>

RequestStop == phase = "running" /\ phase' = "stopping" /\ UNCHANGED <<result, announced>>

\* true; "if the command _was_ executed, but there was an error, this will return
\* true. Check get_error_msg() for emptiness".
Return ==
    /\ phase \in {"running", "stopping"} /\ phase' = "idle"
    /\ result' \in {"ok", "error"}
    /\ announced' = announced + 1

Next == Call \/ Decline \/ FailToStart \/ Start \/ RequestStop \/ Return

Spec == Init /\ [][Next]_vars
=============================================================================
