-------------------------- MODULE CommandExecutor ---------------------------
(***************************************************************************)
(* The synchronous executor of src/applib/command_executor.{h,cpp} with    *)
(* the error filters of its subclasses in smartctl_executor.h,             *)
(* command_executor_3ware.h and command_executor_areca.h.  It owns one     *)
(* AsyncCommandExecutor, starts it and polls it in a loop that pumps the   *)
(* GLib main context, asking a tick handler whether to go on.              *)
(*                                                                         *)
(* pc is the control point of execute(); GLib's callbacks are dispatched   *)
(* only where the code lets the main context iterate.                      *)
(***************************************************************************)
EXTENDS AsyncCommandExecutor

CONSTANTS
    Flavor,         \* class of the object: "plain", "smartctl" or "cli" (tw_cli, areca cli)
    SlotConnected   \* signal_execute_tick() has a slot

ASSUME FlavorAssumption == Flavor \in {"plain", "smartctl", "cli"}
ASSUME SlotAssumption == SlotConnected \in BOOLEAN

VARIABLES
    pc,             \* where execute() is
    stopRequested,  \* stop_requested of execute()
    signalsSent,    \* signals_sent of execute()
    errorMsg,       \* error_msg_: <<>> if empty, else the error it was made from
    returned,       \* what the last execute() returned: "none", "false" or "true"
    announced       \* emissions of cmdex_sync_signal_execute_finish()

loopVars == <<pc, stopRequested, signalsSent, errorMsg, returned, announced>>
allVars == <<vars, loopVars>>

-----------------------------------------------------------------------------
(* import_error() and on_error_warn(): the last error that matters.        *)

Relevant(e) == Flavor = "plain" \/ e.type # "giochannel"

\* smartctl's exit codes are results, not failures, unless exit_cant_parse is set;
\* the translators of the RAID tools give every exit code an empty message.
HasMessage(e) ==
    e.type = "exit" => \/ Flavor = "plain"
                       \/ Flavor = "smartctl" /\ e.code % 2 = 1

\* Mutation: the search runs from the front of the list.
FirstRelevant == {i \in DOMAIN errors : /\ Relevant(errors[i])
                                        /\ \A j \in DOMAIN errors : Relevant(errors[j]) => i <= j}

LastRelevant == {i \in DOMAIN errors : /\ Relevant(errors[i])
                                       /\ \A j \in DOMAIN errors : Relevant(errors[j]) => j <= i}

Imported == {errors[i] : i \in {k \in LastRelevant : HasMessage(errors[k])}}

ImportError ==
    /\ errorMsg' = IF Imported = {} THEN errorMsg ELSE <<CHOOSE e \in Imported : TRUE>>
    /\ errors' = <<>>
    /\ UNCHANGED <<running, childWatchCalled, pid, waitStatus, killSignalSent, sourceSet,
                   chanOpen, str, glibVars, childVars, historyVars>>

-----------------------------------------------------------------------------
(* The steps of execute().                                                 *)

Call ==
    /\ pc = "idle" /\ runs < MaxRuns
    /\ pc' = IF SlotConnected THEN "starting" ELSE "spawn"
    /\ errorMsg' = <<>>
    /\ stopRequested' = FALSE /\ signalsSent' = FALSE
    /\ returned' = "none"
    /\ UNCHANGED <<vars, announced>>

\* The handler answers TickStatus::Starting.
TickStarting ==
    /\ pc = "starting"
    /\ \/ pc' = "spawn" /\ UNCHANGED returned
       \/ pc' = "idle" /\ returned' = "false"
    /\ UNCHANGED <<vars, stopRequested, signalsSent, errorMsg, announced>>

Spawn ==
    /\ pc = "spawn"
    /\ \/ Execute /\ pc' = "loop"
       \/ ExecuteSpawnFails /\ pc' = "failed"
    /\ UNCHANGED <<stopRequested, signalsSent, errorMsg, returned, announced>>

\* Mutation: a command that did not start is not logged.
ReportFailureSilently ==
    /\ pc = "failed" /\ pc' = "idle"
    /\ ImportError
    /\ returned' = "false"
    /\ UNCHANGED <<stopRequested, signalsSent, announced>>

\* Import the error, tell the loggers, TickStatus::Failed.
ReportFailure ==
    /\ pc = "failed"
    /\ ImportError
    /\ announced' = announced + 1
    /\ returned' = "false"
    /\ pc' = "idle"
    /\ UNCHANGED <<stopRequested, signalsSent>>

\* The head of the loop: poll stopped_cleanup_needed().
Poll ==
    /\ pc = "loop"
    /\ pc' = CASE childWatchCalled -> "cleanup"
               [] ~childWatchCalled /\ stopRequested -> IF signalsSent THEN "pump" ELSE "stop"
               [] OTHER -> IF SlotConnected THEN "tick" ELSE "pump"
    /\ UNCHANGED <<vars, stopRequested, signalsSent, errorMsg, returned, announced>>

\* The handler answers TickStatus::Running.
TickRunning ==
    /\ pc = "tick"
    /\ \/ pc' = "pump" /\ UNCHANGED stopRequested
       \/ pc' = "stop" /\ stopRequested' = TRUE
    /\ UNCHANGED <<vars, signalsSent, errorMsg, returned, announced>>

\* try_stop(); a false result is only logged.
SendStop ==
    /\ pc = "stop" /\ pc' = "arm"
    /\ IF running THEN Stop(TERM) ELSE UNCHANGED vars
    /\ UNCHANGED <<stopRequested, signalsSent, errorMsg, returned, announced>>

\* Mutation: no SIGKILL is scheduled.
ArmNothing ==
    /\ pc = "arm" /\ pc' = "pump"
    /\ signalsSent' = TRUE
    /\ UNCHANGED <<vars, stopRequested, errorMsg, returned, announced>>

\* set_stop_timeouts(0, forced_kill_timeout_msec_)
ArmKill ==
    /\ pc = "arm" /\ pc' = "pump"
    /\ IF running THEN SetStopTimeouts({"kill"}) ELSE UNCHANGED vars
    /\ signalsSent' = TRUE
    /\ UNCHANGED <<stopRequested, errorMsg, returned, announced>>

\* The inner loop over g_main_context_pending() ends when nothing is ready.
EndPump ==
    /\ pc = "pump" /\ pc' = "loop"
    /\ child # "reaped"
    /\ \A ch \in Channel : ioSource[ch] => pipe[ch] = 0 /\ ~HungUp
    /\ UNCHANGED <<vars, stopRequested, signalsSent, errorMsg, returned, announced>>

Cleanup ==
    /\ pc = "cleanup" /\ pc' = "import"
    /\ StoppedCleanup
    /\ UNCHANGED <<stopRequested, signalsSent, errorMsg, returned, announced>>

\* Import the error, tell the loggers, TickStatus::Stopped.
Finish ==
    /\ pc = "import"
    /\ ImportError
    /\ announced' = announced + 1
    /\ returned' = "true"
    /\ pc' = "idle"
    /\ UNCHANGED <<stopRequested, signalsSent>>

\* The main context iterates in the handlers, in the pump, and when no execute()
\* is on the stack.
Pumping == pc \in {"idle", "starting", "tick", "pump"}

Dispatched == Pumping /\ Dispatch /\ UNCHANGED loopVars

Environs == Environment /\ UNCHANGED loopVars

LoopStep ==
    \/ TickStarting \/ Spawn \/ ReportFailure \/ Poll \/ TickRunning
    \/ SendStop \/ ArmKill \/ EndPump \/ Cleanup \/ Finish

SyncInit ==
    /\ Init
    /\ pc = "idle" /\ stopRequested = FALSE /\ signalsSent = FALSE
    /\ errorMsg = <<>> /\ returned = "none" /\ announced = 0

SyncNext == Call \/ LoopStep \/ Dispatched \/ Environs

SyncSpec == SyncInit /\ [][SyncNext]_allVars

-----------------------------------------------------------------------------
(* Fairness.  The thread keeps running; GLib dispatches what is ready; a   *)
(* source that is due is dispatched by one of the next pumps, however      *)
(* short they are; the kernel delivers SIGKILL and GLib waits for a zombie.*)
(* The child itself owes us nothing, nor does the user.                    *)

FairSyncSpec ==
    /\ SyncSpec
    /\ WF_allVars(LoopStep)
    /\ \A ch \in Channel : WF_allVars(Pumping /\ ChannelIo(ch) /\ UNCHANGED loopVars)
    /\ WF_allVars(Pumping /\ ChildWatch /\ UNCHANGED loopVars)
    /\ SF_allVars(Pumping /\ StopTimeout("kill") /\ UNCHANGED loopVars)
    /\ WF_allVars(ChildReaped /\ UNCHANGED loopVars)
    /\ WF_allVars(KILL \in pending /\ ChildEnds(KilledBy(KILL)) /\ UNCHANGED loopVars)

-----------------------------------------------------------------------------
(* Properties.                                                             *)

\* Every variable of execute() stays in its type.
SyncTypeOK ==
    /\ TypeOK
    /\ pc \in {"idle", "starting", "spawn", "failed", "loop", "tick", "stop", "arm", "pump",
               "cleanup", "import"}
    /\ stopRequested \in BOOLEAN /\ signalsSent \in BOOLEAN
    /\ errorMsg = <<>> \/ \E e \in ErrorRecord : errorMsg = <<e>>
    /\ returned \in {"none", "false", "true"}
    /\ announced \in Nat

\* execute() leaves nothing behind: when it has returned there is no child, no watch,
\* no stop timeout, no open channel and no unread error, so the next call's
\* cmdex_.execute() is never refused.
ReturnsClean ==
    pc \in {"idle", "starting", "spawn"} =>
        /\ child = "none" /\ ~running /\ ~childWatchCalled
        /\ \A ch \in Channel : ~ioSource[ch] /\ ~chanOpen[ch]
        /\ timerFor = NoTimer
        /\ errors = <<>>

\* A child that a signal ended is never taken for a success, whoever sent the signal
\* and whatever failed on the way; nor is smartctl's "command line did not parse".
SignalIsReported ==
    returned = "true" =>
        /\ fate.kind = "signal" =>
              \E level \in {"Warn", "Error"} : errorMsg = <<MakeError("signal", level, fate.code)>>
        /\ fate.kind = "exit" /\ Flavor = "smartctl" /\ fate.code % 2 = 1 =>
              errorMsg = <<MakeError("exit", "Warn", fate.code)>>

\* A run the user let finish, whose reads succeeded and which exited with a code its
\* class accepts, is never reported as an error.
CleanExitIsSilent ==
    returned = "true" /\ ~stopRequested /\ fate.kind = "exit" /\ errorMsg # <<>> =>
        \/ errorMsg[1].type = "exit" /\ HasMessage(errorMsg[1])
        \/ errorMsg[1].type = "giochannel" /\ Flavor = "plain"

\* The message of execute() tells how the command ended, whatever else went wrong on the
\* way: the two properties above, of one end reported and of nothing reported without one.
MessageFitsEnd == SignalIsReported /\ CleanExitIsSilent

\* "If the command _was_ executed, but there was an error, this will return true.
\* Check get_error_msg() for emptiness": a failing exit status leaves a message.
FailingExitLeavesMessage ==
    returned = "true" /\ fate.kind = "exit" /\ fate.code # 0 => errorMsg # <<>>

\* Every execute() the user asks to stop returns, whatever the child does with
\* SIGTERM, as long as we may signal it.
StopReturns == (stopRequested /\ killable) ~> pc = "idle"

Outcome ==
    CASE returned = "none" -> "none"
      [] returned = "false" -> IF errorMsg = <<>> THEN "declined" ELSE "failed"
      [] returned = "true" -> IF errorMsg = <<>> THEN "ok" ELSE "error"

Phase ==
    CASE pc = "idle" -> "idle"
      [] pc \in {"starting", "spawn", "failed"} -> "asked"
      [] OTHER -> IF stopRequested THEN "stopping" ELSE "running"

Promise == INSTANCE SyncCommand WITH phase <- Phase, result <- Outcome

\* execute() keeps the promise of its header: a call is declined, fails to start with
\* a message, or runs and returns; each one that was not declined is logged once.
KeepsPromise == Promise!Spec

\* execute() uses the asynchronous executor within its contract: every step of the
\* loop is one of the calls AsyncCommandExecutor allows, or none.
UsesAsyncExecutor == Spec

-----------------------------------------------------------------------------
(* The inductive invariant behind the properties.                          *)

\* Where execute() is tells what its asynchronous executor is doing.
ControlInv ==
    /\ pc \in {"idle", "starting", "spawn", "failed", "import"} => ~running /\ ~childWatchCalled
    /\ pc \in {"loop", "tick", "stop", "arm", "pump"} => running \/ childWatchCalled
    /\ pc = "cleanup" => childWatchCalled
    /\ pc \in {"idle", "starting", "spawn"} => errors = <<>>
    /\ pc = "failed" => errors = <<MakeError("gspawn", "Error", 0)>>
    /\ pc \in {"starting", "spawn", "failed"} => ~stopRequested
    /\ pc # "idle" => errorMsg = <<>> /\ returned = "none"

\* A failing end is the last error when execute() comes to import it.
LastErrorInv ==
    pc = "import" =>
        /\ fate.kind = "signal" =>
              /\ errors # <<>>
              /\ \E level \in {"Warn", "Error"} :
                    errors[Len(errors)] = MakeError("signal", level, fate.code)
        /\ fate.kind = "exit" /\ fate.code # 0 =>
              errors # <<>> /\ errors[Len(errors)] = MakeError("exit", "Warn", fate.code)

\* While the user lets the command run, nothing of ours goes wrong but reads of its
\* pipes: no signal is sent, hence none fails to be.
Quiet ==
    pc # "failed" /\ ~stopRequested =>
        /\ timerFor = NoTimer
        /\ \A i \in DOMAIN errors :
              \/ errors[i].type \in {"giochannel", "exit"}
              \/ pc = "import" /\ fate.kind = "signal"

QuietInv == Quiet /\ (pc \in {"stop", "arm"} => stopRequested) /\ CleanExitIsSilent

SyncInv == IndInv /\ SyncTypeOK /\ ControlInv /\ LastErrorInv /\ SignalIsReported

=============================================================================
