------------------------ MODULE AsyncCommandExecutor ------------------------
(***************************************************************************)
(* The asynchronous command executor of                                    *)
(* src/applib/async_command_executor.{h,cpp}: it spawns a child with two   *)
(* pipes, reads them from GLib watches, may signal the child (at once or   *)
(* by the two stop timeouts), and classifies the way the child ended.      *)
(*                                                                         *)
(* Everything of the class runs on one thread, so a method or a callback   *)
(* is one step.  The child, the kernel's pipes and GLib's waitpid() are    *)
(* the environment; their steps interleave with those of the class.        *)
(*                                                                         *)
(* Data abstraction: output is counted in blocks, a pid is the number of   *)
(* the run, signals and wait statuses keep their numbers.                  *)
(***************************************************************************)
EXTENDS Integers, Sequences, FiniteSets

CONSTANTS
    BufSize,    \* [Channel -> blocks]: channel_stdout_buffer_size_, channel_stderr_buffer_size_
    PipeCap,    \* blocks the kernel keeps in a pipe before the writer blocks
    ExitCodes,  \* exit statuses the child may return
    MaxOutput,  \* bound: [Channel -> blocks] the child writes in one run
    MaxRuns,    \* bound: calls to execute()
    MaxErrors   \* bound: failed kill() and read() calls reported in one run

Channel == {"stdout", "stderr"}
Timer == {"term", "kill"}

TERM == 15
KILL == 9
SEGV == 11      \* stands for every fatal signal that is not ours

SignalOf == [t \in Timer |-> IF t = "term" THEN TERM ELSE KILL]

ASSUME BufSizeAssumption == BufSize \in [Channel -> Nat \ {0}]
ASSUME PipeCapAssumption == PipeCap \in Nat \ {0}
ASSUME ExitCodesAssumption == ExitCodes \subseteq 0 .. 255
ASSUME BoundsAssumption == MaxOutput \in [Channel -> Nat] /\ MaxRuns \in Nat /\ MaxErrors \in Nat

VARIABLES
    \* members of the class
    running,            \* running_
    childWatchCalled,   \* child_watch_handler_called_
    pid,                \* pid_ (0: none)
    waitStatus,         \* waitpid_status_
    killSignalSent,     \* kill_signal_sent_ (0: none)
    sourceSet,          \* [Timer -> BOOLEAN]: event_source_id_term / _kill is not 0
    chanOpen,           \* [Channel -> BOOLEAN]: channel_stdout_ / channel_stderr_ is not null
    str,                \* [Channel -> Nat]: blocks in str_stdout_ / str_stderr_
    errors,             \* the error list of hz::ErrorHolder
    \* GLib main context
    timerFor,           \* [Timer -> pid]: run whose timeout source is attached, 0 if none
    ioSource,           \* [Channel -> BOOLEAN]: the I/O watch is attached
    \* child and kernel
    child,              \* "none", "alive", "zombie" (not waited for) or "reaped" (waitpid() done)
    killable,           \* kill() on the child is permitted
    pending,            \* signals sent to the child and not yet delivered
    pipe,               \* [Channel -> Nat]: blocks in the pipe
    \* history
    wrote,              \* [Channel -> Nat]: blocks the child of this run has written
    sent,               \* signals kill() accepted in this run
    fate,               \* how the child of this run really ended
    runs                \* calls to execute() so far

classVars == <<running, childWatchCalled, pid, waitStatus, killSignalSent,
               sourceSet, chanOpen, str, errors>>
glibVars == <<timerFor, ioSource>>
childVars == <<child, killable, pending, pipe>>
historyVars == <<wrote, sent, fate, runs>>
vars == <<classVars, glibVars, childVars, historyVars>>

-----------------------------------------------------------------------------
(* Wait statuses and errors.                                               *)

NoStatus == [kind |-> "none", code |-> 0]
ExitedWith(code) == [kind |-> "exit", code |-> code]
KilledBy(sig) == [kind |-> "signal", code |-> sig]

Status == {NoStatus} \cup {ExitedWith(c) : c \in ExitCodes}
                     \cup {KilledBy(s) : s \in {TERM, KILL, SEGV}}

ErrorRecord == [type : {"gspawn", "errno", "giochannel", "exit", "signal"},
                level : {"Warn", "Error"},
                code : 0 .. 255]

MakeError(type, level, code) == [type |-> type, level |-> level, code |-> code]

\* Mutation: warning and error swapped, exit codes forgotten.
ClassificationSwapped(status, lastSent) ==
    IF status.kind = "signal"
    THEN <<MakeError("signal", IF status.code = lastSent THEN "Error" ELSE "Warn", status.code)>>
    ELSE <<>>

\* The errors stopped_cleanup() pushes for a wait status: none for exit code 0,
\* a warning for another exit code, and for a signal a warning if it is the
\* last one kill() accepted from us, else an error.
Classification(status, lastSent) ==
    CASE status.kind = "exit" /\ status.code # 0 ->
            <<MakeError("exit", "Warn", status.code)>>
      [] status.kind = "signal" ->
            <<MakeError("signal", IF status.code = lastSent THEN "Warn" ELSE "Error",
                        status.code)>>
      [] OTHER -> <<>>

\* One invocation of on_channel_io() fills the channel's buffer once and hands
\* all of the buffer to the string.
Fill(ch) == IF pipe[ch] < BufSize[ch] THEN pipe[ch] ELSE BufSize[ch]

\* The writer's end is closed once the child is dead.
HungUp == child # "alive"

ReadError(ch, failing) ==
    IF ch \in failing THEN <<MakeError("giochannel", "Error", 0)>> ELSE <<>>

NoTimer == [t \in Timer |-> 0]
AllOff == [t \in Timer |-> FALSE]

\* What unset_stop_timeouts() leaves attached: it finds a source by its id.
TimersWithoutSource == [t \in Timer |-> IF sourceSet[t] THEN 0 ELSE timerFor[t]]

CanReport == Len(errors) < MaxErrors

-----------------------------------------------------------------------------
(* Methods of the class.                                                   *)

\* cleanup_members(); it leaves running_ and the stop timeouts alone.
CleanupMembers ==
    /\ killSignalSent' = 0
    /\ childWatchCalled' = FALSE
    /\ pid' = 0
    /\ waitStatus' = NoStatus

NewRun ==
    /\ runs < MaxRuns
    /\ ~running /\ ~childWatchCalled
    /\ runs' = runs + 1
    /\ str' = [ch \in Channel |-> 0]
    /\ wrote' = [ch \in Channel |-> 0]
    /\ sent' = {}
    /\ fate' = NoStatus

\* execute() when Glib::spawn_async_with_pipes() succeeds.  Called while the
\* executor is busy it only returns false: a stuttering step.
Execute ==
    /\ NewRun
    /\ killSignalSent' = 0 /\ waitStatus' = NoStatus /\ childWatchCalled' = FALSE
    /\ pid' = runs + 1
    /\ errors' = <<>>
    /\ running' = TRUE
    /\ chanOpen' = [ch \in Channel |-> TRUE]
    /\ ioSource' = [ch \in Channel |-> TRUE]
    /\ child' = "alive"
    /\ killable' \in BOOLEAN
    /\ pending' = {}
    /\ pipe' = [ch \in Channel |-> 0]
    /\ UNCHANGED <<sourceSet, timerFor>>

\* execute() when the spawn throws: nothing was started.
ExecuteSpawnFails ==
    /\ NewRun
    /\ CleanupMembers
    /\ errors' = <<MakeError("gspawn", "Error", 0)>>
    /\ UNCHANGED <<running, sourceSet, chanOpen, glibVars, childVars>>

\* try_stop(sig).  kill() succeeds on a zombie too; it fails with EPERM, or
\* with ESRCH once GLib has waited for the child.
TryStop(sig) ==
    IF running /\ pid # 0
    THEN \/ /\ killable /\ child \in {"alive", "zombie"}
            /\ killSignalSent' = sig
            /\ sent' = sent \cup {sig}
            /\ pending' = IF child = "alive" THEN pending \cup {sig} ELSE pending
            /\ UNCHANGED errors
         \/ /\ ~killable \/ child = "reaped"
            /\ errors' = IF CanReport THEN Append(errors, MakeError("errno", "Error", 0))
                                      ELSE errors
            /\ UNCHANGED <<killSignalSent, sent, pending>>
    ELSE UNCHANGED <<killSignalSent, sent, pending, errors>>

Stop(sig) ==
    /\ running
    /\ TryStop(sig)
    /\ UNCHANGED <<running, childWatchCalled, pid, waitStatus, sourceSet, chanOpen, str,
                   glibVars, child, killable, pipe, wrote, fate, runs>>

\* set_stop_timeouts(): only while running; the old timeouts are removed first.
SetStopTimeouts(on) ==
    /\ running
    /\ sourceSet' = [t \in Timer |-> t \in on]
    /\ timerFor' = [t \in Timer |-> IF t \in on THEN pid ELSE TimersWithoutSource[t]]
    /\ UNCHANGED <<running, childWatchCalled, pid, waitStatus, killSignalSent, chanOpen,
                   str, errors, ioSource, childVars, historyVars>>

\* unset_stop_timeouts()
UnsetStopTimeouts ==
    /\ sourceSet' = AllOff
    /\ timerFor' = TimersWithoutSource
    /\ UNCHANGED <<running, childWatchCalled, pid, waitStatus, killSignalSent, chanOpen,
                   str, errors, ioSource, childVars, historyVars>>

\* Mutation: the cleanup leaves the stop timeouts attached.
StoppedCleanupKeepsTimeouts ==
    /\ ~running /\ childWatchCalled
    /\ CleanupMembers
    /\ errors' = errors \o Classification(waitStatus, killSignalSent)
    /\ UNCHANGED <<running, sourceSet, timerFor, chanOpen, str, ioSource, childVars, historyVars>>

\* stopped_cleanup(); a no-op unless the child watch has been called.
StoppedCleanup ==
    /\ ~running /\ childWatchCalled
    /\ sourceSet' = AllOff
    /\ timerFor' = TimersWithoutSource
    /\ errors' = errors \o Classification(waitStatus, killSignalSent)
    /\ CleanupMembers
    /\ running' = FALSE
    /\ UNCHANGED <<chanOpen, str, ioSource, childVars, historyVars>>

\* hz::ErrorHolder::clear_errors(); its one caller, import_error(), runs when the
\* command is over (or was never started).
ClearErrors ==
    /\ ~running /\ ~childWatchCalled
    /\ errors # <<>>
    /\ errors' = <<>>
    /\ UNCHANGED <<running, childWatchCalled, pid, waitStatus, killSignalSent, sourceSet,
                   chanOpen, str, glibVars, childVars, historyVars>>

-----------------------------------------------------------------------------
(* Callbacks dispatched by the GLib main context.                          *)

\* cmdex_on_term_timeout(), cmdex_on_kill_timeout(): one call, then the source
\* is gone while its id stays set.
StopTimeout(t) ==
    /\ timerFor[t] # 0
    /\ timerFor' = [timerFor EXCEPT ![t] = 0]
    /\ TryStop(SignalOf[t])
    /\ UNCHANGED <<running, childWatchCalled, pid, waitStatus, sourceSet, chanOpen, str,
                   ioSource, child, killable, pipe, wrote, fate, runs>>

\* on_channel_io() called by the watch: one buffer is read; the watch goes away
\* when the condition holds G_IO_HUP, whatever is left in the pipe.
ChannelIo(ch) ==
    /\ ioSource[ch]
    /\ pipe[ch] > 0 \/ HungUp
    /\ ioSource' = [ioSource EXCEPT ![ch] = ~HungUp]
    /\ \/ /\ str' = [str EXCEPT ![ch] = @ + Fill(ch)]
          /\ pipe' = [pipe EXCEPT ![ch] = @ - Fill(ch)]
          /\ UNCHANGED errors
       \/ /\ CanReport
          /\ errors' = Append(errors, MakeError("giochannel", "Error", 0))
          /\ UNCHANGED <<str, pipe>>
    /\ UNCHANGED <<running, childWatchCalled, pid, waitStatus, killSignalSent, sourceSet,
                   chanOpen, timerFor, child, killable, pending, historyVars>>

\* Mutation: what is left in the pipes is not read.
FinalReadForgotten == UNCHANGED <<str, errors>>

\* The handler's two calls of on_channel_io(); reading a channel of "failing" reports
\* an error instead.
FinalRead ==
    \E failing \in SUBSET Channel :
        /\ CanReport \/ failing = {}
        /\ str' = [ch \in Channel |-> IF ch \in failing THEN str[ch] ELSE str[ch] + Fill(ch)]
        /\ errors' = errors \o ReadError("stdout", failing) \o ReadError("stderr", failing)

\* on_child_watch_handler(): both channels are read once more and closed, both
\* watches removed.
ChildWatch ==
    /\ child = "reaped"
    /\ child' = "none"
    /\ waitStatus' = fate
    /\ childWatchCalled' = TRUE
    /\ running' = FALSE
    /\ FinalRead
    /\ pipe' = [ch \in Channel |-> 0]
    /\ chanOpen' = [ch \in Channel |-> FALSE]
    /\ ioSource' = [ch \in Channel |-> FALSE]
    /\ UNCHANGED <<pid, killSignalSent, sourceSet, timerFor, killable, pending, historyVars>>

-----------------------------------------------------------------------------
(* The child, the kernel and GLib's waitpid().                             *)

ChildWrite(ch) ==
    /\ child = "alive" /\ chanOpen[ch]
    /\ pipe[ch] < PipeCap /\ wrote[ch] < MaxOutput[ch]
    /\ pipe' = [pipe EXCEPT ![ch] = @ + 1]
    /\ wrote' = [wrote EXCEPT ![ch] = @ + 1]
    /\ UNCHANGED <<classVars, glibVars, child, killable, pending, sent, fate, runs>>

ChildEnds(status) ==
    /\ child = "alive"
    /\ child' = "zombie"
    /\ fate' = status
    /\ UNCHANGED <<classVars, glibVars, killable, pending, pipe, wrote, sent, runs>>

ChildExits == \E code \in ExitCodes : ChildEnds(ExitedWith(code))

\* A signal takes effect: one of ours, or a fault of the child.
ChildKilled == \E sig \in pending \cup {SEGV} : ChildEnds(KilledBy(sig))

\* GLib waits for the child; the watch is dispatched later.
ChildReaped ==
    /\ child = "zombie"
    /\ child' = "reaped"
    /\ UNCHANGED <<classVars, glibVars, killable, pending, pipe, historyVars>>

-----------------------------------------------------------------------------

Init ==
    /\ running = FALSE /\ childWatchCalled = FALSE
    /\ pid = 0 /\ waitStatus = NoStatus /\ killSignalSent = 0
    /\ sourceSet = AllOff /\ timerFor = NoTimer
    /\ chanOpen = [ch \in Channel |-> FALSE] /\ ioSource = [ch \in Channel |-> FALSE]
    /\ str = [ch \in Channel |-> 0] /\ errors = <<>>
    /\ child = "none" /\ killable = TRUE /\ pending = {}
    /\ pipe = [ch \in Channel |-> 0] /\ wrote = [ch \in Channel |-> 0]
    /\ sent = {} /\ fate = NoStatus /\ runs = 0

\* What the owner of the executor may call, in any order.
Owner ==
    \/ Execute
    \/ ExecuteSpawnFails
    \/ Stop(TERM)
    \/ Stop(KILL)
    \/ \E on \in SUBSET Timer : SetStopTimeouts(on)
    \/ UnsetStopTimeouts
    \/ StoppedCleanup
    \/ ClearErrors

Dispatch ==
    \/ \E t \in Timer : StopTimeout(t)
    \/ \E ch \in Channel : ChannelIo(ch)
    \/ ChildWatch

Environment ==
    \/ \E ch \in Channel : ChildWrite(ch)
    \/ ChildExits
    \/ ChildKilled
    \/ ChildReaped

Next == Owner \/ Dispatch \/ Environment

Spec == Init /\ [][Next]_vars

-----------------------------------------------------------------------------
(* Properties.                                                             *)

\* Every variable stays in its type.
TypeOK ==
    /\ running \in BOOLEAN /\ childWatchCalled \in BOOLEAN
    /\ pid \in Nat /\ waitStatus \in Status
    /\ killSignalSent \in {0, TERM, KILL}
    /\ sourceSet \in [Timer -> BOOLEAN] /\ timerFor \in [Timer -> Nat]
    /\ chanOpen \in [Channel -> BOOLEAN] /\ ioSource \in [Channel -> BOOLEAN]
    /\ str \in [Channel -> Nat] /\ pipe \in [Channel -> Nat] /\ wrote \in [Channel -> Nat]
    /\ errors \in Seq(ErrorRecord)
    /\ child \in {"none", "alive", "zombie", "reaped"}
    /\ killable \in BOOLEAN /\ pending \subseteq {TERM, KILL}
    /\ sent \subseteq {TERM, KILL} /\ fate \in Status /\ runs \in Nat

\* The executor never loses its child: while a child exists running_ is set and
\* pid_ names it, and what execute() accepts never overlaps an older command.
ChildIsTracked ==
    /\ running <=> child # "none"
    /\ (running \/ childWatchCalled) => pid = runs
    /\ ~(running /\ childWatchCalled)

\* A stop timeout never outlives its command: one that is still attached belongs
\* to the command pid_ names, so it cannot signal the next one.
NoStaleTimer ==
    \A t \in Timer : timerFor[t] # 0 => sourceSet[t] /\ timerFor[t] = pid

\* The watches and the final read of on_child_watch_handler() lose at most what a
\* full pipe holds beyond the channel's buffer (nothing, if the buffer is as large
\* as the pipe), unless a failed read was reported.
OutputLossBounded ==
    childWatchCalled =>
        \/ \E i \in DOMAIN errors : errors[i].type = "giochannel"
        \/ \A ch \in Channel :
              wrote[ch] - str[ch] <= (IF PipeCap > BufSize[ch] THEN PipeCap - BufSize[ch] ELSE 0)

\* stopped_cleanup() reports how the child really ended, as the last error: nothing
\* for a clean exit, the exit code, or the signal; a signal counts as a warning only
\* if we sent it, and as an error never if it is the only one we sent.
EndReported ==
    childWatchCalled /\ ~childWatchCalled' =>
        LET last == errors'[Len(errors')]
        IN  /\ fate # NoStatus
            /\ fate.kind = "exit" /\ fate.code = 0 => errors' = errors
            /\ fate.kind = "exit" /\ fate.code # 0 =>
                  /\ Len(errors') = Len(errors) + 1
                  /\ last = MakeError("exit", "Warn", fate.code)
            /\ fate.kind = "signal" =>
                  /\ Len(errors') = Len(errors) + 1
                  /\ last.type = "signal" /\ last.code = fate.code
                  /\ last.level = "Warn" => fate.code \in sent
                  /\ last.level = "Error" => sent # {fate.code}
ReportMatchesFate == [][EndReported]_vars

\* "it's our signal, treat as warning": a child that died of a signal we sent is never
\* reported as an error.
OurSignalIsWarning ==
    \A i \in DOMAIN errors :
        errors[i].type = "signal" /\ errors[i].code \in sent => errors[i].level = "Warn"

-----------------------------------------------------------------------------
(* The inductive invariant behind the properties.                          *)

\* An idle executor has no pid, and only a running one has channels and watches.
IdleInv ==
    /\ ~running /\ ~childWatchCalled => pid = 0
    /\ \A ch \in Channel : ioSource[ch] \/ chanOpen[ch] => running

\* While the child lives, or is not handled yet, what it wrote is in the string or in
\* the pipe.
AccountInv ==
    \A ch \in Channel : /\ pipe[ch] <= PipeCap
                        /\ running => wrote[ch] = str[ch] + pipe[ch]

\* The recorded status is the true one, and the recorded signal is one we sent.
FateInv ==
    /\ child \in {"zombie", "reaped"} => fate # NoStatus
    /\ childWatchCalled => waitStatus = fate /\ fate # NoStatus
    /\ running \/ childWatchCalled =>
          killSignalSent \in sent \/ (killSignalSent = 0 /\ sent = {})

IndInv ==
    /\ TypeOK /\ ChildIsTracked /\ NoStaleTimer /\ OutputLossBounded
    /\ IdleInv /\ AccountInv /\ FateInv

=============================================================================
