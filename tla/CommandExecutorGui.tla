------------------------- MODULE CommandExecutorGui -------------------------
(***************************************************************************)
(* The executor every window of the program uses (src/applib/              *)
(* command_executor_gui.{h,cpp}): a CommandExecutor whose tick handler     *)
(* dispatches the events of the program, shows a "Running..." dialog with  *)
(* a Cancel button once the command has run for a while, and stops the     *)
(* command if the user cancels it or quits the program.                    *)
(*                                                                         *)
(* One object runs many commands, one after another: a scan asks all its   *)
(* ports through the same one.  Every step is a step of CommandExecutor    *)
(* together with what the handler does to the dialog.                      *)
(***************************************************************************)
EXTENDS CommandExecutor

ASSUME ConnectedAssumption == SlotConnected     \* by the constructors

VARIABLES
    executionRunning,   \* execution_running_
    shouldAbort,        \* should_abort_
    shown,              \* running_dialog_shown_
    cancelOn,           \* the dialog's Cancel button is sensitive
    abortMode,          \* running_dialog_abort_mode_
    inLoop,             \* Gtk::Main::level() > 0: not so for the scan at the program's start
    quit,               \* Gtk::Main::quit() was called
    noticed,            \* an iteration() of this tick has told of it
    asked               \* history: the user cancelled or quit since execute() was called

dialogVars == <<shown, cancelOn, abortMode>>
handlerVars == <<executionRunning, shouldAbort, noticed>>
userVars == <<quit, inLoop, asked>>
guiVars == <<dialogVars, handlerVars, userVars>>
guiAllVars == <<allVars, guiVars>>

\* What Gtk::Main::iteration() returns: quit() was called, "or if there's no Main yet".
IterationIsTrue(quitCalled) == quitCalled \/ ~inLoop

\* "Gtk::Main::iteration() && Gtk::Main::level() > 0"
QuitCounts(quitCalled) == IterationIsTrue(quitCalled) /\ inLoop

-----------------------------------------------------------------------------
(* The dialog.                                                             *)

\* show_hide_dialog(false)
Hide == shown' = FALSE

\* update_dialog_show_timer(): two seconds after the start, or 0.4 after the abort.
Show ==
    /\ ~shown /\ shown' = TRUE
    /\ cancelOn' = ~abortMode

\* Mutation: the dialog stays as it is.
SwitchToAbortingInPlace == abortMode' = TRUE /\ UNCHANGED <<shown, cancelOn>>

\* set_running_dialog_abort_mode(true): hidden "until another timeout passes".
SwitchToAborting ==
    /\ abortMode' = TRUE
    /\ shown' = (shown /\ abortMode)
    /\ UNCHANGED cancelOn

-----------------------------------------------------------------------------
(* execute() and execute_tick_func().                                      *)

\* The dialog is created, or there already.
GuiCall ==
    /\ Call
    /\ abortMode' = FALSE
    /\ asked' = FALSE
    /\ UNCHANGED <<shown, cancelOn, handlerVars, quit, inLoop>>

\* Mutation: a former Cancel is not forgotten.
GuiStartingKeepsAbort ==
    /\ TickStarting
    /\ (pc' = "idle") = (executionRunning \/ QuitCounts(quit))
    /\ executionRunning' = (executionRunning \/ pc' # "idle")
    /\ UNCHANGED <<dialogVars, shouldAbort, noticed, userVars>>

\* Mutation: quit() is not looked at before a command.
GuiStartingAlways ==
    /\ TickStarting
    /\ (pc' = "idle") = executionRunning
    /\ executionRunning' = TRUE
    /\ shouldAbort' = (shouldAbort /\ pc' = "idle")
    /\ UNCHANGED <<dialogVars, noticed, userVars>>

\* Starting: "we need to prevent any real execution past that point".
GuiStarting ==
    /\ TickStarting
    /\ (pc' = "idle") = (executionRunning \/ QuitCounts(quit))
    /\ executionRunning' = (executionRunning \/ pc' # "idle")
    /\ shouldAbort' = (shouldAbort /\ pc' = "idle")
    /\ UNCHANGED <<dialogVars, noticed, userVars>>

\* Failed
GuiFailure ==
    /\ ReportFailure
    /\ Hide /\ executionRunning' = FALSE
    /\ UNCHANGED <<cancelOn, abortMode, shouldAbort, noticed, userVars>>

\* Running: after the events, Cancel or quit() ends the command.
GuiRunning ==
    /\ TickRunning
    /\ stopRequested' = (noticed \/ shouldAbort)
    /\ noticed' = FALSE
    /\ IF stopRequested'
       THEN SwitchToAborting /\ shouldAbort' = (shouldAbort /\ noticed)
       ELSE (Show \/ UNCHANGED <<shown, cancelOn>>) /\ UNCHANGED <<abortMode, shouldAbort>>
    /\ UNCHANGED <<executionRunning, userVars>>

\* Stopping
GuiStopping ==
    /\ pc = "pump" /\ stopRequested
    /\ ~QuitCounts(quit)
    /\ Show
    /\ UNCHANGED <<allVars, abortMode, handlerVars, userVars>>

\* Stopped
GuiFinish ==
    /\ Finish
    /\ Hide /\ executionRunning' = FALSE
    /\ UNCHANGED <<cancelOn, abortMode, shouldAbort, noticed, userVars>>

GuiLoopStep ==
    \/ GuiStarting \/ GuiFailure \/ GuiRunning \/ GuiFinish
    \/ (Spawn \/ Poll \/ SendStop \/ ArmKill \/ EndPump \/ Cleanup) /\ UNCHANGED guiVars

-----------------------------------------------------------------------------
(* Events, wherever the main context iterates.                             *)

\* In a tick, iteration() tells of quit() after the event.
Iterates(quitCalled) ==
    /\ Pumping /\ ~noticed
    /\ noticed' = (pc = "tick" /\ QuitCounts(quitCalled))

GuiDispatched(A) ==
    /\ Iterates(quit)
    /\ A
    /\ UNCHANGED <<loopVars, dialogVars, executionRunning, shouldAbort, userVars>>

\* An event of another window.
OtherEvent ==
    /\ pc = "tick" /\ UNCHANGED userVars
    /\ Iterates(quit) /\ noticed'
    /\ UNCHANGED <<allVars, dialogVars, executionRunning, shouldAbort>>

\* on_running_dialog_response()
ClickCancel ==
    /\ shown /\ cancelOn
    /\ shouldAbort' = TRUE /\ asked' = TRUE
    /\ UNCHANGED <<quit, inLoop>>
    /\ Iterates(quit)
    /\ UNCHANGED <<allVars, dialogVars, executionRunning>>

\* quit() of the main window: nothing happens without a main loop.
Quit ==
    /\ inLoop /\ ~quit
    /\ quit' = TRUE /\ asked' = TRUE
    /\ UNCHANGED inLoop
    /\ Iterates(TRUE)
    /\ UNCHANGED <<allVars, dialogVars, executionRunning, shouldAbort>>

GuiInit ==
    /\ SyncInit
    /\ executionRunning = FALSE /\ shouldAbort = FALSE /\ noticed = FALSE
    /\ shown = FALSE /\ cancelOn = TRUE /\ abortMode = FALSE
    /\ quit = FALSE /\ inLoop \in BOOLEAN /\ asked = FALSE

GuiNext ==
    \/ GuiCall \/ GuiLoopStep \/ GuiStopping
    \/ GuiDispatched(Dispatch) \/ OtherEvent \/ ClickCancel \/ Quit
    \/ Environs /\ UNCHANGED guiVars

GuiSpec == GuiInit /\ [][GuiNext]_guiAllVars

\* As in CommandExecutor.  Nothing is assumed of the user, nor of the time when the dialog
\* is shown.
FairGuiSpec ==
    /\ GuiSpec
    /\ WF_guiAllVars(GuiLoopStep)
    /\ \A ch \in Channel : WF_guiAllVars(GuiDispatched(ChannelIo(ch)))
    /\ WF_guiAllVars(GuiDispatched(ChildWatch))
    /\ SF_guiAllVars(GuiDispatched(StopTimeout("kill")))
    /\ WF_guiAllVars(ChildReaped /\ UNCHANGED <<loopVars, guiVars>>)
    /\ WF_guiAllVars(KILL \in pending /\ ChildEnds(KilledBy(KILL)) /\ UNCHANGED <<loopVars, guiVars>>)

-----------------------------------------------------------------------------
(* Properties.                                                             *)

\* Every variable of the executor and of its dialog stays in its type.
GuiTypeOK ==
    /\ SyncTypeOK
    /\ {executionRunning, shouldAbort, shown, cancelOn, abortMode, inLoop, quit, noticed, asked}
           \subseteq BOOLEAN

\* A command is stopped only because of what the user did while it was to run: not by a
\* Cancel that came too late for the command before it, and not by the missing main loop
\* at the start of the program.
AbortIsOwn == stopRequested => asked

\* The dialog is on the screen only while its command runs, and its Cancel button works
\* exactly until the command is being stopped, whenever it was shown.
DialogFitsCommand ==
    shown => /\ executionRunning /\ pc \notin {"idle", "starting", "spawn", "failed"}
             /\ cancelOn = ~stopRequested

\* "we need to prevent any real execution past that point": once quit() was called the
\* executor starts no command, however often a loop calls execute().
NothingStartsAfterQuit == [][quit => runs' = runs]_guiAllVars

\* A command that the user cancels comes back, if we may signal it, whatever it does with
\* SIGTERM and whatever else happens in the program.
CancelReturns == (executionRunning /\ (shouldAbort \/ stopRequested) /\ killable) ~> ~executionRunning
=============================================================================
