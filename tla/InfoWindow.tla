----------------------------- MODULE InfoWindow -----------------------------
(***************************************************************************)
(* The device information windows of one drive (src/gui/gsc_info_window.   *)
(* cpp, opened by show_device_info_window() of src/gui/gsc_main_window.cpp)*)
(* and the self-tests they run.                                            *)
(*                                                                         *)
(* All handlers run on one thread, but each that runs smartctl, or shows a *)
(* dialog, dispatches other events until that is over.  So the handlers    *)
(* form a call stack: any command on it may end at any time, and only the  *)
(* topmost handler can go on, with the reply its command had at its end.   *)
(* A running command's dialog is modal only once it is shown, two seconds  *)
(* after the start, so a click may come while a command runs.              *)
(***************************************************************************)
EXTENDS SelfTest

CONSTANTS
    Window,         \* the windows the user may open on the drive, once each
    Pace,           \* "patient": the user acts when the program is idle and the windows show it,
                    \* "quick": when it is idle, "hasty": also while a command is running
    Closed,         \* the windows the user may close
    MaxTests,       \* bound: SelfTest objects constructed by the Execute button
    MaxDepth        \* bound: handlers on the call stack

ASSUME UserAssumption == Pace \in {"patient", "quick", "hasty"} /\ Closed \subseteq Window
ASSUME WindowBoundsAssumption == MaxTests \in Nat /\ MaxDepth \in Nat \ {0}

VARIABLES
    window,         \* [Window -> "new", "open" or "destroyed"]
    sensitive,      \* [Window -> BOOLEAN]: the window is sensitive
    executeOn,      \* [Window -> BOOLEAN]: test_execute_button is sensitive
    stopOn,         \* [Window -> BOOLEAN]: test_stop_button is sensitive
    currentTest,    \* [Window -> index of the test]: current_test_, 0 if null
    timers,         \* [Window -> Nat]: attached test_idle_callback sources not being dispatched
    stack,          \* the handlers in progress, the topmost last
    begun,          \* history: the tests start() has reported as started
    crashed         \* code of a destroyed window was run: whatever comes then is not modelled

windowVars == <<window, sensitive, executeOn, stopOn, currentTest, timers, stack, begun, crashed>>
allVars == <<selfTestVars, windowVars>>

-----------------------------------------------------------------------------
(* The call stack.                                                         *)

\* What a handler waits for; the command it runs, if it is not a dialog.
CommandOf == [start |-> "--test", poll |-> "--capabilities", pollAbort |-> "--abort",
              pollAbortUpdate |-> "--capabilities", stop |-> "--abort",
              stopUpdate |-> "--capabilities", refresh |-> "--xall", refill |-> "--xall",
              open |-> "--xall"]

CommandOfFrame(f) == IF f.op \in DOMAIN CommandOf THEN CommandOf[f.op] ELSE "none"

PollOp == {"poll", "pollAbort", "pollAbortUpdate"}
DialogOp == {"dialog", "refreshDialog"}
Op == DOMAIN CommandOf \cup DialogOp
Reply == Status \cup {"none", "begun", "busy", "aborted", "data", "error"}

Frame(w, op, t) == [win |-> w, op |-> op, test |-> t, reply |-> "none"]

Top == stack[Len(stack)]
Below == SubSeq(stack, 1, Len(stack) - 1)

Push(w, op, t) == Len(stack) < MaxDepth /\ stack' = Append(stack, Frame(w, op, t))
ReplaceTop(op, t) == stack' = Append(Below, Frame(Top.win, op, t))

\* The topmost handler is "op" and its command is over.
Ready(op) == stack # <<>> /\ Top.op = op /\ Top.reply # "none" /\ window[Top.win] # "destroyed"

\* The timeout callback of a window would bring its buttons back.
Lagging(w) == timers[w] > 0 /\ tests[currentTest[w]] # "InProgress"

\* An event reaches the program's own windows: no modal dialog is shown.
UserActs ==
    /\ ~crashed
    /\ \A i \in DOMAIN stack : stack[i].op \notin DialogOp
    /\ Pace # "hasty" => stack = <<>>
    /\ Pace = "patient" => \A w \in Window : ~Lagging(w)

Clickable(w) == UserActs /\ window[w] = "open" /\ sensitive[w]

-----------------------------------------------------------------------------
(* fill_ui_with_info(), refresh_info()                                     *)

\* refresh_info() up to the command: refused with a dialog if a test runs.
Refetch(w, op, below) ==
    /\ sensitive' = [sensitive EXCEPT ![w] = FALSE]
    /\ hasProperties' = (hasProperties /\ testIsActive')
    /\ stack' = Append(below, Frame(w, IF testIsActive' THEN "refreshDialog" ELSE op, 0))

\* The Refresh button is insensitive while a test is active (on_drive_changed()).
ClickRefresh(w) ==
    /\ Clickable(w) /\ ~testIsActive /\ Len(stack) < MaxDepth
    /\ executeOn' = [executeOn EXCEPT ![w] = FALSE]
    /\ stopOn' = [stopOn EXCEPT ![w] = FALSE]
    /\ UNCHANGED testIsActive
    /\ Refetch(w, "refresh", stack)
    /\ UNCHANGED <<tests, drive, window, currentTest, timers, begun, crashed>>

\* The fetch of refresh_info() has returned.
RefreshReturns ==
    /\ Ready("refresh") \/ Ready("refill")
    /\ IF Top.reply = "data"
       THEN /\ hasProperties' = TRUE
            /\ sensitive' = [sensitive EXCEPT ![Top.win] = TRUE]
            /\ executeOn' = [executeOn EXCEPT ![Top.win] = @ \/ Top.op = "refresh"]
            /\ stack' = Below
       ELSE /\ ReplaceTop("refreshDialog", 0)
            /\ UNCHANGED <<hasProperties, sensitive, executeOn>>
    /\ UNCHANGED <<testIsActive, tests, drive, window, stopOn, currentTest, timers, begun,
                   crashed>>

\* The user answers the topmost dialog.
DialogClosed ==
    /\ ~crashed /\ stack # <<>> /\ Top.op \in DialogOp
    /\ stack' = Below
    /\ sensitive' = [sensitive EXCEPT ![Top.win] = @ \/ Top.op = "refreshDialog"]
    /\ UNCHANGED <<selfTestVars, window, executeOn, stopOn, currentTest, timers, begun, crashed>>

-----------------------------------------------------------------------------
(* Opening and closing a window.                                           *)

\* Mutation: the lock is not looked at.
OpenAlways(w) ==
    /\ UserActs /\ window[w] = "new"
    /\ \A i \in DOMAIN stack : stack[i].win # w
    /\ Push(w, "open", 0)
    /\ hasProperties' = FALSE
    /\ UNCHANGED <<testIsActive, tests, drive, window, sensitive, executeOn, stopOn, currentTest,
                   timers, begun, crashed>>

\* show_device_info_window(): a dialog if a test runs, else a full fetch.
Open(w) ==
    /\ UserActs /\ window[w] = "new"
    /\ \A i \in DOMAIN stack : stack[i].win # w
    /\ Push(w, IF testIsActive THEN "dialog" ELSE "open", 0)
    /\ hasProperties' = (hasProperties /\ testIsActive)
    /\ UNCHANGED <<testIsActive, tests, drive, window, sensitive, executeOn, stopOn, currentTest,
                   timers, begun, crashed>>

OpenReturns ==
    /\ Ready("open")
    /\ IF Top.reply = "data"
       THEN /\ window' = [window EXCEPT ![Top.win] = "open"]
            /\ sensitive' = [sensitive EXCEPT ![Top.win] = TRUE]
            /\ executeOn' = [executeOn EXCEPT ![Top.win] = TRUE]
            /\ hasProperties' = TRUE
            /\ stack' = Below
       ELSE ReplaceTop("dialog", 0) /\ UNCHANGED <<window, sensitive, executeOn, hasProperties>>
    /\ UNCHANGED <<testIsActive, tests, drive, stopOn, currentTest, timers, begun, crashed>>

\* Mutation: a window closes whether or not a test runs.
CloseAlways(w) ==
    /\ w \in Closed /\ UserActs /\ window[w] = "open"
    /\ window' = [window EXCEPT ![w] = "destroyed"]
    /\ UNCHANGED <<selfTestVars, sensitive, executeOn, stopOn, currentTest, timers, stack, begun,
                   crashed>>

\* on_delete_event(): a dialog if a test runs, else the window is destroyed.
Close(w) ==
    /\ w \in Closed /\ UserActs /\ window[w] = "open"
    /\ IF testIsActive
       THEN Push(w, "dialog", 0) /\ UNCHANGED window
       ELSE window' = [window EXCEPT ![w] = "destroyed"] /\ UNCHANGED stack
    /\ UNCHANGED <<selfTestVars, sensitive, executeOn, stopOn, currentTest, timers, begun, crashed>>

\* A handler or a timeout callback of a destroyed window goes on.
UseDestroyed ==
    /\ \/ /\ stack # <<>> /\ Top.reply # "none"
          /\ window[Top.win] = "destroyed"
       \/ \E w \in Window : window[w] = "destroyed" /\ timers[w] > 0
    /\ ~crashed /\ crashed' = TRUE
    /\ UNCHANGED <<selfTestVars, window, sensitive, executeOn, stopOn, currentTest, timers, stack,
                   begun>>

-----------------------------------------------------------------------------
(* on_test_execute_button_clicked()                                        *)

ClickExecute(w) ==
    /\ Clickable(w) /\ executeOn[w]
    /\ IF StartAllowed
       THEN Len(tests) < MaxTests /\ Construct /\ Push(w, "start", Len(tests) + 1)
       ELSE Push(w, "dialog", 0) /\ UNCHANGED tests
    /\ UNCHANGED <<testIsActive, hasProperties, drive, window, sensitive, executeOn, stopOn,
                   currentTest, timers, begun, crashed>>

\* Mutation: the timeout callback is not installed.
StartReturnsNoTimer ==
    /\ Ready("start")
    /\ \/ /\ Started(Top.test, Top.reply)
          /\ currentTest' = [currentTest EXCEPT ![Top.win] = Top.test]
          /\ executeOn' = [executeOn EXCEPT ![Top.win] = FALSE]
          /\ stopOn' = [stopOn EXCEPT ![Top.win] = TRUE]
          /\ begun' = begun \cup {Top.test}
          /\ stack' = Below
          /\ UNCHANGED timers
       \/ /\ Top.reply = "error" /\ ReplaceTop("dialog", 0)
          /\ UNCHANGED <<testIsActive, tests, currentTest, executeOn, stopOn, timers, begun>>
    /\ UNCHANGED <<hasProperties, drive, window, sensitive, crashed>>

StartReturns ==
    /\ Ready("start")
    /\ \/ /\ Started(Top.test, Top.reply)
          /\ currentTest' = [currentTest EXCEPT ![Top.win] = Top.test]
          /\ executeOn' = [executeOn EXCEPT ![Top.win] = FALSE]
          /\ stopOn' = [stopOn EXCEPT ![Top.win] = TRUE]
          /\ timers' = [timers EXCEPT ![Top.win] = @ + 1]
          /\ begun' = begun \cup {Top.test}
          /\ stack' = Below
       \/ /\ Top.reply = "error" /\ ReplaceTop("dialog", 0)
          /\ UNCHANGED <<testIsActive, tests, currentTest, executeOn, stopOn, timers, begun>>
    /\ UNCHANGED <<hasProperties, drive, window, sensitive, crashed>>

-----------------------------------------------------------------------------
(* on_test_stop_button_clicked()                                           *)

ClickStop(w) ==
    /\ Clickable(w) /\ stopOn[w] /\ currentTest[w] # 0
    /\ Push(w, IF StopAllowed THEN "stop" ELSE "dialog", currentTest[w])
    /\ UNCHANGED <<selfTestVars, window, sensitive, executeOn, stopOn, currentTest, timers, begun,
                   crashed>>

\* force_stop() goes on with update() if the drive has aborted its test.
StopReturns ==
    /\ Ready("stop")
    /\ ReplaceTop(IF Top.reply = "aborted" THEN "stopUpdate" ELSE "dialog", Top.test)
    /\ UNCHANGED <<selfTestVars, window, sensitive, executeOn, stopOn, currentTest, timers, begun,
                   crashed>>

StopUpdateReturns ==
    /\ Ready("stopUpdate")
    /\ Stopped(Top.test, Top.reply)
    /\ IF Top.reply \in Status THEN stack' = Below ELSE ReplaceTop("dialog", 0)
    /\ UNCHANGED <<hasProperties, drive, window, sensitive, executeOn, stopOn, currentTest, timers,
                   begun, crashed>>

-----------------------------------------------------------------------------
(* test_idle_callback(), every 300 ms.  GLib does not dispatch a source    *)
(* that is being dispatched.                                               *)

Due(w) == ~crashed /\ window[w] = "open" /\ timers[w] > 0 /\ Len(stack) < MaxDepth

\* It is poll time, or else the callback only updates the progress bar.
Poll(w) ==
    /\ Due(w) /\ ~Lagging(w)
    /\ timers' = [timers EXCEPT ![w] = @ - 1]
    /\ Push(w, "poll", currentTest[w])
    /\ UNCHANGED <<selfTestVars, window, sensitive, executeOn, stopOn, currentTest, begun, crashed>>

\* update() has returned: go on next time, or on an error try to stop the test.
PollReturns ==
    /\ Ready("poll")
    /\ \/ /\ Updated(Top.test, Top.reply)
          /\ stack' = Below
          /\ timers' = [timers EXCEPT ![Top.win] = @ + 1]
       \/ /\ Top.reply = "error" /\ StopAllowed
          /\ ReplaceTop("pollAbort", currentTest[Top.win])
          /\ UNCHANGED <<testIsActive, tests, timers>>
    /\ UNCHANGED <<hasProperties, drive, window, sensitive, executeOn, stopOn, currentTest, begun,
                   crashed>>

\* "Test is finished, clean up": the buttons, then refresh_info(false).
CleanUp(w, below) ==
    /\ executeOn' = [executeOn EXCEPT ![w] = TRUE]
    /\ stopOn' = [stopOn EXCEPT ![w] = FALSE]
    /\ Refetch(w, "refill", below)
    /\ UNCHANGED <<drive, window, currentTest, begun, crashed>>

TestOver(w) ==
    /\ Due(w) /\ Lagging(w)
    /\ timers' = [timers EXCEPT ![w] = @ - 1]
    /\ UNCHANGED <<testIsActive, tests>>
    /\ CleanUp(w, stack)

\* update() has failed and the lock is free already: force_stop() refuses.
PollGivesUp ==
    /\ Ready("poll") /\ Top.reply = "error" /\ ~StopAllowed
    /\ UNCHANGED <<testIsActive, tests, timers>>
    /\ CleanUp(Top.win, Below)

\* "what else can we do?"
PollAbortReturns ==
    /\ Ready("pollAbort")
    /\ UNCHANGED <<testIsActive, tests, timers>>
    /\ IF Top.reply = "aborted"
       THEN /\ ReplaceTop("pollAbortUpdate", Top.test)
            /\ UNCHANGED <<hasProperties, drive, window, sensitive, executeOn, stopOn, currentTest,
                           begun, crashed>>
       ELSE CleanUp(Top.win, Below)

PollAbortUpdateReturns ==
    /\ Ready("pollAbortUpdate")
    /\ Stopped(Top.test, Top.reply)
    /\ UNCHANGED timers
    /\ CleanUp(Top.win, Below)

-----------------------------------------------------------------------------

\* The command of a handler on the stack, not only of the topmost, runs and exits.
CommandRuns(i) ==
    /\ ~crashed /\ i \in DOMAIN stack
    /\ stack[i].op \notin DialogOp /\ stack[i].reply = "none"
    /\ \E r \in Replies(CommandOf[stack[i].op]) :
          /\ stack' = [stack EXCEPT ![i].reply = r.reply]
          /\ drive' = r.drive
    /\ UNCHANGED <<testIsActive, hasProperties, tests, window, sensitive, executeOn, stopOn,
                   currentTest, timers, begun, crashed>>

Init ==
    /\ testIsActive = FALSE /\ hasProperties = FALSE /\ tests = <<>>
    /\ drive \in [testing : {FALSE}, last : Outcomes]
    /\ window = [w \in Window |-> "new"]
    /\ sensitive = [w \in Window |-> FALSE]
    /\ executeOn = [w \in Window |-> FALSE]
    /\ stopOn = [w \in Window |-> FALSE]
    /\ currentTest = [w \in Window |-> 0]
    /\ timers = [w \in Window |-> 0]
    /\ stack = <<>> /\ begun = {} /\ crashed = FALSE

User == \E w \in Window : Open(w) \/ Close(w) \/ ClickRefresh(w) \/ ClickExecute(w) \/ ClickStop(w)

Tick(w) == Poll(w) \/ TestOver(w)

Resume ==
    /\ ~crashed
    /\ \/ OpenReturns \/ RefreshReturns \/ StartReturns \/ StopReturns \/ StopUpdateReturns
       \/ PollReturns \/ PollGivesUp \/ PollAbortReturns \/ PollAbortUpdateReturns

DriveSteps == ~crashed /\ DriveEndsTest /\ UNCHANGED windowVars

Next ==
    \/ User \/ Resume \/ DialogClosed \/ UseDestroyed \/ DriveSteps
    \/ \E w \in Window : Tick(w)
    \/ \E i \in 1 .. MaxDepth : CommandRuns(i)

Spec == Init /\ [][Next]_allVars

\* The command that has run longest ends.
OldestCommandRuns ==
    \E i \in 1 .. MaxDepth :
        /\ CommandRuns(i)
        /\ \A j \in 1 .. i - 1 : stack[j].op \in DialogOp \/ stack[j].reply # "none"

\* A command ends (CommandExecutor kills one that is aborted), GLib dispatches a due
\* timeout, a handler whose command is over goes on once the nested ones have returned, or
\* the user answers its dialog.  Nothing is assumed of the drive or of other clicks.
FairSpec ==
    /\ Spec
    /\ WF_allVars(OldestCommandRuns)
    /\ \A i \in 1 .. MaxDepth : SF_allVars(Len(stack) = i /\ (Resume \/ DialogClosed))
    /\ \A w \in Window : SF_allVars(Tick(w))

-----------------------------------------------------------------------------
(* Properties.                                                             *)

Running == {t \in Test : tests[t] = "InProgress"}

\* Every variable stays in its type.
TypeOK ==
    /\ testIsActive \in BOOLEAN /\ hasProperties \in BOOLEAN
    /\ tests \in Seq(Status) /\ Len(tests) <= MaxTests
    /\ drive \in [testing : BOOLEAN, last : Status \ {"InProgress"}]
    /\ window \in [Window -> {"new", "open", "destroyed"}]
    /\ sensitive \in [Window -> BOOLEAN] /\ executeOn \in [Window -> BOOLEAN]
    /\ stopOn \in [Window -> BOOLEAN]
    /\ currentTest \in [Window -> 0 .. Len(tests)]
    /\ timers \in [Window -> Nat]
    /\ stack \in Seq([win : Window, op : Op, test : 0 .. Len(tests), reply : Reply])
    /\ Len(stack) <= MaxDepth
    /\ begun \subseteq Test /\ crashed \in BOOLEAN

\* "so that everybody stops any test-aborting operations": no window is fetching the
\* drive's data while a test holds the lock, though the lock is looked at before the fetch.
NoFetchWhileTesting ==
    \A i \in DOMAIN stack :
        CommandOfFrame(stack[i]) = "--xall" /\ stack[i].reply = "none" => ~testIsActive

\* A window whose Stop button works has a timeout callback, installed or running, that
\* will notice the end of the test and bring the buttons back.
StopButtonHasCallback ==
    \A w \in Window :
        window[w] = "open" /\ stopOn[w] =>
            timers[w] + Cardinality({i \in DOMAIN stack : /\ stack[i].win = w
                                                          /\ stack[i].op \in PollOp}) > 0

\* A window whose test is running lets the user stop it, unless it is busy.
StopButtonWhileActive ==
    \A w \in Window :
        stack = <<>> /\ window[w] = "open" /\ currentTest[w] \in Running => stopOn[w]

\* A window whose test is in progress is not destroyed: the lock that
\* on_close_window_button_clicked() looks at is that test's for as long as it is, whoever polls
\* or stops it and whatever fails, also after the callback has given it up.  It is not true of a
\* user who acts before the windows have caught up: the Stop button that a test which is over
\* has left behind frees the lock of the next one.
TestKeepsItsWindow ==
    \A w \in Window : currentTest[w] \in Running => window[w] # "destroyed"

\* "nothing else to do - the cleanup is performed by the idle callback": no callback and
\* no handler of a window outlives it.  It does, when a window is closed after its test has
\* ended and before its callback has seen that.
NothingOutlivesItsWindow == ~crashed

\* A callback has given up its test: neither could it ask the drive nor stop the test, which
\* the program goes on to take for running, but the Stop button is insensitive again.
GivenUp == \E w \in Window : window[w] = "open" /\ currentTest[w] \in Running /\ ~stopOn[w]

\* The end of a test is noticed, whoever stops it and whichever command fails: the lock does
\* not stay when the drive has finished.  It does stay if the callback, after a poll that
\* failed and a stop that failed, has given the test up; and nothing is said of a program that
\* goes on with a destroyed window (NothingOutlivesItsWindow).
EndIsNoticed ==
    (testIsActive /\ ~drive.testing) ~> (~testIsActive \/ drive.testing \/ crashed \/ GivenUp)

Promise == INSTANCE TestRun WITH running <- Running, started <- begun, locked <- testIsActive

\* The windows perform the drive's tests one after another and never again, and hold
\* its lock exactly while one is in progress.
RunsTestsInTurn == Promise!Spec

=============================================================================
