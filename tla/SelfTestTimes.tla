---------------------------- MODULE SelfTestTimes ----------------------------
(***************************************************************************)
(* The times of a self-test: when the window asks the drive again, and the *)
(* remaining time it shows meanwhile (src/applib/selftest.cpp and          *)
(* test_idle_callback() of src/gui/gsc_info_window.cpp).  One test that    *)
(* was started, polled until it ends; that commands fail, nest and stop    *)
(* tests is the matter of SelfTest and InfoWindow.                         *)
(*                                                                         *)
(* Time passes in seconds, Glib::Timers are the seconds since their start. *)
(* The quotients of doubles are of integers here: total / 9 seconds to     *)
(* each of the nine pieces of 10% in which a drive counts down from 90%.   *)
(***************************************************************************)
EXTENDS Integers

TestType == {"short", "long"}   \* a conveyance test has the times of a short one

CONSTANTS
    Tests,      \* types of tests and the durations drives announce for them, 0 or less for none
    MaxLate,    \* bound: seconds a due callback waits for the main loop
    MaxCommand, \* bound: seconds smartctl runs
    MaxPause    \* bound: seconds in which the drive, busy otherwise or about to end, does not test

ASSUME TestsAssumption == Tests \subseteq TestType \X Int
ASSUME BoundsAssumption == {MaxLate, MaxCommand, MaxPause} \subseteq Nat

Unknown == -1
Over == -1      \* remaining_percent_ of a test that is not in progress

VARIABLES
    type, total,        \* type_; total_duration_, which does not change
    testing,            \* external: the drive has not ended the test
    tested,             \* external: seconds of testing the drive has done
    paused,             \* external: seconds it has not
    sinceEnd,           \* seconds since the drive has ended the test
    active,             \* is_active()
    remainingPercent, lastSeenPercent, pollIn,
    sinceChange,        \* timer_
    sincePoll,          \* test_timer_poll_ of the window
    sinceBar,           \* test_timer_bar_, as far as it matters
    forceBarUpdate,     \* test_force_bar_update_
    shown,              \* the remaining seconds the window shows
    late,               \* seconds since the callback was last dispatched
    command             \* seconds "smartctl --capabilities" has run, or -1; what it read first

testVars == <<active, remainingPercent, lastSeenPercent, pollIn>>
windowVars == <<forceBarUpdate, shown>>
driveVars == <<testing, tested, paused, sinceEnd>>
timerVars == <<sinceChange, sincePoll, sinceBar, late>>
vars == <<type, total, testVars, windowVars, driveVars, timerVars, command>>

Larger(a, b) == IF a > b THEN a ELSE b
Smaller(a, b) == IF a < b THEN a ELSE b

\* a / b to the nearest integer, as std::round() for positive numbers.
Rounded(a, b) == (2 * a + b) \div (2 * b)

-----------------------------------------------------------------------------
(* The drive.                                                              *)

\* A drive that announces nothing (every NVMe drive) takes as long as it likes, here two minutes.
Duration == IF total > 0 THEN total ELSE 120

\* What it says of the rest of its test.  "It starts at 90% and reaches 00% on completion.
\* That's 9 pieces."  An NVMe drive counts by percents.
DrivePercent ==
    IF total > 0 THEN 10 * (9 - (9 * tested) \div Duration)
                 ELSE 100 - (100 * tested) \div Duration

\* What smartctl reports: a drive that has done all of the test may still have it in progress.
DriveStatus == IF testing THEN DrivePercent ELSE Over

Idle == [ran |-> -1, read |-> 0]

\* The test ends, when it is done or at any time before: it has found a failure, another
\* program has aborted it, a reset has interrupted it.
DriveEnds ==
    /\ active /\ testing
    /\ testing' = FALSE
    /\ UNCHANGED <<type, total, testVars, windowVars, tested, paused, sinceEnd, timerVars, command>>

\* A second passes, unless the callback has been due for too long or smartctl ran long enough.
Tick ==
    /\ active
    /\ IF command = Idle THEN late <= MaxLate ELSE command.ran < MaxCommand
    /\ \/ testing /\ tested < Duration /\ tested' = tested + 1 /\ UNCHANGED paused
       \/ testing /\ paused < MaxPause /\ paused' = paused + 1 /\ UNCHANGED tested
       \/ ~testing /\ UNCHANGED <<tested, paused>>
    /\ sinceEnd' = IF testing THEN 0 ELSE sinceEnd + 1
    /\ sinceChange' = sinceChange + 1 /\ sincePoll' = sincePoll + 1
    /\ sinceBar' = Smaller(5, sinceBar + 1)
    /\ IF command = Idle THEN late' = late + 1 /\ UNCHANGED command
                         ELSE command' = [command EXCEPT !.ran = @ + 1] /\ UNCHANGED late
    /\ UNCHANGED <<type, total, testVars, windowVars, testing>>

-----------------------------------------------------------------------------
(* class SelfTest                                                          *)

\* get_remaining_seconds(): the pieces left at the last change, and what has passed since.
\* "since remaining_percent_ may be manually set to 100, we limit from the above."
RemainingSeconds ==
    IF total <= 0 THEN Unknown
    ELSE Larger(0, Smaller(total, Rounded(total * remainingPercent, 90)) - sinceChange)

\* "Add 1/10 for disk load delays, etc. Limit to 15sec, in case of very quick tests."
\* gran / 3 + gran / 10
UsualPoll == IF total <= 0 THEN 15 ELSE Larger(15, (13 * total) \div 270)

\* "we need to poll more frequently by the end, in case it's completed."
LastPoll == Larger(60, total \div 90)

\* Mutation: the end is polled for like the rest.
PollAfterAsUsual(percent) == UsualPoll

PollAfter(percent) ==
    IF total > 0 /\ type = "long" /\ percent = 10 THEN LastPoll ELSE UsualPoll

\* Mutation: the timer goes on from the start of the test.
UpdateWithoutRestart(percent) ==
    /\ active' = (percent # Over)
    /\ remainingPercent' = percent
    /\ lastSeenPercent' = percent
    /\ pollIn' = PollAfter(percent)
    /\ UNCHANGED sinceChange

\* update(), once smartctl has said how much remains, be it 0%, or that the test is over.
Update(percent) ==
    IF percent # Over
    THEN /\ remainingPercent' = percent /\ lastSeenPercent' = percent
         /\ sinceChange' = IF percent # lastSeenPercent THEN 0 ELSE sinceChange
         /\ pollIn' = PollAfter(percent)
         /\ UNCHANGED active
    ELSE /\ active' = FALSE
         /\ remainingPercent' = -1 /\ lastSeenPercent' = -1 /\ pollIn' = -1
         /\ UNCHANGED sinceChange

-----------------------------------------------------------------------------
(* test_idle_callback(), every 300 ms: "One update() is performed by       *)
(* start(), so do the timeout first."                                      *)

Dispatched == active /\ command = Idle /\ late' = 0

\* "Update progress bar right after poll, plus every 5 seconds."
UpdateBar ==
    /\ Dispatched /\ sincePoll < pollIn
    /\ IF forceBarUpdate \/ sinceBar >= 5
       THEN shown' = RemainingSeconds /\ sinceBar' = 0 /\ forceBarUpdate' = FALSE
       ELSE UNCHANGED <<shown, sinceBar, forceBarUpdate>>
    /\ UNCHANGED <<type, total, testVars, driveVars, sinceChange, sincePoll, command>>

\* "it's poll time"
Poll ==
    /\ Dispatched /\ sincePoll >= pollIn
    /\ command' = [ran |-> 0, read |-> DriveStatus]
    /\ UNCHANGED <<type, total, testVars, windowVars, driveVars, sinceChange, sincePoll, sinceBar>>

\* smartctl has read the drive's status when it began, or only now.
PollReturns ==
    /\ command # Idle
    /\ \E percent \in {command.read, DriveStatus} : Update(percent)
    /\ sincePoll' = 0 /\ forceBarUpdate' = TRUE
    /\ command' = Idle
    /\ UNCHANGED <<type, total, driveVars, shown, sinceBar, late>>

-----------------------------------------------------------------------------

\* start() has succeeded, and the window has set up its callback.
\* "set to 90 to avoid the 100->90 timer reset"; "first update() in 5 seconds"
Init ==
    /\ \E test \in Tests : type = test[1] /\ total = test[2]
    /\ testing = TRUE /\ tested = 0 /\ paused = 0 /\ sinceEnd = 0
    /\ active = TRUE /\ remainingPercent = 100 /\ lastSeenPercent = 90 /\ pollIn = 5
    /\ sinceChange = 0 /\ sincePoll = 0 /\ sinceBar = 0 /\ late = 0
    /\ forceBarUpdate = TRUE /\ shown = Unknown
    /\ command = Idle

Next == DriveEnds \/ Tick \/ UpdateBar \/ Poll \/ PollReturns

Spec == Init /\ [][Next]_vars

-----------------------------------------------------------------------------
(* Properties.                                                             *)

\* The percentages that drives report.
Percents == IF total > 0 THEN {10 * pieces : pieces \in 0 .. 9} ELSE 0 .. 100

\* Times and percentages are what their types can hold.
TypeOK ==
    /\ <<type, total>> \in Tests
    /\ testing \in BOOLEAN /\ tested \in 0 .. Duration /\ paused \in 0 .. MaxPause /\ sinceEnd \in Nat
    /\ active \in BOOLEAN /\ forceBarUpdate \in BOOLEAN
    /\ remainingPercent \in {Over, 100} \cup Percents /\ lastSeenPercent \in {Over} \cup Percents
    /\ pollIn \in {-1} \cup Nat
    /\ {sinceChange, sincePoll, sinceBar, late} \subseteq Nat
    /\ shown \in Nat \cup {Unknown}
    /\ command \in [ran : -1 .. MaxCommand, read : {Over} \cup Percents]

\* A poll comes late, and what it says was read when it began; so was what the one before said.
Delay == MaxLate + 2 * MaxCommand

\* The end of a test is noticed after the interval that was announced at the latest.  That of
\* a long test that the drive has run to its end is noticed after a minute or a hundredth of
\* the test, for which the code polls more often by the end, however its polls fall into the
\* pieces; but not if the drive was seen at 0% before, nor if the test has failed or was
\* aborted earlier, when the interval is the usual one.
EndNoticedInTime ==
    active => sinceEnd <= Delay + (IF type = "short" \/ total <= 0 THEN UsualPoll
                                   ELSE IF tested = Duration /\ remainingPercent # 0 THEN LastPoll
                                   ELSE Larger(UsualPoll, LastPoll))

\* The remaining time that is shown is not less than what a drive that keeps to its
\* announcement still needs.
EtaCoversTest == active /\ testing /\ shown # Unknown => shown >= total - tested - paused

\* The bar is due after five seconds, but a poll that is due then comes first, and the bar after it.
BarDelay == 5 + MaxLate + MaxCommand + (MaxLate + 1)

\* It is more only by the time the program takes to see a piece end, and to show it.
EtaIsClose ==
    /\ EtaCoversTest
    /\ active /\ testing /\ shown # Unknown =>
           shown <= total - tested + UsualPoll + Delay + BarDelay

\* src/applib/selftest.cpp:508: "we need to poll more frequently by the end".
PollsMoreOftenByTheEnd ==
    [][type = "long" /\ active' /\ remainingPercent' < remainingPercent /\ remainingPercent' <= 10
          => pollIn' <= pollIn]_vars

-----------------------------------------------------------------------------
(* The inductive invariant behind the properties.                          *)

\* A poll is late by no more than the main loop is, and then takes no longer than smartctl.
PollInv ==
    /\ late <= MaxLate + 1
    /\ command = Idle \/ command.ran >= 0
    /\ active => sincePoll <= IF command = Idle THEN pollIn - 1 + late
                                                 ELSE pollIn + MaxLate + command.ran

\* The interval is that of what the last poll said.
IntervalInv ==
    active => \/ pollIn = 5 /\ remainingPercent = 100
              \/ pollIn = PollAfter(remainingPercent) /\ remainingPercent \in Percents

\* A poll that did not see the end was begun before it.
EndInv ==
    /\ testing => sinceEnd = 0
    /\ active => sinceEnd <= sincePoll + MaxCommand
    /\ command # Idle /\ command.read # Over => sinceEnd <= command.ran

\* A poll that did not see the last piece was begun before it.
PieceInv ==
    total > 0 =>
        /\ active /\ remainingPercent \in 20 .. 90 =>
               9 * (tested + sinceEnd) < 8 * Duration + 9 * (sincePoll + MaxCommand)
        /\ command # Idle /\ command.read >= 20 =>
               9 * (tested + sinceEnd) < 8 * Duration + 9 * command.ran

\* No more testing is left than the pieces that were left at the last change, less the time
\* since; what smartctl has read is not too little.
EtaInv ==
    total > 0 =>
        /\ active => remainingPercent \in {lastSeenPercent, 100} /\ lastSeenPercent >= 0
        /\ active /\ remainingPercent = 100 => lastSeenPercent = 90
        /\ active /\ testing =>
               90 * (Duration - tested - paused + sinceChange) <= lastSeenPercent * Duration
        /\ command # Idle /\ command.read # Over =>
               90 * (Duration - tested) <= command.read * Duration

TimesInv == TypeOK /\ PollInv /\ IntervalInv /\ EndInv /\ PieceInv /\ EtaInv /\ EtaCoversTest

\* The pieces are seen in their order, and each soon after it has begun: the poll before it
\* was begun in an earlier one.
SeenInv ==
    total > 0 =>
        /\ active => 90 * (Duration - tested) <= lastSeenPercent * Duration
        /\ active /\ command # Idle => command.read <= lastSeenPercent
        /\ active => 90 * (tested - sincePoll - MaxCommand) < (100 - lastSeenPercent) * Duration
        /\ command # Idle => 90 * (tested - command.ran) < (100 - command.read) * Duration
        /\ active => 90 * (tested - sinceChange - UsualPoll - Delay) < (90 - lastSeenPercent) * Duration

\* How long ago the window has shown the remaining time, at most.
BarAge ==
    IF command # Idle THEN 5 + MaxLate + command.ran
    ELSE IF forceBarUpdate THEN 5 + MaxLate + MaxCommand + late
    ELSE IF sinceBar < 5 THEN sinceBar ELSE 4 + late

\* What is shown was close when it was, and a poll is followed by an update of the bar if the
\* callback is never as late as the next poll.
BarInv ==
    /\ shown # Unknown => total > 0
    /\ shown # Unknown /\ forceBarUpdate =>
           command = Idle /\ (active => sincePoll <= late /\ pollIn >= 15)
    /\ active /\ testing /\ shown # Unknown =>
           shown <= total - tested + UsualPoll + Delay + BarAge

CloseInv == SeenInv /\ BarInv
=============================================================================
