------------------------- MODULE SelfTestTimesProofs -------------------------
(***************************************************************************)
(* Proofs about SelfTestTimes, for every duration a drive may announce and *)
(* however late the program is: the end of a test is noticed in time, and  *)
(* the window never promises an end that is too early, nor one that is     *)
(* late by more than the age of what it knows.                             *)
(***************************************************************************)
EXTENDS SelfTestTimes, TLAPS

-----------------------------------------------------------------------------
(* What the drive's percentage says.                                       *)

\* The percentage of t seconds of d: it counts the pieces that are not over.
LEMMA PiecesLeft ==
    ASSUME NEW d \in Nat \ {0}, NEW t \in 0 .. d
    PROVE  LET over == (9 * t) \div d
           IN  /\ over \in 0 .. 9
               /\ over * d <= 9 * t
               /\ over <= 7 => 9 * t < 8 * d
               /\ over <= 8 => t < d
<1> DEFINE over == (9 * t) \div d
<1>1. 9 * t \in Nat /\ 9 * t <= 9 * d /\ d \in Nat /\ d > 0
    OBVIOUS
<1>2. over \in Int /\ over * d <= 9 * t /\ 9 * t < (over + 1) * d
    BY <1>1
<1> HIDE DEF over
<1>3. over >= 0
    <2> SUFFICES ASSUME over + 1 <= 0 PROVE FALSE
        BY <1>2
    <2>1. (over + 1) * d <= 0
        BY <1>1, <1>2
    <2> QED
        BY <1>1, <1>2, <2>1
<1>4. over <= 9
    <2> SUFFICES ASSUME over >= 10 PROVE FALSE
        BY <1>2
    <2>1. over * d >= 10 * d
        BY <1>1, <1>2
    <2> QED
        BY <1>1, <1>2, <2>1
<1>5. ASSUME NEW n \in {8, 9}, over + 1 <= n PROVE 9 * t < n * d
    <2>1. (over + 1) * d <= n * d
        BY <1>1, <1>2, <1>5
    <2> QED
        BY <1>1, <1>2, <2>1
<1>6. (over <= 7 => 9 * t < 8 * d) /\ (over <= 8 => 9 * t < 9 * d)
    BY <1>2, <1>5
<1> QED
    BY <1>1, <1>2, <1>3, <1>4, <1>6 DEF over

\* The percentage of an NVMe drive.
LEMMA PercentDone ==
    ASSUME NEW d \in Nat \ {0}, NEW t \in 0 .. d
    PROVE  (100 * t) \div d \in 0 .. 100
<1> DEFINE done == (100 * t) \div d
<1>1. 100 * t \in Nat /\ 100 * t <= 100 * d /\ d \in Nat /\ d > 0
    OBVIOUS
<1>2. done \in Int /\ done * d <= 100 * t /\ 100 * t < (done + 1) * d
    BY <1>1
<1> HIDE DEF done
<1>3. done >= 0
    <2> SUFFICES ASSUME done + 1 <= 0 PROVE FALSE
        BY <1>2
    <2>1. (done + 1) * d <= 0
        BY <1>1, <1>2
    <2> QED
        BY <1>1, <1>2, <2>1
<1>4. done <= 100
    <2> SUFFICES ASSUME done >= 101 PROVE FALSE
        BY <1>2
    <2>1. done * d >= 101 * d
        BY <1>1, <1>2
    <2> QED
        BY <1>1, <1>2, <2>1
<1> QED
    BY <1>2, <1>3, <1>4 DEF done

\* The announced duration is that of the test.
LEMMA DurationType ==
    ASSUME TypeOK
    PROVE  /\ Duration \in Nat \ {0} /\ tested \in 0 .. Duration
           /\ type \in TestType /\ total \in Int
           /\ total > 0 => Duration = total
<1>1. type \in TestType /\ total \in Int
    BY TestsAssumption DEF TypeOK
<1> QED
    BY <1>1 DEF TypeOK, Duration

\* What smartctl reads: that the test goes on, and then how much of it is left at least, and
\* when less than its last piece.
LEMMA DriveStatusMeans ==
    ASSUME TypeOK
    PROVE  /\ DriveStatus \in {Over} \cup Percents /\ DrivePercent \in Percents
           /\ DriveStatus # Over => testing /\ DriveStatus = DrivePercent
           /\ total > 0 => /\ DriveStatus >= 20 => 9 * tested < 8 * Duration
                           /\ 90 * (Duration - tested) <= DrivePercent * Duration
<1>1. Duration \in Nat \ {0} /\ tested \in 0 .. Duration /\ total \in Int
    BY DurationType
<1>2. CASE total <= 0
    <2>1. DrivePercent = 100 - (100 * tested) \div Duration /\ Percents = 0 .. 100
        BY <1>1, <1>2 DEF DrivePercent, Percents
    <2>2. DrivePercent \in Percents
        BY <1>1, <2>1, PercentDone
    <2> QED
        BY <1>1, <1>2, <2>2 DEF DriveStatus
<1>3. CASE total > 0
    <2> DEFINE over == (9 * tested) \div Duration
    <2>1. /\ over \in 0 .. 9 /\ over * Duration <= 9 * tested
          /\ over <= 7 => 9 * tested < 8 * Duration
        BY <1>1, PiecesLeft
    <2>2. DrivePercent = 10 * (9 - over)
        BY <1>3 DEF DrivePercent
    <2> HIDE DEF over
    <2>3. DrivePercent \in Percents
        BY <1>3, <2>1, <2>2 DEF Percents
    <2>4. DrivePercent * Duration = 90 * Duration - 10 * (over * Duration)
        BY <1>1, <2>1, <2>2
    <2>5. DriveStatus \in {Over, DrivePercent} /\ (DriveStatus # Over => testing)
        BY DEF DriveStatus
    <2>6. over * Duration \in Int
        BY <1>1, <2>1
    <2>7. 90 * (Duration - tested) <= DrivePercent * Duration
        BY <1>1, <2>1, <2>4, <2>6
    <2> QED
        BY <2>1, <2>2, <2>3, <2>5, <2>7 DEF Over
<1> QED
    BY <1>1, <1>2, <1>3

-----------------------------------------------------------------------------
(* Types.                                                                  *)

\* The callback's intervals are whole seconds, and no less than one.
LEMMA PollAfterType == ASSUME total \in Int, NEW percent PROVE PollAfter(percent) \in Nat \ {0}
BY DEF PollAfter, UsualPoll, LastPoll, Larger

\* The remaining time is unknown, or no less than nothing.
LEMMA RemainingSecondsType ==
    ASSUME TypeOK
    PROVE  RemainingSeconds \in Nat \cup {Unknown}
<1>1. total \in Int /\ remainingPercent \in Int /\ sinceChange \in Nat
    BY DurationType DEF TypeOK, Percents, Over
<1>2. total * remainingPercent \in Int
    BY <1>1
<1> DEFINE part == total * remainingPercent
<1> HIDE DEF part
<1>3. Rounded(part, 90) \in Int
    BY <1>2 DEF part, Rounded
<1> QED
    BY <1>1, <1>3 DEF part, RemainingSeconds, Larger, Smaller, Unknown

\* What a step does with a poll's answer.
LEMMA UpdateOnce ==
    ASSUME TypeOK, PollReturns
    PROVE  \E percent \in {command.read, DriveStatus} :
               /\ percent \in {Over} \cup Percents /\ Update(percent)
BY DriveStatusMeans DEF PollReturns, TypeOK

\* The percentages are numbers of one byte, and do not change their kind.
LEMMA PercentsType == Percents \subseteq 0 .. 100 /\ {0, 90} \subseteq Percents
BY DEF Percents

LEMMA PercentsStay == total' = total => Percents' = Percents
BY DEF Percents

\* The types of what the drive and the clocks say, of the test and of the window.
DriveTyped ==
    /\ <<type, total>> \in Tests
    /\ testing \in BOOLEAN /\ tested \in 0 .. Duration /\ paused \in 0 .. MaxPause /\ sinceEnd \in Nat
ClocksTyped == {sinceChange, sincePoll, sinceBar, late} \subseteq Nat
TestTyped ==
    /\ active \in BOOLEAN
    /\ remainingPercent \in {Over, 100} \cup Percents /\ lastSeenPercent \in {Over} \cup Percents
    /\ pollIn \in {-1} \cup Nat
WindowTyped ==
    /\ forceBarUpdate \in BOOLEAN /\ shown \in Nat \cup {Unknown}
    /\ command \in [ran : -1 .. MaxCommand, read : {Over} \cup Percents]

LEMMA TypeParts == TypeOK <=> DriveTyped /\ ClocksTyped /\ TestTyped /\ WindowTyped
BY Zenon DEF TypeOK, DriveTyped, ClocksTyped, TestTyped, WindowTyped

\* Every variable keeps its type.
LEMMA TypeStep == TypeOK /\ PollInv /\ [Next]_vars => TypeOK'
<1> SUFFICES ASSUME TypeOK, PollInv, [Next]_vars PROVE DriveTyped' /\ ClocksTyped' /\ TestTyped' /\ WindowTyped'
    BY Zenon DEF TypeOK, DriveTyped, ClocksTyped, TestTyped, WindowTyped
<1>0. DriveTyped /\ ClocksTyped /\ TestTyped /\ WindowTyped
    BY TypeParts
<1>i. Idle \in [ran : -1 .. MaxCommand, read : {Over} \cup Percents]
    BY PercentsType, BoundsAssumption DEF Idle
<1>t. /\ total' = total /\ type' = type /\ Percents' = Percents
    <2>1. total' = total /\ type' = type
        BY DEF Next, DriveEnds, Tick, UpdateBar, Poll, PollReturns, vars
    <2> QED
        BY <2>1, PercentsStay
<1>0a. CASE DriveEnds
    <2>1. DriveTyped'
        BY <1>0, <1>0a, <1>t DEF DriveEnds, DriveTyped, Duration
    <2>2. ClocksTyped'
        BY <1>0, <1>0a DEF DriveEnds, ClocksTyped, timerVars
    <2>3. TestTyped'
        BY <1>0, <1>0a, <1>t DEF DriveEnds, TestTyped, testVars
    <2>4. WindowTyped'
        BY <1>0, <1>0a, <1>t DEF DriveEnds, WindowTyped, windowVars
    <2> QED
        BY <2>1, <2>2, <2>3, <2>4
<1>1. CASE Tick
    <2>1. DriveTyped'
        <3>1. /\ tested \in 0 .. Duration /\ Duration \in Nat /\ Duration' = Duration
              /\ paused \in 0 .. MaxPause /\ MaxPause \in Nat /\ sinceEnd \in Nat
            BY <1>0, <1>1, DurationType, BoundsAssumption DEF Tick, DriveTyped, Duration
        <3>2. sinceEnd' \in {0, sinceEnd + 1}
            BY <1>1 DEF Tick
        <3>3. \/ tested < Duration /\ tested' = tested + 1 /\ paused' = paused
              \/ paused < MaxPause /\ paused' = paused + 1 /\ tested' = tested
              \/ tested' = tested /\ paused' = paused
            BY <1>1, <1>0 DEF Tick, DriveTyped, Duration
        <3>4. tested' \in 0 .. Duration' /\ paused' \in 0 .. MaxPause /\ sinceEnd' \in Nat
            BY ONLY <3>1, <3>2, <3>3
        <3> QED
            BY <1>0, <1>1, <1>t, <3>4 DEF Tick, DriveTyped
    <2>2. ClocksTyped'
        BY <1>0, <1>1 DEF Tick, ClocksTyped, Smaller
    <2>3. TestTyped' /\ forceBarUpdate' = forceBarUpdate /\ shown' = shown
        BY <1>0, <1>1, <1>t DEF Tick, TestTyped, testVars, windowVars
    <2>4. command' \in [ran : -1 .. MaxCommand, read : {Over} \cup Percents]
        BY <1>0, <1>1, BoundsAssumption DEF Tick, WindowTyped
    <2> QED
        BY <1>0, <1>t, <2>1, <2>2, <2>3, <2>4 DEF WindowTyped
<1>2. CASE UpdateBar
    <2>1. shown' \in Nat \cup {Unknown}
        BY <1>0, <1>2, RemainingSecondsType DEF UpdateBar, WindowTyped
    <2>2. DriveTyped' /\ TestTyped'
        BY <1>0, <1>2, <1>t DEF UpdateBar, DriveTyped, TestTyped, driveVars, testVars, Duration
    <2>3. ClocksTyped'
        BY <1>0, <1>2 DEF UpdateBar, Dispatched, ClocksTyped
    <2> QED
        BY <1>0, <1>2, <1>t, <2>1, <2>2, <2>3 DEF UpdateBar, WindowTyped
<1>3. CASE Poll
    <2>1. DriveTyped' /\ TestTyped'
        BY <1>0, <1>3, <1>t DEF Poll, DriveTyped, TestTyped, driveVars, testVars, Duration
    <2>2. ClocksTyped'
        BY <1>0, <1>3 DEF Poll, Dispatched, ClocksTyped
    <2>3. command' \in [ran : -1 .. MaxCommand, read : {Over} \cup Percents]
        BY <1>3, DriveStatusMeans, BoundsAssumption DEF Poll
    <2> QED
        BY <1>0, <1>3, <1>t, <2>1, <2>2, <2>3 DEF Poll, windowVars, WindowTyped
<1>4. CASE PollReturns
    <2>1. DriveTyped'
        BY <1>0, <1>4, <1>t DEF PollReturns, DriveTyped, driveVars, Duration
    <2> PICK percent \in {Over} \cup Percents : Update(percent)
        BY <1>4, UpdateOnce
    <2>3. PollAfter(percent) \in Nat
        BY DurationType, PollAfterType
    <2>4. TestTyped'
        BY <1>0, <1>t, <2>3, Zenon DEF Update, TestTyped, Over
    <2>5. sinceChange' \in Nat
        BY <1>0 DEF Update, ClocksTyped
    <2>6. ClocksTyped'
        BY <1>0, <1>4, <2>5 DEF PollReturns, ClocksTyped
    <2> QED
        BY <1>0, <1>4, <1>i, <1>t, <2>1, <2>4, <2>6 DEF PollReturns, WindowTyped
<1>5. CASE UNCHANGED vars
    BY <1>0, <1>5, <1>t DEF vars, testVars, windowVars, driveVars, timerVars, DriveTyped, ClocksTyped,
                      TestTyped, WindowTyped, Duration
<1> QED
    BY <1>0a, <1>1, <1>2, <1>3, <1>4, <1>5 DEF Next

-----------------------------------------------------------------------------
(* The parts of the invariant.                                             *)

\* The numbers of the steps below.
LEMMA Numbers ==
    ASSUME TypeOK
    PROVE  /\ {MaxLate, MaxCommand, sinceEnd, sinceChange, sincePoll, late, paused} \subseteq Nat
           /\ pollIn \in Int /\ command.ran \in Int /\ command.ran <= MaxCommand
           /\ command.read \in -1 .. 100
           /\ remainingPercent \in Int /\ lastSeenPercent \in Int
<1>1. Percents \subseteq 0 .. 100
    BY PercentsType
<1>2. MaxLate \in Nat /\ MaxCommand \in Nat /\ MaxPause \in Nat
    BY BoundsAssumption
<1>3. command.ran \in -1 .. MaxCommand /\ command.read \in {Over} \cup Percents
    BY DEF TypeOK
<1>4. sinceEnd \in Nat /\ {sinceChange, sincePoll, sinceBar, late} \subseteq Nat
      /\ pollIn \in {-1} \cup Nat /\ paused \in 0 .. MaxPause
    BY Zenon DEF TypeOK
<1>5. remainingPercent \in {Over, 100} \cup Percents /\ lastSeenPercent \in {Over} \cup Percents
    BY Zenon DEF TypeOK
<1>6. remainingPercent \in Int /\ lastSeenPercent \in Int
    BY <1>1, <1>5 DEF Over
<1>7. paused \in Nat /\ pollIn \in Int
    BY <1>2, <1>4
<1>8. command.ran \in Int /\ command.ran <= MaxCommand
    BY <1>2, <1>3
<1>9. command.read \in -1 .. 100
    <2>1. command.read = -1 \/ command.read \in 0 .. 100
        BY <1>1, <1>3, Zenon DEF Over
    <2> QED
        BY <2>1
<1> QED
    BY <1>2, <1>4, <1>6, <1>7, <1>8, <1>9, Zenon

\* Only the main loop and smartctl make a poll late.
LEMMA PollStep == TypeOK /\ PollInv /\ [Next]_vars => PollInv'
<1> SUFFICES ASSUME TypeOK, PollInv, [Next]_vars PROVE PollInv'
    OBVIOUS
<1>n. /\ {MaxLate, MaxCommand, sincePoll, late} \subseteq Nat
      /\ pollIn \in Int /\ command.ran \in Int /\ "ran" \in DOMAIN command
    BY Numbers DEF TypeOK
<1>0. CASE DriveEnds
    BY <1>0 DEF DriveEnds, testVars, timerVars, PollInv
<1>1. CASE Tick
    <2>1. CASE command = Idle
        <3>1. /\ command' = Idle /\ late <= MaxLate /\ late' = late + 1
              /\ sincePoll' = sincePoll + 1 /\ pollIn' = pollIn /\ active' = active
            BY <1>1, <2>1 DEF Tick, testVars
        <3> QED
            BY <1>n, <2>1, <3>1 DEF PollInv
    <2>2. CASE command # Idle
        <3>1. /\ command' = [command EXCEPT !.ran = @ + 1] /\ late' = late
              /\ sincePoll' = sincePoll + 1 /\ pollIn' = pollIn /\ active' = active
            BY <1>1, <2>2 DEF Tick, testVars
        <3>2. command'.ran = command.ran + 1
            BY <1>n, <3>1
        <3>3. command' # Idle
            BY <1>n, <2>2, <3>2 DEF PollInv, Idle
        <3> QED
            BY <1>n, <2>2, <3>1, <3>2, <3>3 DEF PollInv
    <2> QED
        BY <2>1, <2>2
<1>2. CASE UpdateBar
    <2>1. /\ command = Idle /\ command' = Idle /\ late' = 0 /\ sincePoll < pollIn
          /\ sincePoll' = sincePoll /\ pollIn' = pollIn
        BY <1>2 DEF UpdateBar, Dispatched, testVars
    <2> QED
        BY <1>n, <2>1 DEF PollInv
<1>3. CASE Poll
    <2>1. /\ command = Idle /\ late' = 0 /\ active
          /\ command' = [ran |-> 0, read |-> DriveStatus]
          /\ sincePoll' = sincePoll /\ pollIn' = pollIn
        BY <1>3 DEF Poll, Dispatched, testVars
    <2>2. command'.ran = 0 /\ command' # Idle
        BY <2>1 DEF Idle
    <2> QED
        BY <1>n, <2>1, <2>2 DEF PollInv
<1>4. CASE PollReturns
    <2> PICK percent \in {Over} \cup Percents : Update(percent)
        BY <1>4, UpdateOnce
    <2>1. command' = Idle /\ sincePoll' = 0 /\ late' = late
        BY <1>4 DEF PollReturns
    <2>2. PollAfter(percent) \in Nat \ {0}
        BY DurationType, PollAfterType
    <2>3. active' => pollIn' = PollAfter(percent)
        BY DEF Update
    <2> QED
        BY <1>n, <2>1, <2>2, <2>3 DEF PollInv
<1>5. CASE UNCHANGED vars
    BY <1>5 DEF vars, testVars, timerVars, PollInv
<1> QED
    BY <1>0, <1>1, <1>2, <1>3, <1>4, <1>5 DEF Next

\* Only a poll changes the interval.
LEMMA IntervalStep == TypeOK /\ IntervalInv /\ [Next]_vars => IntervalInv'
<1> SUFFICES ASSUME TypeOK, IntervalInv, [Next]_vars PROVE IntervalInv'
    OBVIOUS
<1>1. CASE UNCHANGED <<type, total, testVars>>
    BY <1>1, PercentsStay DEF testVars, IntervalInv, PollAfter, UsualPoll, LastPoll
<1>2. CASE DriveEnds \/ Tick \/ UpdateBar \/ Poll \/ UNCHANGED vars
    BY <1>1, <1>2 DEF DriveEnds, Tick, UpdateBar, Poll, vars
<1>3. CASE PollReturns
    <2> PICK percent \in {Over} \cup Percents : Update(percent)
        BY <1>3, UpdateOnce
    <2>1. type' = type /\ total' = total /\ Percents' = Percents
        BY <1>3, PercentsStay DEF PollReturns
    <2>2. CASE percent # Over
        <3>1. remainingPercent' = percent /\ pollIn' = PollAfter(percent) /\ percent \in Percents
            BY <2>2 DEF Update
        <3>2. PollAfter(remainingPercent)' = PollAfter(percent)
            BY <2>1, <3>1 DEF PollAfter, UsualPoll, LastPoll
        <3> QED
            BY <2>1, <3>1, <3>2 DEF IntervalInv
    <2>3. CASE percent = Over
        BY <2>3 DEF Update, IntervalInv
    <2> QED
        BY <2>2, <2>3
<1> QED
    BY <1>2, <1>3 DEF Next

\* The announcement stays what it was.
LEMMA TotalStays == [Next]_vars => total' = total
BY DEF Next, DriveEnds, Tick, UpdateBar, Poll, PollReturns, vars

\* A second in which the drive tests, is busy otherwise or has finished.
LEMMA TickMeans ==
    ASSUME TypeOK, PollInv, Tick
    PROVE  /\ active /\ active' /\ Duration' = Duration /\ total' = total /\ shown' = shown
           /\ remainingPercent' = remainingPercent /\ lastSeenPercent' = lastSeenPercent
           /\ sincePoll' = sincePoll + 1 /\ sinceChange' = sinceChange + 1
           /\ testing' = testing
           /\ \/ /\ testing /\ sinceEnd' = 0
                 /\ \/ tested' = tested + 1 /\ paused' = paused
                    \/ tested' = tested /\ paused' = paused + 1
              \/ ~testing /\ sinceEnd' = sinceEnd + 1 /\ UNCHANGED <<tested, paused>>
           /\ \/ command = Idle /\ command' = Idle
              \/ /\ command # Idle /\ command' # Idle
                 /\ command'.ran = command.ran + 1 /\ command'.read = command.read
<1>1. /\ active /\ active' = active /\ Duration' = Duration /\ total' = total /\ shown' = shown
      /\ remainingPercent' = remainingPercent /\ lastSeenPercent' = lastSeenPercent
      /\ sincePoll' = sincePoll + 1 /\ sinceChange' = sinceChange + 1
    BY DEF Tick, testVars, windowVars, Duration
<1>2. /\ testing' = testing
      /\ \/ /\ testing /\ sinceEnd' = 0
            /\ \/ tested' = tested + 1 /\ paused' = paused
               \/ tested' = tested /\ paused' = paused + 1
         \/ ~testing /\ sinceEnd' = sinceEnd + 1 /\ UNCHANGED <<tested, paused>>
    BY DEF Tick
<1>3. CASE command = Idle
    <2>1. command' = Idle
        BY <1>3 DEF Tick
    <2> QED
        BY <1>1, <1>2, <1>3, <2>1
<1>4. CASE command # Idle
    <2>1. command' = [command EXCEPT !.ran = @ + 1]
        BY <1>4 DEF Tick
    <2>2. {"ran", "read"} \subseteq DOMAIN command /\ command.ran \in Int
        BY Numbers DEF TypeOK
    <2>3. command'.ran = command.ran + 1 /\ command'.read = command.read
        BY <2>1, <2>2
    <2>4. command' # Idle
        BY <1>4, <2>2, <2>3 DEF PollInv, Idle
    <2> QED
        BY <1>1, <1>2, <1>4, <2>3, <2>4
<1> QED
    BY <1>3, <1>4

\* The drive ends the test: nothing else changes.
LEMMA DriveEndsMeans ==
    ASSUME DriveEnds
    PROVE  /\ UNCHANGED <<type, total, testVars, windowVars, tested, paused, sinceEnd, timerVars,
                          command, Duration>>
           /\ testing /\ testing' = FALSE
BY DEF DriveEnds, Duration

\* A poll begins, and smartctl may read what the drive says now.
LEMMA PollMeans ==
    ASSUME Poll
    PROVE  /\ UNCHANGED <<type, total, testVars, windowVars, driveVars, sinceChange, sincePoll, Duration>>
           /\ command' # Idle /\ command'.ran = 0 /\ command'.read = DriveStatus
BY DEF Poll, Idle, Duration

\* The bar shows the remaining seconds, or what it did.
LEMMA BarMeans ==
    ASSUME UpdateBar
    PROVE  /\ UNCHANGED <<type, total, testVars, driveVars, sinceChange, sincePoll, command, Duration>>
           /\ shown' \in {shown, RemainingSeconds}
BY DEF UpdateBar, Duration

\* A poll ends; the drive is seen to go on, or its end is.
LEMMA ReturnMeans ==
    ASSUME TypeOK, PollReturns
    PROVE  /\ UNCHANGED <<type, total, driveVars, shown, Duration>> /\ command' = Idle
           /\ command # Idle /\ sincePoll' = 0
           /\ active' => active
           /\ active' =>
                  \E percent \in {command.read, DriveStatus} :
                      /\ percent \in Percents /\ percent # Over
                      /\ remainingPercent' = percent /\ lastSeenPercent' = percent
                      /\ sinceChange' = IF percent = lastSeenPercent THEN sinceChange ELSE 0
<1>1. /\ UNCHANGED <<type, total, driveVars, shown, Duration>> /\ command' = Idle
      /\ command # Idle /\ sincePoll' = 0
    BY DEF PollReturns, Duration
<1>2. PICK percent \in {command.read, DriveStatus} :
          percent \in {Over} \cup Percents /\ Update(percent)
    BY UpdateOnce
<1> QED
    BY <1>1, <1>2 DEF Update

\* A poll that is told the test goes on was begun before its end.
LEMMA EndStep == TypeOK /\ PollInv /\ EndInv /\ [Next]_vars => EndInv'
<1> SUFFICES ASSUME TypeOK, PollInv, EndInv, [Next]_vars PROVE EndInv'
    OBVIOUS
<1>n. /\ {MaxLate, MaxCommand, sinceEnd, sincePoll, late} \subseteq Nat
      /\ command.ran \in Int /\ command.ran <= MaxCommand /\ command.read \in Int
    BY Numbers
<1>e. /\ testing => sinceEnd = 0
      /\ active => sinceEnd <= sincePoll + MaxCommand
      /\ command # Idle /\ command.read # Over => sinceEnd <= command.ran
    BY DEF EndInv
<1>r. command # Idle => command.ran >= 0
    BY DEF PollInv
<1>0. CASE DriveEnds
    <2>1. /\ testing' = FALSE /\ sinceEnd' = sinceEnd /\ active' = active
          /\ sincePoll' = sincePoll /\ command' = command
        BY <1>0, DriveEndsMeans DEF testVars, timerVars
    <2> QED
        BY <1>e, <2>1 DEF EndInv
<1>1. CASE Tick
    <2>1. testing' => sinceEnd' = 0
        BY <1>1, TickMeans
    <2>2. active /\ sincePoll' = sincePoll + 1 /\ (sinceEnd' = 0 \/ sinceEnd' = sinceEnd + 1)
        BY <1>1, TickMeans
    <2>3. sinceEnd' <= sincePoll' + MaxCommand
        BY <1>n, <1>e, <2>2
    <2>4. ASSUME command' # Idle, command'.read # Over PROVE sinceEnd' <= command'.ran
        <3>1. command # Idle /\ command'.ran = command.ran + 1 /\ command'.read = command.read
            BY <1>1, <2>4, TickMeans
        <3> QED
            BY <1>n, <1>e, <1>r, <2>2, <2>4, <3>1
    <2> QED
        BY <2>1, <2>3, <2>4 DEF EndInv
<1>2. CASE UpdateBar
    BY <1>2, <1>e, BarMeans DEF EndInv, testVars, driveVars
<1>3. CASE Poll
    <2>1. /\ testing' = testing /\ sinceEnd' = sinceEnd
          /\ active' = active /\ sincePoll' = sincePoll
          /\ command'.ran = 0 /\ command'.read = DriveStatus
        BY <1>3, PollMeans DEF testVars, driveVars
    <2>2. DriveStatus # Over => sinceEnd = 0
        BY <1>e, DriveStatusMeans
    <2> QED
        BY <1>n, <1>e, <2>1, <2>2 DEF EndInv
<1>4. CASE PollReturns
    <2>1. /\ testing' = testing /\ sinceEnd' = sinceEnd
          /\ command # Idle /\ command' = Idle /\ sincePoll' = 0
        BY <1>4, ReturnMeans DEF driveVars
    <2>2. active' => sinceEnd <= MaxCommand
        <3>1. active' => command.read # Over \/ DriveStatus # Over
            BY <1>4, ReturnMeans
        <3>2. DriveStatus # Over => sinceEnd = 0
            BY <1>e, DriveStatusMeans
        <3> QED
            BY <1>n, <1>e, <2>1, <3>1, <3>2
    <2> QED
        BY <1>n, <1>e, <2>1, <2>2 DEF EndInv
<1>5. CASE UNCHANGED vars
    BY <1>5, <1>e DEF vars, testVars, driveVars, timerVars, EndInv
<1> QED
    BY <1>0, <1>1, <1>2, <1>3, <1>4, <1>5 DEF Next

\* A poll that is told of two pieces or more was begun before the last one.
LEMMA PieceStep == TypeOK /\ PollInv /\ EndInv /\ PieceInv /\ [Next]_vars => PieceInv'
<1> SUFFICES ASSUME TypeOK, PollInv, EndInv, PieceInv, [Next]_vars, total > 0
             PROVE  PieceInv'
    BY TotalStays DEF PieceInv
<1>n. /\ {MaxLate, MaxCommand, sinceEnd, sincePoll, late} \subseteq Nat
      /\ command.ran \in Int /\ command.ran <= MaxCommand /\ command.read \in Int
      /\ tested \in Nat /\ Duration \in Nat /\ remainingPercent \in Int
    BY Numbers, DurationType
<1>e. /\ active /\ remainingPercent \in 20 .. 90 =>
             9 * (tested + sinceEnd) < 8 * Duration + 9 * (sincePoll + MaxCommand)
      /\ command # Idle /\ command.read >= 20 =>
             9 * (tested + sinceEnd) < 8 * Duration + 9 * command.ran
      /\ testing => sinceEnd = 0
    BY DEF PieceInv, EndInv
<1>d. DriveStatus >= 20 => 9 * (tested + sinceEnd) < 8 * Duration
    BY <1>n, <1>e, DriveStatusMeans DEF Over
<1>0. CASE DriveEnds
    BY <1>0, <1>e, DriveEndsMeans DEF PieceInv, testVars, timerVars
<1>1. CASE Tick
    <2>1. /\ active /\ Duration' = Duration /\ remainingPercent' = remainingPercent
          /\ sincePoll' = sincePoll + 1
        BY <1>1, TickMeans
    <2>2. tested' + sinceEnd' \in Int /\ tested' + sinceEnd' <= tested + sinceEnd + 1
        BY <1>1, <1>n, <1>e, TickMeans
    <2>3. ASSUME remainingPercent \in 20 .. 90
          PROVE  9 * (tested' + sinceEnd') < 8 * Duration' + 9 * (sincePoll' + MaxCommand)
        BY <1>n, <1>e, <2>1, <2>2, <2>3
    <2>4. ASSUME command' # Idle, command'.read >= 20
          PROVE  9 * (tested' + sinceEnd') < 8 * Duration' + 9 * command'.ran
        <3>1. command # Idle /\ command'.ran = command.ran + 1 /\ command'.read = command.read
            BY <1>1, <2>4, TickMeans
        <3> QED
            BY <1>n, <1>e, <2>1, <2>2, <2>4, <3>1
    <2> QED
        BY <2>1, <2>3, <2>4 DEF PieceInv
<1>2. CASE UpdateBar
    BY <1>2, <1>e, BarMeans DEF PieceInv, testVars, driveVars
<1>3. CASE Poll
    <2>1. /\ tested' = tested /\ Duration' = Duration /\ sinceEnd' = sinceEnd
          /\ active' = active /\ sincePoll' = sincePoll /\ remainingPercent' = remainingPercent
          /\ command'.ran = 0 /\ command'.read = DriveStatus
        BY <1>3, PollMeans DEF testVars, driveVars
    <2> QED
        BY <1>n, <1>e, <1>d, <2>1 DEF PieceInv
<1>4. CASE PollReturns
    <2>1. /\ tested' = tested /\ Duration' = Duration /\ sinceEnd' = sinceEnd
          /\ command # Idle /\ command' = Idle /\ sincePoll' = 0
        BY <1>4, ReturnMeans DEF driveVars
    <2>2. ASSUME active', remainingPercent' >= 20
          PROVE  9 * (tested + sinceEnd) < 8 * Duration + 9 * MaxCommand
        <3>1. command.read >= 20 \/ DriveStatus >= 20
            BY <1>4, <2>2, ReturnMeans
        <3> QED
            BY <1>n, <1>e, <1>d, <2>1, <3>1
    <2> QED
        BY <1>n, <2>1, <2>2 DEF PieceInv
<1>5. CASE UNCHANGED vars
    BY <1>5, <1>e DEF vars, testVars, driveVars, timerVars, PieceInv, Duration
<1> QED
    BY <1>0, <1>1, <1>2, <1>3, <1>4, <1>5 DEF Next

\* The pieces that are left cover what is left of the test.
LEMMA EtaStep == TypeOK /\ PollInv /\ EtaInv /\ [Next]_vars => EtaInv'
<1> SUFFICES ASSUME TypeOK, PollInv, EtaInv, [Next]_vars, total > 0 PROVE EtaInv'
    BY TotalStays DEF EtaInv
<1>n. /\ {sinceChange, paused} \subseteq Nat /\ tested \in Nat /\ Duration \in Nat
      /\ remainingPercent \in Int /\ lastSeenPercent \in Int /\ command.read \in Int
    BY Numbers, DurationType
<1>e. /\ active => remainingPercent \in {lastSeenPercent, 100} /\ lastSeenPercent >= 0
      /\ active /\ remainingPercent = 100 => lastSeenPercent = 90
      /\ active /\ testing =>
             90 * (Duration - tested - paused + sinceChange) <= lastSeenPercent * Duration
      /\ command # Idle /\ command.read # Over =>
             90 * (Duration - tested) <= command.read * Duration
    BY DEF EtaInv
<1>0. ASSUME UNCHANGED <<testVars, tested, paused, sinceChange, Duration>>,
             testing' => testing,
             command' # Idle /\ command'.read # Over =>
                 90 * (Duration - tested) <= command'.read * Duration
      PROVE  EtaInv'
    BY <1>0, <1>e DEF EtaInv, testVars
<1>0e. CASE DriveEnds
    BY <1>0, <1>0e, <1>e, DriveEndsMeans DEF timerVars
<1>1. CASE Tick
    <2>1. /\ active /\ active' /\ Duration' = Duration
          /\ remainingPercent' = remainingPercent /\ lastSeenPercent' = lastSeenPercent
          /\ sinceChange' = sinceChange + 1
          /\ testing' = testing
          /\ \/ /\ testing
                /\ \/ tested' = tested + 1 /\ paused' = paused
                   \/ tested' = tested /\ paused' = paused + 1
             \/ ~testing /\ tested' = tested
        BY <1>1, TickMeans
    <2> DEFINE rest == lastSeenPercent * Duration
    <2>2. rest \in Int
        BY <1>n
    <2> HIDE DEF rest
    <2>3. ASSUME testing'
          PROVE  90 * (Duration' - tested' - paused' + sinceChange') <= rest
        <3>1. 90 * (Duration - tested - paused + sinceChange) <= rest
            BY <1>e, <1>n, <2>1, <2>3 DEF rest
        <3> QED
            BY <1>n, <2>1, <2>2, <2>3, <3>1
    <2>4. ASSUME command' # Idle, command'.read # Over
          PROVE  90 * (Duration' - tested') <= command'.read * Duration'
        <3>1. command # Idle /\ command'.read = command.read
            BY <1>1, <2>4, TickMeans
        <3> DEFINE read == command.read * Duration
        <3>2. read \in Int /\ 90 * (Duration - tested) <= read
            BY <1>n, <1>e, <2>4, <3>1
        <3>3. command'.read * Duration' = read
            BY <2>1, <3>1
        <3> HIDE DEF read
        <3>4. 90 * (Duration' - tested') <= read
            BY <1>n, <2>1, <3>2
        <3> QED
            BY <3>3, <3>4
    <2>5. lastSeenPercent' * Duration' = rest
        BY <2>1 DEF rest
    <2> QED
        BY <1>e, <2>1, <2>3, <2>4, <2>5 DEF EtaInv
<1>2. CASE UpdateBar
    BY <1>0, <1>2, <1>e, BarMeans DEF driveVars
<1>3. CASE Poll
    BY <1>0, <1>3, PollMeans, DriveStatusMeans DEF driveVars
<1>4. CASE PollReturns
    <2>1. /\ UNCHANGED <<testing, tested, paused, Duration>> /\ command # Idle /\ command' = Idle
          /\ active' => active
        BY <1>4, ReturnMeans DEF driveVars
    <2>2. CASE ~active'
        BY <2>1, <2>2 DEF EtaInv
    <2>3. CASE active'
        <3> PICK percent \in {command.read, DriveStatus} :
                /\ percent \in Percents /\ percent # Over
                /\ remainingPercent' = percent /\ lastSeenPercent' = percent
                /\ sinceChange' = IF percent = lastSeenPercent THEN sinceChange ELSE 0
            BY <1>4, <2>3, ReturnMeans
        <3>1. percent \in 0 .. 90
            BY DEF Percents
        <3> DEFINE read == percent * Duration
        <3>2. read \in Int /\ 90 * (Duration - tested) <= read
            BY <1>n, <1>e, <2>1, <3>1, DriveStatusMeans
        <3>3. ASSUME testing
              PROVE  90 * (Duration - tested - paused + sinceChange') <= read
            <4>1. CASE percent = lastSeenPercent
                BY <1>e, <2>1, <2>3, <3>3, <4>1
            <4>2. CASE percent # lastSeenPercent
                <5> HIDE DEF read
                <5> QED
                    BY <1>n, <3>2, <4>2
            <4> QED
                BY <4>1, <4>2
        <3> QED
            BY <2>1, <3>1, <3>3 DEF EtaInv
    <2> QED
        BY <2>2, <2>3
<1>5. CASE UNCHANGED vars
    BY <1>0, <1>5, <1>e DEF vars, driveVars, timerVars, Duration
<1> QED
    BY <1>0e, <1>1, <1>2, <1>3, <1>4, <1>5 DEF Next

\* The remaining seconds are no less than what is left of the test.
LEMMA RemainingSecondsCover ==
    ASSUME TypeOK, EtaInv, active, testing, total > 0
    PROVE  RemainingSeconds >= total - tested - paused
<1>p. lastSeenPercent \in 0 .. 90
    BY DEF TypeOK, EtaInv, Percents, Over
<1>n. /\ {sinceChange, paused} \subseteq Nat /\ tested \in Nat /\ total \in Nat
      /\ remainingPercent \in Int /\ lastSeenPercent \in 0 .. 90 /\ Duration = total
    BY <1>p, Numbers, DurationType
<1> DEFINE needed == total - tested - paused + sinceChange
           part == total * remainingPercent
<1>1. /\ 90 * needed <= lastSeenPercent * total
      /\ remainingPercent \in {lastSeenPercent, 100}
      /\ remainingPercent = 100 => lastSeenPercent = 90
    BY <1>n DEF EtaInv
<1>2. needed \in Int /\ part \in Int /\ lastSeenPercent * total <= 90 * total
    BY <1>n
<1>3. 90 * needed <= part
    BY <1>n, <1>1, <1>2
<1>4. needed <= total
    BY <1>n, <1>1, <1>2
<1> HIDE DEF needed, part
<1>5. Rounded(part, 90) >= needed /\ Rounded(part, 90) \in Int
    BY <1>2, <1>3 DEF Rounded
<1>6. RemainingSeconds = Larger(0, Smaller(total, Rounded(part, 90)) - sinceChange)
    BY <1>n DEF RemainingSeconds, part
<1>7. RemainingSeconds >= needed - sinceChange
    BY <1>n, <1>2, <1>4, <1>5, <1>6 DEF Larger, Smaller
<1> QED
    BY <1>n, <1>7 DEF needed

\* What covers the rest of a test covers it later.
LEMMA MoreIsDone ==
    ASSUME NEW all \in Int, NEW covered \in Int, NEW a \in Int, NEW b \in Int,
           NEW later \in Int, NEW longer \in Int,
           covered >= all - a - b, later >= a, longer >= b
    PROVE  covered >= all - later - longer
OBVIOUS

\* The window never shows less than what is left of the test.
LEMMA CoverStep == TypeOK /\ PollInv /\ EtaInv /\ EtaCoversTest /\ [Next]_vars => EtaCoversTest'
<1> SUFFICES ASSUME TypeOK, PollInv, EtaInv, EtaCoversTest, [Next]_vars PROVE EtaCoversTest'
    OBVIOUS
<1>n. paused \in Nat /\ tested \in Nat /\ total \in Int /\ shown \in Int
    BY Numbers, DurationType DEF TypeOK, Unknown
<1>0. ASSUME UNCHANGED <<shown, total, tested, paused>>, active' => active, testing' => testing
      PROVE  EtaCoversTest'
    BY <1>0 DEF EtaCoversTest
<1>0e. CASE DriveEnds
    BY <1>0e, DriveEndsMeans DEF EtaCoversTest
<1>1. CASE Tick
    <2> SUFFICES ASSUME shown' # Unknown, testing' PROVE shown' >= total' - tested' - paused'
        BY DEF EtaCoversTest
    <2>1. active /\ testing /\ shown' = shown /\ total' = total
        BY <1>1, TickMeans
    <2>2. tested' \in {tested, tested + 1} /\ paused' \in {paused, paused + 1}
        BY <1>1, TickMeans
    <2>3. shown' >= total' - tested - paused /\ shown' \in Int /\ total' \in Int
        BY <1>n, <2>1 DEF EtaCoversTest
    <2>4. tested' \in Int /\ tested' >= tested
        BY <1>n, <2>2
    <2>5. paused' \in Int /\ paused' >= paused
        BY <1>n, <2>2
    <2>6. tested \in Int /\ paused \in Int
        BY <1>n
    <2> QED
        BY <2>3, <2>4, <2>5, <2>6, MoreIsDone, Zenon
<1>2. CASE UpdateBar
    <2>1. /\ UNCHANGED <<total, testing, tested, paused>> /\ active' = active
          /\ shown' \in {shown, RemainingSeconds}
        BY <1>2, BarMeans DEF testVars, driveVars
    <2>2. CASE shown' = shown
        BY <1>0, <2>1, <2>2
    <2>3. CASE shown' = RemainingSeconds
        <3>1. CASE total <= 0
            BY <1>n, <2>3, <3>1 DEF RemainingSeconds, EtaCoversTest
        <3>2. CASE total > 0
            BY <2>1, <2>3, <3>2, RemainingSecondsCover DEF EtaCoversTest
        <3> QED
            BY <1>n, <3>1, <3>2
    <2> QED
        BY <2>1, <2>2, <2>3
<1>3. CASE Poll
    BY <1>0, <1>3, PollMeans DEF testVars, windowVars, driveVars
<1>4. CASE PollReturns
    BY <1>0, <1>4, ReturnMeans DEF driveVars
<1>5. CASE UNCHANGED vars
    BY <1>0, <1>5 DEF vars, testVars, windowVars, driveVars
<1> QED
    BY <1>0e, <1>1, <1>2, <1>3, <1>4, <1>5 DEF Next

-----------------------------------------------------------------------------
(* The theorems.                                                           *)

\* A test that was just started satisfies the invariant.
LEMMA TimesInvInit == Init => TimesInv
<1> SUFFICES ASSUME Init PROVE TimesInv
    OBVIOUS
<1>t. <<type, total>> \in Tests /\ total \in Int
    <2> PICK test \in Tests : type = test[1] /\ total = test[2]
        BY DEF Init
    <2> QED
        BY TestsAssumption
<1>1. Duration \in Nat \ {0}
    BY <1>t DEF Duration
<1>2. TypeOK
    BY <1>1, <1>t, PercentsType, BoundsAssumption DEF Init, TypeOK, Idle, Unknown
<1>3. PollInv /\ IntervalInv /\ EtaCoversTest
    BY BoundsAssumption DEF Init, PollInv, IntervalInv, EtaCoversTest
<1>4. EndInv /\ PieceInv
    BY <1>1, BoundsAssumption DEF Init, EndInv, PieceInv
<1>5. EtaInv
    BY <1>1 DEF Init, EtaInv
<1> QED
    BY <1>2, <1>3, <1>4, <1>5 DEF TimesInv

\* The invariant is inductive.
LEMMA TimesInvStep == TimesInv /\ [Next]_vars => TimesInv'
BY TypeStep, PollStep, IntervalStep, EndStep, PieceStep, EtaStep, CoverStep DEF TimesInv

\* It holds of every test.
LEMMA TimesInvHolds == Spec => []TimesInv
BY TimesInvInit, TimesInvStep, PTL DEF Spec

\* Every time and percentage is what its type can hold.
THEOREM TimesTypeOK == Spec => []TypeOK
<1>1. TimesInv => TypeOK
    BY DEF TimesInv
<1> QED
    BY <1>1, TimesInvHolds, PTL

\* The invariant bounds the time in which an end is not noticed.
LEMMA EndIsNoticed == TimesInv => EndNoticedInTime
<1> SUFFICES ASSUME TimesInv, active PROVE EndNoticedInTime
    BY DEF EndNoticedInTime
<1>n. /\ {MaxLate, MaxCommand, sinceEnd, sincePoll, late} \subseteq Nat
      /\ command.ran \in Int /\ command.ran <= MaxCommand /\ pollIn \in Int
      /\ tested \in 0 .. Duration /\ total \in Int /\ Duration \in Nat
      /\ (total > 0 => Duration = total) /\ type \in TestType
    BY Numbers, DurationType DEF TimesInv
<1>1. sincePoll <= pollIn + MaxLate + MaxCommand
    BY <1>n DEF TimesInv, PollInv
<1>2. sinceEnd <= sincePoll + MaxCommand
    BY DEF TimesInv, EndInv
<1>3. sinceEnd <= pollIn + Delay
    BY <1>n, <1>1, <1>2 DEF Delay
<1>4. UsualPoll \in Int /\ UsualPoll >= 15 /\ LastPoll \in Int /\ LastPoll >= 60
    BY <1>n DEF UsualPoll, LastPoll, Larger
<1>d. Delay \in Nat
    BY <1>n DEF Delay
<1>l. LastPoll <= Larger(UsualPoll, LastPoll) /\ UsualPoll <= Larger(UsualPoll, LastPoll)
      /\ Larger(UsualPoll, LastPoll) \in Int
    BY <1>4 DEF Larger
<1>e. EndNoticedInTime <=>
          sinceEnd <= Delay + (IF ~(type = "long" /\ total > 0) THEN UsualPoll
                               ELSE IF tested = Duration /\ remainingPercent # 0 THEN LastPoll
                               ELSE Larger(UsualPoll, LastPoll))
    BY <1>n DEF EndNoticedInTime, TestType
<1> HIDE DEF EndNoticedInTime
<1>5. CASE pollIn = 5
    BY <1>3, <1>4, <1>5, <1>d, <1>l, <1>e, <1>n
<1>6. CASE pollIn = PollAfter(remainingPercent) /\ remainingPercent \in Percents
    <2>1. CASE ~(type = "long" /\ total > 0)
        <3>1. pollIn = UsualPoll
            BY <1>6, <2>1 DEF PollAfter
        <3> QED
            BY <1>n, <1>3, <1>4, <1>d, <1>e, <2>1, <3>1
    <2>2. CASE type = "long" /\ total > 0 /\ remainingPercent = 10
        <3>1. pollIn = LastPoll
            BY <1>6, <2>2 DEF PollAfter
        <3> QED
            BY <1>n, <1>3, <1>4, <1>d, <1>l, <1>e, <2>2, <3>1
    <2>3. CASE /\ type = "long" /\ total > 0 /\ remainingPercent # 10
               /\ ~(tested = Duration /\ remainingPercent # 0)
        <3>1. pollIn = UsualPoll
            BY <1>6, <2>3 DEF PollAfter
        <3> QED
            BY <1>n, <1>3, <1>4, <1>d, <1>l, <1>e, <2>3, <3>1
    <2>4. CASE type = "long" /\ total > 0 /\ remainingPercent \notin {0, 10} /\ tested = Duration
        <3>1. pollIn = UsualPoll
            BY <1>6, <2>4 DEF PollAfter
        <3>2. remainingPercent \in 20 .. 90
            BY <1>6, <2>4 DEF Percents
        <3>3. 9 * (tested + sinceEnd) < 8 * total + 9 * (sincePoll + MaxCommand) /\ tested = total
            BY <1>n, <2>4, <3>2 DEF TimesInv, PieceInv
        <3>4. 9 * sinceEnd < 9 * (sincePoll + MaxCommand) - total
            BY <1>n, <3>3
        <3>5. EndNoticedInTime <=> sinceEnd <= Delay + LastPoll
            BY <1>e, <2>4
        <3>6. UsualPoll <= 15 \/ 9 * UsualPoll <= total
            BY <1>n, <2>4 DEF UsualPoll, Larger
        <3>7. CASE UsualPoll <= 15
            BY <1>n, <1>3, <1>4, <1>d, <3>1, <3>5, <3>7
        <3>8. CASE 9 * UsualPoll <= total
            <4>1. sinceEnd < Delay
                BY <1>n, <1>1, <1>4, <3>1, <3>4, <3>8 DEF Delay
            <4> QED
                BY <1>n, <1>4, <1>d, <3>5, <4>1
        <3> QED
            BY <3>6, <3>7, <3>8
    <2> QED
        BY <2>1, <2>2, <2>3, <2>4
<1> QED
    BY <1>5, <1>6 DEF TimesInv, IntervalInv

\* Whatever the drive has announced, whenever it ends the test, and however late the program is,
\* the end is noticed in time: of a long test that was run to its end after the last, shorter
\* interval, although polls may miss its last piece; of one that failed or was aborted before,
\* or was seen at 0%, after the longer of the two.
THEOREM EndAlwaysNoticed == Spec => []EndNoticedInTime
BY EndIsNoticed, TimesInvHolds, PTL

\* The window never shows less time than a drive that keeps to its announcement needs.
THEOREM EtaAlwaysCovers == Spec => []EtaCoversTest
<1>1. TimesInv => EtaCoversTest
    BY DEF TimesInv
<1> QED
    BY <1>1, TimesInvHolds, PTL

-----------------------------------------------------------------------------
(* The remaining time is not much more than what is left.                  *)

\* The piece that t seconds of d fall into: it is not over, and those before it are.
LEMMA PieceOf ==
    ASSUME NEW d \in Nat \ {0}, NEW t \in 0 .. d
    PROVE  LET over == (9 * t) \div d
           IN  /\ over \in 0 .. 9
               /\ 9 * t < (over + 1) * d
               /\ \A n \in 0 .. 9 : n * d <= 9 * t => n <= over
<1> DEFINE over == (9 * t) \div d
<1>1. 9 * t \in Nat /\ d \in Nat /\ d > 0
    OBVIOUS
<1>2. over \in 0 .. 9
    BY PiecesLeft
<1>3. 9 * t < (over + 1) * d
    BY <1>1
<1> HIDE DEF over
<1>4. ASSUME NEW n \in 0 .. 9, n * d <= 9 * t PROVE n <= over
    <2> SUFFICES ASSUME over + 1 <= n PROVE FALSE
        BY <1>2
    <2>1. (over + 1) * d <= n * d
        BY <1>1, <1>2
    <2> QED
        BY <1>1, <1>2, <1>3, <1>4, <2>1
<1> QED
    BY <1>2, <1>3, <1>4 DEF over

\* What smartctl reads is the piece the test is in, and none that is known to be over.
LEMMA DrivePercentIsClose ==
    ASSUME TypeOK, total > 0
    PROVE  /\ 90 * tested < (100 - DrivePercent) * Duration
           /\ \A percent \in Percents :
                  90 * (Duration - tested) <= percent * Duration => DrivePercent <= percent
<1> DEFINE over == (9 * tested) \div Duration
<1>1. /\ Duration \in Nat /\ tested \in Nat /\ over \in 0 .. 9
      /\ 9 * tested < (over + 1) * Duration
      /\ \A n \in 0 .. 9 : n * Duration <= 9 * tested => n <= over
    <2>1. Duration \in Nat \ {0} /\ tested \in 0 .. Duration
        BY DurationType
    <2>2. Duration \in Nat /\ tested \in Nat
        BY <2>1
    <2> QED
        BY <2>1, <2>2, PieceOf, Zenon
<1>2. DrivePercent = 10 * (9 - over)
    BY DEF DrivePercent
<1> HIDE DEF over
<1>3. (100 - DrivePercent) * Duration = 10 * ((over + 1) * Duration)
    BY <1>1, <1>2
<1>4. ASSUME NEW percent \in Percents, 90 * (Duration - tested) <= percent * Duration
      PROVE  DrivePercent <= percent
    <2>1. PICK pieces \in 0 .. 9 : percent = 10 * pieces
        BY DEF Percents
    <2>2. 9 - pieces \in 0 .. 9
        BY <2>1
    <2>3. percent * Duration = 90 * Duration - 10 * ((9 - pieces) * Duration)
        BY <1>1, <2>1
    <2>4. (9 - pieces) * Duration \in Int
        BY <1>1, <2>1
    <2>5. (9 - pieces) * Duration <= 9 * tested
        BY <1>1, <1>4, <2>3, <2>4
    <2>6. 9 - pieces <= over
        BY <1>1, <2>2, <2>5
    <2> QED
        BY <1>1, <1>2, <2>1, <2>6
<1>5. (over + 1) * Duration \in Int
    BY <1>1
<1>6. 90 * tested < 10 * ((over + 1) * Duration)
    BY <1>1, <1>5
<1> QED
    BY <1>3, <1>4, <1>6

\* The sums of SeenInv are of numbers.
LEMMA SeenNumbers ==
    ASSUME TypeOK
    PROVE  /\ tested \in Nat /\ Duration \in Nat \ {0}
           /\ {sinceChange, sincePoll, MaxCommand, MaxLate, Delay, UsualPoll} \subseteq Nat
           /\ UsualPoll >= 15 /\ LastPoll \in Nat
           /\ pollIn \in Int /\ command.ran \in Int /\ command.ran <= MaxCommand
           /\ command.read \in {Over} \cup Percents /\ lastSeenPercent \in Int
           /\ lastSeenPercent * Duration \in Int
           /\ (90 - lastSeenPercent) * Duration \in Int
           /\ (100 - lastSeenPercent) * Duration \in Int
           /\ (100 - command.read) * Duration \in Int
<1>1. tested \in Nat /\ Duration \in Nat \ {0} /\ total \in Int
    BY DurationType
<1>2. /\ {MaxLate, MaxCommand, sinceChange, sincePoll} \subseteq Nat
      /\ pollIn \in Int /\ command.ran \in Int /\ command.ran <= MaxCommand
      /\ command.read \in -1 .. 100 /\ lastSeenPercent \in Int
    BY Numbers
<1>3. command.read \in {Over} \cup Percents
    BY DEF TypeOK
<1>4. UsualPoll \in Nat /\ UsualPoll >= 15 /\ LastPoll \in Nat
    BY <1>1 DEF UsualPoll, LastPoll, Larger
<1>5. Delay \in Nat
    BY <1>2 DEF Delay
<1>6. /\ lastSeenPercent * Duration \in Int
      /\ (90 - lastSeenPercent) * Duration \in Int
      /\ (100 - lastSeenPercent) * Duration \in Int
      /\ (100 - command.read) * Duration \in Int
    BY <1>1, <1>2
<1> QED
    BY <1>1, <1>2, <1>3, <1>4, <1>5, <1>6

\* What is left is not more later.
LEMMA LessIsLeft ==
    ASSUME NEW all \in Int, NEW a \in Int, NEW later \in Int, NEW bound \in Int,
           later >= a, 90 * (all - a) <= bound
    PROVE  90 * (all - later) <= bound
OBVIOUS

\* A second passes for the drive and the clocks alike.
LEMMA SeenTick == TypeOK /\ PollInv /\ SeenInv /\ Tick => SeenInv'
<1> SUFFICES ASSUME TypeOK, PollInv, SeenInv, Tick, total > 0 PROVE SeenInv'
    BY TickMeans DEF SeenInv
<1>n. /\ tested \in Int /\ {sinceChange, sincePoll, MaxCommand, Delay, UsualPoll} \subseteq Int
      /\ Duration \in Int
      /\ command.ran \in Int
      /\ lastSeenPercent * Duration \in Int
      /\ (90 - lastSeenPercent) * Duration \in Int
      /\ (100 - lastSeenPercent) * Duration \in Int
      /\ (100 - command.read) * Duration \in Int
    BY SeenNumbers
<1>1. /\ active /\ Duration' = Duration /\ lastSeenPercent' = lastSeenPercent
      /\ sincePoll' = sincePoll + 1 /\ sinceChange' = sinceChange + 1
      /\ tested' \in {tested, tested + 1}
    BY TickMeans
<1>2. UsualPoll' = UsualPoll /\ Delay' = Delay
    <2>1. total' = total
        BY TickMeans
    <2> QED
        BY <2>1 DEF UsualPoll, Delay
<1>3. command' # Idle => /\ command # Idle /\ command'.ran = command.ran + 1
                        /\ command'.read = command.read
    BY TickMeans
<1>4. 90 * (Duration' - tested') <= lastSeenPercent' * Duration'
    <2> DEFINE rest == lastSeenPercent * Duration
    <2>1. rest \in Int /\ 90 * (Duration - tested) <= rest
        BY <1>n, <1>1 DEF SeenInv
    <2> HIDE DEF rest
    <2>2. tested' \in Int /\ tested' >= tested /\ tested \in Int /\ Duration \in Int
        BY <1>n, <1>1
    <2>3. 90 * (Duration - tested') <= rest
        BY <2>1, <2>2, LessIsLeft, Zenon
    <2>4. lastSeenPercent' * Duration' = rest /\ Duration' = Duration
        BY <1>1 DEF rest
    <2> QED
        BY <2>3, <2>4
<1>5. command' # Idle => command'.read <= lastSeenPercent'
    BY <1>1, <1>3 DEF SeenInv
<1>6. 90 * (tested' - sincePoll' - MaxCommand) < (100 - lastSeenPercent') * Duration'
    <2> DEFINE bound == (100 - lastSeenPercent) * Duration
    <2>1. bound \in Int /\ 90 * (tested - sincePoll - MaxCommand) < bound
        BY <1>n, <1>1 DEF SeenInv
    <2> HIDE DEF bound
    <2>2. 90 * (tested' - sincePoll' - MaxCommand) < bound
        BY <1>n, <1>1, <2>1
    <2> QED
        BY <1>1, <2>2 DEF bound
<1>7. ASSUME command' # Idle
      PROVE  90 * (tested' - command'.ran) < (100 - command'.read) * Duration'
    <2> DEFINE bound == (100 - command.read) * Duration
    <2>1. bound \in Int /\ 90 * (tested - command.ran) < bound
        BY <1>n, <1>3, <1>7 DEF SeenInv
    <2> HIDE DEF bound
    <2>2. 90 * (tested' - command'.ran) < bound
        BY <1>n, <1>1, <1>3, <1>7, <2>1
    <2> QED
        BY <1>1, <1>3, <1>7, <2>2 DEF bound
<1>8. 90 * (tested' - sinceChange' - UsualPoll' - Delay') < (90 - lastSeenPercent') * Duration'
    <2> DEFINE bound == (90 - lastSeenPercent) * Duration
    <2>1. bound \in Int /\ 90 * (tested - sinceChange - UsualPoll - Delay) < bound
        BY <1>n, <1>1 DEF SeenInv
    <2> HIDE DEF bound
    <2>2. 90 * (tested' - sinceChange' - UsualPoll - Delay) < bound
        BY <1>n, <1>1, <2>1
    <2> QED
        BY <1>1, <1>2, <2>2 DEF bound
<1> QED
    BY <1>4, <1>5, <1>6, <1>7, <1>8 DEF SeenInv

\* A poll that tells of a new piece was begun soon after the last one that did not.
LEMMA SeenReturn == TypeOK /\ PollInv /\ IntervalInv /\ EtaInv /\ SeenInv /\ PollReturns => SeenInv'
<1> SUFFICES ASSUME TypeOK, PollInv, IntervalInv, EtaInv, SeenInv, PollReturns, active', total > 0
             PROVE  SeenInv'
    BY ReturnMeans DEF SeenInv
<1>1. /\ tested' = tested /\ Duration' = Duration /\ UsualPoll' = UsualPoll /\ Delay' = Delay
      /\ command # Idle /\ command' = Idle /\ sincePoll' = 0 /\ active
    BY ReturnMeans DEF driveVars, UsualPoll, Delay
<1> PICK percent \in {command.read, DriveStatus} :
        /\ percent \in Percents /\ percent # Over
        /\ remainingPercent' = percent /\ lastSeenPercent' = percent
        /\ sinceChange' = IF percent = lastSeenPercent THEN sinceChange ELSE 0
    BY ReturnMeans
<1>n. /\ tested \in Nat /\ Duration \in Nat \ {0}
      /\ {sinceChange, sincePoll, MaxCommand, MaxLate, Delay, UsualPoll} \subseteq Nat
      /\ UsualPoll >= 15 /\ pollIn \in Int /\ command.ran \in Int /\ command.ran <= MaxCommand
      /\ command.ran >= 0 /\ lastSeenPercent \in Int
      /\ (100 - lastSeenPercent) * Duration \in Int
      /\ (100 - command.read) * Duration \in Int
    BY <1>1, SeenNumbers DEF PollInv
<1>p. percent \in 0 .. 90 /\ \E pieces \in 0 .. 9 : percent = 10 * pieces
    BY PercentsType DEF Percents
<1>d. tested <= Duration
    BY DurationType
<1>l. lastSeenPercent \in Percents
    BY <1>1 DEF TypeOK, EtaInv, Over
<1>2. 90 * (Duration - tested) <= percent * Duration
    BY <1>1, DriveStatusMeans DEF EtaInv
<1>s. DriveStatus # Over => DriveStatus = DrivePercent
    BY DEF DriveStatus
<1>3. percent <= lastSeenPercent
    <2>1. command.read <= lastSeenPercent
        BY <1>1 DEF SeenInv
    <2>2. DrivePercent <= lastSeenPercent
        BY <1>1, <1>l, DrivePercentIsClose DEF SeenInv
    <2> QED
        BY <1>s, <2>1, <2>2
<1>4. 90 * (tested - MaxCommand) < (100 - percent) * Duration
    <2>1. CASE percent = command.read
        <3> DEFINE bound == (100 - command.read) * Duration
        <3>1. bound \in Int /\ 90 * (tested - command.ran) < bound
            BY <1>n, <1>1 DEF SeenInv
        <3> HIDE DEF bound
        <3>2. 90 * (tested - MaxCommand) < bound
            BY <1>n, <3>1
        <3> QED
            BY <2>1, <3>2 DEF bound
    <2>2. CASE percent = DrivePercent
        <3> DEFINE bound == (100 - percent) * Duration
        <3>1. bound \in Int /\ 90 * tested < bound
            BY <1>n, <1>p, <2>2, DrivePercentIsClose
        <3> HIDE DEF bound
        <3>2. 90 * (tested - MaxCommand) < bound
            BY <1>n, <3>1
        <3> QED
            BY <3>2 DEF bound
    <2> QED
        BY <1>s, <2>1, <2>2
<1>5. 90 * (tested - sinceChange' - UsualPoll - Delay) < (90 - percent) * Duration
    <2>1. CASE percent = lastSeenPercent
        BY <1>1, <2>1 DEF SeenInv
    <2>2. CASE percent # lastSeenPercent
        <3>1. percent + 10 <= lastSeenPercent
            <4>1. \E pieces \in 0 .. 9 : lastSeenPercent = 10 * pieces
                BY <1>l DEF Percents
            <4> QED
                BY <1>3, <1>p, <2>2, <4>1
        <3>2. (100 - lastSeenPercent) * Duration <= (90 - percent) * Duration
            BY <1>n, <1>p, <3>1
        <3>0. CASE percent = 0
            <4>1. tested - sinceChange' - UsualPoll - Delay < Duration /\ sinceChange' \in Nat
                BY <1>n, <1>d, <2>2
            <4>2. (90 - percent) * Duration = 90 * Duration
                BY <1>n, <3>0
            <4> QED
                BY <1>n, <4>1, <4>2
        <3> SUFFICES ASSUME percent # 0
                     PROVE  90 * (tested - sinceChange' - UsualPoll - Delay) < (90 - percent) * Duration
            BY <3>0
        <3>3. pollIn <= UsualPoll
            <4>1. remainingPercent \in {lastSeenPercent, 100}
                BY <1>1 DEF EtaInv
            <4>2. remainingPercent # 10
                BY <1>p, <3>1, <4>1, <1>n
            <4>3. pollIn = 5 \/ pollIn = UsualPoll
                BY <1>1, <4>2 DEF IntervalInv, PollAfter
            <4> QED
                BY <1>n, <4>3
        <3>4. sincePoll + MaxCommand <= UsualPoll + Delay
            <4>1. sincePoll <= pollIn + MaxLate + command.ran
                BY <1>1 DEF PollInv
            <4> QED
                BY <1>n, <3>3, <4>1 DEF Delay
        <3> DEFINE before == (100 - lastSeenPercent) * Duration
                   bound == (90 - percent) * Duration
        <3>5. 90 * (tested - sincePoll - MaxCommand) < before /\ before <= bound
            BY <1>1, <3>2 DEF SeenInv
        <3>6. before \in Int /\ bound \in Int
            BY <1>n, <1>p
        <3> HIDE DEF before, bound
        <3>7. 90 * (tested - UsualPoll - Delay) < bound
            BY <1>n, <3>4, <3>5, <3>6
        <3> QED
            BY <1>n, <2>2, <3>7 DEF bound
    <2> QED
        BY <2>1, <2>2
<1>6. 90 * (tested - sincePoll' - MaxCommand) < (100 - percent) * Duration
    BY <1>n, <1>1, <1>4
<1> QED
    BY <1>1, <1>2, <1>5, <1>6 DEF SeenInv

\* Every step keeps what was seen close to what is.
LEMMA SeenStep ==
    TypeOK /\ PollInv /\ IntervalInv /\ EtaInv /\ SeenInv /\ [Next]_vars => SeenInv'
<1> SUFFICES ASSUME TypeOK, PollInv, IntervalInv, EtaInv, SeenInv, [Next]_vars, total > 0
             PROVE  SeenInv'
    BY TotalStays DEF SeenInv
<1>0. ASSUME UNCHANGED <<total, testVars, tested, sinceChange, sincePoll, command, Duration>>
      PROVE  SeenInv'
    BY <1>0 DEF SeenInv, testVars, UsualPoll, Delay
<1>0e. CASE DriveEnds
    BY <1>0, <1>0e, DriveEndsMeans DEF timerVars
<1>1. CASE Tick
    BY <1>1, SeenTick
<1>2. CASE UpdateBar
    BY <1>0, <1>2, BarMeans DEF driveVars
<1>3. CASE Poll
    <2>1. /\ UNCHANGED <<active, lastSeenPercent, tested, sinceChange, sincePoll, Duration>>
          /\ UsualPoll' = UsualPoll /\ Delay' = Delay
          /\ command'.ran = 0 /\ command'.read = DriveStatus
          /\ DriveStatus \in {Over, DrivePercent}
        BY <1>3, PollMeans DEF testVars, driveVars, UsualPoll, Delay, DriveStatus
    <2>2. active => DriveStatus <= lastSeenPercent
        <3>1. active => lastSeenPercent \in Percents /\ lastSeenPercent >= 0
            BY DEF TypeOK, EtaInv, Over
        <3>2. active => DrivePercent <= lastSeenPercent
            BY <3>1, DrivePercentIsClose DEF SeenInv
        <3>3. active => Over <= lastSeenPercent
            BY <3>1, SeenNumbers DEF Over
        <3> QED
            BY <2>1, <3>2, <3>3
    <2>3. 90 * (tested - 0) < (100 - DriveStatus) * Duration
        <3>1. 90 * tested < (100 - DrivePercent) * Duration
            BY DrivePercentIsClose
        <3>2. 90 * tested < (100 - Over) * Duration
            BY DurationType DEF Over
        <3> QED
            BY <2>1, <3>1, <3>2, SeenNumbers
    <2> QED
        BY <2>1, <2>2, <2>3 DEF SeenInv
<1>4. CASE PollReturns
    BY <1>4, SeenReturn
<1>5. CASE UNCHANGED vars
    BY <1>0, <1>5 DEF vars, driveVars, timerVars, Duration
<1> QED
    BY <1>0e, <1>1, <1>2, <1>3, <1>4, <1>5 DEF Next

\* The nearest integer to a 90th of a number.
LEMMA RoundedIsNear ==
    ASSUME NEW a \in Int, NEW n \in Int, a < 90 * n
    PROVE  Rounded(a, 90) \in Int /\ Rounded(a, 90) <= n
BY DEF Rounded

\* The remaining seconds exceed what is left by the time in which the piece was not seen.
LEMMA RemainingSecondsClose ==
    ASSUME TypeOK, EtaInv, SeenInv, active, total > 0
    PROVE  RemainingSeconds <= total - tested + UsualPoll + Delay
<1> DEFINE near == total - tested + sinceChange + UsualPoll + Delay
           rest == lastSeenPercent * total
<1>n. /\ {sinceChange, UsualPoll, Delay} \subseteq Nat /\ tested \in Nat /\ total \in Nat
      /\ lastSeenPercent \in Int /\ Duration = total /\ tested <= total
    BY SeenNumbers, DurationType
<1>1. rest \in Int /\ (90 - lastSeenPercent) * total = 90 * total - rest
    BY <1>n
<1>2. 90 * (tested - sinceChange - UsualPoll - Delay) < (90 - lastSeenPercent) * total
    BY <1>n DEF SeenInv
<1>3. /\ remainingPercent \in {lastSeenPercent, 100}
      /\ remainingPercent = 100 => lastSeenPercent = 90
    BY DEF EtaInv
<1> DEFINE part == total * remainingPercent
<1>4. CASE remainingPercent = lastSeenPercent
    <2>1. part = rest
        BY <1>n, <1>4
    <2> HIDE DEF part, rest
    <2>2. near \in Int /\ rest < 90 * near
        BY <1>n, <1>1, <1>2
    <2> HIDE DEF near
    <2>3. Rounded(part, 90) \in Int /\ Rounded(part, 90) <= near
        BY <1>1, <2>1, <2>2, RoundedIsNear
    <2>4. RemainingSeconds = Larger(0, Smaller(total, Rounded(part, 90)) - sinceChange)
        BY <1>n DEF RemainingSeconds, part
    <2> QED
        BY <1>n, <2>3, <2>4 DEF near, Larger, Smaller
<1>5. CASE remainingPercent = 100
    <2>1. rest = 90 * total
        BY <1>n, <1>3, <1>5
    <2>2. total < near /\ near \in Int
        BY <1>n, <1>1, <1>2, <2>1
    <2>3. part \in Int
        BY <1>n, <1>5
    <2> HIDE DEF part, rest
    <2>4. Rounded(part, 90) \in Int
        BY <2>3 DEF Rounded
    <2>5. RemainingSeconds = Larger(0, Smaller(total, Rounded(part, 90)) - sinceChange)
        BY <1>n DEF RemainingSeconds, part
    <2> QED
        BY <1>n, <2>2, <2>4, <2>5 DEF near, Larger, Smaller
<1> QED
    BY <1>3, <1>4, <1>5

\* The numbers of the steps of the bar.
LEMMA BarNumbers ==
    ASSUME TypeOK, PollInv
    PROVE  /\ {MaxLate, MaxCommand, late, sinceBar, sincePoll, Delay, UsualPoll} \subseteq Nat
           /\ tested \in Nat /\ total \in Int /\ shown \in Int /\ pollIn \in Int
           /\ command.ran \in Int /\ command.ran <= MaxCommand
           /\ late <= MaxLate + 1 /\ (command # Idle => command.ran >= 0)
           /\ total > 0 => Duration = total
<1>1. {MaxLate, MaxCommand, sincePoll, Delay, UsualPoll} \subseteq Nat /\ tested \in Nat
    BY SeenNumbers
<1>2. late \in Nat /\ sinceBar \in Nat /\ shown \in Int /\ total \in Int
    BY DurationType DEF TypeOK, Unknown
<1>3. command.ran \in Int /\ command.ran <= MaxCommand /\ pollIn \in Int
    BY SeenNumbers
<1> QED
    BY <1>1, <1>2, <1>3, DurationType DEF PollInv

\* What is shown is not closer than its age allows.
LEMMA BarAgeType ==
    ASSUME TypeOK, PollInv
    PROVE  BarAge \in Nat /\ BarAge <= BarDelay
BY BarNumbers DEF BarAge, BarDelay

\* Once a poll has ended, the next dispatch updates the bar.
LEMMA BarStep ==
    ASSUME MaxLate + 1 < 15
    PROVE  TypeOK /\ PollInv /\ EtaInv /\ SeenInv /\ BarInv /\ [Next]_vars => BarInv'
<1> SUFFICES ASSUME TypeOK, PollInv, EtaInv, SeenInv, BarInv, [Next]_vars PROVE BarInv'
    OBVIOUS
<1>n. /\ {MaxLate, MaxCommand, late, sinceBar, sincePoll, Delay, UsualPoll} \subseteq Nat
      /\ tested \in Nat /\ total \in Int /\ shown \in Int /\ pollIn \in Int
      /\ command.ran \in Int /\ command.ran <= MaxCommand
      /\ late <= MaxLate + 1 /\ (command # Idle => command.ran >= 0)
    BY BarNumbers
<1>b. /\ shown # Unknown => total > 0
      /\ shown # Unknown /\ forceBarUpdate =>
             command = Idle /\ (active => sincePoll <= late /\ pollIn >= 15)
      /\ active /\ testing /\ shown # Unknown =>
             shown <= total - tested + UsualPoll + Delay + BarAge
    BY DEF BarInv
<1>0. CASE DriveEnds
    BY <1>0, <1>b, DriveEndsMeans DEF BarInv, testVars, windowVars, timerVars
<1>1. CASE Tick
    <2>1. /\ active /\ Duration' = Duration /\ total' = total /\ shown' = shown
          /\ sincePoll' = sincePoll + 1
          /\ testing' = testing /\ (tested' = tested + 1 \/ tested' = tested)
          /\ \/ command = Idle /\ command' = Idle
             \/ command # Idle /\ command' # Idle /\ command'.ran = command.ran + 1
        BY <1>1, TickMeans
    <2>2. /\ forceBarUpdate' = forceBarUpdate /\ pollIn' = pollIn
          /\ sinceBar' = Smaller(5, sinceBar + 1)
          /\ command = Idle => late' = late + 1
          /\ UsualPoll' = UsualPoll /\ Delay' = Delay
        BY <1>1, <2>1 DEF Tick, testVars, windowVars, UsualPoll, Delay
    <2>3. command = Idle \/ ~forceBarUpdate \/ shown = Unknown
        BY <1>b
    <2>4. /\ BarAge \in Int /\ BarAge' \in Int
          /\ shown # Unknown => BarAge' >= BarAge + 1
        <3>1. CASE command # Idle
            BY <1>n, <2>1, <3>1 DEF BarAge
        <3>2. CASE command = Idle /\ forceBarUpdate
            BY <1>n, <2>1, <2>2, <3>2 DEF BarAge
        <3>3. CASE command = Idle /\ ~forceBarUpdate
            <4>1. BarAge = (IF sinceBar < 5 THEN sinceBar ELSE 4 + late)
                BY <3>3 DEF BarAge
            <4>2. BarAge' = (IF sinceBar' < 5 THEN sinceBar' ELSE 4 + late')
                BY <2>1, <2>2, <3>3 DEF BarAge
            <4> QED
                BY <1>n, <2>2, <3>3, <4>1, <4>2 DEF Smaller
        <3> QED
            BY <3>1, <3>2, <3>3
    <2>5. ASSUME shown' # Unknown, testing'
          PROVE  shown' <= total' - tested' + UsualPoll' + Delay' + BarAge'
        <3>1. shown <= total - tested + UsualPoll + Delay + BarAge
            BY <1>n, <1>b, <2>1, <2>5
        <3> QED
            BY <1>n, <2>1, <2>2, <2>4, <2>5, <3>1
    <2>6. shown' # Unknown /\ forceBarUpdate' =>
              command' = Idle /\ sincePoll' <= late' /\ pollIn' >= 15
        BY <1>n, <1>b, <2>1, <2>2
    <2> QED
        BY <1>b, <2>1, <2>5, <2>6 DEF BarInv
<1>2. CASE UpdateBar
    <2>1. /\ UNCHANGED <<total, testing, tested, command, Duration, active>> /\ command = Idle /\ late' = 0
          /\ UsualPoll' = UsualPoll /\ Delay' = Delay /\ active
          /\ sincePoll' = sincePoll /\ pollIn' = pollIn
        BY <1>2, BarMeans DEF UpdateBar, Dispatched, testVars, driveVars, UsualPoll, Delay
    <2>2. CASE forceBarUpdate \/ sinceBar >= 5
        <3>1. shown' = RemainingSeconds /\ sinceBar' = 0 /\ forceBarUpdate' = FALSE
            BY <1>2, <2>2 DEF UpdateBar
        <3>2. BarAge' = 0
            BY <2>1, <3>1 DEF BarAge
        <3>3. CASE total <= 0
            BY <1>n, <2>1, <3>1, <3>3 DEF RemainingSeconds, BarInv
        <3>4. CASE total > 0
            <4>1. testing => shown' <= total - tested + UsualPoll + Delay
                BY <2>1, <3>1, <3>4, RemainingSecondsClose
            <4>2. testing => shown' <= total' - tested' + UsualPoll' + Delay' + BarAge'
                BY <1>n, <2>1, <3>2, <4>1
            <4> QED
                BY <2>1, <3>1, <3>4, <4>2 DEF BarInv
        <3> QED
            BY <1>n, <3>3, <3>4
    <2>3. CASE ~(forceBarUpdate \/ sinceBar >= 5)
        <3>1. UNCHANGED <<shown, sinceBar, forceBarUpdate>>
            BY <1>2, <2>3 DEF UpdateBar
        <3>2. BarAge' = BarAge
            BY <1>n, <2>1, <2>3, <3>1 DEF BarAge
        <3>3. testing /\ shown # Unknown =>
                  shown' <= total' - tested' + UsualPoll' + Delay' + BarAge'
            BY <1>b, <2>1, <3>1, <3>2
        <3> QED
            BY <1>b, <2>1, <2>3, <3>1, <3>3 DEF BarInv
    <2> QED
        BY <2>2, <2>3
<1>3. CASE Poll
    <2>1. /\ UNCHANGED <<total, testing, tested, Duration, active, shown, forceBarUpdate>> /\ active
          /\ command = Idle /\ command' # Idle /\ command'.ran = 0
          /\ UsualPoll' = UsualPoll /\ Delay' = Delay /\ sincePoll >= pollIn
        BY <1>3, PollMeans DEF Poll, Dispatched, testVars, driveVars, windowVars, UsualPoll, Delay
    <2>2. shown # Unknown => ~forceBarUpdate
        <3> SUFFICES ASSUME shown # Unknown, forceBarUpdate PROVE FALSE
            OBVIOUS
        <3>1. sincePoll <= late /\ pollIn >= 15
            BY <1>b, <2>1
        <3> QED
            BY <1>n, <2>1, <3>1
    <2>3. BarAge' = 5 + MaxLate
        BY <1>n, <2>1 DEF BarAge
    <2>4. shown # Unknown => BarAge \in Int /\ BarAge <= 5 + MaxLate
        <3>1. shown # Unknown => BarAge = (IF sinceBar < 5 THEN sinceBar ELSE 4 + late)
            BY <2>1, <2>2 DEF BarAge
        <3> QED
            BY <1>n, <3>1
    <2>5. ASSUME shown' # Unknown, testing'
          PROVE  shown' <= total' - tested' + UsualPoll' + Delay' + BarAge'
        <3>1. shown <= total - tested + UsualPoll + Delay + BarAge
            BY <1>b, <2>1, <2>5
        <3> QED
            BY <1>n, <2>1, <2>3, <2>4, <2>5, <3>1
    <2> QED
        BY <1>b, <2>1, <2>2, <2>5 DEF BarInv
<1>4. CASE PollReturns
    <2>1. /\ UNCHANGED <<total, testing, tested, shown, Duration>> /\ command' = Idle /\ command # Idle
          /\ sincePoll' = 0 /\ forceBarUpdate' = TRUE /\ late' = late
          /\ UsualPoll' = UsualPoll /\ Delay' = Delay /\ (active' => active)
        <3>1. /\ UNCHANGED <<total, testing, tested, shown, Duration>> /\ command' = Idle /\ command # Idle
              /\ sincePoll' = 0 /\ (active' => active)
            BY <1>4, ReturnMeans DEF driveVars
        <3> QED
            BY <1>4, <3>1 DEF PollReturns, UsualPoll, Delay
    <2>2. active' => pollIn' >= 15
        <3> PICK percent \in {Over} \cup Percents : Update(percent)
            BY <1>4, UpdateOnce
        <3>1. active' => pollIn' = PollAfter(percent)
            BY DEF Update
        <3>2. PollAfter(percent) >= 15
            BY <1>n DEF PollAfter, UsualPoll, LastPoll, Larger
        <3> QED
            BY <3>1, <3>2
    <2>3. BarAge' = 5 + MaxLate + MaxCommand + late /\ BarAge = 5 + MaxLate + command.ran
        BY <2>1 DEF BarAge
    <2>4. ASSUME active', shown' # Unknown, testing'
          PROVE  shown' <= total' - tested' + UsualPoll' + Delay' + BarAge'
        <3>1. shown <= total - tested + UsualPoll + Delay + BarAge
            BY <1>b, <2>1, <2>4
        <3> QED
            BY <1>n, <2>1, <2>3, <3>1
    <2>5. sincePoll' <= late'
        BY <1>n, <2>1
    <2> QED
        BY <1>b, <2>1, <2>2, <2>4, <2>5 DEF BarInv
<1>5. CASE UNCHANGED vars
    <2>1. BarAge' = BarAge /\ UsualPoll' = UsualPoll /\ Delay' = Delay /\ Duration' = Duration
        BY <1>5 DEF vars, windowVars, timerVars, BarAge, UsualPoll, Delay, Duration
    <2> QED
        BY <1>5, <1>b, <2>1 DEF vars, testVars, windowVars, driveVars, timerVars, BarInv
<1> QED
    BY <1>0, <1>1, <1>2, <1>3, <1>4, <1>5 DEF Next

\* A test that was just started is seen as it is, and nothing is shown yet.
LEMMA CloseInvInit == Init => CloseInv
<1> SUFFICES ASSUME Init PROVE CloseInv
    OBVIOUS
<1>1. TypeOK
    BY TimesInvInit DEF TimesInv
<1>2. /\ Duration \in Nat \ {0} /\ {MaxCommand, UsualPoll, Delay} \subseteq Nat /\ UsualPoll >= 15
    BY <1>1, SeenNumbers
<1>3. /\ tested = 0 /\ sinceChange = 0 /\ sincePoll = 0 /\ lastSeenPercent = 90 /\ command = Idle
      /\ shown = Unknown
    BY DEF Init
<1> QED
    BY <1>2, <1>3 DEF CloseInv, SeenInv, BarInv

\* If the main loop keeps no callback waiting for as long as the shortest time between two
\* polls, the remaining time that is shown is close to what is left, whatever the drive has
\* announced: the time in which a piece is not seen, and the age of what is shown.  (If the
\* callback is late enough to poll each time, the bar is never updated.)
THEOREM EtaAlwaysClose ==
    ASSUME MaxLate + 1 < 15
    PROVE  Spec => []EtaIsClose
<1>1. Init => TimesInv /\ CloseInv
    BY TimesInvInit, CloseInvInit
<1>2. TimesInv /\ CloseInv /\ [Next]_vars => (TimesInv /\ CloseInv)'
    BY TimesInvStep, SeenStep, BarStep DEF TimesInv, CloseInv
<1>3. TimesInv /\ CloseInv => EtaIsClose
    <2> SUFFICES ASSUME TimesInv, CloseInv PROVE EtaIsClose
        OBVIOUS
    <2>1. TypeOK /\ PollInv /\ EtaCoversTest
        BY DEF TimesInv
    <2>2. BarAge \in Int /\ BarAge <= BarDelay /\ BarDelay \in Int
        BY <2>1, BarAgeType, BarNumbers DEF BarDelay
    <2>3. ASSUME active, testing, shown # Unknown
          PROVE  shown <= total - tested + UsualPoll + Delay + BarDelay
        <3>1. shown <= total - tested + UsualPoll + Delay + BarAge
            BY <2>3 DEF CloseInv, BarInv
        <3>2. {total, tested, UsualPoll, Delay, shown} \subseteq Int
            BY <2>1, BarNumbers
        <3> QED
            BY <2>2, <3>1, <3>2
    <2> QED
        BY <2>1, <2>3 DEF EtaIsClose
<1> QED
    BY <1>1, <1>2, <1>3, PTL DEF Spec
=============================================================================
