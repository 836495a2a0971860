----------------------- MODULE CommandExecutorProofs ------------------------
(***************************************************************************)
(* Proofs about AsyncCommandExecutor, for all buffer sizes, pipe           *)
(* capacities, exit codes and bounds.  About CommandExecutor: it           *)
(* implements the specification of the asynchronous executor it uses, and  *)
(* the promise of its header.  And about CommandExecutorGui: it is a       *)
(* CommandExecutor, so that all these theorems hold of it, whatever the    *)
(* user does; and what its dialog does is right.                           *)
(***************************************************************************)
EXTENDS CommandExecutorGui, SequenceTheorems, TLAPS

USE DEF Channel, Timer, TERM, KILL, SEGV

-----------------------------------------------------------------------------
(* The errors the executor makes are errors.                               *)

\* The empty list and a list of one error are lists of errors.
LEMMA ShortLists ==
    /\ <<>> \in Seq(ErrorRecord)
    /\ \A e \in ErrorRecord : <<e>> \in Seq(ErrorRecord) /\ Len(<<e>>) = 1 /\ <<e>>[1] = e
OBVIOUS

\* What appending one error does.
LEMMA OneMore ==
    ASSUME NEW s \in Seq(ErrorRecord), NEW e \in ErrorRecord
    PROVE  /\ s \o <<e>> \in Seq(ErrorRecord)
           /\ Len(s \o <<e>>) = Len(s) + 1
           /\ (s \o <<e>>)[Len(s) + 1] = e
           /\ Len(s) + 1 \in DOMAIN (s \o <<e>>)
<1>1. s \o <<e>> = Append(s, e)
    BY AppendIsConcat
<1>2. Len(s) \in Nat
    BY LenProperties
<1>3. DOMAIN Append(s, e) = 1 .. Len(s) + 1
    BY AppendProperties, LenProperties
<1> QED
    BY <1>1, <1>2, <1>3, AppendProperties

\* The errors the class makes of a failed call are errors.
LEMMA PlainErrors ==
    \A type \in {"gspawn", "errno", "giochannel"} : MakeError(type, "Error", 0) \in ErrorRecord
BY DEF MakeError, ErrorRecord

\* A wait status has a kind and an 8-bit code.
LEMMA StatusFields ==
    ASSUME NEW status \in Status
    PROVE  status.code \in 0 .. 255 /\ status.kind \in {"none", "exit", "signal"}
<1>1. CASE status = NoStatus
    BY <1>1 DEF NoStatus
<1>2. CASE \E c \in ExitCodes : status = ExitedWith(c)
    BY <1>2, ExitCodesAssumption DEF ExitedWith
<1>3. CASE \E sig \in {TERM, KILL, SEGV} : status = KilledBy(sig)
    BY <1>3 DEF KilledBy
<1> QED
    BY <1>1, <1>2, <1>3 DEF Status

\* A wait status is classified by a sequence of at most one error.
LEMMA ClassificationType ==
    ASSUME NEW status \in Status, NEW last \in {0, TERM, KILL}
    PROVE  Classification(status, last) \in Seq(ErrorRecord)
<1>1. status.code \in 0 .. 255 /\ status.kind \in {"none", "exit", "signal"}
    BY StatusFields
<1>2. \A level \in {"Warn", "Error"}, type \in {"exit", "signal"} :
          MakeError(type, level, status.code) \in ErrorRecord
    BY <1>1 DEF MakeError, ErrorRecord
<1>3. \A level \in {"Warn", "Error"}, type \in {"exit", "signal"} :
          <<MakeError(type, level, status.code)>> \in Seq(ErrorRecord)
    BY <1>2, ShortLists
<1> QED
    BY <1>1, <1>3, ShortLists DEF Classification

\* A failed read is reported by a sequence of errors.
LEMMA ReadErrorType ==
    ASSUME NEW ch \in Channel, NEW failing \in SUBSET Channel
    PROVE  ReadError(ch, failing) \in Seq(ErrorRecord)
<1>1. <<MakeError("giochannel", "Error", 0)>> \in Seq(ErrorRecord)
    BY PlainErrors, ShortLists
<1> QED
    BY <1>1, ShortLists DEF ReadError

\* What one read takes is in the pipe, and what it leaves exceeds the buffer.
LEMMA FillProperties ==
    ASSUME NEW ch \in Channel, pipe \in [Channel -> Nat]
    PROVE  /\ Fill(ch) \in Nat
           /\ pipe[ch] - Fill(ch) \in Nat
           /\ Fill(ch) = pipe[ch] \/ pipe[ch] - Fill(ch) = pipe[ch] - BufSize[ch]
BY BufSizeAssumption DEF Fill

-----------------------------------------------------------------------------
(* Types.                                                                  *)

\* The error list stays a list of errors.
LEMMA ErrorsTyped == TypeOK /\ [Next]_vars => errors' \in Seq(ErrorRecord)
<1> SUFFICES ASSUME TypeOK, [Next]_vars PROVE errors' \in Seq(ErrorRecord)
    OBVIOUS
<1> USE DEF TypeOK
<1>a. \A type \in {"errno", "giochannel"} :
          Append(errors, MakeError(type, "Error", 0)) \in Seq(ErrorRecord)
    BY PlainErrors, AppendProperties
<1>1. CASE Execute \/ ExecuteSpawnFails \/ ClearErrors
    <2>1. <<MakeError("gspawn", "Error", 0)>> \in Seq(ErrorRecord)
        BY PlainErrors, ShortLists
    <2> QED
        BY <1>1, <2>1, ShortLists DEF Execute, ExecuteSpawnFails, ClearErrors
<1>2. ASSUME NEW sig \in {TERM, KILL}, TryStop(sig) PROVE errors' \in Seq(ErrorRecord)
    BY <1>2, <1>a DEF TryStop
<1>3. CASE Stop(TERM) \/ Stop(KILL)
    BY <1>2, <1>3 DEF Stop
<1>4. CASE \E t \in Timer : StopTimeout(t)
    BY <1>2, <1>4 DEF StopTimeout, SignalOf
<1>5. CASE \E ch \in Channel : ChannelIo(ch)
    BY <1>5, <1>a DEF ChannelIo
<1>6. CASE StoppedCleanup
    BY <1>6, ClassificationType, ConcatProperties DEF StoppedCleanup
<1>7. CASE ChildWatch
    <2> PICK failing \in SUBSET Channel :
            errors' = errors \o ReadError("stdout", failing) \o ReadError("stderr", failing)
        BY <1>7 DEF ChildWatch, FinalRead
    <2>1. ReadError("stdout", failing) \in Seq(ErrorRecord)
              /\ ReadError("stderr", failing) \in Seq(ErrorRecord)
        BY ReadErrorType
    <2>2. errors \o ReadError("stdout", failing) \in Seq(ErrorRecord)
        BY <2>1, ConcatProperties
    <2> QED
        BY <2>1, <2>2, ConcatProperties
<1>8. CASE (\E on \in SUBSET Timer : SetStopTimeouts(on)) \/ UnsetStopTimeouts
           \/ Environment \/ UNCHANGED vars
    BY <1>8 DEF SetStopTimeouts, UnsetStopTimeouts, Environment, ChildWrite, ChildExits,
                ChildKilled, ChildEnds, ChildReaped, vars, classVars
<1> QED
    BY <1>1, <1>3, <1>4, <1>5, <1>6, <1>7, <1>8 DEF Next, Owner, Dispatch

\* The types of the timers, of the channels' flags, of the counts of blocks, and of the rest.
TimersTyped == sourceSet \in [Timer -> BOOLEAN] /\ timerFor \in [Timer -> Nat]
FlagsTyped == chanOpen \in [Channel -> BOOLEAN] /\ ioSource \in [Channel -> BOOLEAN]
BlocksTyped ==
    str \in [Channel -> Nat] /\ pipe \in [Channel -> Nat] /\ wrote \in [Channel -> Nat]
SignalsTyped ==
    killSignalSent \in {0, TERM, KILL} /\ sent \subseteq {TERM, KILL} /\ pending \subseteq {TERM, KILL}
ProcessTyped ==
    /\ running \in BOOLEAN /\ childWatchCalled \in BOOLEAN
    /\ pid \in Nat /\ waitStatus \in Status
    /\ child \in {"none", "alive", "zombie", "reaped"}
    /\ killable \in BOOLEAN /\ fate \in Status /\ runs \in Nat

\* TypeOK by its parts.
LEMMA TypeParts ==
    TypeOK <=> /\ TimersTyped /\ FlagsTyped /\ BlocksTyped /\ SignalsTyped /\ ProcessTyped
               /\ errors \in Seq(ErrorRecord)
BY Zenon DEF TypeOK, TimersTyped, FlagsTyped, BlocksTyped, SignalsTyped, ProcessTyped

\* The timers keep their type.
LEMMA TimersStep == ASSUME TimersTyped, pid \in Nat, [Next]_vars PROVE TimersTyped'
<1> USE DEF TimersTyped
<1>t. TimersWithoutSource \in [Timer -> Nat]
    BY DEF TimersWithoutSource
<1>1. ASSUME NEW on \in SUBSET Timer, SetStopTimeouts(on) PROVE TimersTyped'
    <2>1. /\ sourceSet' = [t \in Timer |-> t \in on]
          /\ timerFor' = [t \in Timer |-> IF t \in on THEN pid ELSE TimersWithoutSource[t]]
        BY <1>1, Zenon DEF SetStopTimeouts
    <2> QED
        BY <1>t, <2>1
<1>2. CASE UnsetStopTimeouts \/ StoppedCleanup
    BY <1>2, <1>t DEF UnsetStopTimeouts, StoppedCleanup, AllOff
<1>3. ASSUME NEW t \in Timer, StopTimeout(t) PROVE TimersTyped'
    BY <1>3 DEF StopTimeout
<1>4. CASE UNCHANGED <<sourceSet, timerFor>>
    BY <1>4
<1>5. CASE Execute \/ ExecuteSpawnFails \/ Stop(TERM) \/ Stop(KILL) \/ ClearErrors
    BY <1>4, <1>5 DEF Execute, ExecuteSpawnFails, Stop, ClearErrors, glibVars
<1>6. CASE (\E ch \in Channel : ChannelIo(ch)) \/ ChildWatch \/ UNCHANGED vars
    BY <1>4, <1>6 DEF ChannelIo, ChildWatch, vars, classVars, glibVars
<1>7. CASE Environment
    BY <1>4, <1>7 DEF Environment, ChildWrite, ChildExits, ChildKilled, ChildEnds, ChildReaped,
                      classVars, glibVars
<1> QED
    BY <1>1, <1>2, <1>3, <1>5, <1>6, <1>7 DEF Next, Owner, Dispatch

\* The channels' flags keep their type.
LEMMA FlagsStep == ASSUME FlagsTyped, [Next]_vars PROVE FlagsTyped'
<1> USE DEF FlagsTyped
<1>1. CASE Execute \/ ChildWatch
    BY <1>1 DEF Execute, ChildWatch
<1>2. ASSUME NEW ch \in Channel, ChannelIo(ch) PROVE FlagsTyped'
    BY <1>2 DEF ChannelIo, HungUp
<1>3. CASE UNCHANGED <<chanOpen, ioSource>>
    BY <1>3
<1>4. CASE ExecuteSpawnFails \/ Stop(TERM) \/ Stop(KILL) \/ ClearErrors \/ StoppedCleanup
    BY <1>3, <1>4 DEF ExecuteSpawnFails, Stop, ClearErrors, StoppedCleanup, glibVars
<1>5. CASE (\E on \in SUBSET Timer : SetStopTimeouts(on)) \/ UnsetStopTimeouts
           \/ (\E t \in Timer : StopTimeout(t)) \/ UNCHANGED vars
    BY <1>3, <1>5 DEF SetStopTimeouts, UnsetStopTimeouts, StopTimeout, vars, classVars, glibVars
<1>6. CASE Environment
    BY <1>3, <1>6 DEF Environment, ChildWrite, ChildExits, ChildKilled, ChildEnds, ChildReaped,
                      classVars, glibVars
<1> QED
    BY <1>1, <1>2, <1>4, <1>5, <1>6 DEF Next, Owner, Dispatch

\* The counts of blocks keep their type: a read takes no more than there is.
LEMMA BlocksStep == ASSUME BlocksTyped, [Next]_vars PROVE BlocksTyped'
<1>a. str \in [Channel -> Nat] /\ pipe \in [Channel -> Nat] /\ wrote \in [Channel -> Nat]
    BY Zenon DEF BlocksTyped
<1>f. \A ch \in Channel : Fill(ch) \in Nat /\ pipe[ch] - Fill(ch) \in Nat
    BY <1>a, FillProperties
<1>s. \A ch \in Channel : str[ch] + Fill(ch) \in Nat
    BY <1>a, <1>f
<1>1. CASE NewRun /\ pipe' \in [Channel -> Nat]
    BY <1>1 DEF NewRun, BlocksTyped
<1>2. CASE Execute \/ ExecuteSpawnFails
    BY <1>1, <1>2, <1>a DEF Execute, ExecuteSpawnFails, childVars
<1>3. ASSUME NEW ch \in Channel, ChannelIo(ch) PROVE BlocksTyped'
    <2>1. /\ wrote' = wrote
          /\ \/ str' = [str EXCEPT ![ch] = @ + Fill(ch)] /\ pipe' = [pipe EXCEPT ![ch] = @ - Fill(ch)]
             \/ UNCHANGED <<str, pipe>>
        BY <1>3, Zenon DEF ChannelIo, historyVars
    <2>2. CASE UNCHANGED <<str, pipe>>
        BY <1>a, <2>1, <2>2 DEF BlocksTyped
    <2>3. CASE str' = [str EXCEPT ![ch] = @ + Fill(ch)] /\ pipe' = [pipe EXCEPT ![ch] = @ - Fill(ch)]
        BY <1>a, <1>f, <1>s, <2>1, <2>3 DEF BlocksTyped
    <2> QED
        BY <2>1, <2>2, <2>3
<1>4. CASE ChildWatch
    <2>1. PICK failing \in SUBSET Channel :
             str' = [ch \in Channel |-> IF ch \in failing THEN str[ch] ELSE str[ch] + Fill(ch)]
        BY <1>4, Zenon DEF ChildWatch, FinalRead
    <2>2. pipe' = [ch \in Channel |-> 0] /\ wrote' = wrote
        BY <1>4, Zenon DEF ChildWatch, historyVars
    <2>3. \A ch \in Channel : str[ch] \in Nat
        BY <1>a
    <2> QED
        BY <1>a, <1>s, <2>1, <2>2, <2>3 DEF BlocksTyped
<1>5. ASSUME NEW ch \in Channel, ChildWrite(ch) PROVE BlocksTyped'
    <2>1. /\ pipe' = [pipe EXCEPT ![ch] = @ + 1] /\ wrote' = [wrote EXCEPT ![ch] = @ + 1]
          /\ str' = str
        BY <1>5 DEF ChildWrite, classVars
    <2> QED
        BY <1>a, <2>1 DEF BlocksTyped
<1>6. CASE UNCHANGED <<str, pipe, wrote>>
    BY <1>a, <1>6 DEF BlocksTyped
<1>7. CASE Stop(TERM) \/ Stop(KILL) \/ ClearErrors \/ StoppedCleanup
    BY <1>6, <1>7 DEF Stop, ClearErrors, StoppedCleanup, childVars, historyVars
<1>8. CASE (\E on \in SUBSET Timer : SetStopTimeouts(on)) \/ UnsetStopTimeouts
           \/ (\E t \in Timer : StopTimeout(t)) \/ UNCHANGED vars
    BY <1>6, <1>8 DEF SetStopTimeouts, UnsetStopTimeouts, StopTimeout, vars, classVars,
                      childVars, historyVars
<1>9. CASE ChildExits \/ ChildKilled \/ ChildReaped
    BY <1>6, <1>9 DEF ChildExits, ChildKilled, ChildEnds, ChildReaped, classVars, historyVars
<1> QED
    BY <1>2, <1>3, <1>4, <1>5, <1>7, <1>8, <1>9 DEF Next, Owner, Dispatch, Environment

\* The signals keep their type.
LEMMA SignalsStep == ASSUME SignalsTyped, [Next]_vars PROVE SignalsTyped'
<1> USE DEF SignalsTyped
<1>1. ASSUME NEW sig \in {TERM, KILL}, TryStop(sig) PROVE SignalsTyped'
    <2>1. CASE UNCHANGED <<killSignalSent, sent, pending>>
        BY <2>1
    <2>2. CASE /\ killSignalSent' = sig /\ sent' = sent \cup {sig}
               /\ pending' \in {pending, pending \cup {sig}}
        BY <2>2
    <2> QED
        BY <1>1, <2>1, <2>2, Zenon DEF TryStop
<1>2. CASE Execute
    BY <1>2 DEF Execute, NewRun
<1>3. CASE ExecuteSpawnFails
    BY <1>3 DEF ExecuteSpawnFails, NewRun, CleanupMembers, childVars
<1>4. CASE Stop(TERM) \/ Stop(KILL) \/ \E t \in Timer : StopTimeout(t)
    BY <1>1, <1>4 DEF Stop, StopTimeout, SignalOf
<1>5. CASE StoppedCleanup
    BY <1>5 DEF StoppedCleanup, CleanupMembers, childVars, historyVars
<1>6. CASE UNCHANGED <<killSignalSent, sent, pending>>
    BY <1>6
<1>7. CASE (\E on \in SUBSET Timer : SetStopTimeouts(on)) \/ UnsetStopTimeouts \/ ClearErrors
    BY <1>6, <1>7 DEF SetStopTimeouts, UnsetStopTimeouts, ClearErrors, childVars, historyVars
<1>8. CASE (\E ch \in Channel : ChannelIo(ch)) \/ ChildWatch \/ UNCHANGED vars
    BY <1>6, <1>8 DEF ChannelIo, ChildWatch, vars, classVars, childVars, historyVars
<1>9. CASE Environment
    BY <1>6, <1>9 DEF Environment, ChildWrite, ChildExits, ChildKilled, ChildEnds, ChildReaped,
                      classVars, historyVars
<1> QED
    BY <1>2, <1>3, <1>4, <1>5, <1>7, <1>8, <1>9 DEF Next, Owner, Dispatch

\* The process and its report keep their type.
LEMMA ProcessStep == ASSUME ProcessTyped, SignalsTyped, [Next]_vars PROVE ProcessTyped'
<1> USE DEF ProcessTyped
<1>n. NoStatus \in Status
    BY DEF Status
<1>1. CASE Execute
    <2>1. /\ running' = TRUE /\ childWatchCalled' = FALSE /\ pid' = runs + 1
          /\ waitStatus' = NoStatus /\ fate' = NoStatus /\ child' = "alive"
          /\ killable' \in BOOLEAN /\ runs' = runs + 1
        BY <1>1, Zenon DEF Execute, NewRun
    <2>2. pid' \in Nat /\ runs' \in Nat
        BY <2>1
    <2> QED
        BY <1>n, <2>1, <2>2, Zenon
<1>2. CASE ExecuteSpawnFails
    <2>1. /\ running' = running /\ childWatchCalled' = FALSE /\ pid' = 0
          /\ waitStatus' = NoStatus /\ fate' = NoStatus /\ child' = child
          /\ killable' = killable /\ runs' = runs + 1
        BY <1>2, Zenon DEF ExecuteSpawnFails, NewRun, CleanupMembers, childVars
    <2>2. pid' \in Nat /\ runs' \in Nat
        BY <2>1
    <2> QED
        BY <1>n, <2>1, <2>2, Zenon
<1>3. CASE Stop(TERM) \/ Stop(KILL) \/ ClearErrors \/ \E t \in Timer : StopTimeout(t)
    BY <1>3 DEF Stop, ClearErrors, StopTimeout, childVars, historyVars
<1>4. CASE (\E on \in SUBSET Timer : SetStopTimeouts(on)) \/ UnsetStopTimeouts
    BY <1>4 DEF SetStopTimeouts, UnsetStopTimeouts, childVars, historyVars
<1>5. CASE StoppedCleanup
    BY <1>5, <1>n DEF StoppedCleanup, CleanupMembers, childVars, historyVars
<1>6. CASE (\E ch \in Channel : ChannelIo(ch)) \/ ChildWatch
    BY <1>6 DEF ChannelIo, ChildWatch, historyVars
<1>7. CASE (\E ch \in Channel : ChildWrite(ch)) \/ ChildReaped \/ UNCHANGED vars
    BY <1>7 DEF ChildWrite, ChildReaped, vars, classVars, childVars, historyVars
<1>8. ASSUME NEW status \in Status, ChildEnds(status) PROVE ProcessTyped'
    BY <1>8 DEF ChildEnds, classVars
<1>9. CASE ChildExits
    BY <1>8, <1>9 DEF ChildExits, Status
<1>10. CASE ChildKilled
    <2>1. PICK sig \in pending \cup {SEGV} : ChildEnds(KilledBy(sig))
        BY <1>10 DEF ChildKilled
    <2>2. sig \in {TERM, KILL, SEGV}
        BY DEF SignalsTyped
    <2>3. KilledBy(sig) \in Status
        BY <2>2, Zenon DEF Status
    <2> QED
        BY <1>8, <2>1, <2>3
<1> QED
    BY <1>1, <1>2, <1>3, <1>4, <1>5, <1>6, <1>7, <1>9, <1>10 DEF Next, Owner, Dispatch, Environment

\* One step keeps the types.
LEMMA TypeStep == TypeOK /\ [Next]_vars => TypeOK'
<1> SUFFICES ASSUME TypeOK, [Next]_vars PROVE TypeOK'
    OBVIOUS
<1>1. /\ TimersTyped /\ FlagsTyped /\ BlocksTyped /\ SignalsTyped /\ ProcessTyped
      /\ pid \in Nat
    BY TypeParts, Zenon DEF ProcessTyped
<1>2. TimersTyped' /\ FlagsTyped' /\ BlocksTyped' /\ SignalsTyped' /\ ProcessTyped'
    BY <1>1, TimersStep, FlagsStep, BlocksStep, SignalsStep, ProcessStep, Zenon
<1>3. errors' \in Seq(ErrorRecord)
    BY ErrorsTyped
<1> QED
    BY <1>2, <1>3, Zenon DEF TypeOK, TimersTyped, FlagsTyped, BlocksTyped, SignalsTyped, ProcessTyped

\* The initial state is typed.
LEMMA TypeInit == Init => TypeOK
<1> SUFFICES ASSUME Init PROVE TypeOK
    OBVIOUS
<1>1. /\ sourceSet \in [Timer -> BOOLEAN] /\ timerFor \in [Timer -> Nat]
      /\ chanOpen \in [Channel -> BOOLEAN] /\ ioSource \in [Channel -> BOOLEAN]
    BY DEF Init, AllOff, NoTimer
<1>2. str \in [Channel -> Nat] /\ pipe \in [Channel -> Nat] /\ wrote \in [Channel -> Nat]
    BY DEF Init
<1>3. waitStatus \in Status /\ fate \in Status /\ errors \in Seq(ErrorRecord)
    BY ShortLists DEF Init, Status
<1> QED
    BY <1>1, <1>2, <1>3 DEF Init, TypeOK

\* Every variable of the executor and of its child always has its type.
THEOREM TypeCorrect == Spec => []TypeOK
<1>1. TypeOK /\ [Next]_vars => TypeOK'
    BY TypeStep
<1> QED
    BY TypeInit, <1>1, PTL DEF Spec

-----------------------------------------------------------------------------
(* The parts of the inductive invariant, one lemma each.                   *)

\* try_stop() touches neither the life cycle nor the timers.
LEMMA TrackedStep == IndInv /\ [Next]_vars => ChildIsTracked' /\ IdleInv'
<1> SUFFICES ASSUME IndInv, [Next]_vars PROVE ChildIsTracked' /\ IdleInv'
    OBVIOUS
<1> USE DEF IndInv, TypeOK, ChildIsTracked, IdleInv
<1>1. CASE Execute
    BY <1>1 DEF Execute, NewRun
<1>2. CASE ExecuteSpawnFails
    BY <1>2 DEF ExecuteSpawnFails, NewRun, CleanupMembers, glibVars, childVars
<1>3. CASE Stop(TERM) \/ Stop(KILL)
    BY <1>3 DEF Stop, glibVars
<1>4. CASE (\E on \in SUBSET Timer : SetStopTimeouts(on)) \/ UnsetStopTimeouts
    BY <1>4 DEF SetStopTimeouts, UnsetStopTimeouts, childVars, historyVars
<1>5. CASE StoppedCleanup
    BY <1>5 DEF StoppedCleanup, CleanupMembers, childVars, historyVars
<1>6. CASE ClearErrors
    BY <1>6 DEF ClearErrors, glibVars, childVars, historyVars
<1>7. CASE \E t \in Timer : StopTimeout(t)
    BY <1>7 DEF StopTimeout
<1>8. CASE \E ch \in Channel : ChannelIo(ch)
    BY <1>8 DEF ChannelIo, historyVars
<1>9. CASE ChildWatch
    BY <1>9 DEF ChildWatch, historyVars
<1>10. CASE Environment
    BY <1>10 DEF Environment, ChildWrite, ChildExits, ChildKilled, ChildEnds, ChildReaped,
                 classVars, glibVars, historyVars
<1>11. CASE UNCHANGED vars
    BY <1>11 DEF vars, classVars, glibVars, childVars, historyVars
<1> QED
    BY <1>1, <1>2, <1>3, <1>4, <1>5, <1>6, <1>7, <1>8, <1>9, <1>10, <1>11
       DEF Next, Owner, Dispatch

\* A stop timeout is attached only to the running command, or to one not cleaned up.
LEMMA TimerStep == IndInv /\ [Next]_vars => NoStaleTimer'
<1> SUFFICES ASSUME IndInv, [Next]_vars PROVE NoStaleTimer'
    OBVIOUS
<1> USE DEF IndInv, TypeOK, ChildIsTracked, IdleInv, NoStaleTimer
<1>1. CASE Execute
    BY <1>1 DEF Execute, NewRun
<1>2. CASE ExecuteSpawnFails
    BY <1>2 DEF ExecuteSpawnFails, NewRun, CleanupMembers, glibVars
<1>3. CASE Stop(TERM) \/ Stop(KILL)
    BY <1>3 DEF Stop, glibVars
<1>4. CASE (\E on \in SUBSET Timer : SetStopTimeouts(on)) \/ UnsetStopTimeouts
    BY <1>4 DEF SetStopTimeouts, UnsetStopTimeouts, TimersWithoutSource, AllOff
<1>5. CASE StoppedCleanup
    BY <1>5 DEF StoppedCleanup, TimersWithoutSource, AllOff
<1>6. CASE ClearErrors
    BY <1>6 DEF ClearErrors, glibVars
<1>7. CASE \E t \in Timer : StopTimeout(t)
    BY <1>7 DEF StopTimeout
<1>8. CASE (\E ch \in Channel : ChannelIo(ch)) \/ ChildWatch
    BY <1>8 DEF ChannelIo, ChildWatch
<1>9. CASE Environment
    BY <1>9 DEF Environment, ChildWrite, ChildExits, ChildKilled, ChildEnds, ChildReaped,
                classVars, glibVars
<1>10. CASE UNCHANGED vars
    BY <1>10 DEF vars, classVars, glibVars
<1> QED
    BY <1>1, <1>2, <1>3, <1>4, <1>5, <1>6, <1>7, <1>8, <1>9, <1>10 DEF Next, Owner, Dispatch

\* Every block is written once, moves to the pipe and then to the string.
LEMMA AccountStep == IndInv /\ [Next]_vars => AccountInv'
<1> SUFFICES ASSUME IndInv, [Next]_vars PROVE AccountInv'
    OBVIOUS
<1>t. /\ str \in [Channel -> Nat] /\ pipe \in [Channel -> Nat] /\ wrote \in [Channel -> Nat]
      /\ running \in BOOLEAN /\ PipeCap \in Nat
    BY PipeCapAssumption DEF IndInv, TypeOK
<1>a. \A ch \in Channel : pipe[ch] <= PipeCap /\ (running => wrote[ch] = str[ch] + pipe[ch])
    BY DEF IndInv, AccountInv
<1>f. \A ch \in Channel : Fill(ch) \in Nat /\ pipe[ch] - Fill(ch) \in Nat
    BY <1>t, FillProperties
<1>0. ASSUME UNCHANGED <<str, pipe, wrote>>, running' => running PROVE AccountInv'
    BY <1>0, <1>a DEF AccountInv
<1>1. CASE Execute
    <2>1. \A ch \in Channel : pipe'[ch] = 0 /\ str'[ch] = 0 /\ wrote'[ch] = 0
        BY <1>1 DEF Execute, NewRun
    <2> QED
        BY <1>t, <2>1 DEF AccountInv
<1>2. CASE ExecuteSpawnFails
    <2>1. pipe' = pipe /\ ~running'
        BY <1>2 DEF ExecuteSpawnFails, NewRun, childVars
    <2> QED
        BY <1>a, <2>1 DEF AccountInv
<1>3. CASE Stop(TERM) \/ Stop(KILL) \/ \E t \in Timer : StopTimeout(t)
    BY <1>0, <1>3 DEF Stop, StopTimeout
<1>4. CASE (\E on \in SUBSET Timer : SetStopTimeouts(on)) \/ UnsetStopTimeouts
    BY <1>0, <1>4 DEF SetStopTimeouts, UnsetStopTimeouts, childVars, historyVars
<1>5. CASE StoppedCleanup \/ ClearErrors
    BY <1>0, <1>5 DEF StoppedCleanup, ClearErrors, childVars, historyVars
<1>6. ASSUME NEW ch \in Channel, ChannelIo(ch) PROVE AccountInv'
    <2>1. running' = running /\ wrote' = wrote
        BY <1>6 DEF ChannelIo, historyVars
    <2>2. CASE str' = [str EXCEPT ![ch] = @ + Fill(ch)] /\ pipe' = [pipe EXCEPT ![ch] = @ - Fill(ch)]
        <3> SUFFICES ASSUME NEW c \in Channel
                     PROVE  pipe'[c] <= PipeCap /\ (running' => wrote'[c] = str'[c] + pipe'[c])
            BY DEF AccountInv
        <3>1. CASE c = ch
            <4>1. /\ str'[c] = str[c] + Fill(c) /\ pipe'[c] = pipe[c] - Fill(c)
                  /\ wrote'[c] = wrote[c] /\ running' = running
                BY <1>t, <2>1, <2>2, <3>1
            <4>2. /\ str[c] \in Nat /\ pipe[c] \in Nat /\ wrote[c] \in Nat /\ Fill(c) \in Nat
                  /\ PipeCap \in Nat
                BY <1>t, <1>f
            <4>3. pipe[c] <= PipeCap /\ (running => wrote[c] = str[c] + pipe[c])
                BY <1>a
            <4> QED
                BY ONLY <4>1, <4>2, <4>3
        <3>2. CASE c # ch
            BY <1>t, <1>a, <2>1, <2>2, <3>2
        <3> QED
            BY <3>1, <3>2
    <2>3. CASE UNCHANGED <<str, pipe>>
        BY <1>0, <2>1, <2>3
    <2> QED
        BY <1>6, <2>2, <2>3, Zenon DEF ChannelIo
<1>7. CASE ChildWatch
    <2>1. ~running' /\ \A ch \in Channel : pipe'[ch] = 0
        BY <1>7 DEF ChildWatch
    <2> QED
        BY <1>t, <2>1 DEF AccountInv
<1>8. ASSUME NEW ch \in Channel, ChildWrite(ch) PROVE AccountInv'
    <2>1. /\ pipe' = [pipe EXCEPT ![ch] = @ + 1] /\ wrote' = [wrote EXCEPT ![ch] = @ + 1]
          /\ str' = str /\ running' = running /\ pipe[ch] < PipeCap
        BY <1>8 DEF ChildWrite, classVars
    <2> SUFFICES ASSUME NEW c \in Channel
                 PROVE  pipe'[c] <= PipeCap /\ (running' => wrote'[c] = str'[c] + pipe'[c])
        BY DEF AccountInv
    <2>2. /\ str[c] \in Nat /\ pipe[c] \in Nat /\ wrote[c] \in Nat /\ PipeCap \in Nat
          /\ pipe[c] <= PipeCap /\ (running => wrote[c] = str[c] + pipe[c])
        BY <1>t, <1>a
    <2>3. CASE c = ch
        <3>1. pipe'[c] = pipe[c] + 1 /\ wrote'[c] = wrote[c] + 1 /\ str'[c] = str[c]
            BY <1>t, <2>1, <2>3
        <3>2. pipe[c] < PipeCap /\ running' = running
            BY <2>1, <2>3
        <3> QED
            BY ONLY <2>2, <3>1, <3>2
    <2>4. CASE c # ch
        BY <1>t, <2>1, <2>2, <2>4
    <2> QED
        BY <2>3, <2>4
<1>9. CASE ChildExits \/ ChildKilled \/ ChildReaped
    BY <1>0, <1>9 DEF ChildExits, ChildKilled, ChildEnds, ChildReaped, classVars, historyVars
<1>10. CASE UNCHANGED vars
    BY <1>0, <1>10 DEF vars, classVars, childVars, historyVars
<1> QED
    BY <1>1, <1>2, <1>3, <1>4, <1>5, <1>6, <1>7, <1>8, <1>9, <1>10
       DEF Next, Owner, Dispatch, Environment

\* The status and the signal that stopped_cleanup() will compare are the true ones.
LEMMA FateStep == IndInv /\ [Next]_vars => FateInv'
<1> SUFFICES ASSUME IndInv, [Next]_vars PROVE FateInv'
    OBVIOUS
<1> USE DEF IndInv, ChildIsTracked, FateInv
<1>0. ASSUME UNCHANGED <<running, childWatchCalled, waitStatus, fate, killSignalSent, sent>>,
             child' \in {"zombie", "reaped"} => fate # NoStatus
      PROVE  FateInv'
    BY <1>0
<1>1. CASE Execute
    BY <1>1 DEF Execute, NewRun
<1>2. CASE ExecuteSpawnFails
    BY <1>2 DEF ExecuteSpawnFails, NewRun, CleanupMembers, childVars
<1>3. ASSUME NEW sig, TryStop(sig),
             UNCHANGED <<running, childWatchCalled, waitStatus, child, fate>>
      PROVE  FateInv'
    <2>1. CASE UNCHANGED <<killSignalSent, sent>>
        BY <1>0, <1>3, <2>1
    <2>2. CASE killSignalSent' = sig /\ sent' = sent \cup {sig}
        BY <1>3, <2>2
    <2> QED
        BY <1>3, <2>1, <2>2 DEF TryStop
<1>4. CASE Stop(TERM) \/ Stop(KILL) \/ \E t \in Timer : StopTimeout(t)
    BY <1>3, <1>4 DEF Stop, StopTimeout
<1>5. CASE (\E on \in SUBSET Timer : SetStopTimeouts(on)) \/ UnsetStopTimeouts \/ ClearErrors
    BY <1>0, <1>5 DEF SetStopTimeouts, UnsetStopTimeouts, ClearErrors, childVars, historyVars
<1>6. CASE StoppedCleanup
    BY <1>6 DEF StoppedCleanup, CleanupMembers, childVars, historyVars
<1>7. CASE \E ch \in Channel : ChannelIo(ch)
    BY <1>0, <1>7 DEF ChannelIo, historyVars
<1>8. CASE ChildWatch
    BY <1>8 DEF ChildWatch, historyVars
<1>9. CASE (\E ch \in Channel : ChildWrite(ch)) \/ ChildReaped
    BY <1>0, <1>9 DEF ChildWrite, ChildReaped, classVars, historyVars
<1>10. ASSUME NEW status, status # NoStatus, ChildEnds(status) PROVE FateInv'
    BY <1>10 DEF ChildEnds, classVars
<1>11. CASE ChildExits \/ ChildKilled
    BY <1>10, <1>11 DEF ChildExits, ChildKilled, ExitedWith, KilledBy, NoStatus
<1>12. CASE UNCHANGED vars
    BY <1>0, <1>12 DEF vars, classVars, childVars, historyVars
<1> QED
    BY <1>1, <1>2, <1>4, <1>5, <1>6, <1>7, <1>8, <1>9, <1>11, <1>12
       DEF Next, Owner, Dispatch, Environment

\* What the final read leaves behind.
LEMMA FinalReadLoss ==
    ASSUME IndInv, ChildWatch
    PROVE  \/ \E i \in DOMAIN errors' : errors'[i].type = "giochannel"
           \/ \A ch \in Channel : str'[ch] = str[ch] + Fill(ch)
<1> USE DEF IndInv, TypeOK
<1> PICK failing \in SUBSET Channel :
        /\ str' = [ch \in Channel |-> IF ch \in failing THEN str[ch] ELSE str[ch] + Fill(ch)]
        /\ errors' = errors \o ReadError("stdout", failing) \o ReadError("stderr", failing)
    BY DEF ChildWatch, FinalRead
<1> DEFINE out == errors \o ReadError("stdout", failing)
           err == ReadError("stderr", failing)
           e == MakeError("giochannel", "Error", 0)
<1>1. e \in ErrorRecord /\ e.type = "giochannel"
    BY PlainErrors DEF MakeError
<1>2. ReadError("stdout", failing) \in Seq(ErrorRecord) /\ err \in Seq(ErrorRecord)
    BY ReadErrorType
<1>3. out \in Seq(ErrorRecord)
    BY <1>2, ConcatProperties
<1> HIDE DEF e
<1>4. CASE "stderr" \in failing
    <2>1. err = <<e>>
        BY <1>4 DEF ReadError, e
    <2> HIDE DEF out, err
    <2>2. Len(out) + 1 \in DOMAIN (out \o err) /\ (out \o err)[Len(out) + 1] = e
        BY <1>1, <1>3, <2>1, OneMore
    <2> QED
        BY <1>1, <2>2 DEF out, err
<1>5. CASE "stdout" \in failing /\ "stderr" \notin failing
    <2>1. ReadError("stdout", failing) = <<e>> /\ err = <<>>
        BY <1>5 DEF ReadError, e
    <2>2. Len(errors) + 1 \in DOMAIN out /\ out[Len(errors) + 1] = e
        BY <1>1, <2>1, OneMore
    <2>3. errors' = out
        BY <1>3, <2>1, ConcatEmptySeq
    <2> QED
        BY <1>1, <2>2, <2>3
<1>6. CASE failing = {}
    BY <1>6
<1> QED
    BY <1>4, <1>5, <1>6

\* After the final read at most what a full pipe holds beyond the buffer is lost.
LEMMA LossStep == IndInv /\ [Next]_vars => OutputLossBounded'
<1> SUFFICES ASSUME IndInv, [Next]_vars, childWatchCalled' PROVE OutputLossBounded'
    BY DEF OutputLossBounded
<1> USE DEF IndInv, TypeOK, ChildIsTracked, IdleInv
<1>1. CASE ChildWatch
    <2>1. CASE \E i \in DOMAIN errors' : errors'[i].type = "giochannel"
        BY <2>1 DEF OutputLossBounded
    <2>2. CASE \A ch \in Channel : str'[ch] = str[ch] + Fill(ch)
        <3>1. running /\ wrote' = wrote
            BY <1>1 DEF ChildWatch, historyVars
        <3>2. \A ch \in Channel : /\ wrote[ch] = str[ch] + pipe[ch]
                                  /\ pipe[ch] <= PipeCap
            BY <3>1 DEF AccountInv
        <3>3. \A ch \in Channel :
                  wrote'[ch] - str'[ch] <= (IF PipeCap > BufSize[ch] THEN PipeCap - BufSize[ch] ELSE 0)
            <4> TAKE ch \in Channel
            <4>1. PipeCap \in Nat /\ BufSize[ch] \in Nat /\ pipe[ch] \in Nat /\ str[ch] \in Nat
                BY PipeCapAssumption, BufSizeAssumption
            <4>2. Fill(ch) = (IF pipe[ch] < BufSize[ch] THEN pipe[ch] ELSE BufSize[ch])
                BY DEF Fill
            <4>3. str'[ch] = str[ch] + Fill(ch) /\ wrote'[ch] = str[ch] + pipe[ch]
                BY <2>2, <3>1, <3>2
            <4>4. pipe[ch] <= PipeCap
                BY <3>2
            <4> HIDE DEF IndInv, TypeOK, ChildIsTracked, IdleInv
            <4> QED
                BY ONLY <4>1, <4>2, <4>3, <4>4
        <3> QED
            BY <3>3 DEF OutputLossBounded
    <2> QED
        BY <1>1, <2>1, <2>2, FinalReadLoss
<1>2. ASSUME UNCHANGED <<childWatchCalled, errors, str, wrote>> PROVE OutputLossBounded'
    BY <1>2 DEF OutputLossBounded
<1>3. CASE Execute \/ ExecuteSpawnFails \/ StoppedCleanup
    BY <1>3 DEF Execute, ExecuteSpawnFails, NewRun, StoppedCleanup, CleanupMembers
<1>4. CASE Stop(TERM) \/ Stop(KILL) \/ ClearErrors
    BY <1>4 DEF Stop, ClearErrors
<1>5. CASE (\E on \in SUBSET Timer : SetStopTimeouts(on)) \/ UnsetStopTimeouts
    BY <1>2, <1>5 DEF SetStopTimeouts, UnsetStopTimeouts, historyVars
<1>6. CASE \E t \in Timer : StopTimeout(t)
    BY <1>2, <1>6 DEF StopTimeout, TryStop
<1>7. CASE \E ch \in Channel : ChannelIo(ch)
    BY <1>7 DEF ChannelIo
<1>8. CASE Environment
    BY <1>2, <1>8 DEF Environment, ChildWrite, ChildExits, ChildKilled, ChildEnds, ChildReaped,
                      classVars, historyVars
<1>9. CASE UNCHANGED vars
    BY <1>2, <1>9 DEF vars, classVars, historyVars
<1> QED
    BY <1>1, <1>3, <1>4, <1>5, <1>6, <1>7, <1>8, <1>9 DEF Next, Owner, Dispatch

-----------------------------------------------------------------------------
(* The theorems.                                                           *)

\* A new executor satisfies the invariant.
LEMMA IndInvInit == Init => IndInv
<1> SUFFICES ASSUME Init PROVE IndInv
    OBVIOUS
<1> QED
    BY TypeInit, PipeCapAssumption
       DEF Init, IndInv, ChildIsTracked, NoStaleTimer, OutputLossBounded, IdleInv,
           AccountInv, FateInv, NoTimer, AllOff

\* The invariant is inductive.
LEMMA IndInvStep == IndInv /\ [Next]_vars => IndInv'
BY TypeStep, TrackedStep, TimerStep, AccountStep, FateStep, LossStep DEF IndInv

\* The invariant holds of every behaviour of the executor, its child and its owner.
LEMMA IndInvHolds == Spec => []IndInv
BY IndInvInit, IndInvStep, PTL DEF Spec

\* The executor never loses its child, in any order of calls.
THEOREM ChildAlwaysTracked == Spec => []ChildIsTracked
<1>1. IndInv => ChildIsTracked
    BY DEF IndInv
<1> QED
    BY <1>1, IndInvHolds, PTL

\* A stop timeout never outlives its command.
THEOREM TimersNeverStale == Spec => []NoStaleTimer
<1>1. IndInv => NoStaleTimer
    BY DEF IndInv
<1> QED
    BY <1>1, IndInvHolds, PTL

\* Output is lost only beyond the channel's buffer, whatever the sizes are.
THEOREM LossAlwaysBounded == Spec => []OutputLossBounded
<1>1. IndInv => OutputLossBounded
    BY DEF IndInv
<1> QED
    BY <1>1, IndInvHolds, PTL

\* The step that ends a command reports the true end.
LEMMA EndStep == IndInv /\ [Next]_vars => EndReported
<1> SUFFICES ASSUME IndInv, [Next]_vars, childWatchCalled, ~childWatchCalled' PROVE EndReported
    BY DEF EndReported
<1> USE DEF IndInv
<1>1. StoppedCleanup
    <2>1. ~(Execute \/ ExecuteSpawnFails \/ ChildWatch)
        BY DEF Execute, ExecuteSpawnFails, NewRun, ChildWatch
    <2>2. ~(Stop(TERM) \/ Stop(KILL) \/ UnsetStopTimeouts \/ ClearErrors)
        BY DEF Stop, UnsetStopTimeouts, ClearErrors
    <2>3. ~(\E on \in SUBSET Timer : SetStopTimeouts(on)) /\ ~\E t \in Timer : StopTimeout(t)
        BY DEF SetStopTimeouts, StopTimeout
    <2>4. ~(\E ch \in Channel : ChannelIo(ch)) /\ ~Environment
        BY DEF ChannelIo, Environment, ChildWrite, ChildExits, ChildKilled, ChildEnds,
               ChildReaped, classVars
    <2>5. ~UNCHANGED vars
        BY DEF vars, classVars
    <2> QED
        BY <2>1, <2>2, <2>3, <2>4, <2>5 DEF Next, Owner, Dispatch
<1>2. /\ errors' = errors \o Classification(fate, killSignalSent)
      /\ errors \in Seq(ErrorRecord)
      /\ fate # NoStatus /\ fate \in Status
    BY <1>1 DEF StoppedCleanup, FateInv, TypeOK
<1>3. fate.code \in 0 .. 255 /\ fate.kind \in {"exit", "signal"}
    <2>1. CASE \E c \in ExitCodes : fate = ExitedWith(c)
        BY <2>1, ExitCodesAssumption DEF ExitedWith
    <2>2. CASE \E sig \in {TERM, KILL, SEGV} : fate = KilledBy(sig)
        BY <2>2 DEF KilledBy
    <2> QED
        BY <1>2, <2>1, <2>2 DEF Status
<1>4. fate.kind = "signal" => fate.code \in {TERM, KILL, SEGV}
    BY <1>2 DEF Status, NoStatus, ExitedWith, KilledBy
<1>5. killSignalSent \in sent \/ (killSignalSent = 0 /\ sent = {})
    BY DEF FateInv
<1>6. \A level \in {"Warn", "Error"}, type \in {"exit", "signal"} :
          /\ MakeError(type, level, fate.code) \in ErrorRecord
          /\ MakeError(type, level, fate.code).type = type
          /\ MakeError(type, level, fate.code).level = level
          /\ MakeError(type, level, fate.code).code = fate.code
    BY <1>3 DEF MakeError, ErrorRecord
<1>7. ASSUME NEW e \in ErrorRecord, errors' = errors \o <<e>>
      PROVE  errors'[Len(errors')] = e /\ Len(errors') = Len(errors) + 1
    BY <1>2, <1>7, OneMore
<1>8. CASE fate.kind = "exit" /\ fate.code = 0
    <2>1. errors' = errors
        BY <1>2, <1>8, ConcatEmptySeq DEF Classification
    <2> QED
        BY <1>2, <1>8, <2>1 DEF EndReported
<1>9. CASE fate.kind = "exit" /\ fate.code # 0
    <2>1. errors' = errors \o <<MakeError("exit", "Warn", fate.code)>>
        BY <1>2, <1>9 DEF Classification
    <2>2. /\ errors'[Len(errors')] = MakeError("exit", "Warn", fate.code)
          /\ Len(errors') = Len(errors) + 1
        BY <1>6, <1>7, <2>1
    <2> QED
        BY <1>2, <1>9, <2>2 DEF EndReported
<1>10. CASE fate.kind = "signal" /\ fate.code = killSignalSent
    <2>1. errors' = errors \o <<MakeError("signal", "Warn", fate.code)>>
        BY <1>2, <1>10 DEF Classification
    <2>2. /\ errors'[Len(errors')] = MakeError("signal", "Warn", fate.code)
          /\ Len(errors') = Len(errors) + 1
        BY <1>6, <1>7, <2>1
    <2>3. fate.code \in sent
        BY <1>4, <1>5, <1>10
    <2> QED
        BY <1>2, <1>6, <1>10, <2>2, <2>3 DEF EndReported
<1>11. CASE fate.kind = "signal" /\ fate.code # killSignalSent
    <2>1. errors' = errors \o <<MakeError("signal", "Error", fate.code)>>
        BY <1>2, <1>11 DEF Classification
    <2>2. /\ errors'[Len(errors')] = MakeError("signal", "Error", fate.code)
          /\ Len(errors') = Len(errors) + 1
        BY <1>6, <1>7, <2>1
    <2>3. sent # {fate.code}
        BY <1>5, <1>11
    <2> QED
        BY <1>2, <1>6, <1>11, <2>2, <2>3 DEF EndReported
<1> QED
    BY <1>3, <1>8, <1>9, <1>10, <1>11

\* stopped_cleanup() always reports how the child really ended.
THEOREM EndAlwaysReported == Spec => ReportMatchesFate
BY IndInvHolds, EndStep, PTL DEF Spec, ReportMatchesFate

HIDE DEF Channel, Timer, TERM, KILL, SEGV

-----------------------------------------------------------------------------
(* Every step of execute() is a legal step of the asynchronous executor.   *)

\* Importing the errors is clear_errors(), or nothing if there are none.
LEMMA ImportStep ==
    ASSUME ImportError, ~running, ~childWatchCalled
    PROVE  [Next]_vars
BY DEF ImportError, Next, Owner, ClearErrors, vars, classVars, glibVars, childVars, historyVars

\* Every step of execute() is a step the asynchronous executor allows, or none.
LEMMA AsyncStep == SyncInv /\ [SyncNext]_allVars => [Next]_vars
<1> SUFFICES ASSUME SyncInv, [SyncNext]_allVars PROVE [Next]_vars
    OBVIOUS
<1> USE DEF SyncInv
<1>1. CASE Call \/ TickStarting \/ Poll \/ TickRunning \/ EndPump
    BY <1>1 DEF Call, TickStarting, Poll, TickRunning, EndPump
<1>2. CASE Spawn
    BY <1>2 DEF Spawn, Next, Owner
<1>3. CASE ReportFailure \/ Finish
    BY <1>3, ImportStep DEF ReportFailure, Finish, ControlInv
<1>4. CASE SendStop
    BY <1>4 DEF SendStop, Next, Owner
<1>8. CASE ArmKill
    <2>1. {"kill"} \in SUBSET Timer
        BY DEF Timer
    <2>2. SetStopTimeouts({"kill"}) \/ UNCHANGED vars
        BY <1>8 DEF ArmKill
    <2> QED
        BY <2>1, <2>2 DEF Next, Owner
<1>5. CASE Cleanup
    BY <1>5 DEF Cleanup, Next, Owner
<1>6. CASE Dispatched \/ Environs
    BY <1>6 DEF Dispatched, Environs, Next
<1>7. CASE UNCHANGED allVars
    BY <1>7 DEF allVars
<1> QED
    BY <1>1, <1>2, <1>3, <1>4, <1>5, <1>6, <1>7, <1>8 DEF SyncNext, LoopStep

-----------------------------------------------------------------------------
(* Control.                                                                *)

\* Neither a callback nor the child turns a busy executor idle, or an idle one busy;
\* they report errors only while it is busy.
LEMMA OutsideStep ==
    ASSUME IndInv, Dispatch \/ Environment
    PROVE  /\ (running \/ childWatchCalled) <=> (running \/ childWatchCalled)'
           /\ childWatchCalled => childWatchCalled'
           /\ ~running /\ ~childWatchCalled => UNCHANGED <<errors, fate>>
<1> USE DEF IndInv, TypeOK, ChildIsTracked, IdleInv, NoStaleTimer
<1>1. CASE \E t \in Timer : StopTimeout(t)
    BY <1>1 DEF StopTimeout
<1>2. CASE \E ch \in Channel : ChannelIo(ch)
    BY <1>2 DEF ChannelIo
<1>3. CASE ChildWatch
    BY <1>3 DEF ChildWatch
<1>4. CASE Environment
    BY <1>4 DEF Environment, ChildWrite, ChildExits, ChildKilled, ChildEnds, ChildReaped,
                classVars
<1> QED
    BY <1>1, <1>2, <1>3, <1>4 DEF Dispatch

\* Where execute() is keeps telling what its asynchronous executor is doing.
LEMMA ControlStep == SyncInv /\ [SyncNext]_allVars => ControlInv'
<1> SUFFICES ASSUME SyncInv, [SyncNext]_allVars PROVE ControlInv'
    OBVIOUS
<1> USE DEF SyncInv, ControlInv, SyncTypeOK
<1>1. CASE Call
    BY <1>1 DEF Call, vars, classVars
<1>2. CASE TickStarting \/ Poll \/ TickRunning
    BY <1>2 DEF TickStarting, Poll, TickRunning, vars, classVars
<1>3. CASE Spawn
    BY <1>3 DEF Spawn, Execute, ExecuteSpawnFails, NewRun, CleanupMembers
<1>4. CASE ReportFailure \/ Finish
    BY <1>4 DEF ReportFailure, Finish, ImportError
<1>5. CASE SendStop
    BY <1>5 DEF SendStop, Stop, vars, classVars
<1>6. CASE ArmKill
    BY <1>6 DEF ArmKill, SetStopTimeouts, vars, classVars
<1>7. CASE EndPump
    BY <1>7 DEF EndPump, vars, classVars
<1>8. CASE Cleanup
    BY <1>8 DEF Cleanup, StoppedCleanup, CleanupMembers
<1>9. CASE Dispatched \/ Environs
    BY <1>9, OutsideStep DEF Dispatched, Environs, Pumping, loopVars
<1>10. CASE UNCHANGED allVars
    BY <1>10 DEF allVars, loopVars, vars, classVars
<1> QED
    BY <1>1, <1>2, <1>3, <1>4, <1>5, <1>6, <1>7, <1>8, <1>9, <1>10 DEF SyncNext, LoopStep

-----------------------------------------------------------------------------
(* Types and messages.                                                     *)

\* What import_error() makes the message is an error of the list.
LEMMA ImportedType ==
    ASSUME TypeOK
    PROVE  Imported \subseteq ErrorRecord
BY ElementOfSeq, LenProperties DEF Imported, LastRelevant, TypeOK

\* One step of execute() keeps the types.
LEMMA SyncTypeStep == SyncInv /\ [SyncNext]_allVars => SyncTypeOK'
<1> SUFFICES ASSUME SyncInv, [SyncNext]_allVars PROVE SyncTypeOK'
    OBVIOUS
<1>1. TypeOK'
    BY AsyncStep, TypeStep DEF SyncInv, SyncTypeOK
<1> USE DEF SyncInv, SyncTypeOK
<1>2. CASE Call \/ TickStarting \/ Spawn \/ Poll \/ TickRunning
    BY <1>1, <1>2 DEF Call, TickStarting, Spawn, Poll, TickRunning
<1>3. CASE SendStop \/ ArmKill \/ EndPump \/ Cleanup
    BY <1>1, <1>3 DEF SendStop, ArmKill, EndPump, Cleanup
<1>4. CASE ReportFailure \/ Finish
    <2>1. errorMsg' = <<>> \/ \E e \in ErrorRecord : errorMsg' = <<e>>
        <3>1. CASE Imported = {}
            BY <1>4, <3>1 DEF ReportFailure, Finish, ImportError
        <3>2. CASE Imported # {}
            BY <1>4, <3>2, ImportedType DEF ReportFailure, Finish, ImportError
        <3> QED
            BY <3>1, <3>2
    <2> QED
        BY <1>1, <1>4, <2>1 DEF ReportFailure, Finish
<1>5. CASE Dispatched \/ Environs \/ UNCHANGED allVars
    BY <1>1, <1>5 DEF Dispatched, Environs, allVars, loopVars
<1> QED
    BY <1>2, <1>3, <1>4, <1>5 DEF SyncNext, LoopStep

\* stopped_cleanup() leaves the failing end as the last error.
LEMMA CleanupReports ==
    ASSUME SyncInv, Cleanup
    PROVE  LastErrorInv'
<1>1. EndReported /\ childWatchCalled /\ ~childWatchCalled' /\ fate' = fate
    BY AsyncStep, EndStep DEF SyncInv, SyncNext, LoopStep, Cleanup, StoppedCleanup,
                              CleanupMembers, historyVars
<1>2. errors \in Seq(ErrorRecord) /\ fate \in Status
    BY DEF SyncInv, IndInv, TypeOK
<1>3. Len(errors') = Len(errors) + 1 => errors' # <<>>
    <2>1. Len(errors) \in Nat /\ Len(<<>>) = 0
        BY <1>2, LenProperties
    <2> QED
        BY <2>1
<1>4. fate.kind = "signal" => \E level \in {"Warn", "Error"} :
          errors'[Len(errors')] = MakeError("signal", level, fate.code)
    <2> SUFFICES ASSUME fate.kind = "signal"
                 PROVE  \E level \in {"Warn", "Error"} :
                            errors'[Len(errors')] = MakeError("signal", level, fate.code)
        OBVIOUS
    <2>1. errors' = errors \o Classification(fate, killSignalSent)
        BY DEF Cleanup, StoppedCleanup, SyncInv, IndInv, FateInv
    <2>2. PICK level \in {"Warn", "Error"} :
              Classification(fate, killSignalSent) = <<MakeError("signal", level, fate.code)>>
        BY DEF Classification
    <2>3. MakeError("signal", level, fate.code) \in ErrorRecord
        BY <1>2, StatusFields DEF MakeError, ErrorRecord
    <2>4. errors'[Len(errors) + 1] = MakeError("signal", level, fate.code)
        BY <1>2, <2>1, <2>2, <2>3, OneMore
    <2> QED
        BY <1>1, <2>4 DEF EndReported
<1> QED
    BY <1>1, <1>3, <1>4 DEF LastErrorInv, EndReported

\* stopped_cleanup() is the last to report before import_error() looks.
LEMMA LastErrorStep == SyncInv /\ [SyncNext]_allVars => LastErrorInv'
<1> SUFFICES ASSUME SyncInv, [SyncNext]_allVars PROVE LastErrorInv'
    OBVIOUS
<1>1. CASE Cleanup
    BY <1>1, CleanupReports
<1>2. CASE Call \/ TickStarting \/ Spawn \/ ReportFailure \/ Poll \/ TickRunning \/ SendStop
           \/ ArmKill \/ EndPump \/ Finish
    BY <1>2 DEF LastErrorInv, Call, TickStarting, Spawn, ReportFailure, Poll, TickRunning,
                SendStop, ArmKill, EndPump, Finish
<1>3. CASE Dispatched
    BY <1>3 DEF LastErrorInv, Dispatched, Pumping, loopVars
<1>4. CASE Environs
    BY <1>4, OutsideStep DEF LastErrorInv, Environs, loopVars, SyncInv, ControlInv
<1>5. CASE UNCHANGED allVars
    BY <1>5 DEF LastErrorInv, allVars, loopVars, vars, classVars, historyVars, SyncInv
<1> QED
    BY <1>1, <1>2, <1>3, <1>4, <1>5 DEF SyncNext, LoopStep

\* If the last error matters and has a message, it becomes the message.
LEMMA ImportLast ==
    ASSUME NEW e, TypeOK, errors # <<>>, errors[Len(errors)] = e, Relevant(e), HasMessage(e),
           ImportError
    PROVE  errorMsg' = <<e>>
<1>1. /\ Len(errors) \in DOMAIN errors
      /\ \A j \in DOMAIN errors : j \in Nat /\ j <= Len(errors)
      /\ Len(errors) \in Nat
    BY EmptySeq, LenProperties DEF TypeOK
<1>2. LastRelevant = {Len(errors)}
    BY <1>1 DEF LastRelevant
<1>3. Imported = {e}
    BY <1>2 DEF Imported
<1> QED
    BY <1>3 DEF ImportError

\* The message tells of the failing end of the command.
LEMMA MessageStep == SyncInv /\ [SyncNext]_allVars => SignalIsReported'
<1> SUFFICES ASSUME SyncInv, [SyncNext]_allVars PROVE SignalIsReported'
    OBVIOUS
<1>t. TypeOK
    BY DEF SyncInv, IndInv
<1>1. CASE Finish
    <2>1. fate' = fate /\ pc = "import" /\ ImportError
        BY <1>1 DEF Finish, ImportError, historyVars
    <2>2. ASSUME fate.kind = "signal"
          PROVE  \E level \in {"Warn", "Error"} :
                     errorMsg' = <<MakeError("signal", level, fate.code)>>
        <3>1. PICK level \in {"Warn", "Error"} :
                  /\ errors # <<>>
                  /\ errors[Len(errors)] = MakeError("signal", level, fate.code)
            BY <2>1, <2>2 DEF SyncInv, LastErrorInv
        <3>2. Relevant(errors[Len(errors)]) /\ HasMessage(errors[Len(errors)])
            BY <3>1 DEF Relevant, HasMessage, MakeError
        <3> QED
            BY <1>t, <2>1, <3>1, <3>2, ImportLast
    <2>3. ASSUME fate.kind = "exit", Flavor = "smartctl", fate.code % 2 = 1
          PROVE  errorMsg' = <<MakeError("exit", "Warn", fate.code)>>
        <3>1. fate.code # 0
            BY <2>3
        <3>2. errors # <<>> /\ errors[Len(errors)] = MakeError("exit", "Warn", fate.code)
            BY <2>1, <2>3, <3>1 DEF SyncInv, LastErrorInv
        <3>3. Relevant(errors[Len(errors)]) /\ HasMessage(errors[Len(errors)])
            BY <2>3, <3>2 DEF Relevant, HasMessage, MakeError
        <3> QED
            BY <1>t, <2>1, <3>2, <3>3, ImportLast
    <2> QED
        BY <2>1, <2>2, <2>3 DEF SignalIsReported
<1>2. ASSUME returned' # "true" PROVE SignalIsReported'
    BY <1>2 DEF SignalIsReported
<1>3. ASSUME UNCHANGED <<returned, errorMsg, fate>> PROVE SignalIsReported'
    BY <1>3 DEF SignalIsReported, SyncInv
<1>4. CASE Call \/ TickStarting \/ Spawn \/ ReportFailure \/ Poll \/ TickRunning \/ SendStop
           \/ ArmKill \/ EndPump \/ Cleanup
    BY <1>2, <1>4 DEF Call, TickStarting, Spawn, ReportFailure, Poll, TickRunning, SendStop,
                      ArmKill, EndPump, Cleanup, SyncInv, ControlInv
<1>5. CASE Dispatched \/ Environs
    <2>1. UNCHANGED <<returned, errorMsg>>
        BY <1>5 DEF Dispatched, Environs, loopVars
    <2>2. pc = "idle" => fate' = fate
        BY <1>5, OutsideStep DEF Dispatched, Environs, SyncInv, ControlInv
    <2>3. pc # "idle" => returned' # "true"
        BY <2>1 DEF SyncInv, ControlInv
    <2> QED
        BY <1>2, <1>3, <2>1, <2>2, <2>3
<1>6. CASE UNCHANGED allVars
    BY <1>3, <1>6 DEF allVars, loopVars, vars, historyVars
<1> QED
    BY <1>1, <1>4, <1>5, <1>6 DEF SyncNext, LoopStep

-----------------------------------------------------------------------------
(* The theorems.                                                           *)

\* The invariant holds of every behaviour of execute().
LEMMA SyncInvHolds == SyncSpec => []SyncInv
<1>1. SyncInit => SyncInv
    <2> SUFFICES ASSUME SyncInit PROVE SyncInv
        OBVIOUS
    <2>1. IndInv /\ ~running /\ ~childWatchCalled /\ errors = <<>>
        BY IndInvInit DEF SyncInit, Init
    <2>2. SyncTypeOK
        BY <2>1 DEF SyncInit, SyncTypeOK, IndInv
    <2>3. ControlInv /\ LastErrorInv /\ SignalIsReported
        BY <2>1 DEF SyncInit, ControlInv, LastErrorInv, SignalIsReported
    <2> QED
        BY <2>1, <2>2, <2>3 DEF SyncInv
<1>2. SyncInv /\ [SyncNext]_allVars => SyncInv'
    <2>1. SyncInv /\ [SyncNext]_allVars => IndInv'
        BY AsyncStep, IndInvStep DEF SyncInv
    <2> QED
        BY <2>1, SyncTypeStep, ControlStep, LastErrorStep, MessageStep DEF SyncInv
<1> QED
    BY <1>1, <1>2, PTL DEF SyncSpec

\* execute() uses the asynchronous executor within its contract.
THEOREM AsyncExecutorUsed == SyncSpec => UsesAsyncExecutor
<1>1. SyncInit => Init
    BY DEF SyncInit
<1> QED
    BY <1>1, SyncInvHolds, AsyncStep, PTL DEF SyncSpec, Spec, UsesAsyncExecutor

\* A child that a signal ended is never taken for a success.
THEOREM SignalAlwaysReported == SyncSpec => []SignalIsReported
<1>1. SyncInv => SignalIsReported
    BY DEF SyncInv
<1> QED
    BY <1>1, SyncInvHolds, PTL

\* execute() always leaves its executor clean.
THEOREM AlwaysReturnsClean == SyncSpec => []ReturnsClean
<1>1. SyncInv => ReturnsClean
    <2> SUFFICES ASSUME SyncInv, pc \in {"idle", "starting", "spawn"} PROVE ReturnsClean
        BY DEF ReturnsClean
    <2>1. ~running /\ ~childWatchCalled /\ errors = <<>>
        BY DEF SyncInv, ControlInv
    <2>2. child = "none" /\ pid = 0 /\ \A ch \in Channel : ~ioSource[ch] /\ ~chanOpen[ch]
        BY <2>1 DEF SyncInv, IndInv, ChildIsTracked, IdleInv
    <2>3. timerFor = NoTimer
        BY <2>2 DEF SyncInv, IndInv, NoStaleTimer, NoTimer, TypeOK
    <2> QED
        BY <2>1, <2>2, <2>3 DEF ReturnsClean
<1> QED
    BY <1>1, SyncInvHolds, PTL

-----------------------------------------------------------------------------
(* Nothing is reported of a command that ended well.                       *)

\* The elements of two lists put together are those of the two.
LEMMA ElementsOfBoth ==
    ASSUME NEW s \in Seq(ErrorRecord), NEW t \in Seq(ErrorRecord), NEW i \in DOMAIN (s \o t)
    PROVE  \/ \E j \in DOMAIN s : (s \o t)[i] = s[j]
           \/ \E j \in DOMAIN t : (s \o t)[i] = t[j]
<1>1. /\ Len(s) \in Nat /\ DOMAIN s = 1 .. Len(s)
      /\ Len(t) \in Nat /\ DOMAIN t = 1 .. Len(t)
    BY LenProperties
<1>2. /\ i \in 1 .. Len(s) + Len(t)
      /\ (s \o t)[i] = IF i <= Len(s) THEN s[i] ELSE t[i - Len(s)]
    BY ConcatProperties, LenProperties
<1>3. CASE i <= Len(s)
    BY <1>1, <1>2, <1>3
<1>4. CASE ~(i <= Len(s))
    <2>1. i - Len(s) \in DOMAIN t
        BY <1>1, <1>2, <1>4
    <2> QED
        BY <1>2, <1>4, <2>1
<1> QED
    BY <1>3, <1>4

\* Without stop timeouts, callbacks report failed reads only.
LEMMA CallbackReports ==
    ASSUME IndInv, timerFor = NoTimer, Dispatch \/ Environment
    PROVE  /\ timerFor' = NoTimer
           /\ \A i \in DOMAIN errors' :
                 errors'[i].type = "giochannel" \/ \E j \in DOMAIN errors : errors'[i] = errors[j]
<1> USE DEF IndInv, TypeOK
<1>1. CASE \E t \in Timer : StopTimeout(t)
    BY <1>1 DEF StopTimeout, NoTimer
<1>2. CASE \E ch \in Channel : ChannelIo(ch)
    <2>1. timerFor' = timerFor
        BY <1>2 DEF ChannelIo
    <2>2. CASE errors' = errors
        BY <2>1, <2>2
    <2>3. CASE errors' = Append(errors, MakeError("giochannel", "Error", 0))
        <3>1. MakeError("giochannel", "Error", 0).type = "giochannel"
            BY DEF MakeError
        <3> QED
            BY <2>1, <2>3, <3>1, PlainErrors, AppendProperties, LenProperties
    <2> QED
        BY <1>2, <2>2, <2>3 DEF ChannelIo
<1>3. CASE ChildWatch
    <2> PICK failing \in SUBSET Channel :
            errors' = errors \o ReadError("stdout", failing) \o ReadError("stderr", failing)
        BY <1>3 DEF ChildWatch, FinalRead
    <2> DEFINE o == ReadError("stdout", failing)
               e == ReadError("stderr", failing)
    <2>1. o \in Seq(ErrorRecord) /\ e \in Seq(ErrorRecord)
        BY ReadErrorType DEF Channel
    <2>2. \A j \in DOMAIN o : o[j].type = "giochannel"
        BY DEF ReadError, MakeError
    <2>3. \A j \in DOMAIN e : e[j].type = "giochannel"
        BY DEF ReadError, MakeError
    <2> HIDE DEF o, e
    <2>4. errors \o o \in Seq(ErrorRecord)
        BY <2>1, ConcatProperties
    <2>5. errors' = (errors \o o) \o e
        BY DEF o, e
    <2> SUFFICES ASSUME NEW i \in DOMAIN errors'
                 PROVE  errors'[i].type = "giochannel" \/ \E j \in DOMAIN errors : errors'[i] = errors[j]
        BY <1>3 DEF ChildWatch
    <2>6. CASE \E j \in DOMAIN e : errors'[i] = e[j]
        BY <2>3, <2>6
    <2>8. i \in DOMAIN ((errors \o o) \o e) /\ errors'[i] = ((errors \o o) \o e)[i]
        BY <2>5
    <2>9. \/ \E j \in DOMAIN (errors \o o) : errors'[i] = (errors \o o)[j]
          \/ \E j \in DOMAIN e : errors'[i] = e[j]
        <3> DEFINE s == errors \o o
        <3> HIDE DEF s
        <3>1. \/ \E j \in DOMAIN s : (s \o e)[i] = s[j]
              \/ \E j \in DOMAIN e : (s \o e)[i] = e[j]
            BY <2>1, <2>4, <2>8, ElementsOfBoth DEF s
        <3> QED
            BY <2>8, <3>1, Zenon DEF s
    <2>7. CASE \E j \in DOMAIN (errors \o o) : errors'[i] = (errors \o o)[j]
        <3> PICK j \in DOMAIN (errors \o o) : errors'[i] = (errors \o o)[j]
            BY <2>7
        <3>1. errors \in Seq(ErrorRecord)
            OBVIOUS
        <3>2. \/ \E k \in DOMAIN errors : (errors \o o)[j] = errors[k]
              \/ \E k \in DOMAIN o : (errors \o o)[j] = o[k]
            BY <2>1, <3>1, ElementsOfBoth
        <3> QED
            BY <2>2, <3>2, Zenon
    <2> QED
        BY <2>6, <2>7, <2>9
<1>4. CASE Environment
    BY <1>4 DEF Environment, ChildWrite, ChildExits, ChildKilled, ChildEnds, ChildReaped,
                classVars, glibVars
<1> QED
    BY <1>1, <1>2, <1>3, <1>4 DEF Dispatch

\* An executor without a child has no stop timeouts either.
LEMMA IdleHasNoTimer ==
    ASSUME IndInv, ~running, ~childWatchCalled
    PROVE  timerFor = NoTimer
<1>1. child = "none" /\ pid = 0
    BY DEF IndInv, ChildIsTracked, IdleInv
<1> QED
    BY <1>1 DEF IndInv, NoStaleTimer, NoTimer, TypeOK

\* stopped_cleanup() reports an exit status, or a signal.
LEMMA CleanupSilent ==
    ASSUME SyncInv, Quiet, Cleanup
    PROVE  Quiet'
<1> SUFFICES ASSUME ~stopRequested PROVE Quiet'
    BY DEF Quiet, Cleanup
<1>1. /\ timerFor = NoTimer
      /\ \A i \in DOMAIN errors : errors[i].type \in {"giochannel", "exit"}
      /\ fate' = fate /\ pc' = "import"
    BY DEF Cleanup, StoppedCleanup, historyVars, Quiet
<1>2. errors \in Seq(ErrorRecord) /\ fate \in Status /\ killSignalSent \in {0, TERM, KILL}
    BY DEF SyncInv, IndInv, TypeOK
<1> DEFINE end == Classification(fate, killSignalSent)
<1>3. errors' = errors \o end
    BY DEF Cleanup, StoppedCleanup, SyncInv, IndInv, FateInv
<1>4. end \in Seq(ErrorRecord)
    BY <1>2, ClassificationType
<1>5. \A j \in DOMAIN end : end[j].type = "exit" \/ fate.kind = "signal"
    BY DEF Classification, MakeError
<1> HIDE DEF end
<1>6. \A i \in DOMAIN errors' :
          errors'[i].type \in {"giochannel", "exit"} \/ fate.kind = "signal"
    <2> SUFFICES ASSUME NEW i \in DOMAIN errors'
                 PROVE  errors'[i].type \in {"giochannel", "exit"} \/ fate.kind = "signal"
        OBVIOUS
    <2>1. \/ \E j \in DOMAIN errors : errors'[i] = errors[j]
          \/ \E j \in DOMAIN end : errors'[i] = end[j]
        BY <1>2, <1>3, <1>4, ElementsOfBoth
    <2> QED
        BY <1>1, <1>5, <2>1
<1>7. timerFor' = NoTimer
    <2>1. timerFor' = TimersWithoutSource
        BY DEF Cleanup, StoppedCleanup
    <2> QED
        BY <1>1, <2>1 DEF TimersWithoutSource, NoTimer
<1> QED
    BY <1>1, <1>6, <1>7 DEF Quiet

\* Nothing of ours goes wrong while the user lets the command run.
LEMMA SilenceStep == SyncInv /\ QuietInv /\ [SyncNext]_allVars => Quiet'
<1> SUFFICES ASSUME SyncInv, QuietInv, [SyncNext]_allVars PROVE Quiet'
    OBVIOUS
<1>q. Quiet /\ (pc \in {"stop", "arm"} => stopRequested)
    BY DEF QuietInv
<1>i. IndInv /\ ControlInv
    BY DEF SyncInv
<1>1. CASE Call
    <2>1. ~running /\ ~childWatchCalled /\ errors = <<>>
        BY <1>1, <1>i DEF Call, ControlInv
    <2>2. timerFor = NoTimer
        BY <1>i, <2>1, IdleHasNoTimer
    <2>3. UNCHANGED <<errors, timerFor>>
        BY <1>1 DEF Call, vars, classVars, glibVars
    <2> QED
        BY <2>1, <2>2, <2>3 DEF Quiet
<1>2. CASE TickStarting \/ Poll \/ TickRunning \/ EndPump
    BY <1>2, <1>q DEF TickStarting, Poll, TickRunning, EndPump, Quiet, vars, classVars, glibVars
<1>3. CASE Spawn
    <2>1. CASE Execute /\ pc' = "loop"
        <3>1. ~running /\ ~childWatchCalled
            BY <2>1 DEF Execute, NewRun
        <3>2. timerFor = NoTimer
            BY <1>i, <3>1, IdleHasNoTimer
        <3> QED
            BY <2>1, <3>2 DEF Execute, Quiet
    <2>2. CASE pc' = "failed"
        BY <2>2 DEF Quiet
    <2> QED
        BY <1>3, <2>1, <2>2 DEF Spawn
<1>4. CASE ReportFailure \/ Finish
    <2>1. errors' = <<>> /\ timerFor' = timerFor /\ pc' = "idle"
        BY <1>4 DEF ReportFailure, Finish, ImportError, glibVars
    <2>2. ~running /\ ~childWatchCalled
        BY <1>4, <1>i DEF ReportFailure, Finish, ControlInv
    <2>3. timerFor = NoTimer
        BY <1>i, <2>2, IdleHasNoTimer
    <2> QED
        BY <2>1, <2>3 DEF Quiet
<1>5. CASE SendStop \/ ArmKill
    <2>1. stopRequested /\ stopRequested' = stopRequested
        BY <1>5, <1>q DEF SendStop, ArmKill
    <2> QED
        BY <2>1 DEF Quiet
<1>6. CASE Cleanup
    BY <1>6, <1>q, CleanupSilent
<1>7. CASE Dispatched \/ Environs
    <2> SUFFICES ASSUME pc' # "failed", ~stopRequested' PROVE Quiet'
        BY DEF Quiet
    <2>1. pc' = pc /\ stopRequested' = stopRequested
        BY <1>7 DEF Dispatched, Environs, loopVars
    <2>2. timerFor = NoTimer
        BY <1>q, <2>1 DEF Quiet
    <2>3. Dispatch \/ Environment
        BY <1>7 DEF Dispatched, Environs
    <2>4. pc = "import" => fate' = fate
        BY <1>i, <2>3, OutsideStep DEF ControlInv
    <2> QED
        BY <1>i, <1>q, <2>1, <2>2, <2>3, <2>4, CallbackReports DEF Quiet
<1>8. CASE UNCHANGED allVars
    BY <1>8, <1>q DEF Quiet, allVars, loopVars, vars, classVars, glibVars, historyVars
<1> QED
    BY <1>1, <1>2, <1>3, <1>4, <1>5, <1>6, <1>7, <1>8 DEF SyncNext, LoopStep

\* What import_error() finds when nothing was reported of the end.
LEMMA CleanExitStep == SyncInv /\ QuietInv /\ [SyncNext]_allVars => CleanExitIsSilent'
<1> SUFFICES ASSUME SyncInv, QuietInv, [SyncNext]_allVars PROVE CleanExitIsSilent'
    OBVIOUS
<1>1. CASE Finish
    <2> SUFFICES ASSUME ~stopRequested, fate.kind = "exit", errorMsg' # <<>>
                 PROVE  \/ errorMsg'[1].type = "exit" /\ HasMessage(errorMsg'[1])
                        \/ errorMsg'[1].type = "giochannel" /\ Flavor = "plain"
        BY <1>1 DEF CleanExitIsSilent, Finish, ImportError, historyVars
    <2>1. Imported # {} /\ \E e \in Imported : errorMsg' = <<e>>
        BY <1>1 DEF Finish, ImportError, SyncInv, ControlInv
    <2>2. PICK e \in Imported : errorMsg' = <<e>>
        BY <2>1
    <2>3. PICK i \in DOMAIN errors : e = errors[i] /\ Relevant(e) /\ HasMessage(e)
        BY DEF Imported, LastRelevant
    <2>4. e.type \in {"giochannel", "exit"}
        BY <1>1, <2>3 DEF Finish, QuietInv, Quiet
    <2>5. errorMsg'[1] = e
        BY <2>2
    <2> QED
        BY <2>3, <2>4, <2>5 DEF Relevant
<1>2. ASSUME returned' # "true" PROVE CleanExitIsSilent'
    BY <1>2 DEF CleanExitIsSilent
<1>3. ASSUME UNCHANGED <<returned, errorMsg, fate, stopRequested>> PROVE CleanExitIsSilent'
    BY <1>3 DEF CleanExitIsSilent, QuietInv, HasMessage
<1>4. CASE Call \/ TickStarting \/ Spawn \/ ReportFailure \/ Poll \/ TickRunning \/ SendStop
           \/ ArmKill \/ EndPump \/ Cleanup
    BY <1>2, <1>4 DEF Call, TickStarting, Spawn, ReportFailure, Poll, TickRunning, SendStop,
                      ArmKill, EndPump, Cleanup, SyncInv, ControlInv
<1>5. CASE Dispatched \/ Environs
    <2>1. UNCHANGED <<returned, errorMsg, stopRequested>>
        BY <1>5 DEF Dispatched, Environs, loopVars
    <2>2. pc = "idle" => fate' = fate
        BY <1>5, OutsideStep DEF Dispatched, Environs, SyncInv, ControlInv
    <2>3. pc # "idle" => returned' # "true"
        BY <2>1 DEF SyncInv, ControlInv
    <2> QED
        BY <1>2, <1>3, <2>1, <2>2, <2>3
<1>6. CASE UNCHANGED allVars
    BY <1>3, <1>6 DEF allVars, loopVars, vars, historyVars
<1> QED
    BY <1>1, <1>4, <1>5, <1>6 DEF SyncNext, LoopStep

\* The stop is asked for before it is sent.
LEMMA StopAskedStep ==
    ASSUME QuietInv, [SyncNext]_allVars
    PROVE  pc' \in {"stop", "arm"} => stopRequested'
<1>1. CASE Poll
    BY <1>1, ZenonT(30) DEF Poll
<1>2. CASE TickRunning
    BY <1>2 DEF TickRunning
<1>3. CASE SendStop
    BY <1>3 DEF SendStop, QuietInv
<1>4. CASE Dispatched \/ Environs \/ UNCHANGED allVars
    BY <1>4 DEF Dispatched, Environs, allVars, loopVars, QuietInv
<1>5. CASE Call \/ TickStarting \/ Spawn \/ ReportFailure \/ ArmKill \/ EndPump \/ Cleanup \/ Finish
    BY <1>5 DEF Call, TickStarting, Spawn, ReportFailure, ArmKill, EndPump, Cleanup, Finish
<1> QED
    BY <1>1, <1>2, <1>3, <1>4, <1>5 DEF SyncNext, LoopStep

\* The invariant behind the silence about good ends holds.
LEMMA QuietHolds == SyncSpec => []QuietInv
<1>1. SyncInit => QuietInv
    BY DEF SyncInit, Init, QuietInv, Quiet, CleanExitIsSilent
<1>2. SyncInv /\ QuietInv /\ [SyncNext]_allVars => QuietInv'
    BY SilenceStep, CleanExitStep, StopAskedStep DEF QuietInv
<1> QED
    BY <1>1, <1>2, SyncInvHolds, PTL DEF SyncSpec

\* The message tells how the command ended, in every use of the executor.
THEOREM MessageAlwaysFits == SyncSpec => []MessageFitsEnd
<1>1. SyncInv /\ QuietInv => MessageFitsEnd
    BY DEF SyncInv, QuietInv, MessageFitsEnd
<1> QED
    BY <1>1, SyncInvHolds, QuietHolds, PTL

-----------------------------------------------------------------------------
(* The promise of the header.                                              *)

\* A spawn that failed leaves a message.
LEMMA FailureHasMessage ==
    ASSUME SyncInv, ReportFailure
    PROVE  errorMsg' # <<>>
<1> DEFINE e == MakeError("gspawn", "Error", 0)
<1>1. errors = <<e>>
    BY DEF ReportFailure, SyncInv, ControlInv
<1>2. errors # <<>> /\ errors[Len(errors)] = e
    BY <1>1, PlainErrors, ShortLists
<1>3. Relevant(e) /\ HasMessage(e)
    BY DEF Relevant, HasMessage, MakeError
<1> HIDE DEF e
<1> QED
    BY <1>2, <1>3, ImportLast DEF ReportFailure, SyncInv, IndInv

\* Every step of execute() is a step of the promise, or none of its steps.
LEMMA PromiseStep == SyncInv /\ [SyncNext]_allVars => [Promise!Next]_(Promise!vars)
<1> SUFFICES ASSUME SyncInv, [SyncNext]_allVars PROVE [Promise!Next]_(Promise!vars)
    OBVIOUS
<1> USE DEF SyncInv, ControlInv, Phase, Outcome, Promise!Next, Promise!vars
<1>1. CASE Call
    BY <1>1 DEF Call, Promise!Call
<1>2. CASE TickStarting
    BY <1>2 DEF TickStarting, Promise!Decline
<1>3. CASE Spawn
    BY <1>3 DEF Spawn, Promise!Start
<1>4. CASE ReportFailure
    BY <1>4, FailureHasMessage DEF ReportFailure, Promise!FailToStart
<1>5. CASE Poll \/ SendStop \/ ArmKill \/ EndPump \/ Cleanup
    BY <1>5 DEF Poll, SendStop, ArmKill, EndPump, Cleanup
<1>6. CASE TickRunning
    BY <1>6 DEF TickRunning, Promise!RequestStop
<1>7. CASE Finish
    BY <1>7 DEF Finish, Promise!Return
<1>8. CASE Dispatched \/ Environs \/ UNCHANGED allVars
    <2>1. UNCHANGED <<pc, stopRequested, returned, errorMsg, announced>>
        BY <1>8 DEF Dispatched, Environs, allVars, loopVars
    <2>2. Phase' = Phase /\ Outcome' = Outcome
        BY <2>1
    <2> QED
        BY <2>1, <2>2
<1> QED
    BY <1>1, <1>2, <1>3, <1>4, <1>5, <1>6, <1>7, <1>8 DEF SyncNext, LoopStep

\* execute() keeps the promise of its header, for every class of executor.
THEOREM PromiseKept == SyncSpec => KeepsPromise
<1>1. SyncInit => Promise!Init
    BY DEF SyncInit, Phase, Outcome, Promise!Init
<1> QED
    BY <1>1, SyncInvHolds, PromiseStep, PTL DEF SyncSpec, KeepsPromise, Promise!Spec

-----------------------------------------------------------------------------
(* Every step is one of CommandExecutor, or none of its steps.             *)

\* What each step of the dialog's executor is to the executor without a dialog.
LEMMA GuiSyncStep == [GuiNext]_guiAllVars => [SyncNext]_allVars
<1> SUFFICES ASSUME [GuiNext]_guiAllVars PROVE [SyncNext]_allVars
    OBVIOUS
<1>1. CASE GuiCall
    BY <1>1 DEF GuiCall, SyncNext
<1>2. CASE GuiLoopStep
    BY <1>2 DEF GuiLoopStep, GuiStarting, GuiFailure, GuiRunning, GuiFinish, SyncNext, LoopStep
<1>3. CASE GuiDispatched(Dispatch)
    BY <1>3 DEF GuiDispatched, Iterates, SyncNext, Dispatched
<1>4. CASE GuiStopping \/ OtherEvent \/ ClickCancel \/ Quit
    BY <1>4 DEF GuiStopping, OtherEvent, ClickCancel, Quit
<1>5. CASE Environs
    BY <1>5 DEF SyncNext
<1>6. CASE UNCHANGED guiAllVars
    BY <1>6 DEF guiAllVars
<1> QED
    BY <1>1, <1>2, <1>3, <1>4, <1>5, <1>6 DEF GuiNext

\* The executor of the windows is a CommandExecutor.
THEOREM GuiIsExecutor == GuiSpec => SyncSpec
<1>1. GuiInit => SyncInit
    BY DEF GuiInit
<1> QED
    BY <1>1, GuiSyncStep, PTL DEF GuiSpec, SyncSpec

\* So it keeps its promise, and reports how commands end, for every user.
THEOREM GuiKeepsPromise == GuiSpec => KeepsPromise
BY GuiIsExecutor, PromiseKept, PTL

\* It leaves its asynchronous executor clean, with a dialog and a quitting program too.
THEOREM GuiReturnsClean == GuiSpec => []ReturnsClean
BY GuiIsExecutor, AlwaysReturnsClean, PTL

\* An aborting dialog does not change what is said of the end of the command.
THEOREM GuiMessageFits == GuiSpec => []MessageFitsEnd
BY GuiIsExecutor, MessageAlwaysFits, PTL

\* Whatever the user clicks, the asynchronous executor is used within its contract.
THEOREM GuiUsesAsyncExecutor == GuiSpec => UsesAsyncExecutor
BY GuiIsExecutor, AsyncExecutorUsed, PTL

-----------------------------------------------------------------------------
(* The dialog.                                                             *)

GuiTypes == {executionRunning, shouldAbort, shown, cancelOn, abortMode, inLoop, quit, noticed,
             asked, stopRequested} \subseteq BOOLEAN

\* A command is on its way from the handler's consent to the end of execute().
OnItsWay == pc \notin {"idle", "starting"}

\* Whatever may stop a command has been asked for since it was called: a former quit()
\* would have kept it from starting, a former Cancel has been forgotten.
AskedInv ==
    /\ quit => inLoop
    /\ noticed => pc = "tick" /\ quit
    /\ OnItsWay => (shouldAbort => asked) /\ (quit => asked)
    /\ stopRequested => asked
    /\ pc = "spawn" => ~quit

\* The dialog is in abort mode exactly while the command is being stopped.
DialogInv ==
    /\ executionRunning <=> OnItsWay
    /\ abortMode <=> stopRequested
    /\ pc \in {"starting", "spawn", "failed", "tick"} => ~stopRequested
    /\ DialogFitsCommand

GuiInv == GuiTypes /\ AskedInv /\ DialogInv

GuiUntouched == UNCHANGED guiVars

LEMMA CallStep ==
    ASSUME GuiInv, GuiCall
    PROVE  GuiInv'
BY SlotAssumption, ConnectedAssumption
   DEF GuiInv, GuiTypes, AskedInv, DialogInv, DialogFitsCommand, OnItsWay, GuiCall, Call,
       handlerVars

LEMMA StartingStep ==
    ASSUME GuiInv, GuiStarting
    PROVE  GuiInv'
BY DEF GuiInv, GuiTypes, AskedInv, DialogInv, DialogFitsCommand, OnItsWay, GuiStarting,
       TickStarting, QuitCounts, IterationIsTrue, dialogVars, userVars

LEMMA FinalStep ==
    ASSUME GuiInv, GuiFailure \/ GuiFinish
    PROVE  GuiInv'
<1>1. /\ pc' = "idle" /\ pc # "tick" /\ pc # "idle" /\ stopRequested' = stopRequested
      /\ shown' = FALSE /\ executionRunning' = FALSE
      /\ UNCHANGED <<cancelOn, abortMode, shouldAbort, noticed, quit, inLoop, asked>>
    BY DEF GuiFailure, GuiFinish, ReportFailure, Finish, Hide, userVars
<1> QED
    BY <1>1 DEF GuiInv, GuiTypes, AskedInv, DialogInv, DialogFitsCommand, OnItsWay

LEMMA RunningStep ==
    ASSUME GuiInv, GuiRunning
    PROVE  GuiInv'
<1> USE DEF GuiInv, GuiTypes, AskedInv, DialogInv, DialogFitsCommand, OnItsWay, GuiRunning,
            TickRunning, userVars
<1>1. CASE noticed \/ shouldAbort
    BY <1>1 DEF SwitchToAborting
<1>2. CASE ~(noticed \/ shouldAbort)
    BY <1>2 DEF Show
<1> QED
    BY <1>1, <1>2

LEMMA StoppingStep ==
    ASSUME GuiInv, GuiStopping
    PROVE  GuiInv'
BY DEF GuiInv, GuiTypes, AskedInv, DialogInv, DialogFitsCommand, OnItsWay, GuiStopping,
       Show, handlerVars, userVars, allVars, loopVars

\* The other steps of execute() leave the dialog alone.
LEMMA LoopStepKeeps ==
    ASSUME GuiInv, Spawn \/ Poll \/ SendStop \/ ArmKill \/ EndPump \/ Cleanup, GuiUntouched
    PROVE  GuiInv'
BY SlotAssumption, ConnectedAssumption
   DEF GuiInv, GuiTypes, AskedInv, DialogInv, DialogFitsCommand, OnItsWay, GuiUntouched,
       guiVars, dialogVars, handlerVars, userVars, Spawn, Poll, SendStop, ArmKill, EndPump,
       Cleanup

LEMMA EventStep ==
    ASSUME GuiInv, GuiDispatched(Dispatch) \/ OtherEvent
    PROVE  GuiInv'
BY DEF GuiInv, GuiTypes, AskedInv, DialogInv, DialogFitsCommand, OnItsWay, GuiDispatched,
       OtherEvent, Iterates, Pumping, QuitCounts, IterationIsTrue, dialogVars, userVars,
       allVars, loopVars

LEMMA ClickCancelStep ==
    ASSUME GuiInv, ClickCancel
    PROVE  GuiInv'
<1>1. /\ UNCHANGED <<pc, stopRequested, dialogVars, executionRunning, quit, inLoop>>
      /\ shouldAbort' = TRUE /\ asked' = TRUE
      /\ noticed' = (pc = "tick" /\ QuitCounts(quit))
    BY DEF ClickCancel, Iterates, allVars, loopVars
<1>2. noticed' \in BOOLEAN /\ (noticed' => pc = "tick" /\ quit)
    BY <1>1 DEF QuitCounts, IterationIsTrue
<1> QED
    BY <1>1, <1>2 DEF GuiInv, GuiTypes, AskedInv, DialogInv, DialogFitsCommand, OnItsWay,
                      dialogVars

LEMMA QuitStep ==
    ASSUME GuiInv, Quit
    PROVE  GuiInv'
<1>1. /\ UNCHANGED <<pc, stopRequested, dialogVars, executionRunning, shouldAbort, inLoop>>
      /\ inLoop /\ quit' = TRUE /\ asked' = TRUE
      /\ Pumping /\ noticed' \in BOOLEAN /\ (noticed' => pc = "tick")
    BY DEF Quit, Iterates, QuitCounts, IterationIsTrue, allVars, loopVars
<1>2. pc # "spawn"
    BY <1>1 DEF Pumping
<1> QED
    BY <1>1, <1>2 DEF GuiInv, GuiTypes, AskedInv, DialogInv, DialogFitsCommand, OnItsWay,
                      dialogVars

LEMMA QuietStep ==
    ASSUME GuiInv, UNCHANGED <<loopVars, guiVars>>
    PROVE  GuiInv'
BY DEF GuiInv, GuiTypes, AskedInv, DialogInv, DialogFitsCommand, OnItsWay, guiVars,
       dialogVars, handlerVars, userVars, loopVars

LEMMA GuiInvStep == GuiInv /\ [GuiNext]_guiAllVars => GuiInv'
<1> SUFFICES ASSUME GuiInv, [GuiNext]_guiAllVars PROVE GuiInv'
    OBVIOUS
<1>1. CASE GuiLoopStep
    BY <1>1, StartingStep, FinalStep, RunningStep, LoopStepKeeps DEF GuiLoopStep, GuiUntouched
<1>2. CASE Environs /\ UNCHANGED guiVars
    BY <1>2, QuietStep DEF Environs
<1>3. CASE UNCHANGED guiAllVars
    BY <1>3, QuietStep DEF guiAllVars, allVars
<1> QED
    BY <1>1, <1>2, <1>3, CallStep, StoppingStep, EventStep, ClickCancelStep,
       QuitStep DEF GuiNext

LEMMA GuiInvHolds == GuiSpec => []GuiInv
<1>1. GuiInit => GuiInv
    BY DEF GuiInit, SyncInit, GuiInv, GuiTypes, AskedInv, DialogInv, DialogFitsCommand, OnItsWay
<1> QED
    BY <1>1, GuiInvStep, PTL DEF GuiSpec

-----------------------------------------------------------------------------
(* Theorems.                                                               *)

\* The variables have their types.
THEOREM GuiTypesHold == GuiSpec => []GuiTypeOK
<1>1. SyncInv /\ GuiInv => GuiTypeOK
    BY DEF SyncInv, GuiInv, GuiTypes, GuiTypeOK
<1> QED
    BY <1>1, GuiIsExecutor, SyncInvHolds, GuiInvHolds, PTL

\* A command is stopped only because of what the user did while it was to run.
THEOREM AbortsAreOwn == GuiSpec => []AbortIsOwn
<1>1. GuiInv => AbortIsOwn
    BY DEF GuiInv, AskedInv, AbortIsOwn
<1> QED
    BY <1>1, GuiInvHolds, PTL

\* The dialog fits the command it is shown for.
THEOREM DialogFits == GuiSpec => []DialogFitsCommand
<1>1. GuiInv => DialogFitsCommand
    BY DEF GuiInv, DialogInv
<1> QED
    BY <1>1, GuiInvHolds, PTL

\* Only the step that starts a command starts one.
LEMMA OnlySpawnRuns ==
    ASSUME [GuiNext]_guiAllVars, ~Spawn
    PROVE  runs' = runs
<1>1. CASE GuiCall \/ GuiStarting \/ GuiRunning \/ GuiStopping \/ OtherEvent \/ ClickCancel \/ Quit
           \/ UNCHANGED guiAllVars
    BY <1>1 DEF GuiCall, Call, GuiStarting, TickStarting, GuiRunning, TickRunning, GuiStopping,
                OtherEvent, ClickCancel, Quit, guiAllVars, allVars, vars, historyVars
<1>2. CASE GuiFailure \/ GuiFinish
    BY <1>2 DEF GuiFailure, GuiFinish, ReportFailure, Finish, ImportError, historyVars
<1>3. CASE Poll \/ SendStop \/ ArmKill \/ EndPump \/ Cleanup
    BY <1>3 DEF Poll, SendStop, ArmKill, EndPump, Cleanup, Stop, SetStopTimeouts,
                StoppedCleanup, vars, historyVars
<1>4. CASE Dispatch
    BY <1>4 DEF Dispatch, StopTimeout, ChannelIo, ChildWatch, historyVars
<1>5. CASE Environs
    BY <1>5 DEF Environs, Environment, ChildWrite, ChildExits, ChildKilled, ChildEnds,
                ChildReaped, historyVars
<1> QED
    BY <1>1, <1>2, <1>3, <1>4, <1>5 DEF GuiNext, GuiLoopStep, GuiDispatched

\* Once quit() was called, no command is started any more.
THEOREM QuitIsFinal == GuiSpec => NothingStartsAfterQuit
<1>1. GuiInv /\ [GuiNext]_guiAllVars => [quit => runs' = runs]_guiAllVars
    BY OnlySpawnRuns DEF GuiInv, AskedInv, Spawn
<1> QED
    BY <1>1, GuiInvHolds, PTL DEF GuiSpec, NothingStartsAfterQuit
=============================================================================
