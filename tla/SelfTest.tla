------------------------------ MODULE SelfTest ------------------------------
(***************************************************************************)
(* The self-test runner of src/applib/selftest.{h,cpp} on one drive, the   *)
(* lock it keeps in StorageDevice (src/applib/storage_device.cpp), and the *)
(* drive itself as smartctl sees it.                                       *)
(*                                                                         *)
(* start(), update() and force_stop() run smartctl in the middle, and the  *)
(* program keeps dispatching events meanwhile.  So each is cut in two      *)
(* here: what it decides before the command, and what it does with the     *)
(* reply after it.  Whoever uses the module (InfoWindow) decides what      *)
(* happens in between.                                                     *)
(***************************************************************************)
EXTENDS Naturals, Sequences, FiniteSets

CONSTANTS
    Outcomes,       \* results the drive may report of a test that ended by itself
    CommandsFail    \* smartctl may fail, or print something the program does not match

Status == {"Unknown", "InProgress", "ManuallyAborted", "Interrupted", "CompletedNoError",
           "CompletedWithError", "Reserved"}

ASSUME OutcomesAssumption == Outcomes \subseteq Status \ {"InProgress"}
ASSUME CommandsFailAssumption == CommandsFail \in BOOLEAN

VARIABLES
    testIsActive,   \* StorageDevice::test_is_active_, the lock
    hasProperties,  \* property_repository_ holds the results of a full parse
    tests,          \* the SelfTest objects whose start() sent a command: status_ of each
    drive           \* external: [testing, last]: is a test running, how the last one ended

selfTestVars == <<testIsActive, hasProperties, tests, drive>>

-----------------------------------------------------------------------------
(* The drive and smartctl.                                                 *)

Command == {"--test", "--abort", "--capabilities", "--xall"}

\* What a command prints, when it works, and what it does to the drive.  smartctl does
\* not start a test while one runs; "--abort" prints success even if none was running.
Executed(cmd) ==
    CASE cmd = "--test" -> [reply |-> IF drive.testing THEN "busy" ELSE "begun",
                            drive |-> [drive EXCEPT !.testing = TRUE]]
      [] cmd = "--abort" -> [reply |-> "aborted",
                             drive |-> IF drive.testing
                                       THEN [testing |-> FALSE, last |-> "ManuallyAborted"]
                                       ELSE drive]
      [] cmd = "--capabilities" -> [reply |-> IF drive.testing THEN "InProgress" ELSE drive.last,
                                    drive |-> drive]
      [] cmd = "--xall" -> [reply |-> "data", drive |-> drive]

\* A command that fails may or may not have reached the drive.
Replies(cmd) ==
    {Executed(cmd)} \cup
    (IF CommandsFail THEN {[reply |-> "error", drive |-> d] : d \in {drive, Executed(cmd).drive}}
                     ELSE {})

DriveEndsTest ==
    /\ drive.testing
    /\ \E result \in Outcomes : drive' = [testing |-> FALSE, last |-> result]
    /\ UNCHANGED <<testIsActive, hasProperties, tests>>

-----------------------------------------------------------------------------
(* The class.                                                              *)

Test == DOMAIN tests

\* An object whose start() is refused at once is gone with its handler.
Construct == tests' = Append(tests, "Unknown")

\* is_supported() looks into the property repository, which a fetch empties first.
IsSupported == hasProperties

\* Mutation: start() does not look at the lock.
StartAlways == IsSupported

\* start() before the command.
StartAllowed == ~testIsActive /\ IsSupported

\* start() after the command, when it succeeds.  A drive that says it is testing
\* already counts as started.
Started(t, reply) ==
    /\ reply \in {"begun", "busy"}
    /\ tests' = [tests EXCEPT ![t] = "InProgress"]
    /\ testIsActive' = TRUE

\* Mutation: the end of a test does not release the lock.
UpdatedLocked(t, reply) ==
    /\ reply \in Status
    /\ tests' = [tests EXCEPT ![t] = reply]
    /\ UNCHANGED testIsActive

\* Mutation: a reply that does not parse is taken for a status.
UpdatedUnparsed(t, reply) ==
    /\ tests' = [tests EXCEPT ![t] = reply]
    /\ testIsActive' = (reply = "InProgress")

\* update() after the command, when it succeeds.
Updated(t, reply) ==
    /\ reply \in Status
    /\ tests' = [tests EXCEPT ![t] = reply]
    /\ testIsActive' = (reply = "InProgress")

\* force_stop() before the command.
StopAllowed == testIsActive

\* force_stop() after its update(): "update() may fail to actually update the statuses,
\* so do it manually".
Stopped(t, reply) ==
    LET reported == IF reply \in Status THEN reply ELSE tests[t]
        ended == IF reported = "InProgress" THEN "ManuallyAborted" ELSE reported
    IN  /\ tests' = [tests EXCEPT ![t] = ended]
        /\ testIsActive' = (testIsActive /\ reply \notin Status /\ reported # "InProgress")

=============================================================================
