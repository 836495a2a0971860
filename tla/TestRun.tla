------------------------------ MODULE TestRun -------------------------------
(***************************************************************************)
(* What SelfTest promises (src/applib/selftest.h): one test at a time is   *)
(* performed on a drive, "this object is not reusable": a test that has    *)
(* ended never runs again, and the drive's lock ("so that everybody stops  *)
(* any test-aborting operations") is held exactly while a test runs.       *)
(* Tests are numbered as they are begun.                                   *)
(***************************************************************************)
VARIABLES
    running,    \* the tests being performed
    started,    \* the tests begun so far
    locked      \* the drive is locked

vars == <<running, started, locked>>

Init == running = {} /\ started = {} /\ locked = FALSE

Begin ==
    /\ running = {}
    /\ \E t \in started' \ started : running' = {t} /\ started' = started \cup {t}
    /\ locked' = TRUE

End ==
    /\ running # {} /\ running' = {}
    /\ locked' = FALSE
    /\ UNCHANGED started

Next == Begin \/ End

Spec == Init /\ [][Next]_vars
=============================================================================
