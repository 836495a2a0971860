------------------------------ MODULE DriveScan ------------------------------
(***************************************************************************)
(* What StorageDetector::detect_and_fetch_basic_data()                     *)
(* (src/applib/storage_detector.h) promises the main window, without its   *)
(* methods, its files and its ports: while it runs the list holds nothing  *)
(* but what others add; it comes back with drives or, if it found none,    *)
(* perhaps with an error; a list once returned stays until the next scan.  *)
(***************************************************************************)
EXTENDS Bags

VARIABLES
    phase,      \* "idle", "scanning", or "dead": an exception or undefined behaviour
    listed,     \* drives_ of the main window, a bag: std::sort decides its order
    status      \* what the last scan returned: "none", "ok" or "error"

vars == <<phase, listed, status>>

Init == phase = "idle" /\ listed = EmptyBag /\ status = "none"

Begin ==
    /\ phase = "idle" /\ phase' = "scanning"
    /\ listed' = EmptyBag /\ status' = "none"

\* The user adds a drive.
Add ==
    /\ \/ phase = "idle" /\ phase' = "idle"
       \/ phase = "scanning" /\ phase' \in {"scanning", "dead"}
    /\ listed \sqsubseteq listed'
    /\ UNCHANGED status

\* An added drive is read, which may give it a type.
Refresh ==
    /\ phase = "scanning"
    /\ \E d \in DOMAIN listed, e \in DOMAIN listed' :
          listed' = (listed (-) SetToBag({d})) (+) SetToBag({e})
    /\ UNCHANGED <<phase, status>>

\* What was added meanwhile stays.
EndOk ==
    /\ phase = "scanning" /\ phase' = "idle"
    /\ status' = "ok"
    /\ listed \sqsubseteq listed'

EndFailed ==
    /\ phase = "scanning" /\ phase' = "idle"
    /\ status' = "error"
    /\ UNCHANGED listed

Die == phase = "scanning" /\ phase' = "dead" /\ UNCHANGED <<listed, status>>

Next == Begin \/ Add \/ Refresh \/ EndOk \/ EndFailed \/ Die

Spec == Init /\ [][Next]_vars
=============================================================================
