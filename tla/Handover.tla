------------------------------ MODULE Handover ------------------------------
(***************************************************************************)
(* What a retained hand-over promises its readers: one bundle, published   *)
(* whole in one step, the same until its deadline and gone after it.       *)
(***************************************************************************)
EXTENDS Naturals

CONSTANTS Builds, NoBuild

VARIABLES
    held,   \* the build a reader would be given, NoBuild when there is none
    until,  \* the day it goes, 0 when there is none
    now     \* the day

Init == held = NoBuild /\ until = 0 /\ now = 0

Publish ==
    /\ held = NoBuild
    /\ held' \in Builds
    /\ until' > now
    /\ UNCHANGED now

NextDay ==
    /\ now' = now + 1
    /\ IF until > now'
       THEN UNCHANGED <<held, until>>
       ELSE held' = NoBuild /\ until' = 0

Next == Publish \/ NextDay

Spec == Init /\ [][Next]_<<held, until, now>>
=============================================================================
