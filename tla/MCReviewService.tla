-------------------------- MODULE MCReviewService --------------------------
(* Two deliveries: attempts of one run that follows a head, attempts of one   *)
(* dispatched run, or one of each.  A fork's run is not in the concurrency    *)
(* group of its pull request, so the last two overlap.                        *)
EXTENDS ReviewService, TLC

CONSTANTS d1, d2, r1, r2

MCPlans == {(d1 :> r1) @@ (d2 :> r1), (d1 :> r2) @@ (d2 :> r2), (d1 :> r1) @@ (d2 :> r2)}
MCGroupOf == (r1 :> "head") @@ (r2 :> "number")
=============================================================================
