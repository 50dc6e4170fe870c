----------------------------- MODULE MCRunStore -----------------------------
EXTENDS RunStore, TLC

CONSTANTS a1, a2, b1, b2, b3

\* The first part of b2 is that of b1, no part of b3 is.
MCCommon == (b1 :> 2) @@ (b2 :> 1) @@ (b3 :> 0)

\* Two attempts: both retained, from equal and differing builds and with equal
\* and differing deadlines; one of each policy; both on the cache policy, where
\* the event decides whether entries are immutable.
Puts(p, x, y, m, n) ==
    (a1 :> [policy |-> p[1], build |-> x, days |-> m])
        @@ (a2 :> [policy |-> p[2], build |-> y, days |-> n])
MCScenarios ==
    {[scope |-> "protected", parts |-> k, job |-> Puts(<<"retained", "retained">>, b1, b2, 1, d)] :
        k \in {0, 2}, d \in {1, 2}}
    \cup {[scope |-> "protected", parts |-> 2, job |-> Puts(<<"retained", "cache">>, b1, b2, 1, 1)]}
    \cup {[scope |-> s, parts |-> 2, job |-> Puts(<<"cache", "cache">>, b1, b, 1, 1)] :
        s \in {"protected", "dev"}, b \in {b1, b2, b3}}
    \cup {[scope |-> "dev", parts |-> 0, job |-> Puts(<<"cache", "cache">>, b1, b2, 1, 1)]}
=============================================================================
