--------------------------- MODULE VerifiedTrunk ---------------------------
(***************************************************************************)
(* What a post-main proof promises, without saying how it is found: a      *)
(* commit of the trunk is certified only while every lane holds on its     *)
(* tree, whatever the runs that certified it looked at.  A certificate may *)
(* be withdrawn (its run is re-run and fails), a commit is for ever.       *)
(***************************************************************************)
EXTENDS Naturals

CONSTANTS
    Lanes,      \* the lanes of the verify workflow
    Versions,   \* what a lane's files, or .github/, can hold
    MaxCommit,  \* bound on the commits of the trunk
    Bad         \* the pairs <<lane version, workflow version>> on which a lane fails

VARIABLES
    head,       \* the newest commit; commit c + 1 has c as its first parent
    code,       \* code[c][l]: the files of lane l in commit c
    ci,         \* ci[c]: the files under .github/ in commit c
    certified   \* commits that count as verified

Commits == 1..MaxCommit
trunk   == <<head, code, ci>>

\* Every lane holds on the tree of c.
Whole(c) == \A l \in Lanes : <<code[c][l], ci[c]>> \notin Bad

Init ==
    /\ head = 1
    /\ code \in [Commits -> [Lanes -> Versions]]
    /\ ci \in [Commits -> Versions]
    /\ certified = {}

Land ==
    /\ head < MaxCommit
    /\ head' = head + 1
    /\ \E files \in [Lanes -> Versions] : code' = [code EXCEPT ![head + 1] = files]
    /\ \E version \in Versions : ci' = [ci EXCEPT ![head + 1] = version]
    /\ UNCHANGED certified

Certify(c) ==
    /\ c <= head
    /\ Whole(c)
    /\ certified' = certified \cup {c}
    /\ UNCHANGED trunk

Withdraw(c) ==
    /\ certified' = certified \ {c}
    /\ UNCHANGED trunk

Next == Land \/ \E c \in Commits : Certify(c) \/ Withdraw(c)

Spec == Init /\ [][Next]_<<trunk, certified>>
=============================================================================
