--------------------------- MODULE ReviewService ----------------------------
(***************************************************************************)
(* The pull-request review workflow publishes one Check Run per review of  *)
(* a head.  Deliveries of the workflow, attempts of one run among them,    *)
(* overlap: each collects the pull request, looks at the newest check on   *)
(* its head, reuses its verdict, defers to its live owner or creates a     *)
(* check of its own, reviews, and completes the check in a single PATCH.   *)
(* What a delivery started or is about to publish is saved in a file that  *)
(* its always-run finalizer settles from.                                  *)
(*                                                                         *)
(* Meanwhile the head and the policy on the base branch move, requests are *)
(* refused, fail or lose their answer, and a delivery can be cancelled     *)
(* between any two steps.  What the reviewing model finds is left open.    *)
(***************************************************************************)
EXTENDS Naturals, Sequences, FiniteSets

CONSTANTS
    Deliveries,   \* attempts of the review workflow
    Runs,         \* their workflow runs
    Plans,        \* the ways deliveries can be attempts of runs
    Dispatched,   \* the runs a person dispatched; the others follow the head they ran on
    GroupOf,      \* GroupOf[r]: the concurrency group of run r
    MaxMoves,     \* bound: pushes to the pull request and to its base branch
    MaxFaults     \* bound: failed requests and cancellations

ASSUME ConstantsAssumption ==
    /\ Plans \subseteq [Deliveries -> Runs]
    /\ Dispatched \subseteq Runs
    /\ MaxMoves \in Nat /\ MaxFaults \in Nat

VARIABLES
    head,    \* the head of the pull request
    policy,  \* the version of the base branch its policy and sources come from
    runOf,   \* runOf[d]: the run that d is an attempt of
    event,   \* event[r]: the head run r was requested for, 0 before that
    checks,  \* the checks of the pull request in the order of their ids
    del,     \* del[d]: delivery d
    faults   \* faults so far

vars == <<head, policy, runOf, event, checks, del, faults>>

-----------------------------------------------------------------------------
(* Deliveries and checks.                                                  *)

Idle == [pc |-> "idle", head |-> 0, policy |-> 0, input |-> "none", again |-> FALSE,
         check |-> 0, verdict |-> "none", saved |-> "none", refused |-> FALSE,
         report |-> "none"]

Active(d) == del[d].pc \notin {"idle", "over"}
Live(r) == \E d \in Deliveries : runOf[d] = r /\ Active(d)

\* The identity of the source a review is of; NoInput when none was collected.
Input(d) == <<del[d].head, del[d].policy>>
NoInput == <<0, 0>>

\* The external id of the delivery's check: every dispatch has its own, all the
\* other deliveries of a source share one.
External(d) == [source |-> Input(d), dispatch |-> {d} \cap {e \in Deliveries : runOf[e] \in Dispatched}]

\* The newest check on a head, 0 when there is none.
Newest(h) ==
    LET on == {c \in DOMAIN checks : checks[c].head = h}
    IN  IF on = {} THEN 0 ELSE CHOOSE c \in on : \A e \in on : e <= c

Step(d, r) == del' = [del EXCEPT ![d] = r]
Leave(d, report) ==
    [del[d] EXCEPT !.pc = "finalize", !.report = report, !.again = FALSE, !.input = "none", !.verdict = "none"]
Local == UNCHANGED <<head, policy, runOf, event, checks, faults>>
Fault == faults < MaxFaults /\ faults' = faults + 1
FaultLocal == Fault /\ UNCHANGED <<head, policy, runOf, event, checks>>

-----------------------------------------------------------------------------
(* The pull request and its events.                                        *)

CanMove == head + policy < MaxMoves + 2

Push ==
    /\ CanMove
    /\ head' = head + 1
    /\ UNCHANGED <<policy, runOf, event, checks, del, faults>>

BaseMoves ==
    /\ CanMove
    /\ policy' = policy + 1
    /\ UNCHANGED <<head, runOf, event, checks, del, faults>>

\* A run is requested for the head of the moment; a later attempt of it, after
\* the earlier one is over, is for the same head.
Request(d) ==
    LET r == runOf[d]
    IN  /\ del[d].pc = "idle" /\ ~Live(r)
        /\ event' = [event EXCEPT ![r] = IF @ = 0 THEN head ELSE @]
        /\ Step(d, [Idle EXCEPT !.pc = "queued"])
        /\ UNCHANGED <<head, policy, runOf, checks, faults>>

\* The runs of a concurrency group follow one another.
Start(d) ==
    /\ del[d].pc = "queued"
    /\ \A e \in Deliveries \ {d} :
          GroupOf[runOf[e]] = GroupOf[runOf[d]] => ~Active(e) \/ del[e].pc = "queued"
    /\ Step(d, [del[d] EXCEPT !.pc = "target"])
    /\ Local

-----------------------------------------------------------------------------
(* Collection.                                                             *)

\* The head and the base are pinned.  A run whose head the pull request has
\* left behind has no target.
Target(d) ==
    /\ del[d].pc = "target"
    /\ Step(d, IF runOf[d] \in Dispatched \/ event[runOf[d]] = head
               THEN [del[d] EXCEPT !.pc = "gather", !.head = head, !.policy = policy]
               ELSE Leave(d, "none"))
    /\ Local

\* The policy may exclude every path; a head that moved is an unread source.
Gather(d) ==
    /\ del[d].pc = "gather"
    /\ \E input \in IF head = del[d].head THEN {"bound", "outside"} ELSE {"unread", "outside"} :
          Step(d, [del[d] EXCEPT !.pc = "list", !.input = input])
    /\ Local

GatherFails(d) ==
    /\ del[d].pc = "gather"
    /\ Step(d, [del[d] EXCEPT !.pc = "list", !.input = "unread"])
    /\ FaultLocal

-----------------------------------------------------------------------------
(* The check a delivery works on.                                          *)

\* Mutant: any completed success or failure on the head is taken over.
ReusableOnHead(d, c) == checks[c].conclusion \in {"success", "failure"}
Reusable(d, c) ==
    /\ del[d].input = "bound"
    /\ checks[c].conclusion \in {"success", "failure"}
    /\ checks[c].input = Input(d)

\* Mutant: a review of the head counts, whatever policy it applies.
SameHead(d, c) == del[d].input = "bound"
SameInput(d, c) == del[d].input = "bound" /\ checks[c].input = Input(d)

\* Mutant: the state of a reused check is that of one in progress.
ReusedOpen == "begun"
ReusedState == "sent"

\* A verdict for this very input is reused ...
Reuse(d) ==
    LET c == Newest(del[d].head)
    IN  /\ del[d].pc = "list" /\ ~del[d].again
        /\ c # 0 /\ checks[c].status = "completed" /\ Reusable(d, c)
        /\ Step(d, [Leave(d, IF checks[c].conclusion = "success" THEN "passed" ELSE "failed")
                       EXCEPT !.check = c, !.saved = ReusedState])
        /\ Local

\* ... and any other completed check is left as it is: look once more, then create.
Again(d) ==
    LET c == Newest(del[d].head)
    IN  /\ del[d].pc = "list" /\ ~del[d].again
        /\ c # 0 /\ checks[c].status = "completed" /\ ~Reusable(d, c)
        /\ Step(d, [del[d] EXCEPT !.again = TRUE])
        /\ Local

OwnedElsewhere(d, c) ==
    SameInput(d, c) /\ Live(checks[c].owner) /\ checks[c].owner # runOf[d]
Own(d, c) ==
    /\ SameInput(d, c) /\ checks[c].owner = runOf[d]
    /\ checks[c].external = External(d)

\* Mutant: the check of the other workflow is remembered as one to settle.
DeferAndRemember(d) ==
    LET c == Newest(del[d].head)
    IN  /\ del[d].pc = "list" /\ c # 0 /\ checks[c].status = "in_progress"
        /\ OwnedElsewhere(d, c)
        /\ Step(d, [Leave(d, "deferred") EXCEPT !.check = c, !.saved = "begun"])
        /\ Local

\* A live workflow reviews the same input: this delivery makes no verdict.
Defer(d) ==
    LET c == Newest(del[d].head)
    IN  /\ del[d].pc = "list" /\ c # 0 /\ checks[c].status = "in_progress"
        /\ OwnedElsewhere(d, c)
        /\ Step(d, [Leave(d, "deferred") EXCEPT !.check = c])
        /\ Local

\* A check an earlier attempt of this run created is taken up.
Adopt(d) ==
    LET c == Newest(del[d].head)
    IN  /\ del[d].pc = "list" /\ c # 0 /\ checks[c].status = "in_progress"
        /\ Own(d, c)
        /\ Step(d, [del[d] EXCEPT !.pc = "review", !.check = c, !.saved = "begun"])
        /\ Local

MustCreate(d) ==
    LET c == Newest(del[d].head)
    IN  c # 0 => IF checks[c].status = "completed" THEN del[d].again
                 ELSE ~OwnedElsewhere(d, c) /\ ~Own(d, c)

GoCreate(d) ==
    /\ del[d].pc = "list" /\ MustCreate(d)
    /\ Step(d, [del[d] EXCEPT !.pc = "create", !.again = FALSE])
    /\ Local

\* The owner of the active check cannot be read: it counts as gone.
OwnerUnread(d) ==
    LET c == Newest(del[d].head)
    IN  /\ del[d].pc = "list" /\ c # 0 /\ checks[c].status = "in_progress"
        /\ SameInput(d, c)
        /\ Step(d, [del[d] EXCEPT !.pc = "create", !.again = FALSE])
        /\ FaultLocal

\* The list of checks cannot be read.
ListFails(d) ==
    /\ del[d].pc = "list"
    /\ Step(d, Leave(d, "failed"))
    /\ FaultLocal

Opened(d, excused) ==
    Append(checks, [head |-> del[d].head,
                    input |-> IF del[d].input = "bound" THEN Input(d) ELSE NoInput,
                    source |-> Input(d), owner |-> runOf[d], external |-> External(d),
                    status |-> "in_progress", conclusion |-> "none", by |-> runOf[d],
                    excused |-> excused])

\* Mutant: the check is remembered once it has been read back.
RememberedLater == "none"
\* The accepted creation is remembered before it is read back.
Remembered == "begun"

Create(d) ==
    /\ del[d].pc = "create"
    /\ checks' = Opened(d, FALSE)
    /\ Step(d, [del[d] EXCEPT !.pc = "readback", !.check = Len(checks) + 1, !.saved = Remembered])
    /\ UNCHANGED <<head, policy, runOf, event, faults>>

ReadBack(d) ==
    /\ del[d].pc = "readback"
    /\ Step(d, [del[d] EXCEPT !.pc = "review", !.saved = "begun"])
    /\ Local

\* The created check cannot be read back, or not as it was written.
ReadBackFails(d) ==
    /\ del[d].pc = "readback"
    /\ Step(d, Leave(d, "failed"))
    /\ FaultLocal

\* The answer to the creation never arrives; nothing says whether it happened.
CreateUnanswered(d) ==
    /\ del[d].pc = "create"
    /\ checks' \in {checks, Opened(d, TRUE)}
    /\ Step(d, [Leave(d, "failed") EXCEPT !.refused = TRUE])
    /\ Fault /\ UNCHANGED <<head, policy, runOf, event>>

-----------------------------------------------------------------------------
(* The review and its publication.                                         *)

\* The intended publication is saved before the only PATCH.
Publishing(d, verdict) == [del[d] EXCEPT !.pc = "patch", !.verdict = verdict, !.saved = "sent"]

\* Whatever the engine concludes, it may have widened the input on the way.
Review(d) ==
    /\ del[d].pc = "review"
    /\ \/ /\ del[d].input = "outside"
          /\ Step(d, Publishing(d, "outside"))
       \/ /\ del[d].input = "unread"
          /\ Step(d, [del[d] EXCEPT !.pc = "recheck", !.verdict = "unavailable"])
       \/ /\ del[d].input = "bound"
          /\ \E v \in {"success", "failure", "neutral", "unavailable"} :
                Step(d, [del[d] EXCEPT !.pc = "recheck", !.verdict = v])
    /\ Local

\* Mutant: what the engine says is published as it is.
RecheckAsIs(d) ==
    /\ del[d].pc = "recheck"
    /\ Step(d, Publishing(d, del[d].verdict))
    /\ Local

\* A head that moved during the review has no verdict.
Recheck(d) ==
    /\ del[d].pc = "recheck"
    /\ Step(d, Publishing(d, IF head # del[d].head THEN "cancelled"
                             ELSE IF del[d].verdict = "unavailable" THEN "neutral"
                             ELSE del[d].verdict))
    /\ Local

\* A result whose head cannot be verified is not a success, nor a failure unless
\* a finding blocks; when there is no result either, the delivery leaves its check
\* to the finalizer.
RecheckFails(d) ==
    /\ del[d].pc = "recheck"
    /\ \/ /\ del[d].verdict = "unavailable"
          /\ Step(d, Leave(d, "failed"))
       \/ /\ del[d].verdict # "unavailable"
          /\ \E v \in {"neutral", del[d].verdict} \ {"success"} : Step(d, Publishing(d, v))
    /\ FaultLocal

\* Whether check c ends is lost with a fault.
Excused(c) == [e \in DOMAIN checks |-> [checks[e] EXCEPT !.excused = @ \/ e = c]]

\* The input a completed check names; a widened one matches no collected input.
Completed(d, c, verdict, input) ==
    [checks EXCEPT ![c].status = "completed", ![c].conclusion = verdict, ![c].by = runOf[d],
                   ![c].input = IF verdict \in {"success", "failure", "neutral"} THEN input ELSE NoInput]

Patch(d) ==
    LET c == del[d].check
    IN  /\ del[d].pc = "patch"
        /\ \E input \in {checks[c].input, NoInput} :
              checks' = Completed(d, c, del[d].verdict, input)
        /\ Step(d, [del[d] EXCEPT !.pc = "confirm"])
        /\ UNCHANGED <<head, policy, runOf, event, faults>>

\* No answer to the PATCH, or a refusal: it may have happened, and is not repeated.
PatchFails(d) ==
    LET c == del[d].check
    IN  /\ del[d].pc = "patch"
        /\ \/ checks' = Completed(d, c, del[d].verdict, checks[c].input)
           \/ checks' = Excused(c)
        /\ \E refused \in BOOLEAN : Step(d, [Leave(d, "failed") EXCEPT !.refused = refused])
        /\ Fault /\ UNCHANGED <<head, policy, runOf, event>>

\* The publication is read back as it was intended.
Confirm(d) ==
    /\ del[d].pc = "confirm"
    /\ Step(d, Leave(d, IF del[d].verdict \in {"success", "outside"} THEN "passed" ELSE "failed"))
    /\ Local

ConfirmFails(d) ==
    /\ del[d].pc = "confirm"
    /\ Step(d, Leave(d, "failed"))
    /\ FaultLocal

-----------------------------------------------------------------------------
(* The finalizer.                                                          *)

Over(d) ==
    [del[d] EXCEPT !.pc = "over", !.again = FALSE, !.input = "none", !.verdict = "none",
                   !.saved = "none", !.refused = FALSE]

\* After a terminal refusal it asks nothing; a publication that was sent, and a
\* verdict that was reused, is only read.
FinalizeOver(d) ==
    /\ del[d].pc = "finalize"
    /\ \/ del[d].refused \/ del[d].saved \in {"none", "sent"}
       \/ del[d].saved = "begun" /\ checks[del[d].check].status = "completed"
    /\ Step(d, Over(d))
    /\ Local

Settling(d) == [del[d] EXCEPT !.pc = "settle", !.saved = "sent"]

Finalize(d) ==
    /\ del[d].pc = "finalize" /\ ~del[d].refused /\ del[d].saved = "begun"
    /\ checks[del[d].check].status # "completed"
    /\ Step(d, Settling(d))
    /\ Local

\* The check cannot be read: what was saved of it counts.
FinalizeUnread(d) ==
    /\ del[d].pc = "finalize" /\ ~del[d].refused /\ del[d].saved = "begun"
    /\ Step(d, Settling(d))
    /\ FaultLocal

Settle(d) ==
    /\ del[d].pc = "settle"
    /\ checks' = Completed(d, del[d].check, "interrupted", NoInput)
    /\ Step(d, Over(d))
    /\ UNCHANGED <<head, policy, runOf, event, faults>>

SettleFails(d) ==
    /\ del[d].pc = "settle"
    /\ \/ checks' = Completed(d, del[d].check, "interrupted", NoInput)
       \/ checks' = Excused(del[d].check)
    /\ Step(d, Over(d))
    /\ Fault /\ UNCHANGED <<head, policy, runOf, event>>

\* A refused request ends the delivery, and its finalizer asks nothing more.
Refused(d) ==
    /\ Active(d) /\ del[d].pc # "queued" /\ ~del[d].refused
    /\ checks' = Excused(del[d].check)
    /\ Step(d, IF del[d].pc \in {"finalize", "settle"} THEN Over(d)
               ELSE [Leave(d, "failed") EXCEPT !.refused = TRUE])
    /\ Fault /\ UNCHANGED <<head, policy, runOf, event>>

\* A newer run, a person or the time limit stops the review; its finalizer runs.
\* A request in flight may still arrive; the finalizer does not repeat a
\* publication that was saved as sent, whether or not it was.
Cancel(d) ==
    /\ del[d].pc \notin {"idle", "queued", "finalize", "settle", "over"}
    /\ Step(d, Leave(d, "failed"))
    /\ \/ del[d].pc # "patch" /\ UNCHANGED checks
       \/ del[d].pc = "create" /\ checks' = Opened(d, TRUE)
       \/ del[d].pc = "patch"
             /\ checks' = Completed(d, del[d].check, del[d].verdict, checks[del[d].check].input)
       \/ del[d].pc = "patch" /\ checks' = Excused(del[d].check)
    /\ Fault /\ UNCHANGED <<head, policy, runOf, event>>

\* The runner is lost: not even the finalizer runs.
RunnerLost(d) ==
    /\ Active(d)
    /\ checks' = Excused(del[d].check)
    /\ Step(d, [Over(d) EXCEPT !.report = IF del[d].pc \in {"finalize", "settle"} THEN @ ELSE "failed"])
    /\ Fault /\ UNCHANGED <<head, policy, runOf, event>>

Init ==
    /\ head = 1 /\ policy = 1 /\ faults = 0
    /\ runOf \in Plans
    /\ event = [r \in Runs |-> 0]
    /\ checks = <<>>
    /\ del = [d \in Deliveries |-> Idle]

Work(d) ==
    \/ Start(d) \/ Target(d) \/ Gather(d)
    \/ Reuse(d) \/ Again(d) \/ Defer(d) \/ Adopt(d) \/ GoCreate(d) \/ Create(d) \/ ReadBack(d)
    \/ Review(d) \/ Recheck(d) \/ Patch(d) \/ Confirm(d)
    \/ FinalizeOver(d) \/ Finalize(d) \/ Settle(d)

Trouble(d) ==
    \/ GatherFails(d) \/ ListFails(d) \/ OwnerUnread(d) \/ CreateUnanswered(d) \/ ReadBackFails(d)
    \/ RecheckFails(d) \/ PatchFails(d) \/ ConfirmFails(d) \/ FinalizeUnread(d) \/ SettleFails(d)
    \/ Refused(d) \/ Cancel(d) \/ RunnerLost(d)

Next ==
    \/ Push \/ BaseMoves
    \/ \E d \in Deliveries : Request(d) \/ Work(d) \/ Trouble(d)

\* A delivery that was requested is run to its end.
Fairness == \A d \in Deliveries : WF_vars(Work(d))

Spec == Init /\ [][Next]_vars /\ Fairness

-----------------------------------------------------------------------------
(* Properties.                                                             *)

Verdicts == {"success", "failure", "neutral", "unavailable", "outside", "cancelled", "interrupted"}

\* Every delivery works on a check that exists, and checks are opened and
\* completed in one shape: a completed check has a conclusion, an open one none.
TypeOK ==
    /\ head \in 1..MaxMoves + 1 /\ policy \in 1..MaxMoves + 1 /\ faults \in 0..MaxFaults
    /\ \A d \in Deliveries :
          /\ del[d].check \in {0} \cup DOMAIN checks
          /\ del[d].saved # "none" => del[d].check # 0
          /\ del[d].verdict \in Verdicts \cup {"none"}
    /\ \A c \in DOMAIN checks :
          /\ checks[c].owner \in Runs
          /\ checks[c].status = "completed" <=> checks[c].conclusion \in Verdicts \ {"unavailable"}

\* A check completes only once: no late answer, retry, finalizer or other
\* delivery replaces a conclusion, also when the check cannot be read.
VerdictIsFinal ==
    [][\A c \in DOMAIN checks : checks[c].status = "completed" =>
          /\ checks'[c].status = "completed"
          /\ checks'[c].conclusion = checks[c].conclusion
          /\ checks'[c].by = checks[c].by]_checks

\* A check is completed by the workflow run that opened it: a delivery that
\* deferred to another one's review never settles it.
OwnerCompletes == \A c \in DOMAIN checks : checks[c].by = checks[c].owner

\* A delivery that reports a passed review rests on a completed check, and when
\* that check is a success, on a review of the very head and policy that this
\* delivery collected.
PassedIsReviewed ==
    \A d \in Deliveries : del[d].report = "passed" =>
        LET c == checks[del[d].check]
        IN  /\ c.status = "completed" /\ c.conclusion \in {"success", "outside"}
            /\ c.source = Input(d)

\* What a check says of its source, types included.
ReviewInv == TypeOK /\ PassedIsReviewed /\ OwnerCompletes

\* A delivery defers only to a review of what it collected itself, and the check
\* of that review does not stay open unless a request or a runner was lost.
DeferralIsServed ==
    \A d \in Deliveries : del[d].report = "deferred" =>
        LET c == checks[del[d].check]
        IN  /\ c.source = Input(d) /\ c.owner # runOf[d]
            /\ c.status = "completed" \/ c.excused \/ Live(c.owner)

\* No check is left in progress: whatever ends a delivery between opening its
\* check and completing it, the finalizer closes the check, unless a request was
\* refused or unanswered or the runner itself was lost.
EveryCheckEnds ==
    \A c \in 1..Cardinality(Deliveries) :
        (c \in DOMAIN checks /\ checks[c].status = "in_progress")
            ~> (c \in DOMAIN checks /\ (checks[c].status = "completed" \/ checks[c].excused))
=============================================================================
