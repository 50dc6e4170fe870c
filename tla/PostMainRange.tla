--------------------------- MODULE PostMainRange ---------------------------
(***************************************************************************)
(* The post-merge verify runs of a trunk and the proof later runs take     *)
(* from them (.github/actions/ci-range/ci_range.py, its post_main.py, and  *)
(* .github/actions/needs-pass/needs_pass.py).  A run's plan job walks from *)
(* its head to the newest ancestor with an authenticated success and runs  *)
(* only the lanes whose files differ from that ancestor's; its aggregate   *)
(* job then makes the head such an ancestor.  Runs overlap, supersede each *)
(* other, cancel themselves on a failure, and are re-run, so each walk     *)
(* reads verdicts that change under it.                                    *)
(***************************************************************************)
EXTENDS Naturals, FiniteSets

CONSTANTS
    Lanes, Versions, MaxCommit, Bad,  \* as in VerifiedTrunk
    Root,         \* the version every path has in commit 1
    FailFast,     \* lanes that end in the self-cancel hook
    NumRuns,      \* bound on the runs
    WalkLimit,    \* ancestors one walk reads at most (WALK_LIMIT)
    LaneLimits,   \* TRUE: a lane may be cancelled alone (its time limit, a matrix sibling)
    Named,        \* what a dispatch may name as its lanes: a set of sets of lanes
    MaxReruns, MaxCancels, MaxFaults  \* bounds on re-runs, cancels by people, failed steps

ASSUME RangeAssumption ==
    /\ MaxCommit \in Nat \ {0}
    /\ Bad \subseteq Versions \X Versions
    /\ Root \in Versions
    /\ FailFast \subseteq Lanes
    /\ NumRuns \in Nat
    /\ WalkLimit \in Nat \ {0}
    /\ LaneLimits \in BOOLEAN
    /\ Named \subseteq SUBSET Lanes
    /\ MaxReruns \in Nat /\ MaxCancels \in Nat /\ MaxFaults \in Nat

VARIABLES
    head, code, ci,           \* the trunk, as in VerifiedTrunk
    event, commit, only,      \* of each run: what started it, its head, the lanes a dispatch names
    plan, cursor, base,       \* the plan job; the ancestor it reads next; the range's base
    lane,                     \* the lane jobs
    verified,                 \* the aggregate job
    result,                   \* status and conclusion of the run
    reruns, cancels, faults,
    standing                  \* history: ancestors verified ever since the plan job began

trunk  == <<head, code, ci>>
origin == <<event, commit, only>>
jobs   == <<plan, cursor, base, lane, verified>>
counts == <<reruns, cancels, faults>>
vars   == <<trunk, origin, jobs, result, counts, standing>>

-----------------------------------------------------------------------------
Commits == 1..MaxCommit
Runs    == 1..NumRuns
NoBase  == 0   \* no base: every lane runs
Events  == {"none", "push", "dispatch"}
Settled == {"success", "failure", "cancelled"}
Results == {"absent", "running"} \cup Settled
PlanStates == {"queued"} \cup Settled
\* "failing": a step failed and the hook is to run; "marked": cancelled by its own hook, which succeeded.
LaneStates == {"queued", "skipped", "failing", "marked"} \cup Settled
Aggregates == {"none", "skipped", "success", "failure"}

Whole(c) == \A l \in Lanes : <<code[c][l], ci[c]>> \notin Bad

LanesOver(r) == \A l \in Lanes : lane[r][l] \notin {"queued", "failing"}

\* PASS: what needs_pass accepts of a dependency.
Pass == {"success", "skipped"}

\* Mutant: the plan job is not required.
NeedsNoPlan(r) == \A l \in Lanes : lane[r][l] \in Pass

\* The aggregate's rule: the plan must have succeeded, each lane succeeded or was not selected.
NeedsPass(r) == plan[r] = "success" /\ \A l \in Lanes : lane[r][l] \in Pass

-----------------------------------------------------------------------------
(* The verdict of a run and of a commit.                                   *)

Completed(r) == result[r] \in Settled

\* Mutants: any cancelled lane is a failure; the hook's step is not recognised; a cancel hides the aggregate.
AnyCancelledLane(r) == \E l \in Lanes : lane[r][l] \in {"marked", "cancelled"}
HookUnseen(r) == \E l \in Lanes : lane[r][l] = "failure"

\* producer_origin: only a push of the tracked branch can be a proof.
Eligible(r) == event[r] = "push"

\* A required lane failed and then cancelled the run itself.
FailureBeforeCancel(r) == \E l \in Lanes : lane[r][l] = "marked"

CancelDecides(r) ==
    IF ~Eligible(r) THEN "ineligible"
    ELSE IF result[r] = "cancelled"
         THEN IF FailureBeforeCancel(r) THEN "failure" ELSE "cancelled"
    ELSE IF verified[r] \in {"success", "failure"} THEN verified[r]
    ELSE "unknown"

CheckedVerdict(r) ==
    IF ~Eligible(r) THEN "ineligible"
    ELSE IF verified[r] \in {"success", "failure"} THEN verified[r]
    ELSE IF result[r] = "cancelled"
         THEN IF FailureBeforeCancel(r) THEN "failure" ELSE "cancelled"
    ELSE "unknown"

IsLatestRun(r, c) ==
    /\ Eligible(r) /\ commit[r] = c
    /\ \A s \in Runs : Eligible(s) /\ commit[s] = c => s <= r

ShaVerdictIs(c, verdict) == \E r \in Runs : IsLatestRun(r, c) /\ CheckedVerdict(r) = verdict

Certified == {c \in Commits : ShaVerdictIs(c, "success")}

-----------------------------------------------------------------------------
Init ==
    /\ head = 1
    /\ code = [c \in Commits |-> [l \in Lanes |-> Root]]
    /\ ci = [c \in Commits |-> Root]
    /\ event = [r \in Runs |-> "none"]
    /\ commit = [r \in Runs |-> 1]
    /\ only = [r \in Runs |-> {}]
    /\ plan = [r \in Runs |-> "queued"]
    /\ cursor = [r \in Runs |-> 0]
    /\ base = [r \in Runs |-> NoBase]
    /\ lane = [r \in Runs |-> [l \in Lanes |-> "queued"]]
    /\ verified = [r \in Runs |-> "none"]
    /\ result = [r \in Runs |-> "absent"]
    /\ reruns = 0 /\ cancels = 0 /\ faults = 0
    /\ standing = [r \in Runs |-> {}]

\* A commit changes one path; one that changes more is a push of several commits.
Land ==
    /\ head < MaxCommit
    /\ head' = head + 1
    /\ \E v \in Versions :
          \/ /\ \E l \in Lanes : code' = [code EXCEPT ![head + 1] = [code[head] EXCEPT ![l] = v]]
             /\ ci' = [ci EXCEPT ![head + 1] = ci[head]]
          \/ /\ code' = [code EXCEPT ![head + 1] = code[head]]
             /\ ci' = [ci EXCEPT ![head + 1] = v]
    /\ UNCHANGED <<origin, jobs, result, counts>>

\* A run starts at the head of the trunk; run ids grow.
Start(r, e, lanes) ==
    /\ result[r] = "absent"
    /\ r > 1 => result[r - 1] # "absent"
    /\ event' = [event EXCEPT ![r] = e]
    /\ commit' = [commit EXCEPT ![r] = head]
    /\ only' = [only EXCEPT ![r] = lanes]
    /\ cursor' = [cursor EXCEPT ![r] = head - 1]
    /\ result' = [result EXCEPT ![r] = "running"]
    /\ UNCHANGED <<trunk, plan, base, lane, verified, counts>>

-----------------------------------------------------------------------------
(* The plan job.                                                           *)

Planning(r) == result[r] = "running" /\ plan[r] = "queued"

\* Mutant: a change under .github/ selects nothing by itself.
ByOwnFilesOnly(r, b, l) == b = NoBase \/ code[b][l] # code[commit[r]][l]

\* Which lanes the range selects: no base or a change under .github/ selects all.
Selected(r, b, l) ==
    \/ b = NoBase
    \/ ci[b] # ci[commit[r]]
    \/ code[b][l] # code[commit[r]][l]

\* A dispatch that names lanes runs exactly those.
RunsLane(r, b, l) == IF only[r] # {} THEN l \in only[r] ELSE Selected(r, b, l)

Select(r, b) ==
    /\ plan' = [plan EXCEPT ![r] = "success"]
    /\ base' = [base EXCEPT ![r] = b]
    /\ lane' = [lane EXCEPT ![r] = [l \in Lanes |-> IF RunsLane(r, b, l) THEN "queued" ELSE "skipped"]]
    /\ UNCHANGED cursor

\* Mutants: a root commit is not the end; the walk stops one ancestor early.
NoRootEnds(r) == commit[r] - cursor[r] > WalkLimit
StopsEarly(r) == cursor[r] = 0 \/ commit[r] - cursor[r] >= WalkLimit

WalkExhausted(r) == cursor[r] = 0 \/ commit[r] - cursor[r] > WalkLimit

\* Mutant: the range is the last commit only.
BaseIsParent(r) ==
    /\ Planning(r)
    /\ Select(r, cursor[r])
    /\ UNCHANGED <<trunk, origin, verified, result, counts>>

\* One ancestor per step: the first authenticated success is the base.
Walk(r) ==
    /\ Planning(r)
    /\ IF WalkExhausted(r) THEN Select(r, NoBase)
       ELSE IF cursor[r] \in Certified THEN Select(r, cursor[r])
       ELSE /\ cursor' = [cursor EXCEPT ![r] = cursor[r] - 1]
            /\ UNCHANGED <<plan, base, lane>>
    /\ UNCHANGED <<trunk, origin, verified, result, counts>>

\* Incomplete history, a failed read or an unreachable base: every lane runs.
RangeUnavailable(r) ==
    /\ Planning(r)
    /\ faults < MaxFaults
    /\ faults' = faults + 1
    /\ Select(r, NoBase)
    /\ UNCHANGED <<trunk, origin, verified, result, reruns, cancels>>

\* The job itself fails (its checkout, its diff); no lane runs.
PlanFails(r) ==
    /\ Planning(r)
    /\ faults < MaxFaults
    /\ faults' = faults + 1
    /\ plan' = [plan EXCEPT ![r] = "failure"]
    /\ lane' = [lane EXCEPT ![r] = [l \in Lanes |-> "skipped"]]
    /\ UNCHANGED <<trunk, origin, cursor, base, verified, result, reruns, cancels>>

-----------------------------------------------------------------------------
(* The lanes, the aggregate, and what ends or restarts a run.              *)

\* A lane on a bad tree never succeeds; on a good one it may still fail.
LaneOutcomes(r, l) ==
    (IF <<code[commit[r]][l], ci[commit[r]]>> \in Bad THEN {} ELSE {"success"})
    \cup (IF Eligible(r) /\ l \in FailFast THEN {"failing"} ELSE {"failure"})
    \cup (IF LaneLimits THEN {"cancelled"} ELSE {})

LaneEnds(r, l) ==
    /\ result[r] = "running" /\ plan[r] # "queued"
    /\ lane[r][l] = "queued"
    /\ \E outcome \in LaneOutcomes(r, l) : lane' = [lane EXCEPT ![r][l] = outcome]
    /\ UNCHANGED <<trunk, origin, plan, cursor, base, verified, result, counts>>

\* What a cancel leaves of a lane.
Cut(state) == IF state \in {"queued", "failing"} THEN "cancelled" ELSE state

\* The hook of lane l force-cancels its run; a hook that ran beside it may have succeeded too.
HookCancels(r, l) ==
    /\ result[r] = "running"
    /\ lane[r][l] = "failing"
    /\ \E beside \in SUBSET {m \in Lanes : lane[r][m] = "failing"} :
          lane' = [lane EXCEPT ![r] = [m \in Lanes |->
                     IF m = l \/ m \in beside THEN "marked" ELSE Cut(lane[r][m])]]
    /\ result' = [result EXCEPT ![r] = "cancelled"]
    /\ UNCHANGED <<trunk, origin, plan, cursor, base, verified, counts>>

HookFails(r, l) ==
    /\ result[r] = "running"
    /\ lane[r][l] = "failing"
    /\ faults < MaxFaults
    /\ faults' = faults + 1
    /\ lane' = [lane EXCEPT ![r][l] = "failure"]
    /\ UNCHANGED <<trunk, origin, plan, cursor, base, verified, result, reruns, cancels>>

\* if: always() && !cancelled().
Aggregate(r) ==
    /\ result[r] = "running"
    /\ plan[r] # "queued" /\ LanesOver(r)
    /\ verified[r] = "none"
    /\ verified' = [verified EXCEPT ![r] = IF NeedsPass(r) THEN "success" ELSE "failure"]
    /\ UNCHANGED <<trunk, origin, plan, cursor, base, lane, result, counts>>

\* Optional work after the aggregate may fail the run.
Finish(r) ==
    /\ result[r] = "running"
    /\ verified[r] # "none"
    /\ \E conclusion \in {verified[r], "failure"} : result' = [result EXCEPT ![r] = conclusion]
    /\ UNCHANGED <<trunk, origin, jobs, counts>>

\* A newer run supersedes this one, or a person cancels it.
Cancel(r) ==
    /\ result[r] = "running"
    /\ \/ (\E s \in Runs : s > r /\ event[s] = "push") /\ UNCHANGED cancels
       \/ cancels < MaxCancels /\ cancels' = cancels + 1
    /\ result' = [result EXCEPT ![r] = "cancelled"]
    /\ plan' = [plan EXCEPT ![r] = Cut(plan[r])]
    /\ lane' = [lane EXCEPT ![r] = [l \in Lanes |-> Cut(lane[r][l])]]
    /\ verified' = [verified EXCEPT ![r] = IF verified[r] = "none" THEN "skipped" ELSE verified[r]]
    /\ UNCHANGED <<trunk, origin, cursor, base, reruns, faults>>

RerunAll(r) ==
    /\ plan' = [plan EXCEPT ![r] = "queued"]
    /\ cursor' = [cursor EXCEPT ![r] = commit[r] - 1]
    /\ base' = [base EXCEPT ![r] = NoBase]
    /\ lane' = [lane EXCEPT ![r] = [l \in Lanes |-> "queued"]]

\* The plan keeps its range; lanes that succeeded or were not selected are not run again.
RerunFailed(r) ==
    /\ plan[r] = "success"
    /\ lane' = [lane EXCEPT ![r] = [l \in Lanes |->
                  IF lane[r][l] \in Pass THEN lane[r][l] ELSE "queued"]]
    /\ UNCHANGED <<plan, cursor, base>>

\* A new attempt of the same run.
Rerun(r) ==
    /\ Completed(r)
    /\ reruns < MaxReruns
    /\ reruns' = reruns + 1
    /\ RerunAll(r) \/ RerunFailed(r)
    /\ verified' = [verified EXCEPT ![r] = "none"]
    /\ result' = [result EXCEPT ![r] = "running"]
    /\ UNCHANGED <<trunk, origin, cancels, faults>>

-----------------------------------------------------------------------------
Forge ==
    \/ Land
    \/ \E r \in Runs :
          \/ Start(r, "push", {})
          \/ \E lanes \in Named : Start(r, "dispatch", lanes)
          \/ Cancel(r) \/ Rerun(r)

Work(r) ==
    \/ Walk(r) \/ RangeUnavailable(r) \/ PlanFails(r)
    \/ \E l \in Lanes : LaneEnds(r, l) \/ HookCancels(r, l) \/ HookFails(r, l)
    \/ Aggregate(r) \/ Finish(r)

\* The ancestors of a planning run that have been verified since it began to plan.
Remember == standing' = [r \in Runs |->
    IF ~Planning(r)' THEN {}
    ELSE {c \in Certified' : c < commit'[r] /\ (Planning(r) => c \in standing[r])}]

Next == (Forge \/ \E r \in Runs : Work(r)) /\ Remember

Spec == Init /\ [][Next]_vars

\* The forge starts a run for a head that has none and runs its jobs.
StartHead == \E r \in Runs :
    /\ ~\E s \in Runs : Eligible(s) /\ commit[s] = head
    /\ Start(r, "push", {})

FairSpec == Spec /\ WF_vars(StartHead /\ Remember) /\ \A r \in Runs : WF_vars(Work(r) /\ Remember)

-----------------------------------------------------------------------------
(* Properties.                                                             *)

TrunkType == head \in Commits /\ code \in [Commits -> [Lanes -> Versions]] /\ ci \in [Commits -> Versions]
OriginType == event \in [Runs -> Events] /\ commit \in [Runs -> Commits] /\ only \in [Runs -> SUBSET Lanes]
PlanType == plan \in [Runs -> PlanStates] /\ cursor \in [Runs -> 0..MaxCommit] /\ base \in [Runs -> 0..MaxCommit]
LaneType == lane \in [Runs -> [Lanes -> LaneStates]]
EndType == verified \in [Runs -> Aggregates] /\ result \in [Runs -> Results]
CountType == reruns \in 0..MaxReruns /\ cancels \in 0..MaxCancels /\ faults \in 0..MaxFaults

\* The types; the cursor and the base stay on the trunk.
TypeOK == TrunkType /\ OriginType /\ PlanType /\ LaneType /\ EndType /\ CountType
          /\ standing \in [Runs -> SUBSET Commits]

\* A commit that counts as verified holds in every lane, the lanes its run did
\* not run included: ranges join without a gap, whichever runs were superseded,
\* cancelled, re-run or dispatched with named lanes (ci_range.select,
\* post_main.last_verified).
VerifiedIsWhole == \A c \in Certified : c <= head /\ Whole(c)

\* Both together.
RangeInv == TypeOK /\ VerifiedIsWhole

\* A red verdict has a job that failed in that attempt: a run that was cancelled
\* by a person or superseded is not red (post_main.checked_verdict).
RedIsGenuine == \A r \in Runs : CheckedVerdict(r) = "failure" =>
    plan[r] = "failure" \/ \E l \in Lanes : lane[r][l] \in {"failure", "marked"}

\* A verdict, once there, stays until the run is re-run: cancelling the optional
\* work after the aggregate neither hides a proof nor a failure.
VerdictStands == [][\A r \in Runs : \A v \in {"success", "failure"} :
    CheckedVerdict(r) = v /\ reruns' = reruns => CheckedVerdict(r)' = v]_vars

\* The base is no older than an ancestor that was verified all through the walk,
\* so a run covers only the commits since the last verified one.
BaseIsNewest == [][\A r \in Runs : Planning(r) /\ plan'[r] = "success" /\ faults' = faults =>
    \A c \in standing[r] : commit[r] - c <= WalkLimit => base'[r] >= c]_vars

\* When pushes stop and nobody cancels a run, a trunk broken by any commit, that
\* of a superseded run included, is red at its head.
BrokenTrunkTurnsRed ==
    <>[]( /\ ~Whole(head)
          /\ \E r \in Runs : Eligible(r) /\ commit[r] = head
          /\ cancels = 0
          => ShaVerdictIs(head, "failure") )

\* The verify runs implement the certificates of VerifiedTrunk.
VT == INSTANCE VerifiedTrunk WITH certified <- Certified
CertifiesOnlyWhole == VT!Spec
=============================================================================
