---------------------------- MODULE RedMainTrace ----------------------------
(***************************************************************************)
(* How the repair handler finds whom to blame (the steps confirm and trace *)
(* of .github/workflows/red-main.yml with .github/red_main/prev.py,        *)
(* confirm.py, window.py, culprit.py).  One call: it compares the failing  *)
(* units of a red run with those of the completed run before it, takes the *)
(* newest earlier run that clears one of them as the baseline, verifies    *)
(* every commit since then on its own, and judges those runs on the traced *)
(* units alone.  Meanwhile commits land and runs end and are re-run.       *)
(***************************************************************************)
EXTENDS Integers, FiniteSets

CONSTANTS
    Jobs, Tests,     \* the jobs of the verify workflow and the tests a job may report
    Ways,            \* the ways a job can fail of its code before its tests run (step and error lines)
    Infra,           \* the way a job fails of infrastructure
    Needs,           \* the jobs a job waits for: it is skipped when one of them fails
    MaxCommit,       \* bound on the commits of the trunk; commit c has at most the run c
    MaxCandidates, MaxRevertCommits,  \* inputs max-candidates and max-revert-commits
    WalkRuns,        \* runs one walk for the baseline reads at most (WALK_RUNS)
    ReadTries,       \* failed status reads in a row that stop the trace
    TraceModes,      \* the values of on_red in play, of "revert", "revert_pr_unarmed" and "notify"
    LaneInputs,      \* whether the verify workflow takes the lanes of a candidate: a set of Booleans
    MaxReruns, MaxFlakes, MaxOutages, MaxFaults

Builds == "builds"   \* nothing stops the job's tests
Tested == "tested"   \* how a job looks whose tests failed, where their report cannot be read

ASSUME TraceAssumption ==
    /\ Infra \notin Ways \cup {Builds, Tested} /\ Ways \cap {Builds, Tested} = {}
    /\ Needs \in [Jobs -> SUBSET Jobs]
    /\ MaxCommit \in Nat \ {0}
    /\ MaxCandidates \in Nat /\ MaxRevertCommits \in Nat
    /\ WalkRuns \in Nat \ {0} /\ ReadTries \in Nat \ {0}
    /\ TraceModes \subseteq {"revert", "revert_pr_unarmed", "notify"}
    /\ LaneInputs \subseteq BOOLEAN
    /\ MaxReruns \in Nat /\ MaxFlakes \in Nat /\ MaxOutages \in Nat /\ MaxFaults \in Nat

VARIABLES
    head, build, broken,       \* the trunk: what stops a job's tests at each commit, and the tests that fail
    result, ran, failing,      \* of each push run: its conclusion, the jobs it ran, its failing units
    mode, laneInput,           \* what the repository chose
    pc,                        \* the step of the call
    red, units,                \* the run handled and its failing units
    prev, confirmed,           \* the completed run before it, and the units that failed in both
    walk, targets, lanes, base, \* runs left to walk; the traced units, the jobs they need; the baseline
    next, waiting, unread,     \* candidates: the next to dispatch, not concluded, status reads failed in a row
    found, foundUnits,         \* the conclusion and the failing units of each candidate
    verdict, culprit,          \* the outcome of the call and the commit it names
    reruns, flakes, outages, faults,
    standing                   \* history: runs that cleared a unit, unchanged since the call read the red run

trunk   == <<head, build, broken>>
history == <<result, ran, failing>>
inputs  == <<mode, laneInput>>
origin  == <<red, units, prev, confirmed>>
window  == <<walk, targets, lanes, base>>
probes  == <<next, waiting, unread, found, foundUnits>>
outcome == <<verdict, culprit>>
vars    == <<trunk, history, inputs, pc, origin, window, probes, outcome, reruns, flakes, outages, faults, standing>>

-----------------------------------------------------------------------------
Commits == 1..MaxCommit
NoRun   == 0
NoBase  == 0
Unit == [kind : {"test"}, name : Tests, job : Jobs]
            \cup [kind : {"lane"}, name : Ways \cup {Infra, Tested}, job : Jobs]
Test(t, j) == [kind |-> "test", name |-> t, job |-> j]
Lane(w, j) == [kind |-> "lane", name |-> w, job |-> j]

Results     == {"absent", "running", "cancelled", "success", "failure"}
Conclusions == {"none", "success", "failure", "timeout", "inconclusive"}
Verdicts    == {"none", "stopped", "infra", "not confirmed", "no action", "passed", "window", "culprit"}
Steps == {"idle", "units", "classify", "classify unread", "find previous", "read previous", "find base", "list", "walk",
          "candidates", "dispatch", "poll", "infra", "judge", "done"}

Completed(r) == result[r] \in {"success", "failure"}

\* The truth about a unit of code at a commit.
Fails(u, c) ==
    IF u.kind = "test" THEN u.name \in broken[c][u.job]
    ELSE IF u.name = Tested THEN build[c][u.job] = Builds /\ broken[c][u.job] # {}
    ELSE u.name = build[c][u.job]

\* What a run of a job on a commit shows: a report of its tests, or how it failed before them.
Shown(c, j) ==
    IF build[c][j] = Builds THEN {Test(t, j) : t \in broken[c][j]} ELSE {Lane(build[c][j], j)}

Sound(c, j) == build[c][j] = Builds /\ broken[c][j] = {}

\* What a flaky run of job j may show instead.
Flakes(j) == {{Test(t, j) : t \in some} : some \in SUBSET Tests} \cup {{Lane(w, j)} : w \in Ways}

Newest(r, runs) == r \in runs /\ \A s \in runs : s <= r
Oldest(c, commits) == c \in commits /\ \A d \in commits : c <= d

OfJob(rows, j) == {u \in rows : u.job = j}
JobsOf(rows) == {u.job : u \in rows}

\* junit.py: a failed job without a readable report is one row, named by how it failed.
Unreported(rows, lost) ==
    {u \in rows : u.kind = "lane" \/ u.job \notin lost}
        \cup {Lane(Tested, j) : j \in lost \cap JobsOf({u \in rows : u.kind = "test"})}

\* A verified commit is one whose run succeeded; c need not run a job unchanged since then.
Verified(c) == result[c] = "success"
MaySkip(c, j) == \E b \in Commits : /\ b < c /\ Verified(b)
                                    /\ build[b][j] = build[c][j] /\ broken[b][j] = broken[c][j]

\* The units that fail in a run of some jobs: as the code is, but for one job
\* that flaked or met an outage.
AsItIs(c, some) == UNION {Shown(c, j) : j \in some}
Instead(c, some, j, rows) == (AsItIs(c, some) \ OfJob(AsItIs(c, some), j)) \cup rows
Flaked(c, some) == UNION {{Instead(c, some, j, odd) : odd \in Flakes(j)} : j \in some} \ {AsItIs(c, some)}
CutOff(c, some) == {Instead(c, some, j, {Lane(Infra, j)}) : j \in some}
Evidence(c, some) == {AsItIs(c, some)} \cup Flaked(c, some) \cup CutOff(c, some)

Observe(c, some, rows) ==
    \/ rows = AsItIs(c, some) /\ UNCHANGED <<flakes, outages>>
    \/ rows \in Flaked(c, some) /\ flakes < MaxFlakes /\ flakes' = flakes + 1 /\ UNCHANGED outages
    \/ rows \in CutOff(c, some) /\ outages < MaxOutages /\ outages' = outages + 1 /\ UNCHANGED flakes

-----------------------------------------------------------------------------
Init ==
    /\ head = 1
    /\ build = [c \in Commits |-> [j \in Jobs |-> Builds]]
    /\ broken = [c \in Commits |-> [j \in Jobs |-> {}]]
    /\ result = [r \in Commits |-> IF r = 1 THEN "success" ELSE "absent"]
    /\ ran = [r \in Commits |-> IF r = 1 THEN Jobs ELSE {}]
    /\ failing = [r \in Commits |-> {}]
    /\ mode \in TraceModes /\ laneInput \in LaneInputs
    /\ pc = "idle"
    /\ red = NoRun /\ units = {} /\ prev = NoRun /\ confirmed = {}
    /\ walk = {} /\ targets = {} /\ lanes = {} /\ base = NoBase
    /\ next = 0 /\ waiting = {} /\ unread = [c \in Commits |-> 0]
    /\ found = [c \in Commits |-> "none"] /\ foundUnits = [c \in Commits |-> {}]
    /\ verdict = "none" /\ culprit = NoRun
    /\ reruns = 0 /\ flakes = 0 /\ outages = 0 /\ faults = 0
    /\ standing = {}

call == <<inputs, pc, origin, window, probes, outcome>>

\* A commit breaks or mends one thing, or nothing; its push starts a run.
Land ==
    /\ head < MaxCommit
    /\ head' = head + 1
    /\ \E j \in Jobs :
          \/ /\ \E b \in Ways \cup {Builds} : build' = [build EXCEPT ![head + 1] = [build[head] EXCEPT ![j] = b]]
             /\ broken' = [broken EXCEPT ![head + 1] = broken[head]]
          \/ /\ \E t \in Tests : \E bad \in {broken[head][j] \cup {t}, broken[head][j] \ {t}} :
                   broken' = [broken EXCEPT ![head + 1] = [broken[head] EXCEPT ![j] = bad]]
             /\ build' = [build EXCEPT ![head + 1] = build[head]]
    /\ result' = [result EXCEPT ![head + 1] = "running"]
    /\ UNCHANGED <<ran, failing, call, reruns, flakes, outages, faults>>

\* A newer push supersedes the run.
Supersede(r) ==
    /\ result[r] = "running" /\ r < head
    /\ result' = [result EXCEPT ![r] = "cancelled"]
    /\ UNCHANGED <<trunk, ran, failing, call, reruns, flakes, outages, faults>>

\* A run that fails may be cut short, or leave jobs out that wait for a failed one.
Finish(r) ==
    /\ result[r] = "running"
    /\ \E some \in SUBSET Jobs : \E rows \in Evidence(r, some) :
          /\ rows = {} => \A j \in Jobs \ some : MaySkip(r, j)
          /\ Observe(r, some, rows)
          /\ ran' = [ran EXCEPT ![r] = some]
          /\ failing' = [failing EXCEPT ![r] = rows]
          /\ result' = [result EXCEPT ![r] = IF rows = {} THEN "success" ELSE "failure"]
    /\ UNCHANGED <<trunk, call, reruns, faults>>

Rerun(r) ==
    /\ Completed(r)
    /\ reruns < MaxReruns /\ reruns' = reruns + 1
    /\ result' = [result EXCEPT ![r] = "running"]
    /\ UNCHANGED <<trunk, ran, failing, call, flakes, outages, faults>>
-----------------------------------------------------------------------------
(* The call.                                                               *)

World  == <<trunk, history>>
Bounds == <<reruns, flakes, outages, faults>>

GoTo(step) == pc' = step /\ UNCHANGED outcome
End(v) == pc' = "done" /\ verdict' = v /\ UNCHANGED culprit

Fault == faults < MaxFaults /\ faults' = faults + 1 /\ UNCHANGED <<reruns, flakes, outages>>

\* The reports of some jobs of a run cannot be downloaded, which stops nothing.
Reported(rows, seen) ==
    \/ seen = rows /\ UNCHANGED Bounds
    \/ (\E lost \in SUBSET Jobs : seen = Unreported(rows, lost) /\ seen # rows) /\ Fault

Take(r) ==
    /\ pc = "idle"
    /\ result[r] = "failure"
    /\ red' = r
    /\ GoTo("units")
    /\ UNCHANGED <<World, inputs, units, prev, confirmed, window, probes, Bounds>>

\* The rows of a run that is running again cannot be read; the confirmation stops for it.
ReadUnits ==
    /\ pc = "units"
    /\ \/ Completed(red) /\ Reported(failing[red], units') /\ GoTo("classify")
       \/ ~Completed(red) /\ UNCHANGED <<units, Bounds>> /\ GoTo("classify unread")
       \/ Fault /\ UNCHANGED units /\ GoTo("classify unread")
    /\ UNCHANGED <<World, inputs, red, prev, confirmed, window, probes>>

AllInfra(rows) == rows # {} /\ \A u \in rows : u.name = Infra

Classify ==
    /\ pc \in {"classify", "classify unread"}
    /\ IF ~Completed(red) THEN End("stopped")
       ELSE IF AllInfra(failing[red]) THEN End("infra")
       ELSE IF pc = "classify unread" THEN End("stopped")
       ELSE GoTo("find previous")
    /\ UNCHANGED <<World, inputs, origin, window, probes, Bounds>>

\* Mutant: the run itself is not passed over.
NotLater == {r \in 1..red : Completed(r)}

\* The earlier runs that count: cancelled and running ones are passed over.
Earlier == {r \in 1..red - 1 : Completed(r)}

FindPrevious ==
    /\ pc = "find previous"
    /\ IF Earlier = {} THEN UNCHANGED prev /\ End("not confirmed")
       ELSE (\E r \in Earlier : Newest(r, Earlier) /\ prev' = r) /\ GoTo("read previous")
    /\ UNCHANGED <<World, inputs, red, units, confirmed, window, probes, Bounds>>

\* The same test of the same job, or the same job failing the same way.
SameUnits(rows) == units \cap rows

ReadPrevious ==
    /\ pc = "read previous"
    /\ IF ~Completed(prev) THEN UNCHANGED <<confirmed, Bounds>> /\ End("stopped")
       ELSE \E lost \in SUBSET Jobs : LET rows == Unreported(failing[prev], lost) IN
              /\ Reported(failing[prev], rows)
              /\ IF result[prev] = "success" \/ SameUnits(rows) = {}
                 THEN UNCHANGED confirmed /\ End("not confirmed")
                 ELSE confirmed' = SameUnits(rows) /\ GoTo("find base")
    /\ UNCHANGED <<World, inputs, red, units, prev, window, probes>>

\* The newest verified ancestor; none is no authorization to revert.
FindBase ==
    /\ pc = "find base"
    /\ LET verified == {b \in 1..red - 1 : Verified(b)} IN
          IF verified = {} THEN UNCHANGED base /\ End("stopped")
          ELSE (\E b \in verified : Newest(b, verified) /\ base' = b) /\ GoTo("list")
    /\ UNCHANGED <<World, inputs, origin, walk, targets, lanes, probes, Bounds>>

\* The newest settled runs before the red one.
List ==
    /\ pc = "list"
    /\ LET settled == {r \in 1..red - 1 : Completed(r) \/ result[r] = "cancelled"} IN
          walk' = {r \in settled : Cardinality({s \in settled : s > r}) < WalkRuns}
    /\ GoTo("walk")
    /\ UNCHANGED <<World, inputs, origin, targets, lanes, base, probes, Bounds>>

\* Mutant: a test that a failed job does not list did not fail, whatever stopped the job.
ClearsUnlisted(u, r) == Completed(r) /\ u.job \in ran[r] /\ u \notin failing[r]

\* A run clears a unit when its job succeeded, or reported its tests and not this one as failing.
ClearsByJob(u, r) == Completed(r) /\ u.job \in ran[r] /\ OfJob(failing[r], u.job) = {}
Clears(u, r) ==
    /\ Completed(r) /\ u.job \in ran[r]
    /\ \/ OfJob(failing[r], u.job) = {}
       \/ /\ u.kind = "test" /\ u \notin failing[r]
          /\ \A v \in OfJob(failing[r], u.job) : v.kind = "test"

\* The verified baseline stays; every confirmed unit is traced in the red run's failed jobs.
KeepVerified ==
    /\ targets' = confirmed /\ lanes' = JobsOf(units)
    /\ UNCHANGED base
    /\ GoTo("candidates")

\* Mutant: a run that clears some of the units only is no baseline.
ClearedTogether(r) == {u \in confirmed : \A v \in confirmed : Clears(v, r)}

Cleared(r) == {u \in confirmed : Clears(u, r)}

Weigh(r, cleared) ==
    IF cleared = {} THEN walk' = walk \ {r} /\ UNCHANGED <<pc, targets, lanes, base, outcome>>
    ELSE base' = r /\ targets' = cleared /\ lanes' = JobsOf(cleared) /\ GoTo("candidates") /\ UNCHANGED walk

\* find_window: the newest run that clears any confirmed unit is the baseline of those it clears.
Walk ==
    /\ pc = "walk"
    /\ IF walk = {} THEN KeepVerified /\ UNCHANGED walk
       ELSE \E r \in walk : Newest(r, walk) /\ Weigh(r, Cleared(r))
    /\ UNCHANGED <<World, inputs, origin, probes, Bounds>>

\* The history cannot be read, or of one run the jobs or the reports, which clear nothing.
WalkFails ==
    /\ pc \in {"list", "walk"}
    /\ Fault
    /\ \/ UNCHANGED walk /\ KeepVerified
       \/ \E r \in walk : Newest(r, walk) /\
             \E cleared \in {{}, {u \in confirmed : ClearsByJob(u, r)}} : Weigh(r, cleared)
    /\ UNCHANGED <<World, inputs, origin, probes>>

\* Mutant: the baseline is verified again.
Baseline == base

FirstCandidate == base + 1

\* More commits than the trace may verify are reported or reverted as one; notify verifies none.
Candidates ==
    /\ pc = "candidates"
    /\ IF red - base > MaxRevertCommits THEN UNCHANGED next /\ End("no action")
       ELSE IF mode = "notify" \/ red - base > MaxCandidates THEN UNCHANGED next /\ End("window")
       ELSE next' = FirstCandidate /\ GoTo("dispatch")
    /\ UNCHANGED <<World, inputs, origin, window, waiting, unread, found, foundUnits, Bounds>>

\* A temporary branch and a verify run of the traced jobs, oldest commit first.
Dispatch ==
    /\ pc = "dispatch"
    /\ waiting' = waiting \cup {next}
    /\ next' = next + 1
    /\ IF next = red THEN GoTo("poll") ELSE UNCHANGED <<pc, outcome>>
    /\ UNCHANGED <<World, inputs, origin, window, unread, found, foundUnits, Bounds>>

\* The commits cannot be listed, or a branch or a run not created: the runs under way are left.
DispatchFails ==
    /\ pc \in {"candidates", "dispatch"}
    /\ Fault
    /\ End("no action")
    /\ UNCHANGED <<World, inputs, origin, window, probes>>

\* A candidate's run selects the lanes it was given and what they need, or those of its own range.
Selects(c, chosen) ==
    IF laneInput THEN chosen = lanes \cup UNION {Needs[j] : j \in lanes}
    ELSE \A j \in Jobs \ chosen : MaySkip(c, j)

\* A selected job runs unless one it waits for failed or was skipped.
Runs(chosen, some, rows) ==
    some = {j \in chosen : \A k \in Needs[j] \cap chosen : k \in some /\ OfJob(rows, k) = {}}

Concluded(c) ==
    /\ waiting' = waiting \ {c}
    /\ IF waiting' = {} THEN GoTo("infra") ELSE UNCHANGED <<pc, outcome>>

\* The status of a candidate's run is read after it completed, or was cancelled or never started.
Poll(c) ==
    /\ pc = "poll" /\ c \in waiting
    /\ Concluded(c)
    /\ \/ \E chosen, some \in SUBSET Jobs : Selects(c, chosen) /\ \E rows \in Evidence(c, some) :
             /\ Runs(chosen, some, rows)
             /\ Observe(c, some, rows)
             /\ found' = [found EXCEPT ![c] = IF rows = {} THEN "success" ELSE "failure"]
             /\ foundUnits' = [foundUnits EXCEPT ![c] = rows]
       \/ /\ found' = [found EXCEPT ![c] = "inconclusive"]
          /\ UNCHANGED <<foundUnits, flakes, outages>>
    /\ unread' = [unread EXCEPT ![c] = 0]
    /\ UNCHANGED <<World, inputs, origin, window, next, reruns, faults>>

StillRunning(c) ==
    /\ pc = "poll" /\ c \in waiting /\ unread[c] > 0
    /\ unread' = [unread EXCEPT ![c] = 0]
    /\ UNCHANGED <<World, inputs, pc, origin, window, next, waiting, found, foundUnits, outcome, Bounds>>

PollFails(c) ==
    /\ pc = "poll" /\ c \in waiting
    /\ unread' = [unread EXCEPT ![c] = unread[c] + 1]
    /\ IF unread'[c] = ReadTries THEN End("stopped") ELSE UNCHANGED <<pc, outcome>>
    /\ UNCHANGED <<World, inputs, origin, window, next, waiting, found, foundUnits, Bounds>>

\* Mutant: the wait has no end of its own.
NoDeadline == FALSE

\* The shared deadline: what has not concluded is a timeout.
Deadline ==
    /\ pc = "poll"
    /\ found' = [c \in Commits |-> IF c \in waiting THEN "timeout" ELSE found[c]]
    /\ waiting' = {}
    /\ GoTo("infra")
    /\ UNCHANGED <<World, inputs, origin, window, next, unread, foundUnits, Bounds>>

FailedCandidates == {c \in Commits : found[c] = "failure"}

\* One candidate that failed of infrastructure ends the trace.
ClassifyCandidates ==
    /\ pc = "infra"
    /\ IF \E c \in FailedCandidates : AllInfra(foundUnits[c]) THEN End("no action") ELSE GoTo("judge")
    /\ UNCHANGED <<World, inputs, origin, window, probes, Bounds>>

\* A read that must not fail.
ReadFails ==
    /\ \/ pc \in {"classify", "classify unread", "find previous", "read previous", "find base"}
       \/ pc = "infra" /\ FailedCandidates # {}
    /\ Fault
    /\ End("stopped")
    /\ UNCHANGED <<World, inputs, origin, window, probes>>

\* Mutant: another failure of a traced job hides nothing.
NothingHidden(rows) == FALSE

\* A job that failed before its tests may hide a traced test; any other failure a traced lane.
Hidden(rows) == \E u \in targets, v \in rows :
    v.job = u.job /\ (u.kind = "test" => v.kind = "lane")

\* judge: a candidate failed only if a traced unit failed in it.
Judged(rows) ==
    IF rows \cap targets # {} THEN "failure" ELSE IF Hidden(rows) THEN "inconclusive" ELSE "success"

Candidate == base + 1..red

Name(c) == pc' = "done" /\ verdict' = "culprit" /\ culprit' = c

\* Mutant: the oldest failure is named over older candidates that decide nothing.
BlamesOverDoubt(judged) ==
    LET bad == {c \in Candidate : judged[c] = "failure"} IN
    IF bad = {} THEN End("passed") ELSE \E c \in bad : Oldest(c, bad) /\ Name(c)

\* culprit.py: the oldest candidate that is not a success decides.
Blame(judged) ==
    LET bad == {c \in Candidate : judged[c] # "success"} IN
    IF bad = {} THEN End("passed")
    ELSE \E c \in bad : /\ Oldest(c, bad)
                         /\ IF judged[c] = "failure" THEN Name(c) ELSE End("window")

\* Of some candidate the failing jobs cannot be read, which leaves it undecided, or the reports.
Misread ==
    \E c \in FailedCandidates, as \in Conclusions :
        /\ \/ as = "inconclusive"
           \/ \E lost \in SUBSET Jobs : as = Judged(Unreported(foundUnits[c], lost))
        /\ Blame([d \in Commits |->
              IF d = c THEN as ELSE IF found[d] = "failure" THEN Judged(foundUnits[d]) ELSE found[d]])

Judge ==
    /\ pc = "judge"
    /\ \/ /\ Blame([c \in Commits |-> IF found[c] = "failure" THEN Judged(foundUnits[c]) ELSE found[c]])
          /\ UNCHANGED Bounds
       \/ Fault /\ Misread
    /\ UNCHANGED <<World, inputs, origin, window, probes>>

-----------------------------------------------------------------------------
\* What happens after the call has ended is not looked at.
Forge == pc # "done" /\ (Land \/ \E r \in Commits : Supersede(r) \/ Finish(r) \/ Rerun(r))

Handler ==
    \/ ReadUnits \/ Classify \/ FindPrevious \/ ReadPrevious \/ FindBase \/ List \/ Walk
    \/ Candidates \/ Dispatch \/ Deadline \/ ClassifyCandidates \/ Judge

Polls == \E c \in Commits : Poll(c) \/ StillRunning(c)

Failure == WalkFails \/ DispatchFails \/ ReadFails \/ \E c \in Commits : PollFails(c)

\* The completed runs of the listing, while they stand and the walk lasts.
Remember == standing' =
    IF pc' = "walk" /\ pc = "list" THEN {r \in 1..red - 1 : Completed(r)}
    ELSE IF pc' \in {"walk", "candidates"} THEN {r \in standing : Completed(r)'}
    ELSE {}

Next ==
    \/ Forge /\ Remember
    \/ (\E r \in Commits : Take(r)) /\ Remember
    \/ Handler /\ Remember
    \/ Polls /\ Remember
    \/ Failure /\ Remember

Spec == Init /\ [][Next]_vars

\* The runner carries the call on; that a candidate's run ends is not assumed.
FairSpec == Spec /\ WF_vars(Handler /\ Remember)

-----------------------------------------------------------------------------
(* Properties.                                                             *)

TrunkType == /\ head \in Commits
             /\ build \in [Commits -> [Jobs -> Ways \cup {Builds}]]
             /\ broken \in [Commits -> [Jobs -> SUBSET Tests]]
HistoryType == /\ result \in [Commits -> Results]
               /\ ran \in [Commits -> SUBSET Jobs]
               /\ failing \in [Commits -> SUBSET Unit]
OriginType == red \in 0..MaxCommit /\ prev \in 0..MaxCommit /\ units \subseteq Unit /\ confirmed \subseteq units
WindowType == walk \subseteq Commits /\ targets \subseteq confirmed /\ lanes \subseteq Jobs /\ base \in 0..MaxCommit
ProbeType == /\ next \in 0..MaxCommit + 1 /\ waiting \subseteq Candidate /\ unread \in [Commits -> 0..ReadTries]
             /\ found \in [Commits -> Conclusions] /\ foundUnits \in [Commits -> SUBSET Unit]
CountType == reruns \in 0..MaxReruns /\ flakes \in 0..MaxFlakes /\ outages \in 0..MaxOutages /\ faults \in 0..MaxFaults

\* The types; traced units are confirmed ones and candidates are newer than the baseline.
TypeOK == /\ TrunkType /\ HistoryType /\ OriginType /\ WindowType /\ ProbeType /\ CountType
          /\ mode \in TraceModes /\ laneInput \in LaneInputs
          /\ pc \in Steps /\ verdict \in Verdicts /\ culprit \in 0..MaxCommit /\ standing \subseteq Commits

Deterministic == flakes = 0 /\ outages = 0

\* What a traced job waits for waits for none, and is sound at every candidate.
InTheOpen == \A u \in targets : \A k \in Needs[u.job] :
    Needs[k] = {} /\ \A c \in Candidate : Sound(c, k)

\* While no job flakes, the named culprit is the commit that broke a unit which
\* failed on both runs: it fails there and not on the commit before, although
\* jobs are left out, hide their tests behind another failure, are cancelled, or
\* fail of what was red already (window.py judge, culprit.py).  A traced job that
\* is skipped for one it waits for passes for a success: then it may be another's.
CulpritIntroducedIt == verdict = "culprit" /\ Deterministic /\ InTheOpen =>
    \E u \in confirmed : Fails(u, culprit) /\ ~Fails(u, culprit - 1)

\* A window that is reverted as one holds the commit that broke a confirmed unit.
WindowHoldsTheBreak == verdict = "window" /\ Deterministic =>
    \E u \in confirmed, c \in Candidate : Fails(u, c) /\ ~Fails(u, c - 1)

Reverts == verdict \in {"culprit", "window"}

\* A sound trunk is not reverted for one odd run, and no commit of it is named
\* for two: a flake must strike the same unit of two runs that follow each
\* other, and of a candidate.
OneOddRunRevertsNothing ==
    (\A c \in 1..head, j \in Jobs : Sound(c, j)) =>
        /\ flakes + outages <= 1 => ~Reverts
        /\ flakes + outages <= 2 => verdict # "culprit"

\* The baseline is no older than a run that stood all through the walk and
\* clears a confirmed unit: no commit before it is verified or reverted.
NarrowestWindow == pc = "candidates" /\ faults = 0 =>
    \A r \in standing :
        (\E u \in confirmed : Clears(u, r)) /\ red - r <= WalkRuns => base >= r

\* The window is wide enough to hold the break, and no wider.
WindowInv == TypeOK /\ WindowHoldsTheBreak /\ NarrowestWindow

\* A call that has begun ends, although no candidate's run ever does.
TraceEnds == pc # "idle" ~> pc = "done"
=============================================================================
