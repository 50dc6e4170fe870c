# A TLA+ model of the shared CI of SylphxAI

This directory models the parts of the repository in which several actors meet:
the handlers and gates that keep a trunk green although nobody watches it. Each
module translates code under `src/`; comments in the modules name the function
a definition stands for, and `PROJECT.json` ("map") gives its lines.

## 1. Inventory

The repository holds reusable workflows, composite actions and their scripts.
Most of them are one process that reads a tree or calls one tool. The parts
below keep state outside their own process (issues, branches, pull requests,
labels, runs, caches, tags) and run beside others that change the same state.

| component | state it keeps | operations | who else acts | what makes it correct |
| --- | --- | --- | --- | --- |
| lifecycle alerts (`red-main.yml`, `mode: lifecycle`) | one alert issue: open/closed, a marker with the last event and the last failure | handle an event: prove it, find the alert, create, comment, rewrite | verify runs finish and are re-run; calls arrive in any order; people edit the alert | the marker is truthful and only moves forward; no failure is lost; the alert ends as the trunk does |
| merge-group gate (`main-red-gate`) | none; reads runs, jobs, pull requests | admit, refuse or hold a group | runs finish while they are read; people label pull requests | the newest verdict decides; the way back is never jammed; the hold is bounded |
| watch mode of the gate | the watchdog issue | file or comment | other watch jobs | one issue per repository |
| post-main proof and trace (`red_main/*.py`, `ci-range/post_main.py`) | run history, jobs, junit parts (read only) | find the last verified commit, confirm a failure, bound the window, name the culprit | runs are cancelled, superseded and re-run | a named culprit is the first bad commit of its window |
| repair handler (`red-main.yml`, `mode: repair`) | revert branches, pull requests, labels, notices, temporary candidate branches | classify, confirm, trace, revert, notify, escalate | the queue lands changes; people open reverts; requests fail | at most one revert per culprit; never a revert of an unproven or protected change; temporary branches are deleted |
| ci-range | the range a post-main run covers | walk to the last verified commit | runs finishing | no commit is skipped |
| needs-pass, ci-ok, ci-ok-polling | none; reads checks | aggregate, poll to a deadline | checks appear late, workflows replace each other | never green over a red or missing check; fails only for a cause that stands |
| run-store | entries of a build cache: parts and the root that names them | put in parts, get, retry | concurrent attempts, evictions, days that pass | a reader gets one whole bundle or none; what was acknowledged stays to its deadline |
| disarm auto-merge | the armed flag of a pull request | disarm on push | arming by label | no unreviewed head merges |
| Keel re-pin | a branch and a pull request for each tag, comments | poll, repin, open, settle: merge, close, tell | new tags, checks, people, the merge queue | only a proven head is merged; the pin never goes back; the newest tag is offered and dealt with |
| changesets publisher, artifact and image publication | version pull request, tags, digests | publish, tag, verify | retries, other publishers | a tag never points elsewhere |
| pull-request review | a check per review of a head, the file its finalizer reads | request, reuse, defer, create, review, complete, finalize | pushes, other deliveries, retries, cancellations | a verdict is of the source it names and final; no check stays open |
| Unity package cache | a shared cache | restore, verify, save | other jobs | a corrupt entry is never served |
| merge queue settings scripts | repository rules | read, patch | people | idempotent |
| scanners (stack-conformance, workflow-lint, migration-guard, policy checks) | none | scan a tree | nobody | their pattern rules, which unit tests state |

How they meet: a landing on the trunk starts a verify run; its completion calls
the red-main handler (repair or lifecycle) through `workflow_run`. The repair
handler opens a revert, and while the trunk is red the gate lets only that
revert, or a labelled fix, through the merge queue. The handler confirms a
failure only on a second completed run, so a gate that kept the queue shut with
nothing in motion would starve it: that is why the gate admits an ordinary
group when it sees nothing on its way to green.

`PROJECT.json` lists every component with its status, and every hazard of the
modelled ones at the line where it bites.

## 2. Plan

1. `RedMainLifecycle` with proofs: the only part that keeps an ordering record
   across calls, and the richest interleaving. Done.
2. `MainRedGate`: one call of the gate against a changing trunk. Done, with proofs.
3. `VerifiedTrunk`, the promise of a post-main proof, and `PostMainRange`, the
   verify runs that implement it, with proofs. Done.
4. `RedMainTrace`: the failing units of a run, the baseline of a failure and
   the culprit rule. Done, with proofs.
5. `RedMainRepair`: the repair job as a protocol against the forge: revert
   guards, pull request, arming, jumping the queue. Done, with proofs; to
   come are the record, the alerts, the deletion of the candidates' branches, an
   abstract specification ("at most one standing revert per culprit") and the
   gate's admission rule in front of its queue.
6. `CiOkPolling`: the aggregate that polls the checks of a commit. Done, with
   proofs (in the gate's module, `MergeGroupProofs`).
7. `Handover`, the promise of a retained bundle, and `RunStore`, the entries
   that implement it. Done, with proofs.
8. `ReviewService`: deliveries of the review that overlap on one head. Done, with
   proofs; to come are the annotation batches and the recovery of a lost context.
9. `KeelRepin`: poll, repin and settle beside tags, checks and people. Done for
   the Keel layer, with proofs.
10. The changesets and artifact publishers, the auto-merge disarm, the watch mode
   of the gate, the retrying requests (`curl_retry`), the merge lane scripts.

Theorems worth proving: every safety and action property the runs check, and the
two refinements. Done; what a later part adds is proved with it.

## 3. RedMainLifecycle

Source: the inline program `LIFECYCLE_PY` of `.github/workflows/red-main.yml`.

*State.* `runs` is what the runs API says of each run's latest attempt, with
`agrees` for the named check of `prove`. `pending` holds the completed events
whose call has not started: a set, because neither delivery nor the queue keeps
the order of runs; when its `QueueCap` slots are full the forge cancels the new
call, as the concurrency group does at 100. `issue` is the alert with the two
orders of its marker. `pc`, `ev`, `snap` and `told` are the locals of the one
running call: the concurrency group serialises calls. `handled` is a history
variable: the events whose call returned without raising.

*Actions.* One per request: `Prove`, `Find`, `FindAgain`, `ProveAgain`,
`Create`, then `FreshIssue`, `FreshProve`, `ListHistory` and `ProveLatest`
before each write, `Comment` and `Patch`. Between any two of them runs start,
complete and are re-run, and a person may set the alert's state. `Fault` ends a
call anywhere: a failed request, a cancelled job or the job's time limit. An
event is not retried unless a person re-runs its call (`PersonRedelivers`).

*Abstraction.* `prove` reads the run, then its attempt and jobs; the latter do
not change once the attempt has completed, so the step is taken at the first
read. Paging, the text of the marker and identities are left out: one identity
has one alert, and the other alerts are never touched.

*Runs.*

| run | bounds | shows |
| --- | --- | --- |
| `lifecycle_alerts` | 2 runs of 2 attempts, 3 slots, 1 fault, 1 intervention | the record is truthful (`RecordInv`: `MarkerTruthful` and the types), loses no handled failure (`HandledIsRecorded`), closes only on a newer success (`ClosedIsRecovered`) and only moves forward (`RecordMovesForward`); a close that raced a newer red is corrected by that red's own waiting event, unless the queue is full (`RecoveryOverRedIsPending`); a red trunk ends alerted (`RedIsAlerted`), an alert that meets the newest success ends closed (`GreenIsRecovered`) |

Two runs with two attempts have all the order relations the code tells apart
(same run and newer attempt, newer run, replay). *Fairness* (`FairSpec`): weak
fairness of the handler, because the queue starts waiting calls and a call's
process runs on. Nothing is assumed of runs, people or faults; the two liveness
properties speak of behaviours without faults and interventions, because the
code retries no call.

`GreenIsRecovered` asks that the success's event meets the open alert. The code
promises no more: a success that is handled before the failure it follows finds
no alert and leaves no record, so the failure, handled later, opens an alert on a
trunk that is green, and it stays open until the next run.

*Proofs* (`RedMainLifecycleProofs`, for every value of the constants that
satisfies `BoundsAssumption`). `Typed` rests on two facts besides the types: a
call under way has taken an event, and a run that exists has an attempt. The
safety theorems rest on `SafeInv`, which adds what a running call knows:
`CallAdvances` says that from the decision to the write the alert exists, its
record is still the one the call read, and the event is still newer; this holds
because calls are serial and a person changes the state only. `CallCreates` and
`CallFailed` say the same for creation. `MarkerTruthful` alone is not inductive:
a rewrite from a stale snapshot would break it. `RecordIsSound` states the result
with the types, as the run checks it. `OrderTotal` and
`OrderTransitive` are the facts about the order of events.
`RacedRecoveryIsCorrected` has an invariant of its own (`NewerRedsWait`): at the
listing no run above the event is red, and from then to the write a red that
comes in waits or finds the queue full, because nothing is taken out of the queue
while a call runs. The liveness properties are model-checked only.

## 4. MainRedGate

Source: `.github/actions/main-red-gate/main_red_gate.py`, a call for a merge
group, with `verdict-check` set. (Without it the run list itself carries the
verdicts, which is a scan nothing interleaves with.)

*State.* `runs` holds each run's verdict; `base` is the group's base, and a run
is an ancestor when it is not newer. `listed` and `cursor` are the scan of
`gate_runs`, one job read per step; `deciding`, `verdict` and `running` what it
found. `initialRed` and `remaining` are the hold, in polls. History variables:
`known`, the ancestors with a verdict when the history was listed and not
re-run since; `everWayBack` and `alwaysWayBack` of the pull request.

*Actions.* `Start`, `List`, `Scan` (`ReadRun`, `HistoryIncomplete`, `Judge`),
`ReadPull`, `HoldOn`, `ListPulls`, `Eligible`; `ReadFails` for a read that
raises and `SlowRead` for one that eats into the hold. The world moves until the
call has ended.

| run | bounds | shows |
| --- | --- | --- |
| `gate_admission` | 3 runs, 1 re-run, budget 3, hold of 2 polls, 1 fault, 1 edit, both modes, `hold-minutes` well formed or not | no standing verdict is overlooked, a hold awaits a newer run of the group's own line and observe mode never refuses (`GateInv`), the way back is not jammed (`WayBackIsNeverJammed`), an ordinary group passes a red only with nothing in motion or on a failed read (`OrdinaryNeverPassesRed`); the gate answers although no run finishes (`GateDecides`) |

Three runs give a deciding run, one before and one after it, so that an
overlooked verdict and a verdict that goes back both can happen; the budget of
three is spent when none is conclusive. *Fairness* (`FairSpec`): weak fairness
of the gate's own steps, because its process runs on; no run need finish.

Three limits of the properties are the code's. `WayBackIsNeverJammed` is about a
pull request that was the way back at every read: one labelled as the fix
between its own read and the listing of open pull requests is refused, because
that listing finds it open. A malformed `hold-minutes` is
refused before the mode is looked at, so `ObserveNeverRefuses` and
`WayBackIsNeverJammed` except that refusal. And the hold compares the deciding
run by identity: when the red it began with is re-run, an older red decides and
ends the hold with the message of a newer one. The group is refused on a red
verdict either way, so no property is about it.

*Proofs* (`MergeGroupProofs`, first half, for every number of runs, every read
budget and every length of the hold). The answer is given steps after the
listing, so the properties are not inductive. `IInv` adds, with the types, that
the verdicts that stood at the listing and still do are yet to be read, unless
the scan ended at one of them or at a newer one (`KnownIsAhead`), that the scan
goes down and what it passed unfinished is newer than what decides
(`ScanGoesDown`), that past the scan the trunk is red (`ScanIsOver`), that only
an enforcing gate holds, over the red it began with (`HoldIsEnforced`), and what
the reads of the pull request established (`ReadsAgree`). From it follow
`GateIsSound` (`GateInv`), `WayBackPasses` (`WayBackIsNeverJammed`) and
`RedIsEnforced` (`OrdinaryNeverPassesRed`). `GateDecides`, a liveness property,
is model-checked only.

## 5. VerifiedTrunk and PostMainRange

Source: `.github/actions/ci-range/ci_range.py` with its `post_main.py`, and the
rule of `.github/actions/needs-pass/needs_pass.py`.

`VerifiedTrunk` is the promise: a commit is certified only while every lane
holds on its tree, a certificate may be withdrawn, the trunk only grows.
`PostMainRange` is how it is kept. The hazard is that a green run need not have
run every lane: its range starts at an ancestor it took for verified while that
ancestor's run was being re-run, cancelled or superseded.

*State.* The trunk is `head` with the version of each lane's files (`code`) and
of `.github/` (`ci`) in every commit; `Bad` says which pairs a lane fails on.
Of each run: what started it, its plan job with the walk (`cursor`) and its
`base`, its lanes, its aggregate job and its result. `standing` is a history
variable: the ancestors verified ever since the plan job began.

*Actions.* `Walk` reads one ancestor's verdict per step (`last_verified`) and
`Select` takes the range's lanes; `RangeUnavailable` is a read that fails and
selects all. `LaneEnds`, `HookCancels` and `HookFails` are the lanes with their
self-cancel hook, `Aggregate` and `Finish` the rest of the run. `Cancel` is a
newer push or a person; `Rerun` re-runs all jobs or the failed ones, which keep
the plan's range. `CheckedVerdict` and `ShaVerdictIs` translate what
`post_main.py` believes of a run and of a commit.

*Abstraction.* The pages of a listing are not modelled: a count that moves
between them is an error, as a failed request is. Versions stand for trees; a
commit changes one path, and a push of several commits changes more.

| run | bounds | shows |
| --- | --- | --- |
| `range_cover` | 1 lane of 2 versions, 3 commits, 3 runs, 1 re-run, a walk limit of 1 | the base is the newest ancestor verified throughout the walk (`BaseIsNewest`), and the runs implement `VerifiedTrunk` (`CertifiesOnlyWhole`) |
| `range_cancel` | 2 lanes, one with the hook, 2 commits, 2 runs, a dispatch that names a lane, 1 re-run, 1 cancel, 1 failed step | a commit that counts as verified is whole (`RangeInv`: `VerifiedIsWhole` and the types), cancellation is not red (`RedIsGenuine`), a verdict stands until its run is re-run (`VerdictStands`), a broken head of a quiet trunk turns red (`BrokenTrunkTurnsRed`) |

`range_cover` has `LaneLimits`, so that a lane may be cancelled alone while its run
goes on; the code makes such a run red (and `docs/optimistic-merge.md` says both,
at lines 294 and 517), which is why `range_cancel` leaves it out. Three commits and a walk limit of one give a run that finds a base, one that
stops before it and one that reaches the root; two lanes give a hook that
cancels the other. *Fairness* (`FairSpec`): the forge starts a run for a head
that has none and runs its jobs; nothing is assumed of re-runs or people.

*Proofs* (`PostMainRangeProofs`, for every value of the constants that satisfies
`RangeAssumption`). `VerifiedIsWhole` alone is not inductive: a run in progress
carries a base that will matter at its end. `IInv` adds, with the types, that a
run's commit is on the trunk and a push names no lanes (`OriginInv`), that a
lane which succeeded is good on the run's tree and one that was skipped by a base is good
there because the base was whole (`LaneInv`; a commit never changes, so a base
whose run is re-run later was still whole), and that a green aggregate of a push
run saw a plan that succeeded and only such lanes (`AggregateInv`). From it
follow `Typed`, `NoGapInTheRanges` and the refinement
`RunsImplementVerifiedTrunk`, whose steps rest on one fact more: no step
certifies or withdraws two commits at once. `VerdictStandsUntilRerun` is an
action property of the same steps, `RangesAreSound` states `RangeInv`, and `CancellationIsNotRed` has an invariant
of its own (`RedInv`) and the assumption `LaneLimits = FALSE`, without which it
is false. `BaseIsTheNewest` states `BaseIsNewest` with the invariant that what
stayed verified since the plan began has not been walked past
(`StandingIsAhead`). `BrokenTrunkTurnsRed`, a liveness property, is model-checked
only.

## 6. RedMainTrace

Source: the steps `units`, `classify`, `confirm` and `trace` of
`.github/workflows/red-main.yml` (`mode: repair`), with `prev.py`, `confirm.py`,
`window.py`, `culprit.py` and the classification of `.github/red_main/`. One call from the
resolved run to the commit it blames, the window it reverts as one, or nothing.

*State.* The trunk again, here with what each job would show on each commit:
`build` is what stops the job before its tests, `broken` the tests that fail. Of
each push run (the run of commit c has the number c): its `result`, the jobs it
`ran` and its `failing` units. A unit is a test of a job, or the way a job
failed before its tests, as `junit.py` and the classification name them. Of the
call: `pc`, the run handled with its units, the run before it, the `confirmed`
units, the walk with its `base` and `targets`, and per candidate what was
`found`. `standing` is a history variable for `NarrowestWindow`.

*Actions.* One per read that other actors can overtake: `ReadUnits`, `Classify`,
`FindPrevious`, `ReadPrevious`, `FindBase`, `List`, one run per `Walk`, then
`Candidates`, one `Dispatch` per commit, `Poll`, `Deadline`,
`ClassifyCandidates` and `Judge`. `PollFails` counts the status reads that fail
in a row; `ReadFails`, `DispatchFails`, `WalkFails`, `Misread` and `Reported`
are failed requests, each with what the code makes of it: most stop the call,
but a report that cannot be downloaded only changes how a row is named, and a
walk that fails keeps the verified baseline. Meanwhile commits land, break or
mend one thing each, and runs finish, are superseded and re-run. A run may be
partial: a job is left out when it has not changed since a verified commit, or
when the run failed. `Observe` lets a job flake or meet an outage.

*Abstraction.* Rows stand for junit parts, annotations and log lines. A run that
its own hook cancelled after a failure counts as a failed run
(`PostMainRange` has the difference). The trunk is linear. A dispatch that is
refused for its inputs and tried again is one dispatch.

| run | bounds | shows |
| --- | --- | --- |
| `trace_blame` | 1 job with 2 tests and a build, 4 commits, 1 re-run, 1 fault, windows longer than `max-candidates` and `max-revert-commits`, both `on_red` modes | what is blamed broke a unit that failed twice (`CulpritIntroducedIt`); a reverted window holds such a commit and is no wider than the runs allow (`WindowInv`: `WindowHoldsTheBreak`, `NarrowestWindow` and the types) |
| `trace_flakes` | 2 jobs of 1 test, the second waits for the first, 3 commits, 2 flakes, 1 outage, 1 fault | one odd run reverts nothing and two blame nobody on a sound trunk (`OneOddRunRevertsNothing`); the call ends although no candidate's run does (`TraceEnds`) |

Four commits give a verified one, a break, a second completed run that confirms
it and one between; two tests and the build give a failure that hides another.
`CulpritIntroducedIt` is claimed where no traced job waits for another
(`InTheOpen`). Where one does, the code counts a candidate as passed when its
traced job was skipped because the needed job failed (`window.py` finds no row
of it). So where commit 2 breaks a first job, 3 breaks a second one that waits
for it, and 4 mends the first, the second is skipped on 3 and fails from 4 on:
the commit that is named, and reverted, is 4, the mend. The header of
`red-main.yml` and `docs/optimistic-merge.md` (lines 439-440) speak of the
first bad commit without that exception.

*Fairness* (`FairSpec`): weak fairness of the handler's own
steps, because the runner carries them on; a poll that finds a run concluded is
not among them, so the end of a wait is owed to the deadline alone.

*Proofs* (`RedMainTraceProofs`, for every trunk, set of jobs and tests and every
bound). `IInv` has three layers. `WorldInv` says what the run history shows:
while nothing flakes, the failing units of a run are those its jobs find, and a
verified commit is sound (`TrueHistory`); on a sound trunk every failed run is an
odd one, and two are two (`OddHistory`). `CallShape` says where each step of the
call finds its numbers. `TrueCall` and `OddCall` carry the history's truth into
what the call remembers, which later runs and re-runs no longer confirm: the
units fail on the red commit, the traced ones do not on the baseline, and a
candidate's finding is of its commit (`TrueFinding`). `StandingIsListed` is for
`NarrowestWindow`: a run that stood since the listing is still to be read. That a
window without a first failure would have none at all is an induction over its
commits (the least number principle of the library, with a set, not a recursive
definition). From `IInv` follow `WindowIsRight`, `CulpritIsGuilty` and
`OddRunsAreForgiven`. `TraceEnds`, a liveness property, is model-checked only.

## 7. RedMainRepair

Source: the steps `idem` and `revert` of `.github/workflows/red-main.yml`
(`mode: repair`) with `lib.sh` and the guards: what a call does about the
commits it blames.

*State.* A commit is the content it gives each region of the tree; a content is
named by the commit that brought it, and `bad` holds the broken ones. That is
enough to say what `git revert` does (`Undo`, `Applies`, `Reverted`): it puts
back what the commit replaced, conflicts with a later change of the same region,
and fails when nothing is left to put back. `pulls` are the handler's pull
requests, with their labels, auto-merge and place in the merge queue, and the
`patch` they carry; `recent` and `jumps` are those of the last half hour. `pc`
and the blame, plan and outcome are the locals of the one running call
(`concurrency` serialises calls; `pending` are those that wait).

*Actions.* One per request: `Search`, `SameSha`, `Trace`, `Proof`, `BaseProof`,
`Guard`, `Standing`, `Fetch`, `OpenPull`, `Label`, `Arm`, `CountOthers`,
`QueueState`, `Dequeue`, `Jump`. `Trace` stands for the confirmation and the
trace: it blames what the properties of `RedMainTrace` allow, a commit that
introduced a confirmed failure or the whole window, or nothing. `Fault` is a
request that fails, with what the code makes of it at that place; `Stop` is a
step that fails or a job cut off. Outside, commits land and restore old
contents, runs finish and are re-run, people shield landed changes, close
reverts or arm those that wait, and the queue merges or drops what it holds.

*Abstraction.* A person's commit changes one region, so it is a migration or
not as a whole. Only the handler's own pull requests exist; others that carry
its labels would make it do less. The reads inside the guard of a window are one
step, and so are the fetch and the local revert, which read the trunk once.
Notices, alert issues and grants are left out.

| run | bounds | shows |
| --- | --- | --- |
| `repair_reverts` | 2 regions, one a migration path or not, 3 commits, 2 pull requests, 1 fault, 1 act of a person, `revert` and `revert_pr_unarmed` | one revert stands (`RevertInv`: `OneOpenRevert` and the types), a shielded commit is never reverted (`SparedStay`), every revert of commits that change one part each removes something broken (`RevertRemovesABreak`), jumps keep apart (`JumpsApart`), an armed revert lands (`RevertLands`) |

Three things the model shows of the code as it stands, which no property forbids.
The commits of a window are reverted oldest first (`git revert` gets them in the
order of the comparison), so two of them that change the same lines conflict and
the handler does nothing, although nothing else has landed and
`docs/optimistic-merge.md` (line 439) says that the whole window is reverted. A
revert that a deploy freeze leaves unarmed counts as open, so the next,
different breakage is not answered until a person arms or closes it. And of a
commit that changes several parts, whose broken one was mended by hand
meanwhile, only the rest is reverted: the pull request is opened and armed
although it mends nothing, and where the rest was the mend of an earlier break it
puts that break back. With commits of people, which change one part each, this
takes a merged revert of a window as the culprit; it happens with three parts,
six commits and two pull requests, and `RevertRemovesABreak` is about reverts of
commits that change one part each (`ChangesOne`).

Three commits are a verified one and two that fail, the least that confirms a
failure, and the queue adds a merged revert for each pull request; two pull
requests are the least that compete. One fault and one act of a person reach
each failing branch. `OneOpenRevert` speaks of repositories that define the label
`auto-revert`: where it is missing the search for an open revert finds none.
`OneOpenRevert` and `RevertLands` except calls in which a request failed: a label
that is lost, or a job cut off after it opened the pull request, leaves a revert
the next call does not find, and a jump that fails after the dequeue may leave
one that nothing lands. *Fairness* (`FairSpec`):
weak fairness of the handler, which the runner carries on, and of the queue,
which takes what is armed and works it off; nothing of people, commits or runs.

*Proofs* (`RedMainRepairProofs`, for every set of regions and every bound).
`JumpsApart` alone is not inductive: whether a jump is allowed was decided four
steps before it is made, by a count of pull requests that moves on. `IInv` adds
that what jumped has moved in the last half hour and has no labels once a call
has counted (`JumpInv`), and that the pull request of the running call is the
newest, so no later one can get labels while an older call is about to jump, and
has not jumped before its labels are set (`PullInv`, on `InOrder`). Stale reads
do no harm to it: labels are only ever set by the one running call, on its own
pull request. For `SparedStay` it adds that from the guard on nothing shielded
all the while is blamed, and that the mode and the window allow the revert
(`GuardInv`). From it follow `JumpsKeepApart` and `ShieldedStays`.

`RevertsAreSound` (`RevertInv`) and `RevertsMend` (`RevertRemovesABreak`) rest on
a second invariant, `RInv`. `TrunkInv` says that contents are named by commits
that landed, of which there are as many as people brought and reverts merged, and
that a proof tells what its commit holds. `BlameInv` says that from the trace on
the call blames a commit that brought a break, or all commits from a baseline
without it to the red one. `StandInv` says that every open revert is marked, or
about to be by the one running call, and that a call goes on only while none
stands (or none of its culprit, where reverts wait for people); it is what makes
`OneOpenRevert` inductive, because a search and the pull request it allows are
up to an hour apart. `MendInv` says that what is about to be opened takes out a
break. Its argument is about `git revert`. `Reverted` says in one step what a list
of reverts makes of a tree: a region is left as the last blamed commit to change
it found it (`RevertedUndoes` proves that this is what one revert after the other
does). Where the commits change one region each and every revert of the list
applies, the commits of a region take turns (`TakeTurns`): each undoes the one
before, so the region holds, before the revert, what the last of them brought, and
after it what the first of them found (`CulpritIsTakenOut`, `WindowIsTakenOut`).
`RevertLands`, a liveness property, is model-checked only.

## 8. CiOkPolling

Source: `.github/actions/ci-ok-polling/ci_ok.py`, the aggregate of a repository
whose checks live in several workflows.

*State.* The forge has `suites`, one for each run of a workflow on the commit,
and `checks`, the check runs in the order of their start. Of the gate: `phase`
says which of its three reads is next, `seen` holds what the poll has read, `last`
and `stable` the result it counts, `left` the polls that fit before the deadline.
`began` and `obliged` are history variables: what existed when the poll began, and
what the first of the equal results answers for: the suites, the number of checks
it was drawn from, and the suites left out of it as replaced. The names are apart
from the gate's of section 4, because the proofs about both share a module.

*Actions.* One per read: `ReadSuites`, `ReadRuns` and, when these two alone could
mislead (`NeedsEvents`), `ReadEvents`; the last of them evaluates (`Verdicts`,
with `Relevant` and `Pending`) and counts the result (`CountResult`). `PollFails`
and `BudgetSpent` are a request that fails and a spent rate limit; `Wake` and
`TimeOut` the loop. Between them the forge triggers, rejects, opens and cancels
workflow runs, registers the next job when the ones it needs have ended, and
checks conclude.

*Abstraction.* Other apps' checks and ignored names are left out; conclusions are
success, skipped (with neutral), failure (with the others that never yield) and
cancelled (with stale). A result is compared by how many checks of each name it
has. Where two checks bear one required name, which of them decides follows the
order of the forge's list, so the model allows either.

| run | bounds | shows |
| --- | --- | --- |
| `ciok_polls` | 2 workflow runs of 2 workflows (one gates and has two jobs, one runs on a push and shares a job's name), 3 polls, 1 fault, a pull request or a merge group, workflow runs readable or not | a pass is complete and clean (`OkInv`: `PassIsComplete`, `PassIsClean` and the types), a failure has a cause that stands (`FailIsGenuine`), the gate answers although no check ends (`GateEnds`) |

Two workflow runs are the least of which one replaces the other, or one is still
queued while the other is green; three polls leave room for a failed read between
the two equal results. The run reaches no state that the exception below
(`Disguised`) excuses a pass in, since that takes a third workflow run; the proof
covers it. `PassIsComplete` rests on what the code's comment on
`stable` assumes: a job that was due when one poll read the check runs has
registered when the next one reads them (the guard on `late`). *Fairness*: weak
fairness of the gate's steps, whose process runs on and whose deadline passes,
and of the registration of due jobs.

That assumption is not enough for what the comment concludes
(`ci_ok.py:293`, "nothing late-registered"): results are compared by name, and a
job that registered between two polls is hidden when another check of its name
drops out in between. With the workflow runs readable, let `release` have run a
job `test` for a push, and `checks` have two more jobs to register, the next one
also called `test`. The first complete result counts release's `test`. Then
`release` is triggered again, which replaces its first run, and `checks` registers
its own `test`: the second result has one `test` as before, and the gate passes
with the last job of `checks` still to come. The action's README warns that a
stable inventory proves nothing ("Completion boundary limitation"), so this is a
limit of the code and not an error of it. `Disguised` states the exception, and
`Judged` leaves such a workflow out of what a pass is held to.

What a failure may rest on is wider than the module's comment in the code says,
and `FailIsGenuine` says how wide. A bad check of a replaced run still fails the
gate while the newer run has not started the job of that name: nothing then
makes the gate read the workflow runs (`needs_suite_events` looks for a second
check of the name). A required name that is missing while every listed check has
ended fails the gate on the first such poll, also when its job is about to
register (`FailIsGenuine` then asks that no check that stood when the poll began
bears the name). And a cancelled check yields to a newer one of its name also when the
workflow runs were read and show another workflow's job, which `PassIsClean`
excepts.

Nothing is proved of this module yet: its properties are model-checked only.

*Proofs* (`MergeGroupProofs`, second half, for every set of workflows, jobs and
required names, any number of workflow runs, polls and missed reads). A pass is
the outcome of six reads of two polls, with the forge going on between any two of
them. The inductive invariant `PollInv` says what is still true of each read when
the next one is made:

- of the first read (`BeganIsRead`): a suite the poll will answer for has a check
  among those that stood when the poll began, or is among the empty ones it found;
- of the check runs (`IsSnapshot`, `EndedThenIsSettled`): they are a prefix of
  those there are, what had ended has ended so, and a workflow run all of whose
  checks had ended is `Settled`: it has `Ended`, or its next job was due, or it has
  `Grown` since;
- of the first complete result (`FirstResult`): what it counted has ended well,
  `last` has its numbers, and what it answers for is settled or replaced;
- and between the two polls (`SinceTheFirst`): what was due at the first is on the second.

That the forge never takes any of this back is one lemma for all of its steps
(`GoesOn`, `GoesOnKeeps`, `GoesOnSettles`). Then the second result counts everything
the first did, so a check that registered in between makes it larger, unless
something dropped out (`EqualResultsHideNothing`). From `PollInv` follow
`PassIsCompleteAndClean` (`OkInv`) and `FailureIsGenuine` (`FailIsGenuine`).

`ApartPassMissesNothing` shows when the exception is empty: where no two jobs bear
one name (`NamesApart`), every workflow that a pass answers for and that was not
replaced has ended. A disguise then needs an older run of the same workflow, whose
jobs registered in order (`JobsInOrder`); its first job and the newer run's were
both counted in the first result, and only one is left in the second, so the two
differ (`ApartHidesNothing`). A repository whose workflows use distinct names may
rely on the comment at `ci_ok.py:293`, as far as jobs register in time.

Constants are assumed to be what they stand for (`ConstantsAssumption`): a
workflow has at least one job. `GateEnds`, a liveness property, is model-checked
only.

## 9. Handover and RunStore

Source: `.github/actions/run-store/run-store.sh` with `parts.py`. `Handover` is
the promise of a retained key: a reader is given nothing, then one bundle,
published in one step, the same until its deadline. `RunStore` is how entries of
a build cache keep it.

*State.* `store` maps the name of an entry (policy, generation, index) to its
body, generation and deadline; a bundle is a root entry and the parts it names.
`put` and `get` are the locals of the attempts and readers, `now` the day. A
build is the parts it is cut into, some of which it may share with another.

*Actions.* An attempt checks the root (`Begin`, `CheckRoot`), stores part by part
and the root last (`Store`), and settles a conflict by comparing or reading back
(`Conflict`, `Compare`, `Confirmed`, `ReadBack`, `ExistingRoot`, `ExistingPart`);
`PutUnavailable` and `PutFails` are the exits. `Answered` covers a request that
stored its entry and lost the answer, which the retry meets as a conflict. A
reader asks, gets the root, then the parts, and joins them (`Joins`). Entries of
the cache policy are evicted at any moment, retained ones at their deadline.

| run | bounds | shows |
| --- | --- | --- |
| `store_handover` | 2 attempts, 1 reader, 3 builds with none or some parts in common, bundles of no or 2 parts, retention of 1 or 2 days, 3 days, both policies and events | a reader never joins two bundles, retries never collide on a retained key, what was acknowledged is readable and the promised day is kept (`StoreInv`); the retained entries implement `Handover` (`ImplementsHandover`) |

Two attempts and two parts give every overlap of a replaced bundle and a reader;
three days let a root reach the end of its parts' lifetime, which the ceiling on
the root's retention is for. One key is modelled: keys share nothing. All builds
of a scenario have the same number of parts. A root of the cache policy that is
found in place is acknowledged without a look at its parts, as in the code.
Left out: the refusal of unsafe paths in an archive, the search for JUnit reports
(`get-junit.py`) and the download by URL. (`docs/run-store.md` says that a get
retries three times, a miss included; `curl_retry.py` takes a 404 for an answer
and does not retry it. The model follows the code.) No fairness is assumed.
`MaxParts` bounds the parts of a bundle.

*Proofs* (`RunStoreProofs`, for every number of attempts, readers, parts and
days). What a reader is promised is the day an attempt was told, `due`, which the
properties compare with what it reads later. `IInv` says, with the types, how far
each attempt has come (`InOrder`), that the earliest deadline an attempt has noted
bounds those of the parts it has stored (`PartsOutlive`), that a deadline told or
about to be told is the root's (`TellsDeadline`), that retained parts are written
only by the attempt whose generation they carry (`PartsAreOwn`), that a root names
what an attempt built (`RootsAreBuilt`), that the parts a retained root names live
as long as it does (`RootIsComplete`), and of each reader that it has assembled a
prefix of one bundle and goes on with the root it was promised (`ReaderOK`).
`StoreIsSound` states `StoreInv`. `StoreIsHandover` is the refinement: under the
mapping of `RunStore`, every step of attempts, readers, evictions and days is a
step of `Handover` or a stutter.

## 10. ReviewService

Source: `.github/actions/pr-review` (`producer.mjs`, `github.mjs`, `cli.mjs`), the producer
and its finalizer.

*State.* `head` and `policy` are the versions a review is of, `checks` the check
runs of the pull request in the order of their ids, `del` the deliveries: what
each has collected, the check it works on, and the file it saves for its
finalizer. `owner`, `by` and `excused` of a check are history: the run that
opened it, the one that completed it, and whether a lost request or runner
excuses that it stays open.

*Actions.* A delivery is requested, collects the pull request (`Target`,
`Gather`), looks at the newest check on the head and reuses its verdict
(`Reuse`), waits (`Again`), defers to its live owner (`Defer`), adopts an
orphan (`Adopt`) or creates one (`Create`, `ReadBack`); then it reviews, looks
at the source once more (`Recheck`) and completes the check (`Patch`,
`Confirm`). `Finalize` and `Settle` are the finalizer, which always runs. The
actions in `Trouble` are refused and unanswered requests, a cancellation between
any two steps, and a lost runner.

| run | bounds | shows |
| --- | --- | --- |
| `review_checks` | 2 deliveries (attempts of one run, of a dispatched run, or of two runs that overlap), 1 push or change of policy, 2 faults | a passed review is one of the head and policy its delivery collected, and only the run that opened a check completes it (`ReviewInv`); a deferral is to a review of the same source that ends (`DeferralIsServed`), a conclusion is never replaced (`VerdictIsFinal`), no check stays open (`EveryCheckEnds`) |

Two deliveries are the least that race; two faults are a cancellation and a
request of the finalizer that fails. `EveryCheckEnds` excepts what the code
cannot see or does not try: a refused or unanswered request, after which the
finalizer asks nothing more, a lost runner, and a cancellation between saving
the publication and its PATCH. *Fairness*: a requested delivery runs to its end.
Left out: the batches of annotations, the recovery and partition of the context,
the projection onto merge groups, several targets of one event.

*Proofs* (`ReviewServiceProofs`, for every number of deliveries, runs, moves of
the head and the policy, and faults). `IInv` says, with the types, that a run has
one delivery at a time (`OnePerRun`), how far a delivery is goes with the file it
has saved (`Saves`), that the check it works on is its run's own, open until it
publishes, and of the source it collected (`WorksOn`), and that a check is open
only while a delivery of its run is to complete it, or its end was lost
(`CheckOK`). Two deliveries of one run that overlap would break it, but
an attempt begins only when the one before is over; two of different runs do not,
because each completes only the checks its run owns. From it follow `ReviewIsSound` (`ReviewInv`),
`DeferralsAreServed` (`DeferralIsServed`) and `VerdictsAreFinal`
(`VerdictIsFinal`). `EveryCheckEnds`, a liveness property, is model-checked only.

## 11. KeelRepin

Source: `.github/actions/keel-repin/keel_repin.py` and its workflow template,
for the Keel layer.

*State.* `tagged`, `published` and `pin` are the tags; `branch[t]` holds the
commits of the repin branch of tag t by author, `checks` their check runs, `pr[t]`
its last pull request. `job` and `settle` are the locals of the two jobs of a
run, which overlap; `concurrency` keeps runs apart.

*Actions.* `Poll`, `Build`, `PushBranch`, `OpenPull`, `CloseOlder`, `Dispatch` of
the repin job; `List`, then per row `CloseSuperseded`, `LeaveDraft`, `JudgeRed`,
`JudgePending` or `JudgeGreen` and `Merge` of the settle job. A call that fails
has an action of its own where the code goes on (`PollUnread`,
`CloseOlderFails`, `MergeFails`), `JobFails` and `SettleFails` end the job.
Outside, tags appear and are published, checks end and are re-run, the queue
lands or drops, and people push, close, delete, merge or mark ready.

| run | bounds | shows |
| --- | --- | --- |
| `keel_settle` | 2 tags, 1 required check, 2 commits of a branch, 1 act of a person or failed call | only a head whose required checks succeeded is merged by the bot, which closes a repin only for a newer one (`RepinInv`); the pin never goes back (`PinNeverGoesBack`), a newest tag is offered (`NewestIsOffered`), a green newest repin is merged (`GreenIsMerged`), a red one told (`RedIsTold`) |
| `keel_strangers` | the same | violated: a person's commit is merged by the bot |

Two tags are the least of which one replaces the other, two commits the least
with a push after the verdict. The finding: `foreign_commits` trusts commits of
`BOT_EMAIL`, which no commit of the repin job carries, so its list is always
empty. *Fairness*: the schedule recurs (strong, because a run blocks it while it
lasts), and a job that was started runs on. Also seen, and not made a property:
`cmd_pr` deletes the branch of a pull request it supersedes, where the text of
its pull request says the branch is kept. Left out: the kit and engine layers,
the workflows after a merge and the comparison with what is live, publication
locks, the source of the pack, and `keel-pin-check`, a scan of the tree.

*Proofs* (`KeelRepinProofs`, for every number of tags, checks, commits and upsets,
under `ConstantsAssumption`). `RepinIsSound` states `RepinInv`, `PinIsMonotonic`
states `PinNeverGoesBack`; both assume that some check is required, because with
none a head without any run counts as green. `RepinInv` is not inductive: what
is merged was judged some calls earlier. `IInv` adds, with the types, that every
green head of an open repin is in its record, that a queued one is proven on its
head and an open one was built on a pin behind its tag (`OpenInv`), that a merged
tag is not ahead of the pin (`MergedInv`), that nobody else makes the branch
between `Build` and `PushBranch` and the superseded repins are of older tags
(`JobInv`), and that a row is of a pull request that was there and the judged
head is still in its record when the merge is asked (`SettleInv`). Each way the
forge changes (`Marked`, `ClosedOne`, `LandedOne`, `RunsMoved`, `Still`) keeps
the promises of all tags (`OneTag`), and what the two jobs know survives it
because pull requests only grow (`Grows`, `Calm`). The three liveness properties
are model-checked only.

## 12. What is not proved, and what is not modelled

The liveness properties are model-checked on the bounds above and not proved:
fairness is beyond the proof system used. Every safety and action property that a
passing run checks is a theorem.

The scanners and content checks (`stack-conformance`, `workflow-lint`,
`migration-guard`, `secret-scan` and the policy actions) are pure functions of a
tree whose rules are text patterns. Toolchain setup and the checks that drive a
device or a browser are calls of external tools. The rest of the plan is listed
above; `PROJECT.json` has the reason for each component.
