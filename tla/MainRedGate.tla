---------------------------- MODULE MainRedGate ----------------------------
(***************************************************************************)
(* One call of the merge-group gate                                        *)
(* (.github/actions/main-red-gate/main_red_gate.py) while the trunk's      *)
(* verify runs start, finish and are re-run and people label and open pull *)
(* requests.  Run i verifies the i-th trunk commit; a run is an ancestor   *)
(* of the merge group when it is not newer than the group's base.  The     *)
(* gate reads the history one verdict job at a time (verdict-check is      *)
(* set), newest first; every read may fail, and under a hold may outlast   *)
(* the deadline.                                                           *)
(***************************************************************************)
EXTENDS Integers, FiniteSets

CONSTANTS
    NumRuns,        \* push runs of the trunk
    HistoryLimit,   \* runs the read budget covers: HISTORY_PAGE_LIMIT full pages
    HoldTicks,      \* hold-minutes, in polls
    Modes,          \* subset of {"enforce", "observe"}
    HoldInputs,     \* subset of {"number", "malformed"}: what hold-minutes says
    MaxReruns, MaxFaults, MaxEdits  \* bounds on re-runs, failed reads and edits of pull requests

ASSUME GateAssumption ==
    /\ NumRuns \in Nat
    /\ HistoryLimit \in Nat \ {0}
    /\ HoldTicks \in Nat
    /\ Modes \subseteq {"enforce", "observe"}
    /\ HoldInputs \subseteq {"number", "malformed"}
    /\ MaxReruns \in Nat /\ MaxFaults \in Nat /\ MaxEdits \in Nat

VARIABLES
    runs,                    \* the verdict of each run, 0 its oldest commit's
    isWayBack, otherWayBack, \* this pull request is a revert or fix; another open one is
    mode, holdInput, base,   \* inputs of the call
    pc,
    listed, cursor,          \* newest run of the listing; next run to read
    deciding, verdict,       \* the newest conclusive run read, and what it says of the trunk
    running,                 \* the newest unfinished run read before it
    initialRed, remaining,   \* the red a hold began with; polls left of the hold
    outcome,
    reruns, faults, edits,
    known, everWayBack, alwaysWayBack   \* history variables, see below

runVars  == <<runs, reruns>>
pullVars == <<isWayBack, otherWayBack, edits, everWayBack, alwaysWayBack>>
inputs   == <<mode, holdInput, base>>
scan     == <<listed, cursor, deciding, verdict, running, known>>
hold     == <<initialRed, remaining>>
vars     == <<runVars, pullVars, inputs, pc, scan, hold, outcome, faults>>

-----------------------------------------------------------------------------
Runs     == 1..NumRuns
Failed   == "failure"   \* any conclusion of FAILED
PassedOver == "cancelled"  \* cancelled, skipped, neutral, stale, or a missing verdict job
RunStates == {"absent", "unfinished", "success", Failed, PassedOver}
Conclusive == {"success", Failed}
Steps    == {"start", "list", "scan", "read pull", "hold", "list pulls", "eligible", "done"}
Outcomes == {"none", "admit: not red", "admit: way back", "admit: unreadable", "admit: no motion",
             "admit: observe", "refuse: input", "refuse: history", "refuse: expired",
             "refuse: newer red", "refuse: motion"}
Refusals == {"refuse: input", "refuse: history", "refuse: expired", "refuse: newer red", "refuse: motion"}

NoHold  == 0   \* no hold has begun
Holding == initialRed # NoHold

Init ==
    /\ runs = [r \in Runs |-> "absent"]
    /\ isWayBack \in BOOLEAN
    /\ otherWayBack \in BOOLEAN
    /\ mode \in Modes
    /\ holdInput \in HoldInputs
    /\ base \in 0..NumRuns
    /\ pc = "start"
    /\ listed = 0 /\ cursor = 0 /\ deciding = 0 /\ verdict = "unknown" /\ running = 0
    /\ initialRed = NoHold /\ remaining = 0
    /\ outcome = "none"
    /\ reruns = 0 /\ faults = 0 /\ edits = 0
    /\ known = {}
    /\ everWayBack = isWayBack
    /\ alwaysWayBack = isWayBack

-----------------------------------------------------------------------------
(* The forge and the people, until the call has ended.                     *)

StartRun(r) ==
    /\ pc # "done"
    /\ runs[r] = "absent"
    /\ r > 1 => runs[r - 1] # "absent"
    /\ runs' = [runs EXCEPT ![r] = "unfinished"]
    /\ UNCHANGED <<reruns, pullVars, inputs, pc, scan, hold, outcome, faults>>

FinishRun(r, conclusion) ==
    /\ pc # "done"
    /\ runs[r] = "unfinished"
    /\ runs' = [runs EXCEPT ![r] = conclusion]
    /\ UNCHANGED <<reruns, pullVars, inputs, pc, scan, hold, outcome, faults>>

\* A run that is re-run keeps its id and loses its verdict.
RerunRun(r) ==
    /\ pc # "done"
    /\ reruns < MaxReruns
    /\ runs[r] \in {"success", Failed, PassedOver}
    /\ runs' = [runs EXCEPT ![r] = "unfinished"]
    /\ reruns' = reruns + 1
    /\ known' = known \ {r}
    /\ UNCHANGED <<pullVars, inputs, pc, listed, cursor, deciding, verdict, running, hold, outcome, faults>>

\* The pull request is labelled or unlabelled; another way back is opened or closed.
EditPull(own, other) ==
    /\ pc # "done"
    /\ edits < MaxEdits
    /\ <<own, other>> # <<isWayBack, otherWayBack>>
    /\ isWayBack' = own
    /\ otherWayBack' = other
    /\ edits' = edits + 1
    /\ everWayBack' = (everWayBack \/ own)
    /\ alwaysWayBack' = (alwaysWayBack /\ own)
    /\ UNCHANGED <<runVars, inputs, pc, scan, hold, outcome, faults>>

-----------------------------------------------------------------------------
(* The call.                                                               *)

environment == <<runVars, pullVars, inputs>>

Decide(result) == pc' = "done" /\ outcome' = result
GoTo(step)     == pc' = step /\ UNCHANGED outcome

\* _read: a read under a hold that meets its deadline ends the call.
Expired == Holding /\ remaining = 0
Expire  == Decide("refuse: expired") /\ UNCHANGED <<environment, scan, hold, faults>>

\* main, before any read.
Start ==
    /\ pc = "start"
    /\ IF holdInput = "malformed" THEN Decide("refuse: input") ELSE GoTo("list")
    /\ UNCHANGED <<environment, scan, hold, faults>>

\* read_runs: the listing, newest first.  known: the ancestors that had a
\* verdict by now and have not been re-run since (history variable).
List ==
    /\ pc = "list"
    /\ \/ Expired /\ Expire
       \/ /\ ~Expired
          /\ listed' = Cardinality({r \in Runs : runs[r] # "absent"})
          /\ cursor' = listed'
          /\ deciding' = 0 /\ verdict' = "unknown" /\ running' = 0
          /\ known' = {r \in Runs : r <= base /\ runs[r] \in Conclusive}
          /\ GoTo("scan")
          /\ UNCHANGED <<environment, hold, faults>>

\* The budget is spent: every listed page was full and none was conclusive.
Exhausted == listed - cursor >= HistoryLimit

\* Mutant: the ancestry of a run is not checked.
AnyBranchDecides(r) == runs[r] \in Conclusive

\* gate_runs: the next listed run.  Only an ancestor of the base is read; the
\* newest one with a verdict decides and ends the scan.
Decides(r) == r <= base /\ runs[r] \in Conclusive

ReadRun ==
    /\ cursor > 0
    /\ ~Exhausted
    /\ IF Decides(cursor)
       THEN /\ deciding' = cursor
            /\ verdict' = IF runs[cursor] = "success" THEN "green" ELSE "red"
            /\ cursor' = 0
            /\ UNCHANGED running
       ELSE /\ running' = IF running = 0 /\ cursor <= base /\ runs[cursor] = "unfinished"
                          THEN cursor ELSE running
            /\ cursor' = cursor - 1
            /\ UNCHANGED <<deciding, verdict>>
    /\ GoTo("scan")
    /\ UNCHANGED <<environment, listed, hold, known, faults>>

\* incomplete_history: in observe mode it admits.
HistoryIncomplete ==
    /\ deciding = 0
    /\ Exhausted
    /\ IF mode # "enforce" THEN Decide("admit: observe") ELSE GoTo("eligible")
    /\ UNCHANGED <<environment, scan, hold, faults>>

\* trunk_state, once the scan has ended.
Judge ==
    /\ cursor = 0
    /\ deciding # 0 \/ ~Exhausted
    /\ IF verdict # "red" THEN Decide("admit: not red") ELSE GoTo("read pull")
    /\ UNCHANGED <<environment, scan, hold, faults>>

Scan ==
    /\ pc = "scan"
    /\ \/ Expired /\ cursor > 0 /\ ~Exhausted /\ Expire
       \/ ~Expired /\ ReadRun
       \/ HistoryIncomplete
       \/ Judge

\* Mutant: an exhausted history refuses everyone.
RefusesExhausted ==
    /\ pc = "eligible"
    /\ Decide("refuse: history")
    /\ UNCHANGED <<environment, scan, hold, faults>>

\* The way back survives an exhausted history, when it can be read.
Eligible ==
    /\ pc = "eligible"
    /\ Decide(IF ~Expired /\ isWayBack THEN "admit: way back" ELSE "refuse: history")
    /\ UNCHANGED <<environment, scan, hold, faults>>

\* Mutant: the hold lasts one poll too long.
HoldsTooLong ==
    /\ GoTo("hold")
    /\ initialRed' = deciding
    /\ remaining' = HoldTicks + 1

BeginHold ==
    /\ GoTo("hold")
    /\ initialRed' = deciding
    /\ remaining' = HoldTicks

\* Mutants: the hold does not look at what is pending; observe mode waits.
HoldsAnyway == mode = "enforce"
ObserverHolds == running # 0

\* An enforced gate holds the line for a newer unfinished run.
WaitsFor == running # 0 /\ mode = "enforce"

\* decide, for a red trunk and a pull request that is no way back.
DecideOrdinary(motion) ==
    Decide(CASE ~motion -> "admit: no motion"
             [] motion /\ mode = "enforce" -> "refuse: motion"
             [] OTHER -> "admit: observe")

\* The pull request is read while the trunk is red, again at every refresh of
\* a hold.
ReadPull ==
    /\ pc = "read pull"
    /\ \/ Expired /\ Expire
       \/ /\ ~Expired
          /\ UNCHANGED <<environment, scan, faults>>
          /\ \/ isWayBack /\ Decide("admit: way back") /\ UNCHANGED hold
             \/ /\ ~isWayBack
                /\ ~Holding
                /\ \/ WaitsFor /\ BeginHold
                   \/ /\ ~WaitsFor
                      /\ UNCHANGED hold
                      /\ IF running # 0 THEN DecideOrdinary(TRUE) ELSE GoTo("list pulls")
             \/ /\ ~isWayBack
                /\ Holding
                /\ UNCHANGED hold
                /\ IF deciding # initialRed THEN Decide("refuse: newer red")
                   ELSE GoTo(IF running # 0 THEN "hold" ELSE "list pulls")

\* Mutant: a poll does not count against the deadline.
HoldsForever ==
    /\ pc = "hold"
    /\ GoTo("list")
    /\ UNCHANGED <<environment, scan, hold, faults>>

\* One poll: min(60 seconds, what remains), then everything is read again.
HoldOn ==
    /\ pc = "hold"
    /\ \/ remaining = 0 /\ Expire
       \/ /\ remaining > 0
          /\ remaining' = remaining - 1
          /\ GoTo("list")
          /\ UNCHANGED <<environment, scan, initialRed, faults>>

\* Mutant: other pull requests are not listed.
OwnMotionOnly == isWayBack

\* open_way_back lists every open pull request, this one included.
Motion == otherWayBack \/ isWayBack

ListPulls ==
    /\ pc = "list pulls"
    /\ DecideOrdinary(Motion)
    /\ UNCHANGED <<environment, scan, hold, faults>>

\* A read raises: the gate fails open, except that an exhausted history is
\* not evidence of green.
ReadFails ==
    /\ pc \in {"list", "scan", "read pull", "list pulls", "eligible"}
    /\ faults < MaxFaults
    /\ faults' = faults + 1
    /\ pc = "scan" => cursor > 0 /\ ~Exhausted
    /\ Decide(IF pc = "eligible" THEN "refuse: history" ELSE "admit: unreadable")
    /\ UNCHANGED <<environment, scan, hold>>

\* A read under a hold takes long enough to cost a poll.
SlowRead ==
    /\ Holding
    /\ pc \in {"list", "scan", "read pull", "eligible"}
    /\ remaining > 0
    /\ remaining' = remaining - 1
    /\ UNCHANGED <<environment, pc, scan, initialRed, outcome, faults>>

-----------------------------------------------------------------------------
(* The system.                                                             *)

Forge ==
    \/ \E r \in Runs :
        \/ StartRun(r)
        \/ \E conclusion \in {"success", Failed, PassedOver} : FinishRun(r, conclusion)
        \/ RerunRun(r)
    \/ \E own \in BOOLEAN, other \in BOOLEAN : EditPull(own, other)

Gate == Start \/ List \/ Scan \/ ReadPull \/ HoldOn \/ ListPulls \/ Eligible

Next == Forge \/ Gate \/ ReadFails \/ SlowRead

Spec == Init /\ [][Next]_vars

\* The gate's process runs on; nothing obliges a verify run to finish.
FairSpec == Spec /\ WF_vars(Gate)

-----------------------------------------------------------------------------
(* Properties.                                                             *)

TypeOK ==
    /\ runs \in [Runs -> RunStates]
    /\ {isWayBack, otherWayBack, everWayBack, alwaysWayBack} \subseteq BOOLEAN
    /\ mode \in {"enforce", "observe"} /\ holdInput \in {"number", "malformed"}
    /\ base \in 0..NumRuns
    /\ pc \in Steps
    /\ {listed, cursor, deciding, running, initialRed} \subseteq 0..NumRuns
    /\ verdict \in {"unknown", "red", "green"}
    /\ remaining \in 0..HoldTicks
    /\ outcome \in Outcomes
    /\ reruns \in 0..MaxReruns /\ faults \in 0..MaxFaults /\ edits \in 0..MaxEdits
    /\ known \subseteq Runs

ScanEnded == \/ pc \in {"read pull", "hold", "list pulls"}
             \/ outcome \in {"admit: not red", "admit: no motion", "refuse: newer red", "refuse: motion"}

\* Although the runs are read one at a time while they change, no verdict that
\* stood when the history was listed is overlooked for an older one: it decides,
\* unless a newer one does, and no run off the group's line ever does.
NewestKnownVerdictDecides ==
    ScanEnded => /\ deciding <= base
                 /\ \A r \in known : r <= deciding

\* A hold waits for something: a run of the group's own line, newer than the
\* red it began with.
HoldAwaitsNewerRun ==
    pc = "hold" => /\ running > deciding /\ running <= base
                   /\ verdict = "red" /\ deciding = initialRed

\* A pull request that has been the way back throughout is refused only when
\* hold-minutes is malformed, or the history read budget is exhausted and the
\* pull request could not be read.
WayBackIsNeverJammed ==
    outcome \in Refusals \ {"refuse: input"} /\ alwaysWayBack =>
        outcome = "refuse: history" /\ faults > 0

\* In enforce mode a red verdict lets an ordinary group pass only when nothing
\* was seen on its way to green, or a read failed.
OrdinaryNeverPassesRed ==
    /\ mode = "enforce" /\ ~everWayBack /\ faults = 0
    /\ verdict = "red" /\ pc = "done" /\ outcome \notin Refusals
    => outcome = "admit: no motion" /\ running = 0 /\ ~otherWayBack

\* "Observe mode never waits or refuses" (main_red_gate.py:22), once its inputs
\* have been read: a malformed hold-minutes is refused before the mode counts.
ObserveNeverRefuses ==
    mode = "observe" /\ outcome # "refuse: input" => ~Holding /\ outcome \notin Refusals

\* What the gate's answers rest on, whatever it answers: the types, the scan,
\* the hold and the mode.
GateInv == TypeOK /\ NewestKnownVerdictDecides /\ HoldAwaitsNewerRun /\ ObserveNeverRefuses

\* The hold is bounded: the gate answers although no verify run ever finishes.
GateDecides == <>(pc = "done")
=============================================================================
