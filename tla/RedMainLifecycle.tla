-------------------------- MODULE RedMainLifecycle --------------------------
(***************************************************************************)
(* The lifecycle mode of the red-main handler                              *)
(* (.github/workflows/red-main.yml, LIFECYCLE_PY).  One alert issue per    *)
(* (repository, workflow, check) follows the verify runs of the trunk.     *)
(* Every completed run attempt sends one event; the calls of the handler   *)
(* are serialised by the workflow's concurrency group but arrive in any    *)
(* order.  Each call reads and writes the forge one request at a time      *)
(* while runs start, finish and are re-run, a person edits the issue, and  *)
(* requests fail.                                                          *)
(***************************************************************************)
EXTENDS Integers, FiniteSets

CONSTANTS
    NumRuns,          \* verify runs of the trunk; run ids grow in creation order
    MaxAttempt,       \* attempts of one run
    QueueCap,         \* pending slots of the concurrency group; later calls are cancelled
    MaxFaults,        \* bound on handler calls that die between two requests
    MaxInterventions  \* bound on what a person does to the issue or the queue

ASSUME BoundsAssumption ==
    /\ NumRuns \in Nat \ {0}
    /\ MaxAttempt \in Nat \ {0}
    /\ QueueCap \in Nat
    /\ MaxFaults \in Nat
    /\ MaxInterventions \in Nat

VARIABLES
    runs,           \* what the runs API says of each run's latest attempt
    pending,        \* completed events whose handler call has not started
    issue,          \* the owned alert: its state and the ordering record in its marker
    comments,       \* the orders of the events a recovery comment was posted for
    pc, ev, snap,   \* the running handler call: its next request, its event, its issue snapshot
    told,           \* this call has posted its recovery comment
    handled,        \* events whose handler call ended without an error (history variable)
    faults, interventions

vars == <<runs, pending, issue, comments, pc, ev, snap, told, handled, faults, interventions>>
call == <<pc, ev, snap, told>>

-----------------------------------------------------------------------------
Runs      == 1..NumRuns
Conclusive == {"success", "failure"}
Results   == Conclusive \cup {"cancelled", "unknown"}
Orders    == (0..NumRuns) \X (0..MaxAttempt)
NoOrder   == <<0, 0>>
Events    == [run : Runs, attempt : 1..MaxAttempt, result : Results]
RunStates == [attempt : 0..MaxAttempt, status : {"none", "in_progress", "completed"},
              result : Results, agrees : BOOLEAN]
Issues    == [state : {"none", "open", "closed"}, last_event : Orders, last_failure : Orders]
NoIssue   == [state |-> "none", last_event |-> NoOrder, last_failure |-> NoOrder]
NoEvent   == [run |-> 0, attempt |-> 0, result |-> "unknown"]
Requests  == {"idle", "prove", "find", "find again", "prove again", "create",
              "fresh issue", "fresh prove", "list history", "prove latest", "comment", "patch"}

\* Event.order: (run id, attempt), compared as Python compares lists.
order(e)   == <<e.run, e.attempt>>
Before(a, b) == a[1] < b[1] \/ (a[1] = b[1] /\ a[2] < b[2])
AtMost(a, b) == a = b \/ Before(a, b)

Init ==
    /\ runs = [r \in Runs |-> [attempt |-> 0, status |-> "none", result |-> "unknown", agrees |-> FALSE]]
    /\ pending = {}
    /\ issue = NoIssue
    /\ comments = {}
    /\ pc = "idle"
    /\ ev = NoEvent
    /\ snap = NoIssue
    /\ told = FALSE
    /\ handled = {}
    /\ faults = 0
    /\ interventions = 0

-----------------------------------------------------------------------------
(* The forge: verify runs of the trunk, and the calls they trigger.        *)

Start(r) ==
    /\ runs[r].status = "none"
    /\ r > 1 => runs[r - 1].status # "none"
    /\ runs' = [runs EXCEPT ![r].attempt = 1, ![r].status = "in_progress"]
    /\ UNCHANGED <<pending, issue, comments, call, handled, faults, interventions>>

Rerun(r) ==
    /\ runs[r].status = "completed"
    /\ runs[r].attempt < MaxAttempt
    /\ runs' = [runs EXCEPT ![r].attempt = @ + 1, ![r].status = "in_progress"]
    /\ UNCHANGED <<pending, issue, comments, call, handled, faults, interventions>>

\* agrees: exactly one job of the attempt carries the check's name and it
\* concluded as the run did (an optional job can fail a run whose check passed).
\* With the group's pending slots full the forge cancels the new call.
Complete(r, result, agrees) ==
    /\ runs[r].status = "in_progress"
    /\ runs' = [runs EXCEPT ![r].status = "completed", ![r].result = result, ![r].agrees = agrees]
    /\ pending' = IF Cardinality(pending) < QueueCap
                  THEN pending \cup {[run |-> r, attempt |-> runs[r].attempt, result |-> result]}
                  ELSE pending
    /\ UNCHANGED <<issue, comments, call, handled, faults, interventions>>

\* A person closes or reopens the alert by hand.
PersonSetsState(state) ==
    /\ interventions < MaxInterventions
    /\ issue.state \in {"open", "closed"} \ {state}
    /\ issue' = [issue EXCEPT !.state = state]
    /\ interventions' = interventions + 1
    /\ UNCHANGED <<runs, pending, comments, call, handled, faults>>

\* A person re-runs a finished handler call: its event is delivered again.
PersonRedelivers(e) ==
    /\ interventions < MaxInterventions
    /\ Cardinality(pending) < QueueCap
    /\ pending' = pending \cup {e}
    /\ interventions' = interventions + 1
    /\ UNCHANGED <<runs, issue, comments, call, handled, faults>>

-----------------------------------------------------------------------------
(* The handler.  A request that raises ends the call with a warning and no *)
(* further mutation; the event is not retried.                             *)

\* prove, as of its read of the run (an attempt and its jobs change no more once
\* completed): the run's latest attempt is still the event's attempt, completed
\* with the event's result, and the named check agrees when it is conclusive.
Proves(e) ==
    /\ runs[e.run].attempt = e.attempt
    /\ runs[e.run].status = "completed"
    /\ runs[e.run].result = e.result
    /\ e.result \in Conclusive => runs[e.run].agrees

ConclusiveRuns == {r \in Runs : runs[r].status = "completed" /\ runs[r].result \in Conclusive}

\* Mutant: the listing is trusted to hold the event's own run only.
OwnRunIsConclusive(e) == e.run \in ConclusiveRuns /\ runs[e.run].attempt = e.attempt

\* prove_recovery, the listing: the newest conclusive run is the event's own.
IsLatestConclusive(e) ==
    /\ e.run \in ConclusiveRuns
    /\ \A r \in ConclusiveRuns : r <= e.run
    /\ runs[e.run].attempt = e.attempt
    /\ runs[e.run].result = "success"

EndCall == /\ pc' = "idle"
           /\ ev' = NoEvent
           /\ snap' = NoIssue
           /\ told' = FALSE

Raise  == EndCall /\ UNCHANGED <<issue, comments, handled>>
Return == EndCall /\ handled' = handled \cup {ev} /\ UNCHANGED comments
Goto(request) == pc' = request /\ UNCHANGED <<issue, comments, ev, snap, told, handled>>

environment == <<runs, pending, faults, interventions>>

Take(e) ==
    /\ pc = "idle"
    /\ pending' = pending \ {e}
    /\ ev' = e
    /\ pc' = "prove"
    /\ UNCHANGED <<runs, issue, comments, snap, told, handled, faults, interventions>>

Prove ==
    /\ pc = "prove"
    /\ IF Proves(ev) THEN Goto("find") ELSE Raise
    /\ UNCHANGED environment

\* Mutants: a failure without an alert is dropped; events are not ordered.
DropsFirstFailure ==
    issue.state # "none" => AtMost(order(ev), issue.last_event)
TakesAnyOrder ==
    IF issue.state = "none"
    THEN ev.result # "failure"
    ELSE ev.result = "success" /\ AtMost(order(ev), issue.last_failure)

\* An older or replayed event, or one that recovers nothing, ends its call.
Stale ==
    IF issue.state = "none"
    THEN ev.result # "failure"
    ELSE \/ AtMost(order(ev), issue.last_event)
         \/ ev.result = "success" /\ AtMost(order(ev), issue.last_failure)

Find ==
    /\ pc = "find"
    /\ \/ Stale /\ Return /\ UNCHANGED issue
       \/ /\ ~Stale
          /\ pc' = IF issue.state = "none" THEN "find again" ELSE "fresh issue"
          /\ snap' = issue
          /\ UNCHANGED <<issue, comments, ev, told, handled>>
    /\ UNCHANGED environment

FindAgain ==
    /\ pc = "find again"
    /\ IF issue.state = "none" THEN Goto("prove again") ELSE Raise
    /\ UNCHANGED environment

ProveAgain ==
    /\ pc = "prove again"
    /\ IF Proves(ev) THEN Goto("create") ELSE Raise
    /\ UNCHANGED environment

Create ==
    /\ pc = "create"
    /\ issue' = [state |-> "open", last_event |-> order(ev), last_failure |-> order(ev)]
    /\ Return
    /\ UNCHANGED environment

\* fresh: the issue is re-read and the event re-proved before every write;
\* a success must also still be the newest conclusive run of the trunk.
FreshIssue ==
    /\ pc = "fresh issue"
    /\ IF issue = snap THEN Goto("fresh prove") ELSE Raise
    /\ UNCHANGED environment

FreshProve ==
    /\ pc = "fresh prove"
    /\ IF Proves(ev)
       THEN Goto(IF ev.result = "success" THEN "list history" ELSE "patch")
       ELSE Raise
    /\ UNCHANGED environment

ListHistory ==
    /\ pc = "list history"
    /\ IF IsLatestConclusive(ev) THEN Goto("prove latest") ELSE Raise
    /\ UNCHANGED environment

ProveLatest ==
    /\ pc = "prove latest"
    /\ IF Proves(ev)
       THEN Goto(IF snap.state = "open" /\ ~told THEN "comment" ELSE "patch")
       ELSE Raise
    /\ UNCHANGED environment

\* The recovery comment, after which everything is read afresh for the close.
Comment ==
    /\ pc = "comment"
    /\ comments' = comments \cup {order(ev)}
    /\ told' = TRUE
    /\ pc' = "fresh issue"
    /\ UNCHANGED <<environment, issue, ev, snap, handled>>

Rewritten(state, last_failure) ==
    [state |-> state, last_event |-> order(ev), last_failure |-> last_failure]

\* Mutants: the result is sent as the state; every event is recorded as a
\* failure; anything but a failure closes; a failure does not re-open; a
\* success does not close.
PatchesResultAsState == Rewritten(ev.result, snap.last_failure)
PatchesFailureAlways ==
    Rewritten(IF ev.result = "failure" THEN "open" ELSE issue.state, order(ev))
PatchesClosedUnlessFailed ==
    IF ev.result = "failure" THEN Rewritten("open", order(ev)) ELSE Rewritten("closed", snap.last_failure)
PatchesWithoutReopening ==
    Rewritten(IF ev.result = "success" THEN "closed" ELSE issue.state,
              IF ev.result = "failure" THEN order(ev) ELSE snap.last_failure)
PatchesWithoutClosing ==
    Rewritten(IF ev.result = "failure" THEN "open" ELSE issue.state,
              IF ev.result = "failure" THEN order(ev) ELSE snap.last_failure)

\* The marker is rewritten from the snapshot; only a failure or a success
\* changes whether the alert is open.
Patched ==
    Rewritten(CASE ev.result = "failure" -> "open"
                [] ev.result = "success" -> "closed"
                [] OTHER -> issue.state,
              IF ev.result = "failure" THEN order(ev) ELSE snap.last_failure)

Patch ==
    /\ pc = "patch"
    /\ issue' = Patched
    /\ Return
    /\ UNCHANGED environment

\* A request fails, the job is cancelled or it hits its ten-minute limit.
Fault ==
    /\ pc # "idle"
    /\ faults < MaxFaults
    /\ faults' = faults + 1
    /\ Raise
    /\ UNCHANGED <<runs, pending, interventions>>

-----------------------------------------------------------------------------
(* The system.                                                             *)

Forge ==
    \E r \in Runs :
        \/ Start(r)
        \/ Rerun(r)
        \/ \E result \in Results, agrees \in BOOLEAN :
               (agrees => result \in Conclusive) /\ Complete(r, result, agrees)

Person ==
    \/ \E state \in {"open", "closed"} : PersonSetsState(state)
    \/ \E e \in handled : PersonRedelivers(e)

Handler ==
    \/ \E e \in pending : Take(e)
    \/ Prove \/ Find \/ FindAgain \/ ProveAgain \/ Create
    \/ FreshIssue \/ FreshProve \/ ListHistory \/ ProveLatest \/ Comment \/ Patch

Next == Forge \/ Person \/ Handler \/ Fault

Spec == Init /\ [][Next]_vars

\* Queued calls start and a running call makes its next request; nothing
\* obliges a run to finish, a person to act or a request to fail.
FairSpec == Spec /\ WF_vars(Handler)

-----------------------------------------------------------------------------
(* Properties.                                                             *)

TypeOK ==
    /\ runs \in [Runs -> RunStates]
    /\ pending \subseteq Events
    /\ issue \in Issues
    /\ comments \subseteq Orders
    /\ pc \in Requests
    /\ ev \in Events \cup {NoEvent}
    /\ snap \in Issues
    /\ told \in BOOLEAN
    /\ handled \subseteq Events
    /\ faults \in 0..MaxFaults
    /\ interventions \in 0..MaxInterventions

\* The ordering record is consistent and truthful: the recorded failure is not
\* newer than the newest recorded event, and both name events that were
\* handled, the failure one that failed.  marker() refuses any other record,
\* which would leave the alert stuck for good.
MarkerTruthful ==
    issue.state # "none" =>
        /\ AtMost(issue.last_failure, issue.last_event)
        /\ \E e \in handled : order(e) = issue.last_event
        /\ \E e \in handled : order(e) = issue.last_failure /\ e.result = "failure"

\* Nothing a call handled without an error is lost: once a failure has been
\* handled there is an alert, and its record is at least as new.
HandledIsRecorded ==
    \A e \in handled :
        e.result = "failure" => issue.state # "none" /\ AtMost(order(e), issue.last_event)

\* Unless a person closed it, a closed alert has been recovered: some success
\* newer than the last recorded failure was handled.
ClosedIsRecovered ==
    issue.state = "closed" /\ interventions = 0 =>
        \E e \in handled : /\ e.result = "success"
                           /\ Before(issue.last_failure, order(e))
                           /\ AtMost(order(e), issue.last_event)

\* The record of the alert as a whole.
RecordInv == TypeOK /\ MarkerTruthful

\* The ordering record only moves forward, and every rewrite of the issue by
\* the handler moves it: replayed and late events cannot undo newer ones.
RecordMovesForward ==
    [][issue' # issue /\ interventions' = interventions /\ issue.state # "none"
         => /\ Before(issue.last_event, issue'.last_event)
            /\ AtMost(issue.last_failure, issue'.last_failure)]_vars

\* The runs whose newest attempt failed and whose check says so.
RedAbove(o) ==
    {r \in Runs : /\ Before(o, <<r, runs[r].attempt>>)
                  /\ runs[r].status = "completed"
                  /\ runs[r].result = "failure"}

\* A recovery is written over a newer red only in the window between the
\* listing and the write, and then that red's own event is still waiting, so
\* a later call re-opens the alert; unless the queue of waiting calls is full.
Waits(r) == [run |-> r, attempt |-> runs[r].attempt, result |-> "failure"] \in pending
RecoveryOverRedIsPending ==
    [][\/ comments' # comments
       \/ issue.state = "open" /\ issue'.state = "closed" /\ interventions' = interventions
       => \A r \in RedAbove(order(ev)) : Cardinality(pending) < QueueCap => Waits(r)]_vars

\* The attempt is the last of the trunk, completed so, and its check agrees.
EndsWith(r, a, result) ==
    /\ runs[r] = [attempt |-> a, status |-> "completed", result |-> result, agrees |-> TRUE]
    /\ \A s \in Runs : s > r => runs[s].status = "none"

Undisturbed == faults = 0 /\ interventions = 0

\* A trunk whose newest run failed, and stays the newest, ends with an open
\* alert, unless its call is lost: a call the full queue cancels, or one that
\* dies, is not repeated.
RedIsAlerted ==
    \A r \in Runs, a \in 1..MaxAttempt :
        /\ []Undisturbed
        /\ <>[]EndsWith(r, a, "failure")
        /\ <>([run |-> r, attempt |-> a, result |-> "failure"] \in pending)
        => <>[](issue.state = "open")

\* A success that is the newest run for good and whose event waits while the
\* alert is open is handled to the close, and nothing older re-opens it.
GreenIsRecovered ==
    \A r \in Runs, a \in 1..MaxAttempt :
        /\ []Undisturbed
        /\ <>[]EndsWith(r, a, "success")
        /\ <>( /\ issue.state = "open"
               /\ [run |-> r, attempt |-> a, result |-> "success"] \in pending )
        => <>[](issue.state # "open")
=============================================================================
