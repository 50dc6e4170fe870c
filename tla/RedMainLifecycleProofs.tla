----------------------- MODULE RedMainLifecycleProofs -----------------------
(***************************************************************************)
(* Proofs about RedMainLifecycle, for every number of runs, attempts,      *)
(* pending slots, faults and interventions.                                *)
(***************************************************************************)
EXTENDS RedMainLifecycle, TLAPS

\* Events are totally ordered by (run id, attempt).
LEMMA OrderTotal ==
    ASSUME NEW a \in Orders, NEW b \in Orders
    PROVE  ~AtMost(a, b) <=> Before(b, a)
  BY BoundsAssumption DEF Orders, AtMost, Before

LEMMA OrderTransitive ==
    ASSUME NEW a \in Orders, NEW b \in Orders, NEW c \in Orders,
           AtMost(a, b), AtMost(b, c)
    PROVE  AtMost(a, c)
  BY BoundsAssumption DEF Orders, AtMost, Before

LEMMA EventOrder ==
    ASSUME NEW e \in Events
    PROVE  order(e) \in Orders
  BY BoundsAssumption DEF Events, Orders, Runs, order

\* The record a write leaves is well-formed.
LEMMA PatchedType ==
    ASSUME TypeOK, ev \in Events
    PROVE  Patched \in Issues
  <1>1. order(ev) \in Orders
    BY EventOrder
  <1>2. ev.result \in Results /\ issue.state \in {"none", "open", "closed"} /\ snap.last_failure \in Orders
    BY DEF TypeOK, Issues, Events
  <1> QED
    BY <1>1, <1>2 DEF Patched, Rewritten, Issues

-----------------------------------------------------------------------------
(* Type correctness.  What it takes besides the types: a call under way has *)
(* taken an event, and a run that exists has an attempt.                    *)

CallHasEvent == pc # "idle" => ev \in Events
RunHasAttempt == \A r \in Runs : runs[r].status # "none" => runs[r].attempt >= 1
TypeInv == TypeOK /\ CallHasEvent /\ RunHasAttempt

LEMMA NoIssueType == NoIssue \in Issues
  BY BoundsAssumption DEF NoIssue, NoOrder, Issues, Orders

LEMMA InitType == Init => TypeInv
  <1> SUFFICES ASSUME Init PROVE TypeInv
    OBVIOUS
  <1>1. NoIssue \in Issues
    BY NoIssueType
  <1>2. runs \in [Runs -> RunStates]
    BY BoundsAssumption DEF Init, RunStates, Results
  <1>3. faults \in 0..MaxFaults /\ interventions \in 0..MaxInterventions
    BY BoundsAssumption DEF Init
  <1> QED
    BY <1>1, <1>2, <1>3 DEF Init, TypeInv, TypeOK, CallHasEvent, RunHasAttempt, Requests

LEMMA StartType ==
    ASSUME TypeInv, NEW r \in Runs, Start(r)
    PROVE  TypeInv'
  <1>1. runs' = [runs EXCEPT ![r] = [runs[r] EXCEPT !.attempt = 1, !.status = "in_progress"]]
    BY DEF Start, TypeInv, TypeOK
  <1>2. [runs[r] EXCEPT !.attempt = 1, !.status = "in_progress"] \in RunStates
    <2>1. 1 \in 0..MaxAttempt
      BY BoundsAssumption
    <2>2. runs[r] \in RunStates
      BY DEF TypeInv, TypeOK
    <2> QED
      BY <2>1, <2>2, Zenon DEF RunStates
  <1>3. runs' \in [Runs -> RunStates] /\ RunHasAttempt'
    BY <1>1, <1>2 DEF TypeInv, TypeOK, RunHasAttempt, RunStates
  <1> QED
    BY <1>3 DEF Start, call, TypeInv, TypeOK, CallHasEvent

LEMMA RerunType ==
    ASSUME TypeInv, NEW r \in Runs, Rerun(r)
    PROVE  TypeInv'
  <1>1. runs' = [runs EXCEPT ![r] = [runs[r] EXCEPT !.attempt = @ + 1, !.status = "in_progress"]]
    BY DEF Rerun, TypeInv, TypeOK
  <1>2. [runs[r] EXCEPT !.attempt = @ + 1, !.status = "in_progress"] \in RunStates
    <2>1. runs[r] \in RunStates
      BY DEF TypeInv, TypeOK
    <2>2. runs[r].attempt + 1 \in 0..MaxAttempt
      BY <2>1, BoundsAssumption DEF RunStates, Rerun
    <2> QED
      BY <2>1, <2>2, Zenon DEF RunStates
  <1>3. runs' \in [Runs -> RunStates] /\ RunHasAttempt'
    BY <1>1, <1>2 DEF TypeInv, TypeOK, RunHasAttempt, RunStates
  <1> QED
    BY <1>3 DEF Rerun, call, TypeInv, TypeOK, CallHasEvent

LEMMA CompleteType ==
    ASSUME TypeInv, NEW r \in Runs, NEW result \in Results, NEW agrees \in BOOLEAN,
           Complete(r, result, agrees)
    PROVE  TypeInv'
  <1>1. runs' = [runs EXCEPT ![r] = [runs[r] EXCEPT !.status = "completed", !.result = result,
                                                    !.agrees = agrees]]
    BY DEF Complete, TypeInv, TypeOK
  <1>2. runs[r] \in RunStates
    BY DEF TypeInv, TypeOK
  <1>3. [runs[r] EXCEPT !.status = "completed", !.result = result, !.agrees = agrees] \in RunStates
    BY <1>2, Zenon DEF RunStates
  <1>4. runs' \in [Runs -> RunStates] /\ RunHasAttempt'
    BY <1>1, <1>2, <1>3 DEF TypeInv, TypeOK, RunHasAttempt, RunStates, Complete
  <1>5. [run |-> r, attempt |-> runs[r].attempt, result |-> result] \in Events
    <2>1. runs[r].attempt \in 1..MaxAttempt
      BY <1>2, BoundsAssumption DEF TypeInv, RunHasAttempt, Complete, RunStates
    <2> QED
      BY <2>1 DEF Events
  <1> QED
    BY <1>4, <1>5 DEF Complete, call, TypeInv, TypeOK, CallHasEvent

LEMMA PersonType ==
    ASSUME TypeInv, Person
    PROVE  TypeInv'
  <1>1. CASE \E state \in {"open", "closed"} : PersonSetsState(state)
    <2>1. PICK state \in {"open", "closed"} : PersonSetsState(state)
      BY <1>1
    <2>2. [issue EXCEPT !.state = state] \in Issues
      BY DEF TypeInv, TypeOK, Issues
    <2>3. interventions' \in 0..MaxInterventions
      BY <2>1, BoundsAssumption DEF PersonSetsState, TypeInv, TypeOK
    <2> QED
      BY <2>1, <2>2, <2>3 DEF PersonSetsState, call, TypeInv, TypeOK, CallHasEvent, RunHasAttempt
  <1>2. CASE \E e \in handled : PersonRedelivers(e)
    <2>1. PICK e \in handled : PersonRedelivers(e)
      BY <1>2
    <2>2. interventions' \in 0..MaxInterventions
      BY <2>1, BoundsAssumption DEF PersonRedelivers, TypeInv, TypeOK
    <2> QED
      BY <2>1, <2>2 DEF PersonRedelivers, call, TypeInv, TypeOK, CallHasEvent, RunHasAttempt
  <1> QED
    BY <1>1, <1>2 DEF Person

LEMMA HandlerType ==
    ASSUME TypeInv, Handler
    PROVE  TypeInv'
  <1> USE DEF TypeInv, TypeOK, CallHasEvent, RunHasAttempt, environment, Requests
  <1>1. NoIssue \in Issues
    BY NoIssueType
  <1>2. CASE \E e \in pending : Take(e)
    BY <1>2 DEF Take
  <1>3. CASE Prove
    BY <1>1, <1>3 DEF Prove, Goto, Raise, EndCall
  <1>4. CASE Find
    <2>1. ev \in Events
      BY <1>4 DEF Find
    <2> QED
      BY <1>1, <1>4, <2>1 DEF Find, Return, EndCall
  <1>5. CASE FindAgain \/ ProveAgain
    BY <1>1, <1>5 DEF FindAgain, ProveAgain, Goto, Raise, EndCall
  <1>6. CASE Create
    <2>1. ev \in Events
      BY <1>6 DEF Create
    <2>2. issue' \in Issues
      BY <1>6, <2>1, EventOrder DEF Create, Issues
    <2> QED
      BY <1>1, <1>6, <2>1, <2>2 DEF Create, Return, EndCall
  <1>7. CASE FreshIssue \/ FreshProve \/ ListHistory
    BY <1>1, <1>7 DEF FreshIssue, FreshProve, ListHistory, Goto, Raise, EndCall
  <1>8. CASE ProveLatest
    BY <1>1, <1>8 DEF ProveLatest, Goto, Raise, EndCall
  <1>9. CASE Comment
    <2>1. order(ev) \in Orders
      BY <1>9, EventOrder DEF Comment
    <2> QED
      BY <1>9, <2>1 DEF Comment
  <1>10. CASE Patch
    <2>1. ev \in Events
      BY <1>10 DEF Patch
    <2>2. issue' \in Issues
      BY <1>10, <2>1, PatchedType DEF Patch
    <2> QED
      BY <1>1, <1>10, <2>1, <2>2 DEF Patch, Return, EndCall
  <1> QED
    BY <1>2, <1>3, <1>4, <1>5, <1>6, <1>7, <1>8, <1>9, <1>10 DEF Handler

LEMMA FaultType ==
    ASSUME TypeInv, Fault
    PROVE  TypeInv'
  <1>1. NoIssue \in Issues
    BY NoIssueType
  <1>2. faults' \in 0..MaxFaults
    BY BoundsAssumption DEF Fault, TypeInv, TypeOK
  <1> QED
    BY <1>1, <1>2 DEF Fault, Raise, EndCall, TypeInv, TypeOK, CallHasEvent, RunHasAttempt, Requests

LEMMA NextType == TypeInv /\ [Next]_vars => TypeInv'
  <1> SUFFICES ASSUME TypeInv, [Next]_vars PROVE TypeInv'
    OBVIOUS
  <1>1. CASE Forge
    BY <1>1, StartType, RerunType, CompleteType DEF Forge
  <1>2. CASE UNCHANGED vars
    BY <1>2 DEF vars, TypeInv, TypeOK, CallHasEvent, RunHasAttempt
  <1> QED
    BY <1>1, <1>2, PersonType, HandlerType, FaultType DEF Next

\* Every variable keeps its type, for all bounds.
THEOREM Typed == Spec => []TypeOK
  <1>1. Spec => []TypeInv
    BY InitType, NextType, PTL DEF Spec
  <1> QED
    BY <1>1, PTL DEF TypeInv

-----------------------------------------------------------------------------
(* Safety.  The calls are serial and a person only opens or closes the      *)
(* alert, so the ordering record a call decided on is still the alert's     *)
(* when it writes, and the event is still newer.                            *)

CallCreates == pc \in {"prove again", "create"} => issue.state = "none"
CallFailed  == pc \in {"find again", "prove again", "create"} => ev.result = "failure"
CallAdvances ==
    pc \in {"fresh issue", "fresh prove", "list history", "prove latest", "comment", "patch"} =>
        /\ issue.state # "none"
        /\ snap.last_failure = issue.last_failure
        /\ Before(issue.last_event, order(ev))
        /\ ev.result = "success" => Before(issue.last_failure, order(ev))

SafeInv ==
    /\ TypeInv
    /\ CallCreates /\ CallFailed /\ CallAdvances
    /\ MarkerTruthful /\ HandledIsRecorded /\ ClosedIsRecovered

LEMMA SafeInit == Init => SafeInv
  BY InitType
  DEF Init, SafeInv, CallCreates, CallFailed, CallAdvances, MarkerTruthful, HandledIsRecorded,
      ClosedIsRecovered, NoIssue

\* A step that leaves the call, the alert and the handled events alone.
LEMMA SafeForge ==
    ASSUME SafeInv, TypeInv', UNCHANGED <<issue, pc, ev, snap, handled>>,
           interventions' = 0 => interventions = 0
    PROVE  SafeInv'
  BY DEF SafeInv, CallCreates, CallFailed, CallAdvances, MarkerTruthful, HandledIsRecorded,
         ClosedIsRecovered

\* A step that leaves the alert alone, and ends its call only when the alert
\* already covers the event.
LEMMA SafeQuiet ==
    ASSUME SafeInv, TypeInv', UNCHANGED <<issue, interventions>>,
           handled' \in {handled, handled \cup {ev}},
           handled' # handled /\ ev.result = "failure" =>
               issue.state # "none" /\ AtMost(order(ev), issue.last_event),
           CallCreates', CallFailed', CallAdvances'
    PROVE  SafeInv'
  BY DEF SafeInv, MarkerTruthful, HandledIsRecorded, ClosedIsRecovered

\* A call that ends leaves nothing to keep.
LEMMA SafeRaise ==
    ASSUME SafeInv, TypeInv', Raise, UNCHANGED interventions
    PROVE  SafeInv'
  <1>1. CallCreates' /\ CallFailed' /\ CallAdvances'
    BY DEF Raise, EndCall, CallCreates, CallFailed, CallAdvances
  <1> QED
    BY <1>1, SafeQuiet DEF Raise

LEMMA SafeGoto ==
    ASSUME SafeInv, TypeInv', NEW request, Goto(request), UNCHANGED interventions,
           CallCreates', CallFailed', CallAdvances'
    PROVE  SafeInv'
  BY SafeQuiet DEF Goto

LEMMA SafePerson ==
    ASSUME SafeInv, TypeInv', Person
    PROVE  SafeInv'
  <1>1. CASE \E state \in {"open", "closed"} : PersonSetsState(state)
    <2>1. PICK state \in {"open", "closed"} : PersonSetsState(state)
      BY <1>1
    <2>2. interventions' # 0
      BY <2>1, BoundsAssumption DEF PersonSetsState, SafeInv, TypeInv, TypeOK
    <2>3. /\ issue.state # "none" /\ issue'.state # "none"
          /\ issue'.last_event = issue.last_event
          /\ issue'.last_failure = issue.last_failure
      BY <2>1 DEF PersonSetsState, SafeInv, TypeInv, TypeOK, Issues
    <2> QED
      BY <2>1, <2>2, <2>3
      DEF PersonSetsState, call, SafeInv, CallCreates, CallFailed, CallAdvances, MarkerTruthful,
          HandledIsRecorded, ClosedIsRecovered
  <1>2. CASE \E e \in handled : PersonRedelivers(e)
    <2>1. interventions' # 0
      BY <1>2, BoundsAssumption DEF PersonRedelivers, SafeInv, TypeInv, TypeOK
    <2> QED
      BY <1>2, <2>1, SafeForge DEF PersonRedelivers, call
  <1> QED
    BY <1>1, <1>2 DEF Person

LEMMA SafeFind ==
    ASSUME SafeInv, TypeInv', Find
    PROVE  SafeInv'
  <1>1. ev \in Events /\ issue \in Issues
    BY DEF Find, SafeInv, TypeInv, TypeOK, CallHasEvent
  <1>2. order(ev) \in Orders /\ issue.last_event \in Orders /\ issue.last_failure \in Orders
    BY <1>1, EventOrder DEF Issues
  <1>3. CASE Stale /\ Return /\ UNCHANGED issue
    <2>1. CallCreates' /\ CallFailed' /\ CallAdvances'
      BY <1>3 DEF Return, EndCall, CallCreates, CallFailed, CallAdvances
    <2>2. ev.result = "failure" => issue.state # "none" /\ AtMost(order(ev), issue.last_event)
      BY <1>3 DEF Stale
    <2> QED
      BY <1>3, <2>1, <2>2, SafeQuiet DEF Find, Return, environment
  <1>4. CASE ~Stale /\ issue.state = "none" /\ pc' = "find again" /\ snap' = issue
             /\ UNCHANGED <<issue, comments, ev, told, handled>>
    BY <1>4, SafeQuiet DEF Find, environment, Stale, CallCreates, CallFailed, CallAdvances
  <1>5. CASE ~Stale /\ issue.state # "none" /\ pc' = "fresh issue" /\ snap' = issue
             /\ UNCHANGED <<issue, comments, ev, told, handled>>
    <2>1. Before(issue.last_event, order(ev))
      BY <1>2, <1>5, OrderTotal DEF Stale
    <2>2. ev.result = "success" => Before(issue.last_failure, order(ev))
      BY <1>2, <1>5, OrderTotal DEF Stale
    <2> QED
      BY <1>5, <2>1, <2>2, SafeQuiet DEF Find, environment, CallCreates, CallFailed, CallAdvances
  <1> QED
    BY <1>3, <1>4, <1>5 DEF Find

LEMMA SafeCreate ==
    ASSUME SafeInv, TypeInv', Create
    PROVE  SafeInv'
  <1>1. /\ ev \in Events /\ ev.result = "failure" /\ issue.state = "none"
        /\ \A e \in handled : e.result # "failure"
    BY DEF Create, SafeInv, TypeInv, CallHasEvent, CallCreates, CallFailed, HandledIsRecorded
  <1>2. /\ issue'.state = "open" /\ issue'.last_event = order(ev) /\ issue'.last_failure = order(ev)
        /\ handled' = handled \cup {ev}
    BY DEF Create, Return
  <1>3. CallCreates' /\ CallFailed' /\ CallAdvances'
    BY DEF Create, Return, EndCall, CallCreates, CallFailed, CallAdvances
  <1> QED
    BY <1>1, <1>2, <1>3 DEF SafeInv, MarkerTruthful, HandledIsRecorded, ClosedIsRecovered, AtMost

\* The rewrite of the marker, and what the alert and the record become.
LEMMA SafePatch ==
    ASSUME SafeInv, TypeInv', Patch
    PROVE  SafeInv'
  <1>1. /\ ev \in Events /\ issue \in Issues /\ snap \in Issues
        /\ handled \subseteq Events
    BY DEF Patch, SafeInv, TypeInv, TypeOK, CallHasEvent
  <1>2. /\ order(ev) \in Orders /\ issue.last_event \in Orders /\ issue.last_failure \in Orders
        /\ \A e \in handled : order(e) \in Orders
    BY <1>1, EventOrder DEF Issues
  <1>3. /\ issue.state # "none"
        /\ snap.last_failure = issue.last_failure
        /\ Before(issue.last_event, order(ev))
        /\ ev.result = "success" => Before(issue.last_failure, order(ev))
    BY DEF Patch, SafeInv, CallAdvances
  <1>4. AtMost(issue.last_failure, issue.last_event) /\ AtMost(issue.last_event, order(ev))
    BY <1>3 DEF SafeInv, MarkerTruthful, AtMost
  <1>5. AtMost(issue.last_failure, order(ev)) /\ AtMost(order(ev), order(ev))
    BY <1>2, <1>4, OrderTransitive DEF AtMost
  <1>6. /\ issue' = Patched
        /\ handled' = handled \cup {ev}
        /\ interventions' = interventions
    BY DEF Patch, Return, environment
  <1>7. /\ issue'.last_event = order(ev)
        /\ issue'.last_failure = IF ev.result = "failure" THEN order(ev) ELSE issue.last_failure
        /\ issue'.state = CASE ev.result = "failure" -> "open"
                            [] ev.result = "success" -> "closed"
                            [] OTHER -> issue.state
    BY <1>3, <1>6 DEF Patched, Rewritten
  <1>8. CallCreates' /\ CallFailed' /\ CallAdvances'
    BY DEF Patch, Return, EndCall, CallCreates, CallFailed, CallAdvances
  <1>9. MarkerTruthful'
    BY <1>3, <1>5, <1>6, <1>7 DEF SafeInv, MarkerTruthful
  <1>10. HandledIsRecorded'
    <2>1. \A e \in handled : e.result = "failure" => AtMost(order(e), order(ev))
      BY <1>2, <1>4, OrderTransitive DEF SafeInv, HandledIsRecorded
    <2> QED
      BY <1>3, <1>5, <1>6, <1>7, <2>1 DEF HandledIsRecorded
  <1>11. ClosedIsRecovered'
    <2>1. CASE ev.result = "failure"
      BY <1>7, <2>1 DEF ClosedIsRecovered
    <2>2. CASE ev.result = "success"
      BY <1>3, <1>5, <1>6, <1>7, <2>2 DEF ClosedIsRecovered
    <2>3. CASE ev.result \notin {"failure", "success"}
      <3>1. issue'.state = issue.state /\ issue'.last_failure = issue.last_failure
        BY <1>7, <2>3
      <3>2. \A e \in handled : AtMost(order(e), issue.last_event) => AtMost(order(e), order(ev))
        BY <1>2, <1>4, OrderTransitive
      <3> QED
        BY <1>6, <1>7, <3>1, <3>2 DEF SafeInv, ClosedIsRecovered
    <2> QED
      BY <2>1, <2>2, <2>3
  <1> QED
    BY <1>8, <1>9, <1>10, <1>11 DEF SafeInv

LEMMA SafeHandler ==
    ASSUME SafeInv, TypeInv', Handler
    PROVE  SafeInv'
  <1> USE DEF environment, CallCreates, CallFailed, CallAdvances
  <1>1. CASE \E e \in pending : Take(e)
    BY <1>1, SafeQuiet DEF Take
  <1>2. CASE Prove
    BY <1>2, SafeRaise, SafeGoto DEF Prove, Goto
  <1>3. CASE FindAgain
    BY <1>3, SafeRaise, SafeGoto DEF FindAgain, Goto, SafeInv
  <1>4. CASE ProveAgain
    BY <1>4, SafeRaise, SafeGoto DEF ProveAgain, Goto, SafeInv
  <1>5. CASE FreshIssue
    BY <1>5, SafeRaise, SafeGoto DEF FreshIssue, Goto, SafeInv
  <1>6. CASE FreshProve
    BY <1>6, SafeRaise, SafeGoto DEF FreshProve, Goto, SafeInv
  <1>7. CASE ListHistory
    BY <1>7, SafeRaise, SafeGoto DEF ListHistory, Goto, SafeInv
  <1>8. CASE ProveLatest
    BY <1>8, SafeRaise, SafeGoto DEF ProveLatest, Goto, SafeInv
  <1>9. CASE Comment
    BY <1>9, SafeQuiet DEF Comment, SafeInv
  <1> QED
    BY <1>1, <1>2, <1>3, <1>4, <1>5, <1>6, <1>7, <1>8, <1>9, SafeFind, SafeCreate, SafePatch
    DEF Handler

LEMMA SafeNext == SafeInv /\ [Next]_vars => SafeInv'
  <1> SUFFICES ASSUME SafeInv, [Next]_vars PROVE SafeInv'
    OBVIOUS
  <1>1. TypeInv'
    BY NextType DEF SafeInv
  <1>2. CASE Forge
    BY <1>1, <1>2, SafeForge DEF Forge, Start, Rerun, Complete, call
  <1>3. CASE Fault
    BY <1>1, <1>3, SafeRaise DEF Fault
  <1>4. CASE UNCHANGED vars
    BY <1>1, <1>4, SafeForge DEF vars
  <1> QED
    BY <1>1, <1>2, <1>3, <1>4, SafePerson, SafeHandler DEF Next

LEMMA Safe == Spec => []SafeInv
  BY InitType, SafeInit, SafeNext, PTL DEF Spec

\* The marker never holds an ordering record the handler would refuse, and the
\* record names events that really were handled.
THEOREM MarkerIsTruthful == Spec => []MarkerTruthful
  BY Safe, PTL DEF SafeInv

\* The record of the alert as a whole: its types, and that the marker is one
\* the handler accepts, naming events that were handled.
THEOREM RecordIsSound == Spec => []RecordInv
  BY Typed, MarkerIsTruthful, PTL DEF RecordInv

\* No handled failure is lost, in whatever order the calls arrive.
THEOREM NoHandledFailureIsLost == Spec => []HandledIsRecorded
  BY Safe, PTL DEF SafeInv

\* Only a handled success newer than the recorded failure closes the alert.
THEOREM OnlyRecoveryCloses == Spec => []ClosedIsRecovered
  BY Safe, PTL DEF SafeInv

\* The handler's writes only move the ordering record forward: a replayed or
\* late event never undoes a newer one.
THEOREM RecordNeverMovesBack == Spec => RecordMovesForward
  <1>1. SafeInv /\ [Next]_vars =>
          [issue' # issue /\ interventions' = interventions /\ issue.state # "none"
             => /\ Before(issue.last_event, issue'.last_event)
                /\ AtMost(issue.last_failure, issue'.last_failure)]_vars
    <2> SUFFICES ASSUME SafeInv, Next, issue' # issue, interventions' = interventions,
                        issue.state # "none"
                 PROVE  /\ Before(issue.last_event, issue'.last_event)
                        /\ AtMost(issue.last_failure, issue'.last_failure)
      BY DEF vars
    <2>1. CASE Forge \/ Fault
      BY <2>1 DEF Forge, Start, Rerun, Complete, Fault, Raise
    <2>2. CASE Person
      BY <2>2 DEF Person, PersonSetsState, PersonRedelivers, SafeInv, TypeInv, TypeOK
    <2>3. CASE Patch
      <3>1. /\ ev \in Events /\ issue \in Issues /\ snap.last_failure = issue.last_failure
            /\ Before(issue.last_event, order(ev))
            /\ AtMost(issue.last_failure, issue.last_event)
        BY <2>3, SMT DEF Patch, SafeInv, TypeInv, TypeOK, CallHasEvent, CallAdvances, MarkerTruthful
      <3>2. AtMost(issue.last_failure, order(ev))
        <4>1. order(ev) \in Orders /\ issue.last_event \in Orders /\ issue.last_failure \in Orders
          BY <3>1, EventOrder DEF Issues
        <4> QED
          BY <3>1, <4>1, OrderTransitive DEF AtMost
      <3>3. /\ issue'.last_event = order(ev)
            /\ issue'.last_failure \in {order(ev), issue.last_failure}
        BY <2>3, <3>1 DEF Patch, Patched, Rewritten
      <3> QED
        BY <3>1, <3>2, <3>3 DEF AtMost
    <2>4. CASE Create
      BY <2>4 DEF Create, SafeInv, CallCreates
    <2>5. CASE Handler /\ ~Patch /\ ~Create
      BY <2>5 DEF Handler, Take, Prove, Find, FindAgain, ProveAgain, FreshIssue, FreshProve,
                  ListHistory, ProveLatest, Comment, Goto, Raise, Return
    <2> QED
      BY <2>1, <2>2, <2>3, <2>4, <2>5 DEF Next
  <1> QED
    BY <1>1, Safe, PTL DEF Spec, RecordMovesForward


-----------------------------------------------------------------------------
(* What lands over a red while a call is under way.                        *)

\* From the listing on, the call of a success knows of no newer red but those
\* whose events came in meanwhile, and nothing is taken out of the queue.
SinceListing ==
    \/ pc \in {"prove latest", "comment"}
    \/ pc = "patch" /\ ev.result = "success"
NewerRedsWait ==
    SinceListing => \A r \in RedAbove(order(ev)) : Cardinality(pending) < QueueCap => Waits(r)

\* The newest conclusive run has no red above it.
LEMMA NothingRedAbove ==
    ASSUME TypeOK, ev \in Events, IsLatestConclusive(ev)
    PROVE  RedAbove(order(ev)) = {}
  <1> SUFFICES ASSUME NEW r \in RedAbove(order(ev)) PROVE FALSE
    OBVIOUS
  <1>1. r \in Runs /\ Before(order(ev), <<r, runs[r].attempt>>) /\ r \in ConclusiveRuns
    BY DEF RedAbove, ConclusiveRuns, Conclusive
  <1>2. r <= ev.run /\ runs[ev.run].attempt = ev.attempt
    BY <1>1 DEF IsLatestConclusive
  <1>3. r \in Nat /\ ev.run \in Nat /\ ev.attempt \in Nat
    BY <1>1 DEF Events, Runs
  <1>4. ev.run < r \/ (ev.run = r /\ ev.attempt < runs[r].attempt)
    BY <1>1 DEF Before, order
  <1> QED
    BY <1>2, <1>3, <1>4

\* While nothing is taken out, a red that comes in waits, or finds the queue full.
LEMMA RedsComeIn ==
    ASSUME TypeOK, Forge \/ Person \/ UNCHANGED <<runs, pending>>, ev' = ev, ev \in Events,
           NewerRedsWait, SinceListing
    PROVE  NewerRedsWait'
  <1> SUFFICES ASSUME NEW r \in RedAbove(order(ev))', Cardinality(pending') < QueueCap
               PROVE  Waits(r)'
    BY DEF NewerRedsWait
  <1>1. pending \subseteq pending'
    BY DEF Forge, Start, Rerun, Complete, Person, PersonSetsState, PersonRedelivers
  <1>2. pending' = pending \/ Cardinality(pending) < QueueCap
    BY DEF Forge, Start, Rerun, Complete, Person, PersonSetsState, PersonRedelivers
  <1>3. Cardinality(pending) < QueueCap
    BY <1>2
  <1>4. /\ r \in Runs /\ Before(order(ev), <<r, runs'[r].attempt>>)
        /\ runs'[r].status = "completed" /\ runs'[r].result = "failure"
    BY DEF RedAbove, order
  <1>5. CASE runs'[r] = runs[r]
    <2>1. r \in RedAbove(order(ev))
      BY <1>4, <1>5 DEF RedAbove
    <2> QED
      BY <1>1, <1>3, <1>5, <2>1 DEF NewerRedsWait, Waits
  <1>6. CASE runs'[r] # runs[r]
    <2>1. PICK q \in Runs : Start(q) \/ Rerun(q) \/ \E result \in Results, agrees \in BOOLEAN : Complete(q, result, agrees)
      BY <1>6 DEF Forge, Person, PersonSetsState, PersonRedelivers
    <2>2. runs \in [Runs -> RunStates]
      BY DEF TypeOK
    <2>3. q = r
      <3>1. CASE Start(q)
        BY <1>4, <1>6, <2>2, <3>1 DEF Start
      <3>2. CASE Rerun(q)
        BY <1>4, <1>6, <2>2, <3>2 DEF Rerun
      <3>3. CASE \E result \in Results, agrees \in BOOLEAN : Complete(q, result, agrees)
        BY <1>4, <1>6, <2>2, <3>3 DEF Complete
      <3> QED
        BY <2>1, <3>1, <3>2, <3>3
    <2>4. ~Start(q) /\ ~Rerun(q)
      BY <1>4, <2>2, <2>3 DEF Start, Rerun, RunStates
    <2>5. PICK result \in Results, agrees \in BOOLEAN : Complete(q, result, agrees)
      BY <2>1, <2>4
    <2>6. runs'[r].attempt = runs[r].attempt /\ runs'[r].result = result
      BY <2>2, <2>3, <2>5 DEF Complete, RunStates
    <2>7. pending' = pending \cup {[run |-> r, attempt |-> runs[r].attempt, result |-> result]}
      BY <1>3, <2>3, <2>5 DEF Complete
    <2> QED
      BY <1>4, <2>6, <2>7 DEF Waits
  <1> QED
    BY <1>5, <1>6

LEMMA RedsWaitNext ==
    ASSUME SafeInv, NewerRedsWait, [Next]_vars
    PROVE  NewerRedsWait'
  <1>1. TypeOK /\ TypeInv
    BY DEF SafeInv, TypeInv
  <1> SUFFICES ASSUME SinceListing' PROVE NewerRedsWait'
    BY DEF NewerRedsWait
  <1>2. CASE Forge \/ Person \/ UNCHANGED vars
    <2>1. UNCHANGED call
      BY <1>2 DEF Forge, Start, Rerun, Complete, Person, PersonSetsState, PersonRedelivers, vars, call
    <2>2. SinceListing /\ ev' = ev
      BY <2>1 DEF SinceListing, call
    <2>3. ev \in Events
      BY <1>1, <2>2 DEF TypeInv, CallHasEvent, SinceListing
    <2> QED
      BY <1>1, <1>2, <2>2, <2>3, RedsComeIn DEF vars
  <1>3. CASE Fault
    BY <1>3 DEF Fault, Raise, EndCall, SinceListing
  <1>4. CASE ListHistory
    <2>1. ev \in Events
      BY <1>1, <1>4 DEF ListHistory, TypeInv, CallHasEvent
    <2>2. IsLatestConclusive(ev) /\ ev' = ev /\ runs' = runs
      BY <1>4 DEF ListHistory, Raise, EndCall, Goto, SinceListing, environment
    <2>3. RedAbove(order(ev)) = {}
      BY <1>1, <2>1, <2>2, NothingRedAbove
    <2>4. RedAbove(order(ev))' = {}
      BY <2>2, <2>3 DEF RedAbove, order
    <2> QED
      BY <2>4 DEF NewerRedsWait
  <1>5. CASE ProveLatest
    <2>1. SinceListing /\ ev' = ev /\ UNCHANGED <<runs, pending>>
      BY <1>5 DEF ProveLatest, Raise, EndCall, Goto, SinceListing, environment
    <2>2. ev \in Events
      BY <1>1, <2>1 DEF TypeInv, CallHasEvent, SinceListing
    <2> QED
      BY <1>1, <2>1, <2>2, RedsComeIn
  <1>6. CASE Handler /\ ~ListHistory /\ ~ProveLatest
    BY <1>6 DEF Handler, Take, Prove, Find, FindAgain, ProveAgain, Create, FreshIssue, FreshProve,
                Comment, Patch, Raise, Return, EndCall, Goto, SinceListing
  <1> QED
    BY <1>2, <1>3, <1>4, <1>5, <1>6 DEF Next

\* A recovery written while a newer run was failing is corrected later: that
\* run's own event is waiting then, unless the queue of waiting calls is full.
THEOREM RacedRecoveryIsCorrected == Spec => RecoveryOverRedIsPending
  <1>1. Init => NewerRedsWait
    BY DEF Init, NewerRedsWait, SinceListing
  <1>2. SafeInv /\ NewerRedsWait /\ [Next]_vars =>
          [\/ comments' # comments
           \/ issue.state = "open" /\ issue'.state = "closed" /\ interventions' = interventions
           => \A r \in RedAbove(order(ev)) : Cardinality(pending) < QueueCap => Waits(r)]_vars
    <2> SUFFICES ASSUME SafeInv, NewerRedsWait, Next,
                        \/ comments' # comments
                        \/ issue.state = "open" /\ issue'.state = "closed" /\ interventions' = interventions
                 PROVE  SinceListing
      BY DEF NewerRedsWait
    <2>1. CASE comments' # comments
      <3>1. Comment
        BY <2>1 DEF Next, Forge, Start, Rerun, Complete, Person, PersonSetsState, PersonRedelivers, Fault,
                    Handler, Take, Prove, Find, FindAgain, ProveAgain, Create, FreshIssue, FreshProve,
                    ListHistory, ProveLatest, Patch, Raise, Return, Goto
      <3> QED
        BY <3>1 DEF Comment, SinceListing
    <2>2. CASE issue.state = "open" /\ issue'.state = "closed" /\ interventions' = interventions
      <3>1. ~Person
        <4>1. interventions \in Nat /\ interventions' # interventions + 1
          BY <2>2, BoundsAssumption DEF SafeInv, TypeInv, TypeOK
        <4> QED
          BY <2>2, <4>1 DEF Person, PersonSetsState, PersonRedelivers
      <3>2. Patch
        <4>1. CASE Create
          BY <2>2, <4>1 DEF Create, SafeInv, CallCreates
        <4>2. CASE Forge \/ Fault \/ (Handler /\ ~Create /\ ~Patch)
          <5>1. issue' = issue
            BY <4>2 DEF Forge, Start, Rerun, Complete, Fault, Handler, Take, Prove, Find, FindAgain,
                        ProveAgain, FreshIssue, FreshProve, ListHistory, ProveLatest, Comment, Raise, Goto
          <5> QED
            BY <2>2, <5>1
        <4> QED
          BY <3>1, <4>1, <4>2 DEF Next
      <3>3. ev.result = "success"
        BY <2>2, <3>2 DEF Patch, Patched, Rewritten
      <3> QED
        BY <3>2, <3>3 DEF Patch, SinceListing
    <2> QED
      BY <2>1, <2>2
  <1> QED
    BY <1>1, <1>2, RedsWaitNext, Safe, PTL DEF Spec, RecoveryOverRedIsPending
=============================================================================
