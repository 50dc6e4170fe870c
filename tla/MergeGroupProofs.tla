-------------------------- MODULE MergeGroupProofs --------------------------
(***************************************************************************)
(* Proofs about the two checks a merge group waits for.  MainRedGate: for  *)
(* every number of runs, every read budget and every length of the hold.   *)
(* CiOkPolling: for every set of workflows and jobs, every number of       *)
(* workflow runs, polls and missed reads.                                  *)
(***************************************************************************)
EXTENDS MainRedGate, CiOkPolling, FiniteSetTheorems, SequenceTheorems, WellFoundedInduction, TLAPS

-----------------------------------------------------------------------------
(* The gate on a red trunk: the inductive invariant.                       *)

\* The call has an answer exactly when it has ended.
AnswerEnds == outcome # "none" <=> pc = "done"

\* The runs that exist are the oldest commits'.
RunsAreAPrefix == \E n \in 0..NumRuns : \A r \in Runs : runs[r] # "absent" <=> r <= n

\* The scan reads downwards on the group's line: the run that decides ends it,
\* and the unfinished run it passed is newer.
ScanGoesDown ==
    /\ deciding # 0 => cursor = 0 /\ deciding <= base
    /\ deciding = 0 <=> verdict = "unknown"
    /\ running # 0 => cursor < running /\ deciding < running /\ running <= base

\* A verdict that stood at the listing is still there, and is yet to be read
\* unless the scan has ended at it or at a newer one.
KnownIsAhead ==
    \A r \in known : /\ r <= base /\ runs[r] \in Conclusive
                     /\ r <= cursor \/ r <= deciding

\* Past the scan nothing is left to read, and the trunk is red.
ScanIsOver ==
    /\ ScanEnded => cursor = 0
    /\ pc \in {"read pull", "hold", "list pulls"} => verdict = "red"

\* Only an enforcing gate holds, for a pull request that was once not the way
\* back, and it waits over the red it began with.
HoldIsEnforced ==
    /\ Holding => mode = "enforce" /\ ~alwaysWayBack
    /\ pc = "hold" => Holding /\ deciding = initialRed /\ running # 0

\* What the steps before the answer established.
ReadsAgree ==
    /\ pc = "eligible" => mode = "enforce"
    /\ pc = "list pulls" => running = 0 /\ ~alwaysWayBack
    /\ alwaysWayBack => isWayBack
    /\ isWayBack => everWayBack

IInv ==
    /\ TypeOK
    /\ AnswerEnds /\ RunsAreAPrefix
    /\ ScanGoesDown /\ KnownIsAhead /\ ScanIsOver
    /\ HoldIsEnforced /\ ReadsAgree
    /\ ObserveNeverRefuses /\ WayBackIsNeverJammed /\ OrdinaryNeverPassesRed

USE DEF runVars, pullVars, inputs, scan, hold, environment

LEMMA BoundsAreNaturals ==
    NumRuns \in Nat /\ HoldTicks \in Nat /\ MaxReruns \in Nat /\ MaxFaults \in Nat /\ MaxEdits \in Nat
  BY GateAssumption

LEMMA Counts ==
    IInv =>
           /\ base \in 0..NumRuns /\ known \subseteq 1..NumRuns
           /\ listed \in 0..NumRuns /\ cursor \in 0..NumRuns /\ deciding \in 0..NumRuns
           /\ running \in 0..NumRuns /\ initialRed \in 0..NumRuns
           /\ remaining \in 0..HoldTicks
           /\ reruns \in 0..MaxReruns /\ faults \in 0..MaxFaults
  BY DEF IInv, TypeOK, Runs

LEMMA OneMoreFault ==
    ASSUME faults \in 0..MaxFaults, faults' = faults \/ (faults' = faults + 1 /\ faults < MaxFaults)
    PROVE  faults' \in 0..MaxFaults
  BY BoundsAreNaturals

LEMMA OneMoreFaultIsSome ==
    ASSUME faults \in 0..MaxFaults, faults' = faults + 1
    PROVE  faults' > 0 /\ faults' # 0
  BY BoundsAreNaturals

LEMMA OnePollLess ==
    ASSUME remaining \in 0..HoldTicks, remaining > 0, remaining' = remaining - 1
    PROVE  remaining' \in 0..HoldTicks
  BY BoundsAreNaturals

LEMMA FullHold == HoldTicks \in 0..HoldTicks
  BY BoundsAreNaturals

LEMMA InitIInv == Init => IInv
  <1> SUFFICES ASSUME Init PROVE IInv
    OBVIOUS
  <1>1. TypeOK
    BY GateAssumption DEF Init, TypeOK, NoHold, Runs, RunStates, Steps, Outcomes
  <1>2. RunsAreAPrefix
    BY GateAssumption DEF Init, RunsAreAPrefix, Runs
  <1>3. AnswerEnds /\ ScanGoesDown /\ KnownIsAhead /\ ScanIsOver
    BY GateAssumption DEF Init, AnswerEnds, ScanGoesDown, KnownIsAhead, ScanIsOver, ScanEnded
  <1>4. HoldIsEnforced /\ ReadsAgree
    BY DEF Init, HoldIsEnforced, ReadsAgree, Holding
  <1>5. ObserveNeverRefuses /\ WayBackIsNeverJammed /\ OrdinaryNeverPassesRed
    BY DEF Init, ObserveNeverRefuses, WayBackIsNeverJammed, OrdinaryNeverPassesRed, Holding, Refusals
  <1> QED
    BY <1>1, <1>2, <1>3, <1>4, <1>5 DEF IInv

\* The parts of the invariant that read nothing a person or the forge changes.
LEMMA CallKept ==
    ASSUME IInv,
           UNCHANGED <<inputs, pc, listed, cursor, deciding, verdict, running, hold, outcome, faults>>
    PROVE  (AnswerEnds /\ ScanGoesDown /\ ScanIsOver /\ ObserveNeverRefuses)'
  BY DEF IInv, AnswerEnds, ScanGoesDown, ScanIsOver, ScanEnded, ObserveNeverRefuses, Holding

LEMMA StartRunStep ==
    ASSUME IInv, NEW r \in Runs, StartRun(r)
    PROVE  IInv'
  <1> USE DEF StartRun
  <1>1. TypeOK'
    BY DEF IInv, TypeOK, RunStates
  <1>2. RunsAreAPrefix'
    <2>1. PICK n \in 0..NumRuns : \A s \in Runs : runs[s] # "absent" <=> s <= n
      BY DEF IInv, RunsAreAPrefix
    <2>2. r = n + 1 /\ n + 1 \in 0..NumRuns
      BY <2>1, GateAssumption DEF Runs
    <2>3. \A s \in Runs : runs'[s] # "absent" <=> s <= n + 1
      BY <2>1, <2>2, GateAssumption DEF Runs, IInv, TypeOK
    <2> QED
      BY <2>2, <2>3 DEF RunsAreAPrefix
  <1>3. (AnswerEnds /\ ScanGoesDown /\ ScanIsOver /\ ObserveNeverRefuses)'
    BY CallKept
  <1>4. KnownIsAhead'
    BY DEF IInv, KnownIsAhead, TypeOK, Conclusive, Failed
  <1>5. (HoldIsEnforced /\ ReadsAgree /\ WayBackIsNeverJammed /\ OrdinaryNeverPassesRed)'
    BY DEF IInv, HoldIsEnforced, ReadsAgree, WayBackIsNeverJammed, OrdinaryNeverPassesRed, Holding
  <1> QED
    BY <1>1, <1>2, <1>3, <1>4, <1>5 DEF IInv

LEMMA FinishRunStep ==
    ASSUME IInv, NEW r \in Runs, NEW conclusion \in {"success", Failed, PassedOver},
           FinishRun(r, conclusion)
    PROVE  IInv'
  <1> USE DEF FinishRun, Failed, PassedOver
  <1>1. TypeOK'
    BY DEF IInv, TypeOK, RunStates
  <1>2. RunsAreAPrefix'
    <2>1. \A s \in Runs : runs'[s] # "absent" <=> runs[s] # "absent"
      BY DEF IInv, TypeOK
    <2> QED
      BY <2>1 DEF IInv, RunsAreAPrefix
  <1>3. (AnswerEnds /\ ScanGoesDown /\ ScanIsOver /\ ObserveNeverRefuses)'
    BY CallKept
  <1>4. KnownIsAhead'
    BY DEF IInv, KnownIsAhead, TypeOK, Conclusive
  <1>5. (HoldIsEnforced /\ ReadsAgree /\ WayBackIsNeverJammed /\ OrdinaryNeverPassesRed)'
    BY DEF IInv, HoldIsEnforced, ReadsAgree, WayBackIsNeverJammed, OrdinaryNeverPassesRed, Holding
  <1> QED
    BY <1>1, <1>2, <1>3, <1>4, <1>5 DEF IInv

LEMMA RerunRunStep ==
    ASSUME IInv, NEW r \in Runs, RerunRun(r)
    PROVE  IInv'
  <1> USE DEF RerunRun, Failed, PassedOver
  <1>1. TypeOK'
    BY GateAssumption DEF IInv, TypeOK, RunStates
  <1>2. RunsAreAPrefix'
    <2>1. \A s \in Runs : runs'[s] # "absent" <=> runs[s] # "absent"
      BY DEF IInv, TypeOK
    <2> QED
      BY <2>1 DEF IInv, RunsAreAPrefix
  <1>3. (AnswerEnds /\ ScanGoesDown /\ ScanIsOver /\ ObserveNeverRefuses)'
    BY CallKept
  <1>4. KnownIsAhead'
    BY DEF IInv, KnownIsAhead, TypeOK, Conclusive
  <1>5. (HoldIsEnforced /\ ReadsAgree /\ WayBackIsNeverJammed /\ OrdinaryNeverPassesRed)'
    BY DEF IInv, HoldIsEnforced, ReadsAgree, WayBackIsNeverJammed, OrdinaryNeverPassesRed, Holding
  <1> QED
    BY <1>1, <1>2, <1>3, <1>4, <1>5 DEF IInv

LEMMA EditPullStep ==
    ASSUME IInv, NEW own \in BOOLEAN, NEW other \in BOOLEAN, EditPull(own, other)
    PROVE  IInv'
  <1> USE DEF EditPull
  <1>1. TypeOK'
    <2>1. (alwaysWayBack /\ own) \in BOOLEAN /\ (everWayBack \/ own) \in BOOLEAN
      OBVIOUS
    <2>2. {own, other, everWayBack', alwaysWayBack'} \subseteq BOOLEAN
      BY <2>1, Zenon
    <2> QED
      BY <2>2, GateAssumption DEF IInv, TypeOK
  <1>2. (AnswerEnds /\ ScanGoesDown /\ ScanIsOver /\ ObserveNeverRefuses)'
    BY CallKept
  <1>3. RunsAreAPrefix' /\ KnownIsAhead'
    BY DEF IInv, RunsAreAPrefix, KnownIsAhead
  <1>4. outcome' = "none" /\ pc' # "done"
    BY DEF IInv, AnswerEnds
  <1>5. (WayBackIsNeverJammed /\ OrdinaryNeverPassesRed)'
    BY <1>4 DEF WayBackIsNeverJammed, OrdinaryNeverPassesRed, Refusals
  <1>6. HoldIsEnforced' /\ ReadsAgree'
    BY DEF IInv, HoldIsEnforced, ReadsAgree, Holding
  <1> QED
    BY <1>1, <1>2, <1>3, <1>5, <1>6 DEF IInv

\* Ends of the call.  A refusal by the deadline needs a hold.
LEMMA ExpireStep ==
    ASSUME IInv, pc # "done", Expire, Holding
    PROVE  IInv'
  <1> USE DEF Expire, Decide
  <1>1. TypeOK'
    BY DEF IInv, TypeOK, Steps, Outcomes
  <1>2. (AnswerEnds /\ RunsAreAPrefix /\ ScanGoesDown /\ KnownIsAhead)'
    BY DEF IInv, AnswerEnds, RunsAreAPrefix, ScanGoesDown, KnownIsAhead
  <1>3. (ScanIsOver /\ HoldIsEnforced /\ ReadsAgree)'
    BY DEF IInv, ScanIsOver, ScanEnded, HoldIsEnforced, ReadsAgree, Holding
  <1>4. (ObserveNeverRefuses /\ WayBackIsNeverJammed /\ OrdinaryNeverPassesRed)'
    BY DEF IInv, HoldIsEnforced, ObserveNeverRefuses, WayBackIsNeverJammed, OrdinaryNeverPassesRed,
           Holding, Refusals
  <1> QED
    BY <1>1, <1>2, <1>3, <1>4 DEF IInv

LEMMA StartStep ==
    ASSUME IInv, Start
    PROVE  IInv'
  <1> USE DEF Start, Decide, GoTo
  <1>1. TypeOK'
    BY DEF IInv, TypeOK, Steps, Outcomes
  <1>2. (AnswerEnds /\ RunsAreAPrefix /\ ScanGoesDown /\ KnownIsAhead)'
    BY DEF IInv, AnswerEnds, RunsAreAPrefix, ScanGoesDown, KnownIsAhead
  <1>3. (ScanIsOver /\ HoldIsEnforced /\ ReadsAgree)'
    BY DEF IInv, AnswerEnds, ScanIsOver, ScanEnded, HoldIsEnforced, ReadsAgree, Holding
  <1>4. (ObserveNeverRefuses /\ WayBackIsNeverJammed /\ OrdinaryNeverPassesRed)'
    BY DEF IInv, AnswerEnds, ObserveNeverRefuses, WayBackIsNeverJammed, OrdinaryNeverPassesRed,
           Holding, Refusals
  <1> QED
    BY <1>1, <1>2, <1>3, <1>4 DEF IInv

\* The listing holds exactly the runs there are.
LEMMA ListingIsComplete ==
    ASSUME IInv, NEW n \in 0..NumRuns, n = Cardinality({r \in Runs : runs[r] # "absent"})
    PROVE  \A r \in Runs : runs[r] # "absent" => r <= n
  <1>1. PICK k \in 0..NumRuns : \A r \in Runs : runs[r] # "absent" <=> r <= k
    BY DEF IInv, RunsAreAPrefix
  <1>2. {r \in Runs : runs[r] # "absent"} = 1..k
    BY <1>1, GateAssumption DEF Runs
  <1>3. Cardinality(1..k) = k
    BY FS_Interval, GateAssumption
  <1> QED
    BY <1>1, <1>2, <1>3

LEMMA ListingIsBounded ==
    ASSUME IInv
    PROVE  Cardinality({r \in Runs : runs[r] # "absent"}) \in 0..NumRuns
  <1>1. PICK k \in 0..NumRuns : \A r \in Runs : runs[r] # "absent" <=> r <= k
    BY DEF IInv, RunsAreAPrefix
  <1>2. {r \in Runs : runs[r] # "absent"} = 1..k
    BY <1>1, GateAssumption DEF Runs
  <1>3. Cardinality(1..k) = k
    BY FS_Interval, GateAssumption
  <1> QED
    BY <1>2, <1>3

LEMMA ListStep ==
    ASSUME IInv, List
    PROVE  IInv'
  <1> USE DEF List
  <1>1. CASE Expired /\ Expire
    BY <1>1, ExpireStep DEF Expired
  <1>2. CASE ~(Expired /\ Expire)
    <2>1. PICK n \in 0..NumRuns : n = Cardinality({r \in Runs : runs[r] # "absent"})
      BY ListingIsBounded
    <2>2. \A r \in Runs : runs[r] # "absent" => r <= n
      BY <2>1, ListingIsComplete
    <2>3. listed' = n /\ cursor' = n /\ deciding' = 0 /\ verdict' = "unknown" /\ running' = 0
      BY <1>2, <2>1
    <2>4. pc' = "scan" /\ UNCHANGED <<environment, hold, faults, outcome>>
      BY <1>2 DEF GoTo
    <2>5. known' = {r \in Runs : r <= base /\ runs[r] \in Conclusive}
      BY <1>2
    <2>6. TypeOK'
      BY <2>3, <2>4, <2>5, GateAssumption DEF IInv, TypeOK, Steps
    <2>7. KnownIsAhead'
      BY <2>2, <2>3, <2>4, <2>5 DEF KnownIsAhead, Conclusive, Failed
    <2>8. AnswerEnds' /\ RunsAreAPrefix' /\ ScanGoesDown'
      BY <2>3, <2>4 DEF IInv, AnswerEnds, RunsAreAPrefix, ScanGoesDown
    <2>9. outcome' = "none"
      BY <2>4 DEF IInv, AnswerEnds
    <2>10. (ScanIsOver /\ HoldIsEnforced /\ ReadsAgree)'
      BY <2>4, <2>9 DEF IInv, ScanIsOver, ScanEnded, HoldIsEnforced, ReadsAgree, Holding
    <2>11. (ObserveNeverRefuses /\ WayBackIsNeverJammed /\ OrdinaryNeverPassesRed)'
      BY <2>4, <2>9 DEF IInv, ObserveNeverRefuses, WayBackIsNeverJammed, OrdinaryNeverPassesRed,
             Holding, Refusals
    <2> QED
      BY <2>6, <2>7, <2>8, <2>10, <2>11 DEF IInv
  <1> QED
    BY <1>1, <1>2

LEMMA ReadRunStep ==
    ASSUME IInv, pc = "scan", ReadRun
    PROVE  IInv'
  <1> USE DEF ReadRun, GoTo
  <1>1. cursor \in 1..NumRuns /\ deciding = 0 /\ outcome = "none"
    BY GateAssumption DEF IInv, TypeOK, ScanGoesDown, AnswerEnds
  <1>2. TypeOK'
    BY <1>1, GateAssumption DEF IInv, TypeOK, Steps
  <1>3. KnownIsAhead'
    BY <1>1, GateAssumption DEF IInv, TypeOK, KnownIsAhead, Decides, Runs
  <1>4. ScanGoesDown'
    BY <1>1, GateAssumption DEF IInv, TypeOK, ScanGoesDown, Decides
  <1>5. AnswerEnds' /\ RunsAreAPrefix'
    BY DEF IInv, AnswerEnds, RunsAreAPrefix
  <1>6. (ScanIsOver /\ HoldIsEnforced /\ ReadsAgree)'
    BY <1>1 DEF IInv, ScanIsOver, ScanEnded, HoldIsEnforced, ReadsAgree, Holding
  <1>7. (ObserveNeverRefuses /\ WayBackIsNeverJammed /\ OrdinaryNeverPassesRed)'
    BY <1>1 DEF IInv, ObserveNeverRefuses, WayBackIsNeverJammed, OrdinaryNeverPassesRed,
           Holding, Refusals
  <1> QED
    BY <1>2, <1>3, <1>4, <1>5, <1>6, <1>7 DEF IInv

\* An answer after the scan leaves what was read as it is.
LEMMA AnswerStep ==
    ASSUME IInv, pc # "done", NEW result \in Outcomes \ {"none"}, Decide(result),
           UNCHANGED <<environment, scan, hold>>,
           faults' = faults \/ (faults' = faults + 1 /\ faults < MaxFaults),
           result \in {"admit: not red", "admit: no motion", "refuse: newer red", "refuse: motion"}
               => cursor = 0,
           (ObserveNeverRefuses /\ WayBackIsNeverJammed /\ OrdinaryNeverPassesRed)'
    PROVE  IInv'
  <1> USE DEF Decide
  <1>1. TypeOK'
    <2>1. faults' \in 0..MaxFaults
      BY Counts, OneMoreFault
    <2> QED
      BY <2>1 DEF IInv, TypeOK, Steps
  <1>2. (AnswerEnds /\ RunsAreAPrefix /\ ScanGoesDown /\ KnownIsAhead)'
    BY DEF IInv, AnswerEnds, RunsAreAPrefix, ScanGoesDown, KnownIsAhead
  <1>3. (ScanIsOver /\ HoldIsEnforced /\ ReadsAgree)'
    BY DEF IInv, ScanIsOver, ScanEnded, HoldIsEnforced, ReadsAgree, Holding
  <1> QED
    BY <1>1, <1>2, <1>3 DEF IInv

\* A step within the call gives no answer: what is said of answers is kept.
LEMMA NoAnswerYet ==
    ASSUME IInv, pc # "done", pc' # "done", UNCHANGED outcome
    PROVE  (AnswerEnds /\ WayBackIsNeverJammed /\ OrdinaryNeverPassesRed)'
  BY DEF IInv, AnswerEnds, WayBackIsNeverJammed, OrdinaryNeverPassesRed, Refusals

LEMMA HistoryIncompleteStep ==
    ASSUME IInv, pc = "scan", HistoryIncomplete
    PROVE  IInv'
  <1> USE DEF HistoryIncomplete
  <1>1. CASE mode # "enforce"
    <2>1. Decide("admit: observe")
      BY <1>1
    <2>2. (ObserveNeverRefuses /\ WayBackIsNeverJammed /\ OrdinaryNeverPassesRed)'
      BY <1>1, <2>1 DEF IInv, HoldIsEnforced, ObserveNeverRefuses, WayBackIsNeverJammed,
             OrdinaryNeverPassesRed, Refusals, Decide, Holding
    <2> QED
      BY <2>1, <2>2, AnswerStep DEF Outcomes
  <1>2. CASE mode = "enforce"
    <2>1. pc' = "eligible" /\ UNCHANGED outcome
      BY <1>2 DEF GoTo
    <2>2. (AnswerEnds /\ WayBackIsNeverJammed /\ OrdinaryNeverPassesRed)'
      BY <2>1, NoAnswerYet
    <2>3. TypeOK' /\ RunsAreAPrefix' /\ ScanGoesDown' /\ KnownIsAhead'
      BY <2>1 DEF IInv, TypeOK, Steps, RunsAreAPrefix, ScanGoesDown, KnownIsAhead
    <2>4. (ScanIsOver /\ HoldIsEnforced /\ ReadsAgree /\ ObserveNeverRefuses)'
      BY <2>1, <1>2 DEF IInv, AnswerEnds, ScanIsOver, ScanEnded, HoldIsEnforced, ReadsAgree,
             ObserveNeverRefuses, Holding
    <2> QED
      BY <2>2, <2>3, <2>4 DEF IInv
  <1> QED
    BY <1>1, <1>2

LEMMA JudgeStep ==
    ASSUME IInv, pc = "scan", Judge
    PROVE  IInv'
  <1> USE DEF Judge
  <1>1. CASE verdict # "red"
    <2>1. Decide("admit: not red")
      BY <1>1
    <2>2. (ObserveNeverRefuses /\ WayBackIsNeverJammed /\ OrdinaryNeverPassesRed)'
      BY <1>1, <2>1 DEF IInv, HoldIsEnforced, ObserveNeverRefuses, WayBackIsNeverJammed,
             OrdinaryNeverPassesRed, Refusals, Decide, Holding
    <2> QED
      BY <2>1, <2>2, AnswerStep DEF Outcomes
  <1>2. CASE verdict = "red"
    <2>1. pc' = "read pull" /\ UNCHANGED outcome
      BY <1>2 DEF GoTo
    <2>2. (AnswerEnds /\ WayBackIsNeverJammed /\ OrdinaryNeverPassesRed)'
      BY <2>1, NoAnswerYet
    <2>3. TypeOK' /\ RunsAreAPrefix' /\ ScanGoesDown' /\ KnownIsAhead'
      BY <2>1 DEF IInv, TypeOK, Steps, RunsAreAPrefix, ScanGoesDown, KnownIsAhead
    <2>4. (ScanIsOver /\ HoldIsEnforced /\ ReadsAgree /\ ObserveNeverRefuses)'
      BY <2>1, <1>2 DEF IInv, ScanIsOver, ScanEnded, HoldIsEnforced, ReadsAgree,
             ObserveNeverRefuses, Holding
    <2> QED
      BY <2>2, <2>3, <2>4 DEF IInv
  <1> QED
    BY <1>1, <1>2

LEMMA ScanStep ==
    ASSUME IInv, Scan
    PROVE  IInv'
  BY ExpireStep, ReadRunStep, HistoryIncompleteStep, JudgeStep DEF Scan, Expired

LEMMA EligibleStep ==
    ASSUME IInv, Eligible
    PROVE  IInv'
  <1> USE DEF Eligible
  <1>1. CASE ~Expired /\ isWayBack
    <2>1. Decide("admit: way back")
      BY <1>1
    <2>2. (ObserveNeverRefuses /\ WayBackIsNeverJammed /\ OrdinaryNeverPassesRed)'
      BY <1>1, <2>1 DEF IInv, HoldIsEnforced, ReadsAgree, ObserveNeverRefuses, WayBackIsNeverJammed,
             OrdinaryNeverPassesRed, Refusals, Decide, Holding
    <2> QED
      BY <2>1, <2>2, AnswerStep DEF Outcomes
  <1>2. CASE ~(~Expired /\ isWayBack)
    <2>1. Decide("refuse: history")
      BY <1>2
    <2>2. ~alwaysWayBack /\ mode = "enforce"
      BY <1>2 DEF IInv, HoldIsEnforced, ReadsAgree, Expired
    <2>3. (ObserveNeverRefuses /\ WayBackIsNeverJammed /\ OrdinaryNeverPassesRed)'
      BY <2>1, <2>2 DEF ObserveNeverRefuses, WayBackIsNeverJammed, OrdinaryNeverPassesRed,
             Refusals, Decide
    <2> QED
      BY <2>1, <2>3, AnswerStep DEF Outcomes
  <1> QED
    BY <1>1, <1>2

\* What decide answers for a pull request that was not the way back when it was
\* read, over a red trunk.
LEMMA OrdinaryAnswer ==
    ASSUME IInv, pc \in {"read pull", "list pulls"}, ~alwaysWayBack, NEW motion \in BOOLEAN,
           ~motion => running = 0 /\ ~otherWayBack,
           DecideOrdinary(motion), UNCHANGED <<environment, scan, hold, faults>>
    PROVE  IInv'
  <1>1. cursor = 0 /\ verdict = "red"
    BY DEF IInv, ScanIsOver, ScanEnded
  <1>2. CASE ~motion
    <2>1. Decide("admit: no motion")
      BY <1>2 DEF DecideOrdinary
    <2>2. (ObserveNeverRefuses /\ WayBackIsNeverJammed /\ OrdinaryNeverPassesRed)'
      BY <1>2, <2>1 DEF IInv, HoldIsEnforced, ObserveNeverRefuses, WayBackIsNeverJammed,
             OrdinaryNeverPassesRed, Refusals, Decide, Holding
    <2> QED
      BY <1>1, <2>1, <2>2, AnswerStep DEF Outcomes
  <1>3. CASE motion /\ mode = "enforce"
    <2>1. Decide("refuse: motion")
      BY <1>3 DEF DecideOrdinary
    <2>2. (ObserveNeverRefuses /\ WayBackIsNeverJammed /\ OrdinaryNeverPassesRed)'
      BY <1>3, <2>1 DEF ObserveNeverRefuses, WayBackIsNeverJammed, OrdinaryNeverPassesRed,
             Refusals, Decide
    <2> QED
      BY <1>1, <2>1, <2>2, AnswerStep DEF Outcomes
  <1>4. CASE motion /\ mode # "enforce"
    <2>1. Decide("admit: observe")
      BY <1>4 DEF DecideOrdinary
    <2>2. (ObserveNeverRefuses /\ WayBackIsNeverJammed /\ OrdinaryNeverPassesRed)'
      BY <1>4, <2>1 DEF IInv, HoldIsEnforced, ObserveNeverRefuses, WayBackIsNeverJammed,
             OrdinaryNeverPassesRed, Refusals, Decide, Holding
    <2> QED
      BY <1>1, <2>1, <2>2, AnswerStep DEF Outcomes
  <1> QED
    BY <1>2, <1>3, <1>4

LEMMA ListPullsStep ==
    ASSUME IInv, ListPulls
    PROVE  IInv'
  <1>1. ~alwaysWayBack /\ running = 0
    BY DEF IInv, ReadsAgree, ListPulls
  <1>2. PICK motion \in BOOLEAN : motion = Motion
    BY DEF Motion
  <1>3. ~motion => ~otherWayBack
    BY <1>2 DEF Motion, IInv, TypeOK
  <1> QED
    BY <1>1, <1>2, <1>3, OrdinaryAnswer DEF ListPulls

\* The steps of a red scan that give no answer.
LEMMA WaitStep ==
    ASSUME IInv, pc \in {"read pull", "hold"}, NEW step \in {"list", "hold", "list pulls"}, GoTo(step),
           UNCHANGED <<environment, scan, faults>>,
           initialRed' \in 0..NumRuns /\ remaining' \in 0..HoldTicks,
           Holding' => mode = "enforce" /\ ~alwaysWayBack,
           step = "hold" => pc = "read pull" /\ deciding = initialRed' /\ running # 0,
           step = "list pulls" => pc = "read pull" /\ running = 0 /\ ~alwaysWayBack
    PROVE  IInv'
  <1> USE DEF GoTo
  <1>1. (AnswerEnds /\ WayBackIsNeverJammed /\ OrdinaryNeverPassesRed)' /\ outcome' = "none"
    BY NoAnswerYet DEF IInv, AnswerEnds
  <1>2. TypeOK' /\ RunsAreAPrefix' /\ ScanGoesDown' /\ KnownIsAhead'
    BY DEF IInv, TypeOK, Steps, RunsAreAPrefix, ScanGoesDown, KnownIsAhead
  <1>3. ScanIsOver'
    BY <1>1 DEF IInv, ScanIsOver, ScanEnded
  <1>4. deciding # 0
    BY DEF IInv, ScanIsOver, ScanGoesDown
  <1>5. HoldIsEnforced' /\ ReadsAgree'
    BY <1>4 DEF IInv, HoldIsEnforced, ReadsAgree, Holding, NoHold
  <1>6. ObserveNeverRefuses'
    BY <1>1 DEF IInv, ObserveNeverRefuses, Holding, Refusals
  <1> QED
    BY <1>1, <1>2, <1>3, <1>5, <1>6 DEF IInv

LEMMA ReadPullStep ==
    ASSUME IInv, ReadPull
    PROVE  IInv'
  <1> USE DEF ReadPull
  <1>1. CASE Expired /\ Expire
    BY <1>1, ExpireStep DEF Expired
  <1>2. CASE ~Expired /\ isWayBack /\ Decide("admit: way back") /\ UNCHANGED <<environment, scan, faults, hold>>
    <2>1. (ObserveNeverRefuses /\ WayBackIsNeverJammed /\ OrdinaryNeverPassesRed)'
      BY <1>2 DEF IInv, HoldIsEnforced, ReadsAgree, ObserveNeverRefuses, WayBackIsNeverJammed,
             OrdinaryNeverPassesRed, Refusals, Decide, Holding
    <2> QED
      BY <1>2, <2>1, AnswerStep DEF Outcomes
  <1>3. CASE ~isWayBack /\ ~Holding /\ WaitsFor /\ BeginHold /\ UNCHANGED <<environment, scan, faults>>
    <2>1. HoldTicks \in 0..HoldTicks /\ deciding \in 0..NumRuns /\ ~alwaysWayBack
      BY <1>3, Counts, FullHold DEF IInv, ReadsAgree
    <2> QED
      BY <1>3, <2>1, WaitStep DEF WaitsFor, BeginHold
  <1>4. CASE ~isWayBack /\ ~Holding /\ ~WaitsFor /\ running # 0 /\ DecideOrdinary(TRUE)
             /\ UNCHANGED <<environment, scan, faults, hold>>
    BY <1>4, OrdinaryAnswer DEF IInv, ReadsAgree
  <1>5. CASE ~isWayBack /\ ~Holding /\ running = 0 /\ GoTo("list pulls")
             /\ UNCHANGED <<environment, scan, faults, hold>>
    <2>1. ~alwaysWayBack /\ ~Holding'
      BY <1>5 DEF IInv, ReadsAgree, Holding
    <2> QED
      BY <1>5, <2>1, WaitStep DEF IInv, TypeOK
  <1>6. CASE ~isWayBack /\ Holding /\ deciding # initialRed /\ Decide("refuse: newer red")
             /\ UNCHANGED <<environment, scan, faults, hold>>
    <2>1. cursor = 0 /\ ~alwaysWayBack /\ mode = "enforce"
      BY <1>6 DEF IInv, HoldIsEnforced, ScanIsOver, ScanEnded
    <2>2. (ObserveNeverRefuses /\ WayBackIsNeverJammed /\ OrdinaryNeverPassesRed)'
      BY <1>6, <2>1 DEF ObserveNeverRefuses, WayBackIsNeverJammed, OrdinaryNeverPassesRed,
             Refusals, Decide
    <2> QED
      BY <1>6, <2>1, <2>2, AnswerStep DEF Outcomes
  <1>7. CASE ~isWayBack /\ Holding /\ deciding = initialRed /\ UNCHANGED <<environment, scan, faults, hold>>
             /\ GoTo(IF running # 0 THEN "hold" ELSE "list pulls")
    <2>1. ~alwaysWayBack /\ mode = "enforce"
      BY <1>7 DEF IInv, HoldIsEnforced
    <2>2. CASE running # 0
      BY <1>7, <2>1, <2>2, WaitStep DEF IInv, TypeOK
    <2>3. CASE running = 0
      BY <1>7, <2>1, <2>3, WaitStep DEF IInv, TypeOK
    <2> QED
      BY <2>2, <2>3
  <1> QED
    BY <1>1, <1>2, <1>3, <1>4, <1>5, <1>6, <1>7

LEMMA HoldOnStep ==
    ASSUME IInv, HoldOn
    PROVE  IInv'
  <1> USE DEF HoldOn
  <1>1. Holding /\ mode = "enforce" /\ ~alwaysWayBack
    BY DEF IInv, HoldIsEnforced
  <1>2. CASE Expire
    BY <1>1, <1>2, ExpireStep
  <1>3. CASE remaining > 0 /\ remaining' = remaining - 1 /\ GoTo("list")
             /\ UNCHANGED <<environment, scan, initialRed, faults>>
    <2>1. remaining' \in 0..HoldTicks /\ initialRed' \in 0..NumRuns
      BY <1>3, GateAssumption DEF IInv, TypeOK
    <2> QED
      BY <1>1, <1>3, <2>1, WaitStep
  <1> QED
    BY <1>2, <1>3

LEMMA ReadFailsStep ==
    ASSUME IInv, ReadFails
    PROVE  IInv'
  <1> USE DEF ReadFails
  <1>1. faults' > 0 /\ faults' # 0 /\ faults' = faults + 1
    BY Counts, OneMoreFaultIsSome
  <1>2. CASE pc = "eligible"
    <2>1. Decide("refuse: history") /\ mode = "enforce"
      BY <1>2 DEF IInv, ReadsAgree
    <2>2. (ObserveNeverRefuses /\ WayBackIsNeverJammed /\ OrdinaryNeverPassesRed)'
      BY <1>1, <2>1 DEF ObserveNeverRefuses, WayBackIsNeverJammed, OrdinaryNeverPassesRed,
             Refusals, Decide
    <2> QED
      BY <1>1, <2>1, <2>2, AnswerStep DEF Outcomes
  <1>3. CASE pc # "eligible"
    <2>1. Decide("admit: unreadable")
      BY <1>3
    <2>2. (ObserveNeverRefuses /\ WayBackIsNeverJammed /\ OrdinaryNeverPassesRed)'
      <3>1. outcome' = "admit: unreadable" /\ faults' # 0
        BY <1>1, <2>1 DEF Decide
      <3>2. ObserveNeverRefuses'
        BY <3>1 DEF IInv, HoldIsEnforced, ObserveNeverRefuses, Refusals, Holding
      <3> QED
        BY <3>1, <3>2 DEF WayBackIsNeverJammed, OrdinaryNeverPassesRed, Refusals
    <2> QED
      BY <1>1, <2>1, <2>2, AnswerStep DEF Outcomes
  <1> QED
    BY <1>2, <1>3

LEMMA SlowReadStep ==
    ASSUME IInv, SlowRead
    PROVE  IInv'
  <1> USE DEF SlowRead
  <1>1. TypeOK'
    <2>1. remaining' \in 0..HoldTicks
      BY Counts, OnePollLess
    <2> QED
      BY <2>1 DEF IInv, TypeOK
  <1>2. (AnswerEnds /\ RunsAreAPrefix /\ ScanGoesDown /\ KnownIsAhead)'
    BY DEF IInv, AnswerEnds, RunsAreAPrefix, ScanGoesDown, KnownIsAhead
  <1>3. (ScanIsOver /\ HoldIsEnforced /\ ReadsAgree)'
    BY DEF IInv, ScanIsOver, ScanEnded, HoldIsEnforced, ReadsAgree, Holding
  <1>4. (ObserveNeverRefuses /\ WayBackIsNeverJammed /\ OrdinaryNeverPassesRed)'
    BY DEF IInv, ObserveNeverRefuses, WayBackIsNeverJammed, OrdinaryNeverPassesRed, Holding
  <1> QED
    BY <1>1, <1>2, <1>3, <1>4 DEF IInv

LEMMA UnchangedStep ==
    ASSUME IInv, UNCHANGED vars
    PROVE  IInv'
  BY DEF vars, IInv, TypeOK, AnswerEnds, RunsAreAPrefix, ScanGoesDown, KnownIsAhead, ScanIsOver,
         ScanEnded, HoldIsEnforced, ReadsAgree, ObserveNeverRefuses, WayBackIsNeverJammed,
         OrdinaryNeverPassesRed, Holding

LEMMA NextIInv ==
    ASSUME IInv, [Next]_vars
    PROVE  IInv'
  <1>1. ASSUME Forge PROVE IInv'
    BY <1>1, StartRunStep, FinishRunStep, RerunRunStep, EditPullStep DEF Forge
  <1>2. ASSUME Gate PROVE IInv'
    BY <1>2, StartStep, ListStep, ScanStep, ReadPullStep, HoldOnStep, ListPullsStep, EligibleStep
       DEF Gate
  <1> QED
    BY <1>1, <1>2, ReadFailsStep, SlowReadStep, UnchangedStep DEF Next

LEMMA Inductive == Spec => []IInv
  <1>1. Init => IInv
    BY InitIInv
  <1>2. IInv /\ [Next]_vars => IInv'
    BY NextIInv
  <1> QED
    BY <1>1, <1>2, PTL DEF Spec

-----------------------------------------------------------------------------
(* The properties.                                                         *)

LEMMA IInvGateInv == IInv => GateInv
  <1> SUFFICES ASSUME IInv PROVE GateInv
    OBVIOUS
  <1>1. NewestKnownVerdictDecides
    <2>1. \A r \in known : r <= cursor \/ r <= deciding
      BY DEF IInv, KnownIsAhead
    <2>2. ScanEnded => cursor = 0
      BY DEF IInv, ScanIsOver
    <2>3. deciding # 0 => deciding <= base
      BY DEF IInv, ScanGoesDown
    <2>4. deciding <= base
      BY <2>3, Counts, BoundsAreNaturals
    <2> QED
      BY <2>1, <2>2, <2>4, Counts, BoundsAreNaturals DEF NewestKnownVerdictDecides
  <1>2. HoldAwaitsNewerRun
    BY DEF IInv, HoldIsEnforced, ScanIsOver, ScanGoesDown, HoldAwaitsNewerRun
  <1> QED
    BY <1>1, <1>2 DEF IInv, GateInv

\* main_red_gate.py answers from the newest verdict that stood on the group's
\* line when the history was listed, whatever runs start, finish or are re-run
\* while it reads; it waits only for a newer run of that line, within the hold;
\* in observe mode it neither waits nor refuses.
THEOREM GateIsSound == Spec => []GateInv
  BY Inductive, IInvGateInv, PTL

\* A pull request that is the way back throughout is let through, whatever the
\* history, the hold and the other pull requests: only a malformed input, or an
\* exhausted history read with a failure, refuses it.
THEOREM WayBackPasses == Spec => []WayBackIsNeverJammed
  <1>1. IInv => WayBackIsNeverJammed
    BY DEF IInv
  <1> QED
    BY <1>1, Inductive, PTL

\* An enforcing gate that could read everything lets an ordinary group land on a
\* red trunk only when no newer run and no way back was seen.
THEOREM RedIsEnforced == Spec => []OrdinaryNeverPassesRed
  <1>1. IInv => OrdinaryNeverPassesRed
    BY DEF IInv
  <1> QED
    BY <1>1, Inductive, PTL

-----------------------------------------------------------------------------
(* The aggregate: the inductive invariant.                                 *)

Results == {"running", "success", "skipped", "failure", "cancelled"}
Check == [suite : Nat, name : Names, result : Results]

\* A run registers no more checks than it has jobs, none before it has opened,
\* and a run that was cut has no check that runs.
ChecksAreTheirJobs ==
    /\ checks \in Seq(Check)
    /\ \A c \in DOMAIN checks : checks[c].suite \in DOMAIN suites
    /\ \A s \in DOMAIN suites :
          /\ Cardinality(ChecksOf(s)) <= Len(Jobs[suites[s].flow])
          /\ suites[s].state = "queued" => Empty(s)
          /\ suites[s].state = "cut" => ~Running(s)

\* A run that ended with the checks it had among the first m, one whose next job
\* was due when the check runs were last read, or one that registered another since.
Ended(s, m) == Completed(s) /\ ~Empty(s) /\ \A c \in ChecksOf(s) : c <= m
Grown(s, m) == \E c \in ChecksOf(s) : c > m
Started(s, m) == \E c \in ChecksOf(s) : c <= m
Settled(s, m) == Ended(s, m) \/ (s \in late /\ Due(s)) \/ Grown(s, m)

\* What the first read of a poll leaves: the suites it will answer for have a check
\* by then or are among the empty ones, and a workflow that never started never will.
BeganIsRead ==
    phase \in {"runs", "events"} =>
        /\ began.suites \in 0 .. Len(suites) /\ began.checks \in 0 .. Len(checks)
        /\ began.obliged \subseteq DOMAIN suites
        /\ seen.waiting \subseteq DOMAIN suites /\ seen.unstarted \subseteq DOMAIN suites
        /\ \A s \in seen.unstarted : suites[s].state = "cut" /\ Empty(s)
        /\ \A s \in began.obliged :
              \/ \E c \in ChecksOf(s) : c <= began.checks
              \/ /\ config.readable /\ Gating(suites[s].flow)
                 /\ s \in seen.waiting \cup seen.unstarted

\* The check runs that were read are a prefix of those there are, and what had
\* ended then has ended so.
IsSnapshot(listing) ==
    /\ listing \in Seq(Check)
    /\ began.checks <= Len(listing) /\ Len(listing) <= Len(checks)
    /\ \A c \in 1 .. Len(listing) :
          /\ listing[c].suite = checks[c].suite /\ listing[c].name = checks[c].name
          /\ listing[c].result # "running" => checks[c].result = listing[c].result

\* A run all of whose checks had ended when the check runs were read is settled.
EndedThenIsSettled(listing) ==
    \A s \in DOMAIN suites :
        /\ \E c \in 1 .. Len(listing) : listing[c].suite = s
        /\ \A c \in 1 .. Len(listing) : listing[c].suite = s => listing[c].result # "running"
        => Settled(s, Len(listing))

\* A job that was due at the first of the equal results is on the second reading.
SinceTheFirst(listing) ==
    stable = 1 =>
        /\ obliged.checks <= Len(listing)
        /\ \A s \in obliged.suites :
              \/ Superseded(s) \/ Ended(s, obliged.checks)
              \/ \E c \in ChecksOf(s) : c > obliged.checks /\ c <= Len(listing)

RunsAreRead ==
    phase = "events" =>
        IsSnapshot(seen.runs) /\ EndedThenIsSettled(seen.runs) /\ SinceTheFirst(seen.runs)

\* The first of the results that are to be equal: what it counted has ended well.
CountedIn(n) ==
    {c \in 1 .. obliged.checks : /\ checks[c].name = n /\ checks[c].result # "cancelled"
                                 /\ checks[c].suite \notin obliged.replaced}
FirstResult ==
    phase # "done" =>
        /\ stable \in {0, 1}
        /\ stable = 1 =>
              /\ obliged.checks \in 0 .. Len(checks)
              /\ obliged.replaced \subseteq {s \in DOMAIN suites : Superseded(s)}
              /\ \A s \in obliged.suites :
                    Superseded(s) \/ (Started(s, obliged.checks) /\ Settled(s, obliged.checks))
              /\ \A c \in 1 .. obliged.checks : checks[c].suite \notin obliged.replaced =>
                    \/ checks[c].result \in {"success", "skipped"}
                    \/ /\ checks[c].result = "cancelled"
                       /\ \E d \in c + 1 .. obliged.checks : checks[d].name = checks[c].name
              /\ last = [n \in Names |-> Cardinality(CountedIn(n))]

PollInv ==
    /\ PollTypeOK /\ ChecksAreTheirJobs
    /\ BeganIsRead /\ RunsAreRead /\ FirstResult
    /\ PassIsComplete /\ PassIsClean /\ FailIsGenuine

-----------------------------------------------------------------------------
(* Workflow runs and their checks.                                         *)

LEMMA PollBounds ==
    MaxSuites \in Nat /\ MaxPolls \in Nat \ {0} /\ MaxMissed \in Nat
  BY ConstantsAssumption

LEMMA JobsOf ==
    ASSUME NEW f \in Flows
    PROVE  /\ Len(Jobs[f]) \in Nat \ {0}
           /\ \A i \in 1 .. Len(Jobs[f]) : Jobs[f][i] \in Names
  <1>1. Jobs[f] \in Seq(STRING) /\ Jobs[f] # <<>>
    BY ConstantsAssumption
  <1>2. Len(Jobs[f]) \in Nat \ {0} /\ DOMAIN Jobs[f] = 1 .. Len(Jobs[f])
    BY <1>1, LenProperties, EmptySeq
  <1> QED
    BY <1>2 DEF Names

LEMMA SuitesType ==
    ASSUME PollTypeOK
    PROVE  /\ Len(suites) \in Nat /\ DOMAIN suites = 1 .. Len(suites)
           /\ \A s \in DOMAIN suites :
                 suites[s] \in [flow : Flows, state : {"queued", "open", "cut"}]
  <1>1. suites \in Seq([flow : Flows, state : {"queued", "open", "cut"}])
    BY DEF PollTypeOK
  <1>2. /\ Len(suites) \in Nat /\ DOMAIN suites = 1 .. Len(suites)
        /\ suites \in [1 .. Len(suites) -> [flow : Flows, state : {"queued", "open", "cut"}]]
    BY <1>1, LenProperties
  <1> QED
    BY <1>2

LEMMA ChecksType ==
    ASSUME ChecksAreTheirJobs
    PROVE  /\ Len(checks) \in Nat /\ DOMAIN checks = 1 .. Len(checks)
           /\ \A c \in DOMAIN checks : checks[c] \in Check
  BY LenProperties, ElementOfSeq DEF ChecksAreTheirJobs

LEMMA RunsType ==
    ASSUME NEW listing \in Seq(Check)
    PROVE  /\ Len(listing) \in Nat /\ DOMAIN listing = 1 .. Len(listing)
           /\ \A c \in DOMAIN listing : listing[c] \in Check
  BY LenProperties, ElementOfSeq

LEMMA FiniteRange ==
    ASSUME NEW n \in Nat, NEW S \in SUBSET (1 .. n)
    PROVE  IsFiniteSet(S) /\ Cardinality(S) \in Nat
  <1>1. IsFiniteSet(1 .. n)
    BY FS_Interval
  <1>2. IsFiniteSet(S)
    BY <1>1, FS_Subset
  <1> QED
    BY <1>2, FS_CardinalityType

LEMMA ChecksOfAreFinite ==
    ASSUME ChecksAreTheirJobs, NEW s
    PROVE  IsFiniteSet(ChecksOf(s)) /\ Cardinality(ChecksOf(s)) \in Nat
  <1>1. ChecksOf(s) \in SUBSET (1 .. Len(checks)) /\ Len(checks) \in Nat
    BY ChecksType DEF ChecksOf
  <1> QED
    BY <1>1, FiniteRange

LEMMA SameDomain ==
    ASSUME NEW S, NEW q \in Seq(S), NEW T, NEW r \in [DOMAIN q -> T]
    PROVE  r \in Seq(T) /\ Len(r) = Len(q)
  <1>1. Len(q) \in Nat /\ DOMAIN q = 1 .. Len(q)
    BY LenProperties
  <1>2. r \in Seq(T)
    BY <1>1, SeqDef
  <1>3. Len(r) \in Nat /\ DOMAIN r = 1 .. Len(r)
    BY <1>2, LenProperties
  <1> QED
    BY <1>1, <1>2, <1>3

\* A run that is due has opened, has jobs left and none running.
LEMMA DueRun ==
    ASSUME PollTypeOK, ChecksAreTheirJobs, NEW s \in DOMAIN suites, Due(s)
    PROVE  /\ suites[s].state = "open" /\ ~Completed(s) /\ ~Running(s)
           /\ Cardinality(ChecksOf(s)) + 1 <= Len(Jobs[suites[s].flow])
           /\ NextJob(s) \in Names
  <1>1. suites[s].flow \in Flows
    BY SuitesType
  <1>2. Cardinality(ChecksOf(s)) \in Nat /\ Len(Jobs[suites[s].flow]) \in Nat
    BY <1>1, ChecksOfAreFinite, JobsOf
  <1>3. Cardinality(ChecksOf(s)) <= Len(Jobs[suites[s].flow])
    BY DEF ChecksAreTheirJobs
  <1>4. suites[s].state = "open" /\ ~AllJobs(s) /\ ~Running(s)
    BY DEF Due
  <1>5. Cardinality(ChecksOf(s)) + 1 \in 1 .. Len(Jobs[suites[s].flow])
    BY <1>2, <1>3, <1>4 DEF AllJobs
  <1>6. NextJob(s) \in Names
    BY <1>1, <1>5, JobsOf DEF NextJob
  <1> QED
    BY <1>2, <1>4, <1>5, <1>6 DEF Completed

-----------------------------------------------------------------------------
(* What every step of the forge keeps.                                     *)

Suite == [flow : Flows, state : {"queued", "open", "cut"}]

GoesOn ==
    /\ suites' \in Seq(Suite) /\ Len(suites') <= MaxSuites /\ Len(suites) <= Len(suites')
    /\ \A s \in DOMAIN suites :
          /\ suites'[s].flow = suites[s].flow
          /\ suites[s].state = "cut" => suites'[s].state = "cut"
    /\ checks' \in Seq(Check) /\ Len(checks) <= Len(checks')
    /\ \A c \in DOMAIN checks :
          /\ checks'[c].suite = checks[c].suite /\ checks'[c].name = checks[c].name
          /\ checks[c].result # "running" => checks'[c].result = checks[c].result
    /\ \A s \in DOMAIN suites : Completed(s) =>
          Completed(s)' /\ \A c \in DOMAIN checks' : checks'[c].suite = s => c \in DOMAIN checks
    /\ late' \subseteq DOMAIN suites
    /\ \A s \in late : Due(s) =>
          \/ s \in late' /\ Due(s)'
          \/ \E c \in DOMAIN checks' : checks'[c].suite = s /\ c > Len(checks)

LEMMA TriggerGoesOn ==
    ASSUME PollTypeOK, ChecksAreTheirJobs, NEW f \in Flows, Trigger(f)
    PROVE  GoesOn /\ ChecksAreTheirJobs'
  <1>1. PICK state \in {"queued", "cut"} : suites' = Append(suites, [flow |-> f, state |-> state])
    BY DEF Trigger
  <1>2. suites \in Seq(Suite) /\ [flow |-> f, state |-> state] \in Suite /\ UNCHANGED <<checks, late>>
    BY <1>1 DEF PollTypeOK, Trigger, Suite
  <1>3. /\ suites' \in Seq(Suite) /\ Len(suites') = Len(suites) + 1
        /\ \A s \in 1 .. Len(suites) : suites'[s] = suites[s]
        /\ suites'[Len(suites) + 1] = [flow |-> f, state |-> state]
    BY <1>1, <1>2, AppendProperties
  <1>4. Len(suites) \in Nat /\ DOMAIN suites = 1 .. Len(suites) /\ DOMAIN suites' = 1 .. Len(suites) + 1
    BY <1>3, SuitesType, LenProperties
  <1>5. Len(suites) + 1 <= MaxSuites
    BY <1>4, PollBounds DEF Trigger
  <1>6. \A s : ChecksOf(s)' = ChecksOf(s) /\ (Running(s) <=> Running(s)')
    BY <1>2 DEF ChecksOf, Running
  <1>7. \A s \in DOMAIN suites : suites'[s] = suites[s]
    BY <1>3, <1>4
  <1>8. \A s \in DOMAIN suites : (Completed(s) <=> Completed(s)') /\ (Due(s) <=> Due(s)')
    BY <1>2, <1>6, <1>7 DEF Completed, Due, AllJobs, Running, ChecksOf
  <1>9. checks' \in Seq(Check) /\ late' \subseteq DOMAIN suites
    BY <1>2 DEF ChecksAreTheirJobs, PollTypeOK
  <1>10. GoesOn
    <2>1. Len(suites) <= Len(suites') /\ Len(suites') <= MaxSuites /\ Len(checks) <= Len(checks')
      BY <1>2, <1>3, <1>4, <1>5, ChecksType
    <2> QED
      BY <1>2, <1>3, <1>7, <1>8, <1>9, <2>1 DEF GoesOn
  <1>11. ChecksOf(Len(suites) + 1) = {}
    <2>1. Len(suites) + 1 \notin DOMAIN suites
      BY <1>4
    <2> QED
      BY <2>1 DEF ChecksOf, ChecksAreTheirJobs
  <1>12. Cardinality(ChecksOf(Len(suites) + 1)) <= Len(Jobs[f])
    <2>1. Cardinality({}) = 0
      BY FS_EmptySet
    <2>2. Cardinality(ChecksOf(Len(suites) + 1)) = 0
      BY <1>11, <2>1
    <2>3. Len(Jobs[f]) \in Nat
      BY JobsOf
    <2> QED
      BY <2>2, <2>3
  <1>13. \A s \in DOMAIN suites' : s \in DOMAIN suites \/ s = Len(suites) + 1
    BY <1>4
  <1>14. ASSUME NEW s \in DOMAIN suites'
         PROVE  /\ Cardinality(ChecksOf(s)') <= Len(Jobs[suites'[s].flow])
                /\ suites'[s].state = "queued" => Empty(s)'
                /\ suites'[s].state = "cut" => ~Running(s)'
    <2>1. CASE s \in DOMAIN suites
      BY <1>6, <1>7, <2>1 DEF ChecksAreTheirJobs, Empty
    <2>2. CASE s = Len(suites) + 1
      <3>1. ChecksOf(s)' = {} /\ ChecksOf(s) = {}
        BY <1>6, <1>11, <2>2
      <3>2. suites'[s].flow = f
        BY <1>3, <2>2
      <3> QED
        BY <1>12, <2>2, <3>1, <3>2 DEF Empty, Running
    <2> QED
      BY <1>13, <2>1, <2>2
  <1>15. \A c \in DOMAIN checks' : checks'[c].suite \in DOMAIN suites'
    BY <1>2, <1>4 DEF ChecksAreTheirJobs
  <1> QED
    BY <1>9, <1>10, <1>14, <1>15 DEF ChecksAreTheirJobs, Empty

\* One more check, of s, behind those there are.
LEMMA OneMoreCheck ==
    ASSUME ChecksAreTheirJobs, NEW s, NEW check \in Check, check.suite = s,
           NEW before \in Seq(Check), Len(before) = Len(checks),
           \A c \in DOMAIN checks : before[c].suite = checks[c].suite,
           checks' = Append(before, check)
    PROVE  /\ checks' \in Seq(Check) /\ Len(checks') = Len(checks) + 1
           /\ DOMAIN checks' = DOMAIN checks \cup {Len(checks) + 1} /\ Len(checks) + 1 \notin DOMAIN checks
           /\ \A c \in DOMAIN checks : checks'[c] = before[c]
           /\ checks'[Len(checks) + 1] = check
           /\ ChecksOf(s)' = ChecksOf(s) \cup {Len(checks) + 1}
           /\ Cardinality(ChecksOf(s)') = Cardinality(ChecksOf(s)) + 1
           /\ \A t : t # s => ChecksOf(t)' = ChecksOf(t)
  <1>1. Len(checks) \in Nat /\ DOMAIN checks = 1 .. Len(checks)
    BY ChecksType
  <1>2. /\ checks' \in Seq(Check) /\ Len(checks') = Len(checks) + 1
        /\ \A c \in 1 .. Len(checks) : checks'[c] = before[c]
        /\ checks'[Len(checks) + 1] = check
    BY AppendProperties
  <1>3. DOMAIN checks' = 1 .. Len(checks) + 1
    BY <1>2, LenProperties
  <1>4. DOMAIN checks' = DOMAIN checks \cup {Len(checks) + 1} /\ Len(checks) + 1 \notin DOMAIN checks
    BY <1>1, <1>3
  <1>5. ChecksOf(s)' = ChecksOf(s) \cup {Len(checks) + 1}
    BY <1>1, <1>2, <1>4 DEF ChecksOf
  <1>6. \A t : t # s => ChecksOf(t)' = ChecksOf(t)
    BY <1>1, <1>2, <1>4 DEF ChecksOf
  <1>7. IsFiniteSet(ChecksOf(s)) /\ Cardinality(ChecksOf(s)) \in Nat
    BY ChecksOfAreFinite
  <1>8. Len(checks) + 1 \notin ChecksOf(s)
    BY <1>4 DEF ChecksOf
  <1>9. Cardinality(ChecksOf(s) \cup {Len(checks) + 1}) = Cardinality(ChecksOf(s)) + 1
    BY <1>7, <1>8, FS_AddElement
  <1> QED
    BY <1>1, <1>2, <1>4, <1>5, <1>6, <1>9

LEMMA OpenGoesOn ==
    ASSUME PollTypeOK, ChecksAreTheirJobs, NEW s \in DOMAIN suites, Open(s)
    PROVE  GoesOn /\ ChecksAreTheirJobs'
  <1>1. /\ suites[s].state = "queued" /\ suites' = [suites EXCEPT ![s].state = "open"]
        /\ UNCHANGED <<checks, late>>
    BY DEF Open
  <1>2. Len(suites) \in Nat /\ DOMAIN suites = 1 .. Len(suites) /\ \A t \in DOMAIN suites : suites[t] \in Suite
    BY SuitesType DEF Suite
  <1>3. suites' \in [DOMAIN suites -> Suite]
    BY <1>1, <1>2 DEF Suite
  <1>4. suites \in Seq(Suite)
    BY DEF PollTypeOK, Suite
  <1>5. suites' \in Seq(Suite) /\ Len(suites') = Len(suites)
    BY <1>3, <1>4, SameDomain
  <1>6. DOMAIN suites' = DOMAIN suites
    BY <1>3
  <1>7. /\ suites'[s] = [flow |-> suites[s].flow, state |-> "open"]
        /\ \A t \in DOMAIN suites : t # s => suites'[t] = suites[t]
    BY <1>1, <1>2 DEF Suite
  <1>8. \A t : ChecksOf(t)' = ChecksOf(t) /\ (Running(t) <=> Running(t)') /\ (Empty(t) <=> Empty(t)')
    BY <1>1 DEF ChecksOf, Running, Empty
  <1>9. ~Completed(s) /\ ~Due(s)
    <2>1. ChecksOf(s) = {}
      BY <1>1 DEF ChecksAreTheirJobs, Empty
    <2>2. Cardinality(ChecksOf(s)) = 0
      BY <2>1, FS_EmptySet
    <2>3. Len(Jobs[suites[s].flow]) # 0
      BY <1>2, JobsOf DEF Suite
    <2> QED
      BY <1>1, <2>2, <2>3 DEF Completed, Due, AllJobs
  <1>10. \A t \in DOMAIN suites : t # s => (Completed(t) <=> Completed(t)') /\ (Due(t) <=> Due(t)')
    BY <1>7, <1>8 DEF Completed, Due, AllJobs
  <1>11. checks' \in Seq(Check) /\ late' \subseteq DOMAIN suites
    BY <1>1 DEF ChecksAreTheirJobs, PollTypeOK
  <1>12. GoesOn
    <2>1. Len(suites) <= Len(suites') /\ Len(suites') <= MaxSuites /\ Len(checks) <= Len(checks')
      BY <1>1, <1>2, <1>5, ChecksType DEF PollTypeOK
    <2>2. \A t \in DOMAIN suites : suites'[t].flow = suites[t].flow /\ (suites[t].state = "cut" => suites'[t].state = "cut")
      BY <1>1, <1>7
    <2>3. \A t \in DOMAIN suites : Completed(t) =>
            Completed(t)' /\ \A c \in DOMAIN checks' : checks'[c].suite = t => c \in DOMAIN checks
      BY <1>1, <1>9, <1>10
    <2>4. \A t \in late : Due(t) => t \in late' /\ Due(t)'
      BY <1>1, <1>9, <1>10 DEF PollTypeOK
    <2> QED
      BY <1>1, <1>5, <1>11, <2>1, <2>2, <2>3, <2>4 DEF GoesOn
  <1>13. ASSUME NEW t \in DOMAIN suites'
         PROVE  /\ Cardinality(ChecksOf(t)') <= Len(Jobs[suites'[t].flow])
                /\ suites'[t].state = "queued" => Empty(t)'
                /\ suites'[t].state = "cut" => ~Running(t)'
    <2>1. suites'[t].flow = suites[t].flow /\ suites'[t].state \in {suites[t].state, "open"}
      BY <1>6, <1>7
    <2> QED
      BY <1>6, <1>8, <2>1 DEF ChecksAreTheirJobs
  <1>14. \A c \in DOMAIN checks' : checks'[c].suite \in DOMAIN suites'
    BY <1>1, <1>6 DEF ChecksAreTheirJobs
  <1> QED
    BY <1>11, <1>12, <1>13, <1>14 DEF ChecksAreTheirJobs

LEMMA RegisterGoesOn ==
    ASSUME PollTypeOK, ChecksAreTheirJobs, NEW s \in DOMAIN suites, Register(s)
    PROVE  GoesOn /\ ChecksAreTheirJobs'
  <1>1. PICK result \in {"running", "skipped"} :
            checks' = Append(checks, [suite |-> s, name |-> NextJob(s), result |-> result])
    BY DEF Register
  <1>2. Due(s) /\ late' = late \ {s} /\ suites' = suites
    BY DEF Register
  <1>3. /\ suites[s].state = "open" /\ ~Completed(s) /\ ~Running(s)
        /\ Cardinality(ChecksOf(s)) + 1 <= Len(Jobs[suites[s].flow])
        /\ NextJob(s) \in Names
    BY <1>2, DueRun
  <1>4. Len(suites) \in Nat /\ DOMAIN suites = 1 .. Len(suites)
    BY SuitesType
  <1>5. Len(checks) \in Nat /\ DOMAIN checks = 1 .. Len(checks) /\ checks \in Seq(Check)
    BY ChecksType DEF ChecksAreTheirJobs
  <1>6. [suite |-> s, name |-> NextJob(s), result |-> result] \in Check
    BY <1>3, <1>4 DEF Check, Results
  <1>7. /\ checks' \in Seq(Check) /\ Len(checks') = Len(checks) + 1
        /\ DOMAIN checks' = DOMAIN checks \cup {Len(checks) + 1} /\ Len(checks) + 1 \notin DOMAIN checks
        /\ \A c \in DOMAIN checks : checks'[c] = checks[c]
        /\ checks'[Len(checks) + 1] = [suite |-> s, name |-> NextJob(s), result |-> result]
        /\ ChecksOf(s)' = ChecksOf(s) \cup {Len(checks) + 1}
        /\ Cardinality(ChecksOf(s)') = Cardinality(ChecksOf(s)) + 1
        /\ \A t : t # s => ChecksOf(t)' = ChecksOf(t)
    BY <1>1, <1>5, <1>6, OneMoreCheck
  <1>8. \A t : t # s => (Running(t) <=> Running(t)') /\ (Empty(t) <=> Empty(t)')
    BY <1>7 DEF Running, Empty, ChecksOf
  <1>9. \A t \in DOMAIN suites : t # s => (Completed(t) <=> Completed(t)') /\ (Due(t) <=> Due(t)')
    BY <1>2, <1>7, <1>8 DEF Completed, Due, AllJobs
  <1>10. GoesOn
    <2>1. /\ suites' \in Seq(Suite) /\ Len(suites') <= MaxSuites /\ Len(suites) <= Len(suites')
          /\ Len(checks) <= Len(checks')
      BY <1>2, <1>4, <1>5, <1>7 DEF PollTypeOK, Suite
    <2>2. \A t \in DOMAIN suites : Completed(t) =>
            Completed(t)' /\ \A c \in DOMAIN checks' : checks'[c].suite = t => c \in DOMAIN checks
      BY <1>3, <1>7, <1>9
    <2>3. \A t \in late : Due(t) =>
            \/ t \in late' /\ Due(t)'
            \/ \E c \in DOMAIN checks' : checks'[c].suite = t /\ c > Len(checks)
      <3> SUFFICES ASSUME NEW t \in late, Due(t)
                   PROVE  \/ t \in late' /\ Due(t)'
                          \/ \E c \in DOMAIN checks' : checks'[c].suite = t /\ c > Len(checks)
        OBVIOUS
      <3>1. CASE t = s
        <4>1. Len(checks) + 1 \in DOMAIN checks' /\ checks'[Len(checks) + 1].suite = t
          BY <1>7, <3>1
        <4> QED
          BY <1>5, <4>1
      <3>2. CASE t # s
        BY <1>2, <1>9, <3>2 DEF PollTypeOK
      <3> QED
        BY <3>1, <3>2
    <2>4. late' \subseteq DOMAIN suites
      BY <1>2 DEF PollTypeOK
    <2> QED
      BY <1>2, <1>7, <2>1, <2>2, <2>3, <2>4 DEF GoesOn
  <1>11. ASSUME NEW t \in DOMAIN suites'
         PROVE  /\ Cardinality(ChecksOf(t)') <= Len(Jobs[suites'[t].flow])
                /\ suites'[t].state = "queued" => Empty(t)'
                /\ suites'[t].state = "cut" => ~Running(t)'
    <2>1. CASE t = s
      BY <1>2, <1>3, <1>7, <2>1
    <2>2. CASE t # s
      BY <1>2, <1>7, <1>8, <2>2 DEF ChecksAreTheirJobs
    <2> QED
      BY <2>1, <2>2
  <1>12. \A c \in DOMAIN checks' : checks'[c].suite \in DOMAIN suites'
    BY <1>2, <1>7 DEF ChecksAreTheirJobs
  <1> QED
    BY <1>7, <1>10, <1>11, <1>12 DEF ChecksAreTheirJobs

LEMMA ConcludeGoesOn ==
    ASSUME PollTypeOK, ChecksAreTheirJobs, NEW c \in DOMAIN checks, Conclude(c)
    PROVE  GoesOn /\ ChecksAreTheirJobs'
  <1>1. PICK result \in {"success", "failure"} : checks' = [checks EXCEPT ![c].result = result]
    BY DEF Conclude
  <1>2. checks[c].result = "running" /\ UNCHANGED <<suites, late>>
    BY DEF Conclude
  <1>3. Len(suites) \in Nat /\ DOMAIN suites = 1 .. Len(suites)
    BY SuitesType
  <1>4. /\ Len(checks) \in Nat /\ DOMAIN checks = 1 .. Len(checks) /\ checks \in Seq(Check)
        /\ \A d \in DOMAIN checks : checks[d] \in Check
    BY ChecksType DEF ChecksAreTheirJobs
  <1>5. checks' \in [DOMAIN checks -> Check]
    BY <1>1, <1>4 DEF Check, Results
  <1>6. checks' \in Seq(Check) /\ Len(checks') = Len(checks) /\ DOMAIN checks' = DOMAIN checks
    BY <1>4, <1>5, SameDomain
  <1>7. /\ \A d \in DOMAIN checks : d # c => checks'[d] = checks[d]
        /\ checks'[c].suite = checks[c].suite /\ checks'[c].name = checks[c].name
        /\ checks'[c].result \in {"success", "failure"}
    BY <1>1, <1>4 DEF Check
  <1>8. \A t : ChecksOf(t)' = ChecksOf(t)
    BY <1>6, <1>7 DEF ChecksOf
  <1>9. \A t : (Running(t)' => Running(t)) /\ (Empty(t) <=> Empty(t)')
    BY <1>6, <1>7, <1>8 DEF Running, Empty, ChecksOf
  <1>10. \A t \in DOMAIN suites : (Completed(t) => Completed(t)') /\ (Due(t) => Due(t)')
    BY <1>2, <1>8, <1>9 DEF Completed, Due, AllJobs
  <1>11. GoesOn
    <2>1. /\ suites' \in Seq(Suite) /\ Len(suites') <= MaxSuites /\ Len(suites) <= Len(suites')
          /\ Len(checks) <= Len(checks')
      BY <1>2, <1>3, <1>4, <1>6 DEF PollTypeOK, Suite
    <2>2. late' \subseteq DOMAIN suites /\ \A t \in late : Due(t) => t \in late' /\ Due(t)'
      BY <1>2, <1>10 DEF PollTypeOK
    <2>3. \A d \in DOMAIN checks :
            /\ checks'[d].suite = checks[d].suite /\ checks'[d].name = checks[d].name
            /\ checks[d].result # "running" => checks'[d].result = checks[d].result
      BY <1>2, <1>7
    <2> QED
      BY <1>2, <1>6, <1>10, <2>1, <2>2, <2>3 DEF GoesOn
  <1>12. \A t \in DOMAIN suites' :
            /\ Cardinality(ChecksOf(t)') <= Len(Jobs[suites'[t].flow])
            /\ suites'[t].state = "queued" => Empty(t)'
            /\ suites'[t].state = "cut" => ~Running(t)'
    BY <1>2, <1>8, <1>9 DEF ChecksAreTheirJobs
  <1>13. \A d \in DOMAIN checks' : checks'[d].suite \in DOMAIN suites'
    BY <1>2, <1>6, <1>7 DEF ChecksAreTheirJobs
  <1> QED
    BY <1>6, <1>11, <1>12, <1>13 DEF ChecksAreTheirJobs

LEMMA CancelGoesOn ==
    ASSUME PollTypeOK, ChecksAreTheirJobs, NEW s \in DOMAIN suites, Cancel(s)
    PROVE  GoesOn /\ ChecksAreTheirJobs'
  <1> DEFINE ended == [c \in DOMAIN checks |->
                          IF checks[c].suite = s /\ checks[c].result = "running"
                          THEN [checks[c] EXCEPT !.result = "cancelled"] ELSE checks[c]]
             job == [suite |-> s, name |-> NextJob(s), result |-> "cancelled"]
  <1>1. /\ ~Completed(s) /\ suites' = [suites EXCEPT ![s].state = "cut"] /\ late' = late \ {s}
        /\ checks' = IF Due(s) THEN Append(ended, job) ELSE ended
    BY DEF Cancel
  <1>2. /\ Len(suites) \in Nat /\ DOMAIN suites = 1 .. Len(suites) /\ suites \in Seq(Suite)
        /\ \A t \in DOMAIN suites : suites[t] \in Suite
    BY SuitesType DEF Suite, PollTypeOK
  <1>3. /\ Len(checks) \in Nat /\ DOMAIN checks = 1 .. Len(checks) /\ checks \in Seq(Check)
        /\ \A d \in DOMAIN checks : checks[d] \in Check
    BY ChecksType DEF ChecksAreTheirJobs
  <1>4. suites' \in [DOMAIN suites -> Suite]
    BY <1>1, <1>2 DEF Suite
  <1>5. suites' \in Seq(Suite) /\ Len(suites') = Len(suites) /\ DOMAIN suites' = DOMAIN suites
    BY <1>2, <1>4, SameDomain
  <1>6. /\ suites'[s].flow = suites[s].flow /\ suites'[s].state = "cut"
        /\ \A t \in DOMAIN suites : t # s => suites'[t] = suites[t]
    BY <1>1, <1>2 DEF Suite
  <1>7. ended \in [DOMAIN checks -> Check]
    BY <1>3 DEF Check, Results
  <1>8. ended \in Seq(Check) /\ Len(ended) = Len(checks) /\ DOMAIN ended = DOMAIN checks
    BY <1>3, <1>7, SameDomain
  <1>9. \A c \in DOMAIN checks :
          /\ ended[c].suite = checks[c].suite /\ ended[c].name = checks[c].name
          /\ checks[c].suite # s => ended[c] = checks[c]
          /\ checks[c].result # "running" => ended[c] = checks[c]
          /\ checks[c].suite = s => ended[c].result # "running"
    BY <1>3 DEF Check
  <1> HIDE DEF ended, job
  <1>10. /\ checks' \in Seq(Check) /\ Len(checks) <= Len(checks')
         /\ \A c \in DOMAIN checks : c \in DOMAIN checks' /\ checks'[c] = ended[c]
         /\ \A c \in DOMAIN checks' \ DOMAIN checks :
               /\ Due(s) /\ checks'[c].suite = s /\ checks'[c].result = "cancelled" /\ c > Len(checks)
         /\ Due(s) => \E c \in DOMAIN checks' : checks'[c].suite = s /\ c > Len(checks)
         /\ Cardinality(ChecksOf(s)') <= Len(Jobs[suites[s].flow])
         /\ suites[s].state = "queued" => ~Due(s)
    <2>1. CASE Due(s)
      <3>1. /\ Cardinality(ChecksOf(s)) + 1 <= Len(Jobs[suites[s].flow]) /\ NextJob(s) \in Names
            /\ suites[s].state = "open"
        BY <2>1, DueRun
      <3>2. job \in Check /\ job.suite = s /\ job.result = "cancelled"
        BY <1>2, <3>1 DEF job, Check, Results
      <3>3. checks' = Append(ended, job)
        BY <1>1, <2>1
      <3>4. /\ checks' \in Seq(Check) /\ Len(checks') = Len(checks) + 1
            /\ DOMAIN checks' = DOMAIN checks \cup {Len(checks) + 1}
            /\ Len(checks) + 1 \notin DOMAIN checks
            /\ \A c \in DOMAIN checks : checks'[c] = ended[c]
            /\ checks'[Len(checks) + 1] = job
            /\ Cardinality(ChecksOf(s)') = Cardinality(ChecksOf(s)) + 1
        BY <1>8, <1>9, <3>2, <3>3, OneMoreCheck
      <3>5. Len(checks) + 1 > Len(checks) /\ Len(checks) <= Len(checks')
        BY <1>3, <3>4
      <3> QED
        BY <2>1, <3>1, <3>2, <3>4, <3>5
    <2>2. CASE ~Due(s)
      <3>1. checks' = ended
        BY <1>1, <2>2
      <3>2. ChecksOf(s)' = ChecksOf(s)
        BY <1>8, <1>9, <3>1 DEF ChecksOf
      <3>3. Cardinality(ChecksOf(s)') <= Len(Jobs[suites[s].flow])
        BY <3>2 DEF ChecksAreTheirJobs
      <3>4. Len(checks) <= Len(checks')
        BY <1>3, <1>8, <3>1
      <3> QED
        BY <1>8, <2>2, <3>1, <3>3, <3>4
    <2> QED
      BY <2>1, <2>2
  <1>11. \A t : t # s => ChecksOf(t)' = ChecksOf(t) /\ (Running(t) <=> Running(t)') /\ (Empty(t) <=> Empty(t)')
    <2> SUFFICES ASSUME NEW t, t # s
                 PROVE  ChecksOf(t)' = ChecksOf(t) /\ (Running(t) <=> Running(t)') /\ (Empty(t) <=> Empty(t)')
      OBVIOUS
    <2>1. ChecksOf(t)' = ChecksOf(t)
      BY <1>9, <1>10 DEF ChecksOf
    <2>2. \A c \in ChecksOf(t) : checks'[c] = checks[c]
      BY <1>9, <1>10 DEF ChecksOf
    <2> QED
      BY <2>1, <2>2 DEF Running, Empty
  <1>12. ~Running(s)'
    BY <1>9, <1>10 DEF Running, ChecksOf
  <1>13. \A t \in DOMAIN suites : t # s => (Completed(t) <=> Completed(t)') /\ (Due(t) <=> Due(t)')
    BY <1>6, <1>11 DEF Completed, Due, AllJobs
  <1>14. GoesOn
    <2>1. /\ Len(suites') <= MaxSuites /\ Len(suites) <= Len(suites')
      BY <1>2, <1>5 DEF PollTypeOK
    <2>2. \A t \in DOMAIN suites : Completed(t) =>
            Completed(t)' /\ \A c \in DOMAIN checks' : checks'[c].suite = t => c \in DOMAIN checks
      BY <1>1, <1>10, <1>13
    <2>3. \A t \in late : Due(t) =>
            \/ t \in late' /\ Due(t)'
            \/ \E c \in DOMAIN checks' : checks'[c].suite = t /\ c > Len(checks)
      <3> SUFFICES ASSUME NEW t \in late, Due(t)
                   PROVE  \/ t \in late' /\ Due(t)'
                          \/ \E c \in DOMAIN checks' : checks'[c].suite = t /\ c > Len(checks)
        OBVIOUS
      <3>1. CASE t = s
        BY <1>10, <3>1
      <3>2. CASE t # s
        BY <1>1, <1>13, <3>2 DEF PollTypeOK
      <3> QED
        BY <3>1, <3>2
    <2>4. late' \subseteq DOMAIN suites
      BY <1>1 DEF PollTypeOK
    <2>5. \A c \in DOMAIN checks :
            /\ checks'[c].suite = checks[c].suite /\ checks'[c].name = checks[c].name
            /\ checks[c].result # "running" => checks'[c].result = checks[c].result
      BY <1>9, <1>10
    <2>6. \A t \in DOMAIN suites : suites'[t].flow = suites[t].flow /\ (suites[t].state = "cut" => suites'[t].state = "cut")
      BY <1>6
    <2> QED
      BY <1>5, <1>10, <2>1, <2>2, <2>3, <2>4, <2>5, <2>6 DEF GoesOn
  <1>15. ASSUME NEW t \in DOMAIN suites'
         PROVE  /\ Cardinality(ChecksOf(t)') <= Len(Jobs[suites'[t].flow])
                /\ suites'[t].state = "queued" => Empty(t)'
                /\ suites'[t].state = "cut" => ~Running(t)'
    <2>1. CASE t = s
      BY <1>6, <1>10, <1>12, <2>1
    <2>2. CASE t # s
      BY <1>5, <1>6, <1>11, <2>2 DEF ChecksAreTheirJobs
    <2> QED
      BY <2>1, <2>2
  <1>16. \A c \in DOMAIN checks' : checks'[c].suite \in DOMAIN suites'
    BY <1>5, <1>9, <1>10 DEF ChecksAreTheirJobs
  <1> QED
    BY <1>10, <1>14, <1>15, <1>16 DEF ChecksAreTheirJobs

LEMMA WorldGoesOn ==
    ASSUME PollTypeOK, ChecksAreTheirJobs, World
    PROVE  GoesOn /\ ChecksAreTheirJobs' /\ phase # "done" /\ UNCHANGED <<gate, config, missed>>
  <1>1. phase # "done" /\ UNCHANGED <<gate, config, missed>>
    BY DEF World
  <1>2. CASE \E f \in Flows : Trigger(f)
    BY <1>1, <1>2, TriggerGoesOn
  <1>3. CASE \E s \in DOMAIN suites : Open(s) \/ Register(s) \/ Cancel(s)
    BY <1>1, <1>3, OpenGoesOn, RegisterGoesOn, CancelGoesOn
  <1>4. CASE \E c \in DOMAIN checks : Conclude(c)
    BY <1>1, <1>4, ConcludeGoesOn
  <1> QED
    BY <1>2, <1>3, <1>4 DEF World

LEMMA GoesOnKeeps ==
    ASSUME PollTypeOK, ChecksAreTheirJobs, GoesOn
    PROVE  /\ DOMAIN suites \subseteq DOMAIN suites' /\ DOMAIN checks \subseteq DOMAIN checks'
           /\ \A s \in DOMAIN suites :
                 /\ ChecksOf(s) \subseteq ChecksOf(s)'
                 /\ Superseded(s) => Superseded(s)'
                 /\ Completed(s) => Completed(s)' /\ ChecksOf(s)' = ChecksOf(s)
                 /\ suites[s].state = "cut" /\ Empty(s) => suites'[s].state = "cut" /\ Empty(s)'
  <1>1. /\ Len(suites) \in Nat /\ DOMAIN suites = 1 .. Len(suites)
        /\ Len(checks) \in Nat /\ DOMAIN checks = 1 .. Len(checks)
    BY SuitesType, ChecksType
  <1>2. /\ Len(suites') \in Nat /\ DOMAIN suites' = 1 .. Len(suites')
        /\ Len(checks') \in Nat /\ DOMAIN checks' = 1 .. Len(checks')
        /\ Len(suites) <= Len(suites') /\ Len(checks) <= Len(checks')
    BY LenProperties DEF GoesOn
  <1>3. DOMAIN suites \subseteq DOMAIN suites' /\ DOMAIN checks \subseteq DOMAIN checks'
    BY <1>1, <1>2
  <1>4. ASSUME NEW s \in DOMAIN suites
        PROVE  ChecksOf(s) \subseteq ChecksOf(s)'
    BY <1>3 DEF GoesOn, ChecksOf
  <1>5. ASSUME NEW s \in DOMAIN suites, Superseded(s)
        PROVE  Superseded(s)'
    <2>1. PICK n \in s + 1 .. Len(suites) : suites[n].flow = suites[s].flow
      BY <1>5 DEF Superseded, SupersededBy
    <2>2. n \in s + 1 .. Len(suites') /\ n \in DOMAIN suites
      BY <1>1, <1>2, <2>1
    <2>3. suites'[n].flow = suites'[s].flow
      BY <2>1, <2>2 DEF GoesOn
    <2> QED
      BY <2>2, <2>3 DEF Superseded, SupersededBy
  <1>6. ASSUME NEW s \in DOMAIN suites, Completed(s)
        PROVE  Completed(s)' /\ ChecksOf(s)' = ChecksOf(s)
    <2>1. Completed(s)' /\ \A c \in DOMAIN checks' : checks'[c].suite = s => c \in DOMAIN checks
      BY <1>6 DEF GoesOn
    <2>2. ChecksOf(s)' \subseteq ChecksOf(s)
      BY <2>1 DEF ChecksOf, GoesOn
    <2> QED
      BY <1>4, <2>1, <2>2
  <1>7. ASSUME NEW s \in DOMAIN suites, suites[s].state = "cut", Empty(s)
        PROVE  suites'[s].state = "cut" /\ Empty(s)'
    <2>1. Completed(s)
      BY <1>7 DEF Completed
    <2> QED
      BY <1>6, <1>7, <2>1 DEF GoesOn, Empty
  <1> QED
    BY <1>3, <1>4, <1>5, <1>6, <1>7

LEMMA GoesOnSettles ==
    ASSUME PollTypeOK, ChecksAreTheirJobs, GoesOn, NEW s \in DOMAIN suites, NEW m \in 0 .. Len(checks)
    PROVE  /\ Ended(s, m) => Ended(s, m)'
           /\ Grown(s, m) => Grown(s, m)'
           /\ Settled(s, m) => Settled(s, m)'
  <1>1. Len(checks) \in Nat /\ m \in Nat /\ m <= Len(checks)
    BY ChecksType
  <1>2. Ended(s, m) => Ended(s, m)'
    BY GoesOnKeeps DEF Ended, Empty
  <1>3. Grown(s, m) => Grown(s, m)'
    BY GoesOnKeeps DEF Grown
  <1>4. s \in late /\ Due(s) => (s \in late' /\ Due(s)') \/ Grown(s, m)'
    <2> SUFFICES ASSUME s \in late, Due(s), ~(s \in late' /\ Due(s)')
                 PROVE  Grown(s, m)'
      OBVIOUS
    <2>1. PICK c \in DOMAIN checks' : checks'[c].suite = s /\ c > Len(checks)
      BY DEF GoesOn
    <2>2. c \in Nat
      BY <2>1, LenProperties DEF GoesOn
    <2>3. c \in ChecksOf(s)' /\ c > m
      BY <1>1, <2>1, <2>2 DEF ChecksOf
    <2> QED
      BY <2>3 DEF Grown
  <1> QED
    BY <1>2, <1>3, <1>4 DEF Settled

\* The forge may go on at any time: it disturbs nothing the gate relies on.
LEMMA WorldKeepsPollInv ==
    ASSUME PollInv, World
    PROVE  PollInv'
  <1>1. PollTypeOK /\ ChecksAreTheirJobs
    BY DEF PollInv
  <1>2. GoesOn /\ ChecksAreTheirJobs' /\ phase # "done" /\ UNCHANGED <<gate, config, missed>>
    BY <1>1, WorldGoesOn
  <1>3. UNCHANGED <<phase, left, seen, last, stable, answer, began, obliged, config, missed>>
    BY <1>2 DEF gate
  <1>4. /\ Len(suites) \in Nat /\ DOMAIN suites = 1 .. Len(suites)
        /\ Len(checks) \in Nat /\ DOMAIN checks = 1 .. Len(checks)
    BY <1>1, SuitesType, ChecksType
  <1>5. /\ Len(suites') \in Nat /\ DOMAIN suites' = 1 .. Len(suites')
        /\ Len(checks') \in Nat /\ DOMAIN checks' = 1 .. Len(checks')
        /\ Len(suites) <= Len(suites') /\ Len(checks) <= Len(checks')
    BY <1>2, LenProperties DEF GoesOn
  <1>6. DOMAIN suites \subseteq DOMAIN suites' /\ DOMAIN checks \subseteq DOMAIN checks'
    BY <1>1, <1>2, GoesOnKeeps
  <1>7. PollTypeOK'
    <2>1. suites' \in Seq([flow : Flows, state : {"queued", "open", "cut"}]) /\ Len(suites') <= MaxSuites
      BY <1>2 DEF GoesOn, Suite
    <2>2. \A c \in DOMAIN checks' :
            checks'[c] \in [suite : DOMAIN suites', name : Names,
                            result : {"running", "success", "skipped", "failure", "cancelled"}]
      <3> SUFFICES ASSUME NEW c \in DOMAIN checks'
                   PROVE  checks'[c] \in [suite : DOMAIN suites', name : Names,
                              result : {"running", "success", "skipped", "failure", "cancelled"}]
        OBVIOUS
      <3>1. checks' \in [1 .. Len(checks') -> Check]
        BY <1>2, LenProperties DEF GoesOn
      <3>2. checks'[c] \in Check /\ checks'[c].suite \in DOMAIN suites'
        BY <1>2, <1>5, <3>1 DEF ChecksAreTheirJobs
      <3> QED
        BY <3>2 DEF Check, Results
    <2>3. late' \subseteq DOMAIN suites' /\ obliged'.suites \subseteq DOMAIN suites'
      BY <1>1, <1>2, <1>3, <1>6 DEF GoesOn, PollTypeOK
    <2> QED
      BY <1>1, <1>3, <2>1, <2>2, <2>3 DEF PollTypeOK
  <1>8. BeganIsRead'
    <2> SUFFICES ASSUME phase \in {"runs", "events"}
                 PROVE  /\ began.suites \in 0 .. Len(suites') /\ began.checks \in 0 .. Len(checks')
                        /\ began.obliged \subseteq DOMAIN suites'
                        /\ seen.waiting \subseteq DOMAIN suites' /\ seen.unstarted \subseteq DOMAIN suites'
                        /\ \A s \in seen.unstarted : suites'[s].state = "cut" /\ Empty(s)'
                        /\ \A s \in began.obliged :
                              \/ \E c \in ChecksOf(s)' : c <= began.checks
                              \/ /\ config.readable /\ Gating(suites'[s].flow)
                                 /\ s \in seen.waiting \cup seen.unstarted
      BY <1>3 DEF BeganIsRead
    <2>1. BeganIsRead
      BY DEF PollInv
    <2>2. began.suites \in 0 .. Len(suites') /\ began.checks \in 0 .. Len(checks')
      BY <1>4, <1>5, <2>1 DEF BeganIsRead
    <2>3. /\ began.obliged \subseteq DOMAIN suites'
          /\ seen.waiting \subseteq DOMAIN suites' /\ seen.unstarted \subseteq DOMAIN suites'
      BY <1>6, <2>1 DEF BeganIsRead
    <2>4. \A s \in seen.unstarted : suites'[s].state = "cut" /\ Empty(s)'
      BY <1>1, <1>2, <2>1, GoesOnKeeps DEF BeganIsRead
    <2>5. \A s \in began.obliged :
              \/ \E c \in ChecksOf(s)' : c <= began.checks
              \/ /\ config.readable /\ Gating(suites'[s].flow)
                 /\ s \in seen.waiting \cup seen.unstarted
      <3> SUFFICES ASSUME NEW s \in began.obliged
                   PROVE  \/ \E c \in ChecksOf(s)' : c <= began.checks
                          \/ /\ config.readable /\ Gating(suites'[s].flow)
                             /\ s \in seen.waiting \cup seen.unstarted
        OBVIOUS
      <3>1. s \in DOMAIN suites
        BY <2>1 DEF BeganIsRead
      <3>2. ChecksOf(s) \subseteq ChecksOf(s)' /\ suites'[s].flow = suites[s].flow
        BY <1>1, <1>2, <3>1, GoesOnKeeps DEF GoesOn
      <3> QED
        BY <2>1, <3>2 DEF BeganIsRead
    <2> QED
      BY <2>2, <2>3, <2>4, <2>5
  <1>9. RunsAreRead'
    <2> SUFFICES ASSUME phase = "events"
                 PROVE  (IsSnapshot(seen.runs) /\ EndedThenIsSettled(seen.runs) /\ SinceTheFirst(seen.runs))'
      BY <1>3 DEF RunsAreRead
    <2>1. IsSnapshot(seen.runs) /\ EndedThenIsSettled(seen.runs) /\ SinceTheFirst(seen.runs)
      BY DEF PollInv, RunsAreRead
    <2> DEFINE listing == seen.runs
    <2>2. listing \in Seq(Check) /\ Len(listing) \in Nat /\ DOMAIN listing = 1 .. Len(listing) /\ Len(listing) <= Len(checks)
      BY <2>1, LenProperties DEF IsSnapshot
    <2>3. IsSnapshot(seen.runs)'
      <3>1. began.checks <= Len(listing) /\ Len(listing) <= Len(checks')
        BY <1>4, <1>5, <2>1, <2>2 DEF IsSnapshot
      <3>2. \A c \in 1 .. Len(listing) :
              /\ listing[c].suite = checks'[c].suite /\ listing[c].name = checks'[c].name
              /\ listing[c].result # "running" => checks'[c].result = listing[c].result
        <4>1. 1 .. Len(listing) \subseteq DOMAIN checks
          BY <1>4, <2>2
        <4> QED
          BY <1>2, <2>1, <4>1 DEF GoesOn, IsSnapshot
      <3> QED
        BY <1>3, <2>2, <3>1, <3>2 DEF IsSnapshot
    <2>4. EndedThenIsSettled(seen.runs)'
      <3> SUFFICES ASSUME NEW s \in DOMAIN suites',
                          \E c \in 1 .. Len(listing) : listing[c].suite = s,
                          \A c \in 1 .. Len(listing) : listing[c].suite = s => listing[c].result # "running"
                   PROVE  Settled(s, Len(seen.runs))'
        BY <1>3 DEF EndedThenIsSettled
      <3>1. s \in DOMAIN suites
        <4>1. PICK c \in 1 .. Len(listing) : listing[c].suite = s
          OBVIOUS
        <4>2. c \in DOMAIN checks /\ checks[c].suite = s
          BY <1>4, <2>1, <2>2, <4>1 DEF IsSnapshot
        <4> QED
          BY <1>1, <4>2 DEF ChecksAreTheirJobs
      <3>2. Settled(s, Len(listing))
        BY <2>1, <3>1 DEF EndedThenIsSettled
      <3>3. PICK m \in 0 .. Len(checks) : m = Len(listing)
        BY <1>4, <2>2
      <3>4. Settled(s, m)'
        BY <1>1, <1>2, <3>1, <3>2, <3>3, GoesOnSettles
      <3> QED
        BY <1>3, <3>3, <3>4
    <2>5. SinceTheFirst(seen.runs)'
      <3> SUFFICES ASSUME stable = 1
                   PROVE  /\ obliged.checks <= Len(listing)
                          /\ \A s \in obliged.suites :
                                \/ Superseded(s)' \/ Ended(s, obliged.checks)'
                                \/ \E c \in ChecksOf(s)' : c > obliged.checks /\ c <= Len(listing)
        BY <1>3 DEF SinceTheFirst
      <3>1. obliged.checks \in 0 .. Len(checks)
        BY <1>2 DEF PollInv, FirstResult
      <3>2. obliged.checks <= Len(listing)
        BY <2>1 DEF SinceTheFirst
      <3>3. ASSUME NEW s \in obliged.suites
            PROVE  \/ Superseded(s)' \/ Ended(s, obliged.checks)'
                   \/ \E c \in ChecksOf(s)' : c > obliged.checks /\ c <= Len(listing)
        <4>1. s \in DOMAIN suites
          BY <1>1 DEF PollTypeOK
        <4>2. PICK m \in 0 .. Len(checks) : m = obliged.checks
          BY <3>1
        <4>3. Ended(s, m) => Ended(s, m)'
          BY <1>1, <1>2, <4>1, GoesOnSettles
        <4>4. Ended(s, obliged.checks) => Ended(s, obliged.checks)'
          BY <1>3, <4>2, <4>3
        <4>5. ChecksOf(s) \subseteq ChecksOf(s)' /\ (Superseded(s) => Superseded(s)')
          BY <1>1, <1>2, <4>1, GoesOnKeeps
        <4> QED
          BY <2>1, <4>4, <4>5 DEF SinceTheFirst
      <3> QED
        BY <3>2, <3>3
    <2> QED
      BY <2>3, <2>4, <2>5
  <1>10. FirstResult'
    <2>1. FirstResult
      BY DEF PollInv
    <2> SUFFICES ASSUME stable = 1
                 PROVE  /\ obliged.checks \in 0 .. Len(checks')
                        /\ obliged.replaced \subseteq {s \in DOMAIN suites' : Superseded(s)'}
                        /\ \A s \in obliged.suites :
                              Superseded(s)' \/ (Started(s, obliged.checks)' /\ Settled(s, obliged.checks)')
                        /\ \A c \in 1 .. obliged.checks : checks'[c].suite \notin obliged.replaced =>
                              \/ checks'[c].result \in {"success", "skipped"}
                              \/ /\ checks'[c].result = "cancelled"
                                 /\ \E d \in c + 1 .. obliged.checks : checks'[d].name = checks'[c].name
                        /\ last = [n \in Names |-> Cardinality(CountedIn(n)')]
      BY <1>2, <1>3, <2>1 DEF FirstResult
    <2>2. obliged.checks \in 0 .. Len(checks) /\ obliged.replaced \subseteq {s \in DOMAIN suites : Superseded(s)}
      BY <1>2, <2>1 DEF FirstResult
    <2>3. obliged.checks \in 0 .. Len(checks')
      BY <1>4, <1>5, <2>2
    <2>4. obliged.replaced \subseteq {s \in DOMAIN suites' : Superseded(s)'}
      BY <1>1, <1>2, <1>6, <2>2, GoesOnKeeps
    <2>5. ASSUME NEW s \in obliged.suites
          PROVE  Superseded(s)' \/ (Started(s, obliged.checks)' /\ Settled(s, obliged.checks)')
      <3>1. s \in DOMAIN suites
        BY <1>1 DEF PollTypeOK
      <3>2. PICK m \in 0 .. Len(checks) : m = obliged.checks
        BY <2>2
      <3>3. Settled(s, m) => Settled(s, m)'
        BY <1>1, <1>2, <3>1, GoesOnSettles
      <3>4. Settled(s, obliged.checks) => Settled(s, obliged.checks)'
        BY <1>3, <3>2, <3>3
      <3>5. Superseded(s) => Superseded(s)'
        BY <1>1, <1>2, <3>1, GoesOnKeeps
      <3>6. Started(s, obliged.checks) => Started(s, obliged.checks)'
        <4>1. ChecksOf(s) \subseteq ChecksOf(s)'
          BY <1>1, <1>2, <3>1, GoesOnKeeps
        <4> QED
          BY <1>3, <4>1 DEF Started
      <3> QED
        BY <1>2, <2>1, <3>4, <3>5, <3>6 DEF FirstResult
    <2>6. \A c \in 1 .. obliged.checks :
            /\ c \in DOMAIN checks
            /\ checks'[c].suite = checks[c].suite /\ checks'[c].name = checks[c].name
            /\ checks[c].result # "running" => checks'[c].result = checks[c].result
      BY <1>2, <1>4, <2>2 DEF GoesOn
    <2>7. \A c \in 1 .. obliged.checks : checks[c].suite \notin obliged.replaced =>
              /\ checks'[c].result = checks[c].result
              /\ \/ checks[c].result \in {"success", "skipped"}
                 \/ /\ checks[c].result = "cancelled"
                    /\ \E d \in c + 1 .. obliged.checks : checks[d].name = checks[c].name
      BY <1>2, <2>1, <2>6 DEF FirstResult
    <2>8. \A c \in 1 .. obliged.checks : \A d \in c + 1 .. obliged.checks : d \in 1 .. obliged.checks
      BY <2>2
    <2>9. \A c \in 1 .. obliged.checks : checks'[c].suite \notin obliged.replaced =>
              \/ checks'[c].result \in {"success", "skipped"}
              \/ /\ checks'[c].result = "cancelled"
                 /\ \E d \in c + 1 .. obliged.checks : checks'[d].name = checks'[c].name
      BY <2>6, <2>7, <2>8
    <2>10. \A n : CountedIn(n)' = CountedIn(n)
      BY <1>3, <2>6, <2>7 DEF CountedIn
    <2>11. last = [n \in Names |-> Cardinality(CountedIn(n)')]
      BY <1>2, <2>1, <2>10 DEF FirstResult
    <2> QED
      BY <2>3, <2>4, <2>5, <2>9, <2>11
  <1>11. answer' = "none"
    BY <1>1, <1>2, <1>3 DEF PollTypeOK
  <1>12. PassIsComplete' /\ PassIsClean' /\ FailIsGenuine'
    BY <1>11 DEF PassIsComplete, PassIsClean, FailIsGenuine
  <1> QED
    BY <1>2, <1>7, <1>8, <1>9, <1>10, <1>12 DEF PollInv

-----------------------------------------------------------------------------
(* What a poll makes of what it read.                                      *)

LEMMA LastOfSome ==
    ASSUME NEW n \in Nat, NEW S \in SUBSET (1 .. n), S # {}
    PROVE  \E x \in S : \A y \in S : y <= x
  <1> DEFINE T == {n - c : c \in S}
  <1>1. T \subseteq Nat /\ T # {}
    <2>1. \A c \in S : c \in Nat /\ n - c \in Nat
      OBVIOUS
    <2>2. PICK c : c \in S
      OBVIOUS
    <2>3. n - c \in T
      BY <2>2
    <2> QED
      BY <2>1, <2>3
  <1>2. IsWellFoundedOn({p \in Nat \X Nat : p[1] < p[2]}, Nat)
    BY NatLessThanWellFounded DEF OpToRel
  <1>3. PICK x \in T : \A y \in T : <<y, x>> \notin {p \in Nat \X Nat : p[1] < p[2]}
    <2> HIDE DEF T
    <2> QED
      BY <1>1, <1>2, WFMin
  <1>4. PICK c \in S : x = n - c
    OBVIOUS
  <1>5. ASSUME NEW e \in S PROVE e <= c
    <2>1. n - e \in T
      OBVIOUS
    <2>2. <<n - e, x>> \notin {p \in Nat \X Nat : p[1] < p[2]}
      BY <1>3, <2>1
    <2>3. n - e \in Nat /\ x \in Nat
      BY <1>1, <2>1
    <2>4. ~(n - e < x)
      BY <2>2, <2>3
    <2>5. e \in Nat /\ c \in Nat
      OBVIOUS
    <2> QED
      BY <1>4, <2>4, <2>5
  <1> QED
    BY <1>5

\* Of the checks that count, the newest of each name is relevant.
LEMMA NewestIsRelevant ==
    ASSUME NEW listing \in Seq(Check), NEW dropped,
           NEW c \in DOMAIN listing, listing[c].suite \notin dropped
    PROVE  \E d \in Relevant(listing, dropped) : listing[d].name = listing[c].name /\ d >= c
  <1> DEFINE S == {d \in DOMAIN listing : listing[d].suite \notin dropped /\ listing[d].name = listing[c].name}
  <1>1. Len(listing) \in Nat /\ DOMAIN listing = 1 .. Len(listing)
    BY RunsType
  <1>2. S \in SUBSET (1 .. Len(listing)) /\ c \in S
    BY <1>1
  <1>3. PICK d \in S : \A e \in S : e <= d
    <2> HIDE DEF S
    <2> QED
      BY <1>1, <1>2, LastOfSome
  <1>4. d \in Relevant(listing, dropped)
    BY <1>3 DEF Relevant
  <1>5. c <= d /\ c \in Nat /\ d \in Nat
    BY <1>1, <1>2, <1>3
  <1> QED
    BY <1>4, <1>5

\* A reading that can be judged: the runs left out as replaced are the ones the
\* workflow runs show, or these were not read and nothing calls for them.
IsReading(listing, shown, dropped) ==
    /\ IsSnapshot(listing) /\ SinceTheFirst(listing)
    /\ \/ /\ shown = config.readable
          /\ dropped = {s \in DOMAIN suites : config.readable /\ Superseded(s)}
       \/ ~shown /\ dropped = {} /\ ~NeedsEvents(listing)

\* What a pass has found.
FoundGood(listing, shown, dropped) ==
    /\ \A c \in DOMAIN listing : listing[c].suite \notin dropped =>
          \/ listing[c].result \in {"success", "skipped"}
          \/ /\ listing[c].result = "cancelled"
             /\ \E d \in DOMAIN listing : d > c /\ listing[d].name = listing[c].name
    /\ \A c \in DOMAIN listing :
          c \in Relevant(listing, dropped) <=> listing[c].suite \notin dropped /\ listing[c].result # "cancelled"
    /\ \A n \in Required : \E c \in DOMAIN listing : listing[c].name = n /\ listing[c].result = "success"
    /\ shown => \A s \in seen.waiting \ dropped : ~Gating(suites[s].flow)
    /\ \A s \in seen.unstarted : ~NotStarted(s, shown, dropped)

LEMMA PassFoundGood ==
    ASSUME NEW listing \in Seq(Check), NEW shown \in BOOLEAN, NEW dropped,
           "pass" \in Verdicts(listing, shown, dropped)
    PROVE  FoundGood(listing, shown, dropped)
  <1> DEFINE relevant == Relevant(listing, dropped)
             broken == \/ \E c \in relevant : Bad(listing[c])
                       \/ \E s \in seen.unstarted : NotStarted(s, shown, dropped)
  <1>1. Len(listing) \in Nat /\ DOMAIN listing = 1 .. Len(listing) /\ \A c \in DOMAIN listing : listing[c] \in Check
    BY RunsType
  <1>2. /\ ~broken /\ ~Pending(listing, shown, dropped)
        /\ \A n \in Required : \E c \in relevant : listing[c].name = n /\ listing[c].result = "success"
    BY DEF Verdicts
  <1>3. \A c \in relevant : listing[c].result \notin {"running", "failure", "cancelled"}
    BY <1>2 DEF Pending, Bad
  <1>4. shown => \A s \in seen.waiting \ dropped : ~Gating(suites[s].flow)
    BY <1>2 DEF Pending
  <1>5. relevant \subseteq {c \in DOMAIN listing : listing[c].suite \notin dropped}
    BY DEF Relevant
  <1>6. ASSUME NEW c \in DOMAIN listing, listing[c].suite \notin dropped, listing[c].result # "cancelled"
        PROVE  c \in relevant
    BY <1>6 DEF Relevant
  <1>7. \A c \in DOMAIN listing :
          c \in relevant <=> listing[c].suite \notin dropped /\ listing[c].result # "cancelled"
    BY <1>3, <1>5, <1>6
  <1>8. ASSUME NEW c \in DOMAIN listing, listing[c].suite \notin dropped
        PROVE  \/ listing[c].result \in {"success", "skipped"}
               \/ /\ listing[c].result = "cancelled"
                  /\ \E d \in DOMAIN listing : d > c /\ listing[d].name = listing[c].name
    <2>1. CASE listing[c].result = "cancelled"
      <3>1. c \notin relevant
        BY <1>3, <2>1
      <3>2. PICK d \in relevant : listing[d].name = listing[c].name /\ d >= c
        BY <1>8, NewestIsRelevant
      <3>3. d # c /\ d \in DOMAIN listing
        BY <1>5, <3>1, <3>2
      <3>4. d > c
        BY <1>1, <3>2, <3>3
      <3> QED
        BY <2>1, <3>2, <3>3, <3>4
    <2>2. CASE listing[c].result # "cancelled"
      <3>1. c \in relevant
        BY <1>6, <1>8, <2>2
      <3> QED
        BY <1>1, <1>3, <2>2, <3>1 DEF Check, Results
    <2> QED
      BY <2>1, <2>2
  <1>9. \A n \in Required : \E c \in DOMAIN listing : listing[c].name = n /\ listing[c].result = "success"
    BY <1>2, <1>5
  <1> QED
    BY <1>2, <1>4, <1>7, <1>8, <1>9 DEF FoundGood

LEMMA FailFoundACause ==
    ASSUME NEW listing \in Seq(Check), NEW shown \in BOOLEAN, NEW dropped,
           "fail" \in Verdicts(listing, shown, dropped)
    PROVE  \/ \E c \in Relevant(listing, dropped) : Bad(listing[c])
           \/ \E s \in seen.unstarted : NotStarted(s, shown, dropped)
           \/ \E n \in Required : \E c \in Relevant(listing, dropped) :
                 listing[c].name = n /\ listing[c].result = "skipped"
           \/ /\ \A c \in Relevant(listing, dropped) : listing[c].result # "running"
              /\ \/ \E n \in Required : \A c \in Relevant(listing, dropped) : listing[c].name # n
                 \/ Relevant(listing, dropped) = {} /\ ~(AllowNone /\ config.event = "pull_request")
  BY DEF Verdicts, Pending

LEMMA ReadingDrops ==
    ASSUME NEW listing, NEW shown \in BOOLEAN, NEW dropped, IsReading(listing, shown, dropped)
    PROVE  dropped \subseteq {s \in DOMAIN suites : config.readable /\ Superseded(s)}
  BY DEF IsReading

LEMMA SnapshotOfChecks ==
    ASSUME ChecksAreTheirJobs, NEW listing, IsSnapshot(listing)
    PROVE  /\ listing \in Seq(Check) /\ Len(listing) \in Nat /\ DOMAIN listing = 1 .. Len(listing)
           /\ Len(checks) \in Nat /\ DOMAIN checks = 1 .. Len(checks)
           /\ Len(listing) \in 0 .. Len(checks) /\ DOMAIN listing \subseteq DOMAIN checks
           /\ \A c \in DOMAIN listing : listing[c] \in Check
           /\ \A c \in DOMAIN listing :
                 /\ listing[c].suite = checks[c].suite /\ listing[c].name = checks[c].name
                 /\ listing[c].result # "running" => checks[c].result = listing[c].result
  <1>1. listing \in Seq(Check) /\ Len(listing) <= Len(checks)
    BY DEF IsSnapshot
  <1>2. Len(listing) \in Nat /\ DOMAIN listing = 1 .. Len(listing) /\ \A c \in DOMAIN listing : listing[c] \in Check
    BY <1>1, RunsType
  <1>3. Len(checks) \in Nat /\ DOMAIN checks = 1 .. Len(checks)
    BY ChecksType
  <1> QED
    BY <1>1, <1>2, <1>3 DEF IsSnapshot

\* A suite the poll will answer for is settled when the poll reads a complete result.
LEMMA ObligedIsSettled ==
    ASSUME PollInv, phase \in {"runs", "events"},
           NEW listing, NEW shown \in BOOLEAN, NEW dropped, IsReading(listing, shown, dropped),
           FoundGood(listing, shown, dropped), NEW s \in began.obliged
    PROVE  \/ Superseded(s)
           \/ /\ s \in DOMAIN suites
              /\ \E c \in 1 .. Len(listing) : listing[c].suite = s
              /\ \A c \in 1 .. Len(listing) : listing[c].suite = s => listing[c].result # "running"
  <1>1. ChecksAreTheirJobs /\ BeganIsRead /\ IsSnapshot(listing)
    BY DEF PollInv, IsReading
  <1>2. s \in DOMAIN suites /\ began.checks \in Nat
    BY <1>1 DEF BeganIsRead
  <1>3. DOMAIN listing = 1 .. Len(listing) /\ Len(listing) \in Nat /\ DOMAIN checks = 1 .. Len(checks) /\ Len(checks) \in Nat
    BY <1>1, SnapshotOfChecks
  <1>4. CASE s \in dropped
    BY <1>4, ReadingDrops
  <1>5. CASE s \notin dropped /\ \E c \in ChecksOf(s) : c <= began.checks
    <2>1. PICK c \in ChecksOf(s) : c <= began.checks
      BY <1>5
    <2>2. c \in DOMAIN checks /\ checks[c].suite = s
      BY <2>1 DEF ChecksOf
    <2>3. began.checks <= Len(listing)
      BY <1>1 DEF IsSnapshot
    <2>4. c \in 1 .. Len(listing)
      BY <1>2, <1>3, <2>1, <2>2, <2>3
    <2>5. listing[c].suite = s
      BY <1>1, <1>3, <2>2, <2>4, SnapshotOfChecks
    <2>6. \A d \in 1 .. Len(listing) : listing[d].suite = s => listing[d].result # "running"
      BY <1>3, <1>5 DEF FoundGood
    <2> QED
      BY <1>2, <2>4, <2>5, <2>6
  <1>6. CASE /\ s \notin dropped /\ config.readable /\ Gating(suites[s].flow)
             /\ s \in seen.waiting \cup seen.unstarted
    <2>1. NeedsEvents(listing)
      BY <1>6 DEF NeedsEvents
    <2>2. shown
      BY <1>6, <2>1 DEF IsReading
    <2>3. s \notin seen.waiting
      BY <1>6, <2>2 DEF FoundGood
    <2>4. s \notin seen.unstarted
      BY <1>6 DEF FoundGood, NotStarted
    <2> QED
      BY <1>6, <2>3, <2>4
  <1> QED
    BY <1>1, <1>2, <1>4, <1>5, <1>6 DEF BeganIsRead

\* The first of the results that are to be equal.
LEMMA FirstIsCounted ==
    ASSUME PollInv, phase \in {"runs", "events"},
           NEW listing, NEW shown \in BOOLEAN, NEW dropped, IsReading(listing, shown, dropped),
           FoundGood(listing, shown, dropped), EndedThenIsSettled(listing)',
           UNCHANGED <<suites, checks, config>>,
           last' = Result(listing, dropped), stable' = 1,
           obliged' = [suites |-> began.obliged, checks |-> Len(listing), replaced |-> dropped]
    PROVE  FirstResult'
  <1>1. ChecksAreTheirJobs /\ BeganIsRead /\ IsSnapshot(listing)
    BY DEF PollInv, IsReading
  <1>2. /\ obliged'.suites = began.obliged /\ obliged'.checks = Len(listing) /\ obliged'.replaced = dropped
    OBVIOUS
  <1>3. /\ Len(listing) \in 0 .. Len(checks) /\ DOMAIN listing = 1 .. Len(listing) /\ Len(listing) \in Nat
        /\ \A c \in DOMAIN listing :
              /\ listing[c].suite = checks[c].suite /\ listing[c].name = checks[c].name
              /\ listing[c].result # "running" => checks[c].result = listing[c].result
    BY <1>1, SnapshotOfChecks
  <1>4. \A s : Superseded(s) <=> Superseded(s)'
    BY DEF Superseded, SupersededBy
  <1>5. dropped \subseteq {s \in DOMAIN suites' : Superseded(s)'}
    BY <1>4, ReadingDrops
  <1>6. ASSUME NEW s \in began.obliged
        PROVE  Superseded(s)' \/ (Started(s, obliged.checks)' /\ Settled(s, obliged.checks)')
    <2>1. CASE Superseded(s)
      BY <1>4, <2>1
    <2>2. CASE /\ s \in DOMAIN suites
               /\ \E c \in 1 .. Len(listing) : listing[c].suite = s
               /\ \A c \in 1 .. Len(listing) : listing[c].suite = s => listing[c].result # "running"
      <3>1. Settled(s, Len(listing))'
        BY <2>2 DEF EndedThenIsSettled
      <3>2. PICK c \in 1 .. Len(listing) : checks[c].suite = s
        BY <1>3, <2>2
      <3>3. c \in ChecksOf(s)' /\ c <= Len(listing)
        BY <1>1, <1>3, <3>2, SnapshotOfChecks DEF ChecksOf
      <3>4. Started(s, obliged.checks)'
        BY <1>2, <3>3 DEF Started
      <3> QED
        BY <1>2, <3>1, <3>4
    <2> QED
      BY <2>1, <2>2, ObligedIsSettled
  <1>7. \A c \in 1 .. Len(listing) : checks[c].suite \notin dropped =>
            /\ checks[c].result = listing[c].result
            /\ \/ checks[c].result \in {"success", "skipped"}
               \/ /\ checks[c].result = "cancelled"
                  /\ \E d \in c + 1 .. Len(listing) : checks[d].name = checks[c].name
    <2> SUFFICES ASSUME NEW c \in 1 .. Len(listing), checks[c].suite \notin dropped
                 PROVE  /\ checks[c].result = listing[c].result
                        /\ \/ checks[c].result \in {"success", "skipped"}
                           \/ /\ checks[c].result = "cancelled"
                              /\ \E d \in c + 1 .. Len(listing) : checks[d].name = checks[c].name
      OBVIOUS
    <2>1. c \in DOMAIN listing /\ listing[c].suite \notin dropped
      BY <1>3
    <2>2. CASE listing[c].result \in {"success", "skipped"}
      BY <1>3, <2>1, <2>2
    <2>3. CASE listing[c].result = "cancelled" /\ \E d \in DOMAIN listing : d > c /\ listing[d].name = listing[c].name
      <3>1. PICK d \in DOMAIN listing : d > c /\ listing[d].name = listing[c].name
        BY <2>3
      <3>2. d \in c + 1 .. Len(listing) /\ checks[d].name = checks[c].name
        BY <1>3, <2>1, <3>1
      <3> QED
        BY <1>3, <2>1, <2>3, <3>2
    <2> QED
      BY <2>1, <2>2, <2>3 DEF FoundGood
  <1>8. ASSUME NEW n \in Names
        PROVE  CountedIn(n)' = {c \in Relevant(listing, dropped) : listing[c].name = n}
    <2>1. CountedIn(n)' = {c \in 1 .. Len(listing) : /\ checks[c].name = n /\ checks[c].result # "cancelled"
                                                /\ checks[c].suite \notin dropped}
      BY <1>2 DEF CountedIn
    <2>2. \A c \in DOMAIN listing :
            c \in Relevant(listing, dropped) <=> listing[c].suite \notin dropped /\ listing[c].result # "cancelled"
      BY DEF FoundGood
    <2>3. \A c \in 1 .. Len(listing) :
            /\ checks[c].name = n /\ checks[c].result # "cancelled" /\ checks[c].suite \notin dropped
            <=> c \in Relevant(listing, dropped) /\ listing[c].name = n
      BY <1>3, <1>7, <2>2
    <2>4. Relevant(listing, dropped) \subseteq 1 .. Len(listing)
      BY <1>3 DEF Relevant
    <2> QED
      BY <2>1, <2>3, <2>4
  <1>9. last' = [n \in Names |-> Cardinality(CountedIn(n)')]
    BY <1>8 DEF Result
  <1> QED
    BY <1>2, <1>3, <1>5, <1>6, <1>7, <1>9 DEF FirstResult

\* A job that registered between two equal results shows in their numbers, but
\* where a check of its name was left out meanwhile.
LEMMA EqualResultsHideNothing ==
    ASSUME PollInv, phase # "done", stable = 1,
           NEW listing, NEW shown \in BOOLEAN, NEW dropped, IsReading(listing, shown, dropped),
           FoundGood(listing, shown, dropped), last = Result(listing, dropped),
           NEW s \in obliged.suites, ~Superseded(s), ~Disguised(s) \/ dropped = {}
    PROVE  Ended(s, obliged.checks)
  <1>1. ChecksAreTheirJobs /\ IsSnapshot(listing) /\ SinceTheFirst(listing) /\ FirstResult
    BY DEF PollInv, IsReading
  <1>2. /\ Len(listing) \in 0 .. Len(checks) /\ DOMAIN listing = 1 .. Len(listing) /\ Len(listing) \in Nat
        /\ DOMAIN checks = 1 .. Len(checks) /\ Len(checks) \in Nat
        /\ listing \in Seq(Check)
        /\ \A c \in DOMAIN listing : listing[c] \in Check
        /\ \A c \in DOMAIN listing :
              /\ listing[c].suite = checks[c].suite /\ listing[c].name = checks[c].name
              /\ listing[c].result # "running" => checks[c].result = listing[c].result
    BY <1>1, SnapshotOfChecks
  <1>3. obliged.checks \in Nat /\ obliged.checks <= Len(listing)
    BY <1>1 DEF FirstResult, SinceTheFirst
  <1> SUFFICES ASSUME NEW d \in ChecksOf(s), d > obliged.checks, d <= Len(listing)
               PROVE  FALSE
    BY <1>1 DEF SinceTheFirst
  <1>4. d \in DOMAIN listing /\ checks[d].suite = s /\ listing[d].suite = s
    BY <1>2 DEF ChecksOf
  <1> DEFINE n == listing[d].name
             A == CountedIn(n)
             B == {c \in Relevant(listing, dropped) : listing[c].name = n}
  <1>5. n \in Names
    BY <1>2, <1>4 DEF Check
  <1>6. Cardinality(A) = Cardinality(B)
    <2>1. last[n] = Cardinality(CountedIn(n))
      <3>1. last = [k \in Names |-> Cardinality(CountedIn(k))]
        BY <1>1 DEF FirstResult
      <3> HIDE DEF n
      <3> QED
        BY <1>5, <3>1
    <2>2. last[n] = Cardinality({c \in Relevant(listing, dropped) : listing[c].name = n})
      <3>1. last = [k \in Names |-> Cardinality({c \in Relevant(listing, dropped) : listing[c].name = k})]
        BY DEF Result
      <3> HIDE DEF n
      <3> QED
        BY <1>5, <3>1
    <2> QED
      BY <2>1, <2>2
  <1>7. A \subseteq B
    <2> SUFFICES ASSUME NEW c \in A PROVE c \in B
      OBVIOUS
    <2>1. /\ c \in 1 .. obliged.checks /\ checks[c].name = n /\ checks[c].result # "cancelled"
          /\ checks[c].suite \notin obliged.replaced
      BY DEF CountedIn
    <2>2. c \in DOMAIN listing
      BY <1>2, <1>3, <2>1
    <2>3. checks[c].suite \notin dropped
      <3>1. checks[d].name = checks[c].name
        BY <1>2, <1>4, <2>1
      <3>2. ~Disguised(s) => ~(config.readable /\ Superseded(checks[c].suite))
        BY <2>1, <3>1 DEF Disguised
      <3> QED
        BY <3>2, ReadingDrops
    <2>4. listing[c].suite \notin dropped
      BY <1>2, <2>2, <2>3
    <2>5. listing[c].result # "cancelled"
      BY <1>2, <2>1, <2>2
    <2>6. c \in Relevant(listing, dropped) /\ listing[c].name = n
      BY <1>2, <2>1, <2>2, <2>4, <2>5 DEF FoundGood
    <2> QED
      BY <2>6
  <1>8. \E e \in B : e \notin A
    <2>1. listing[d].suite \notin dropped
      BY <1>4, ReadingDrops
    <2>2. PICK e \in Relevant(listing, dropped) : listing[e].name = n /\ e >= d
      BY <1>2, <1>4, <2>1, NewestIsRelevant
    <2>3. e \in DOMAIN listing
      BY <2>2 DEF Relevant
    <2>4. e > obliged.checks
      BY <1>2, <1>3, <1>4, <2>2, <2>3
    <2>5. e \notin 1 .. obliged.checks
      BY <1>3, <2>4
    <2> QED
      BY <2>2, <2>5 DEF CountedIn
  <1>9. B \in SUBSET (1 .. Len(listing))
    BY <1>2 DEF Relevant
  <1>10. IsFiniteSet(B)
    BY <1>2, <1>9, FiniteRange
  <1> HIDE DEF A, B
  <1>11. Cardinality(B) = Cardinality(A) => B = A
    BY <1>7, <1>10, FS_Subset
  <1> QED
    BY <1>6, <1>8, <1>11

\* A pass is complete and clean.
LEMMA SecondPasses ==
    ASSUME PollInv, phase # "done", stable = 1,
           NEW listing, NEW shown \in BOOLEAN, NEW dropped, IsReading(listing, shown, dropped),
           FoundGood(listing, shown, dropped), last = Result(listing, dropped),
           UNCHANGED <<suites, checks, config, obliged>>
    PROVE  PassIsComplete' /\ PassIsClean'
  <1>1. ChecksAreTheirJobs /\ IsSnapshot(listing) /\ FirstResult
    BY DEF PollInv, IsReading
  <1>2. \A s : (Superseded(s) <=> Superseded(s)') /\ (Disguised(s) <=> Disguised(s)')
               /\ (Completed(s) <=> Completed(s)') /\ (Empty(s) <=> Empty(s)') /\ ChecksOf(s)' = ChecksOf(s)
    BY DEF Superseded, SupersededBy, Disguised, ChecksOf, Completed, AllJobs, Running, Empty
  <1>3. \A s \in Judged : s \in obliged.suites /\ ~Superseded(s) /\ Ended(s, obliged.checks)
    BY EqualResultsHideNothing DEF Judged
  <1>4. Judged' = Judged
    BY <1>2 DEF Judged
  <1>5. \A s \in Judged : Completed(s) /\ ~Empty(s)
    BY <1>3 DEF Ended
  <1>6. PassIsComplete'
    BY <1>2, <1>4, <1>5 DEF PassIsComplete
  <1>7. ASSUME NEW s \in Judged, NEW c \in ChecksOf(s), Bad(checks[c])
        PROVE  /\ checks[c].result = "cancelled"
               /\ \E d \in c + 1 .. Len(checks) : checks[d].name = checks[c].name
    <2>1. obliged.checks \in 0 .. Len(checks) /\ Len(checks) \in Nat /\ DOMAIN checks = 1 .. Len(checks)
      BY <1>1, ChecksType DEF FirstResult
    <2>2. c \in DOMAIN checks /\ checks[c].suite = s /\ c <= obliged.checks
      BY <1>3 DEF Ended, ChecksOf
    <2>3. c \in 1 .. obliged.checks
      BY <2>1, <2>2
    <2>4. s \notin obliged.replaced
      BY <1>1, <1>3 DEF FirstResult
    <2>5. checks[c].result = "cancelled" /\ \E d \in c + 1 .. obliged.checks : checks[d].name = checks[c].name
      BY <1>1, <1>7, <2>2, <2>3, <2>4 DEF FirstResult, Bad
    <2>6. \A d \in c + 1 .. obliged.checks : d \in c + 1 .. Len(checks)
      BY <2>1, <2>2
    <2> QED
      BY <2>5, <2>6
  <1>8. \A n \in Required : \E c \in DOMAIN checks : checks[c].name = n /\ checks[c].result = "success"
    <2> SUFFICES ASSUME NEW n \in Required
                 PROVE  \E c \in DOMAIN checks : checks[c].name = n /\ checks[c].result = "success"
      OBVIOUS
    <2>1. PICK c \in DOMAIN listing : listing[c].name = n /\ listing[c].result = "success"
      BY DEF FoundGood
    <2>2. c \in DOMAIN checks /\ checks[c].name = n /\ checks[c].result = "success"
      BY <1>1, <2>1, SnapshotOfChecks
    <2> QED
      BY <2>2
  <1>9. PassIsClean'
    BY <1>2, <1>4, <1>7, <1>8 DEF PassIsClean
  <1> QED
    BY <1>6, <1>9

\* What the gate may name when it fails the commit: the consequent of FailIsGenuine.
StartedAgain(c) ==
    \E d \in c + 1 .. began.checks :
        /\ checks[d].suite > checks[c].suite /\ checks[d].name = checks[c].name
        /\ suites[checks[d].suite].flow = suites[checks[c].suite].flow
Told == {c \in 1 .. began.checks : ~(config.readable /\ Superseded(checks[c].suite))}
BadCheckStands ==
    \E c \in DOMAIN checks :
        /\ Bad(checks[c])
        /\ StartedAgain(c) => ~config.readable /\ checks[c].result # "cancelled"
NeverStartedStands ==
    \E s \in DOMAIN suites :
        /\ Empty(s) /\ Completed(s)
        /\ config.readable =>
              /\ ~SupersededBy(s, began.suites)
              /\ ~Gating(suites[s].flow) =>
                    EventOf[suites[s].flow] = "push" /\ config.event = "pull_request"
RequiredLacks ==
    \E n \in Required :
        \/ \A c \in Told : checks[c].name # n
        \/ \E c \in DOMAIN checks : checks[c].name = n /\ checks[c].result = "skipped"
NothingToJudge == Told = {} /\ ~(AllowNone /\ config.event = "pull_request")
HasCause == BadCheckStands \/ NeverStartedStands \/ RequiredLacks \/ NothingToJudge

LEMMA FailNamesACause == FailIsGenuine <=> (answer = "fail" => HasCause)
  BY DEF FailIsGenuine, HasCause, BadCheckStands, NeverStartedStands, RequiredLacks,
         NothingToJudge, StartedAgain, Told

\* A bad check that counts is not one whose job a newer run of its workflow had
\* started again: the workflow runs would have been read and have shown it.
LEMMA BadCheckWasNotReplaced ==
    ASSUME PollInv, phase \in {"runs", "events"},
           NEW listing, NEW shown \in BOOLEAN, NEW dropped, IsReading(listing, shown, dropped),
           NEW c \in Relevant(listing, dropped), Bad(listing[c])
    PROVE  BadCheckStands
  <1>1. ChecksAreTheirJobs /\ PollTypeOK /\ BeganIsRead /\ IsSnapshot(listing)
    BY DEF PollInv, IsReading
  <1>2. /\ DOMAIN listing = 1 .. Len(listing) /\ Len(listing) \in Nat /\ DOMAIN listing \subseteq DOMAIN checks
        /\ \A d \in DOMAIN listing :
              /\ listing[d].suite = checks[d].suite /\ listing[d].name = checks[d].name
              /\ listing[d].result # "running" => checks[d].result = listing[d].result
    BY <1>1, SnapshotOfChecks
  <1>3. c \in DOMAIN listing /\ c \in DOMAIN checks /\ listing[c].suite \notin dropped
    BY <1>2 DEF Relevant
  <1>4. checks[c].result = listing[c].result /\ Bad(checks[c])
    BY <1>2, <1>3 DEF Bad
  <1>5. ASSUME StartedAgain(c)
        PROVE  ~config.readable /\ checks[c].result # "cancelled"
    <2>1. PICK d \in c + 1 .. began.checks :
              /\ checks[d].suite > checks[c].suite /\ checks[d].name = checks[c].name
              /\ suites[checks[d].suite].flow = suites[checks[c].suite].flow
      BY <1>5 DEF StartedAgain
    <2>2. began.checks \in Nat /\ began.checks <= Len(listing) /\ c \in Nat
      BY <1>1, <1>2, <1>3 DEF IsSnapshot, BeganIsRead
    <2>3. d \in DOMAIN listing /\ d # c /\ d > c
      BY <1>2, <1>3, <2>1, <2>2
    <2>4. listing[d].name = listing[c].name
      BY <1>2, <1>3, <2>1, <2>3
    <2>5. NeedsEvents(listing)
      BY <1>3, <2>3, <2>4 DEF NeedsEvents
    <2>6. shown = config.readable /\ dropped = {s \in DOMAIN suites : config.readable /\ Superseded(s)}
      BY <2>5 DEF IsReading
    <2>7. checks[c].suite \in DOMAIN suites /\ checks[d].suite \in DOMAIN suites
      BY <1>1, <1>2, <1>3, <2>3 DEF ChecksAreTheirJobs
    <2>8. Superseded(checks[c].suite)
      <3>1. DOMAIN suites = 1 .. Len(suites) /\ Len(suites) \in Nat
        BY <1>1, SuitesType
      <3>2. checks[d].suite \in checks[c].suite + 1 .. Len(suites)
        BY <2>1, <2>7, <3>1
      <3> QED
        BY <2>1, <3>2 DEF Superseded, SupersededBy
    <2>9. ~config.readable
      BY <1>2, <1>3, <2>6, <2>7, <2>8
    <2>10. dropped = {}
      BY <2>6, <2>9
    <2>11. listing[c].result # "cancelled"
      <3>1. ~(d <= c)
        BY <1>2, <1>3, <2>3
      <3> QED
        BY <1>3, <2>3, <2>4, <2>10, <3>1 DEF Relevant
    <2> QED
      BY <1>4, <2>9, <2>11
  <1> QED
    BY <1>3, <1>4, <1>5 DEF BadCheckStands

\* What had been told when the poll began counts.
LEMMA ToldCounts ==
    ASSUME PollInv, phase \in {"runs", "events"},
           NEW listing, NEW shown \in BOOLEAN, NEW dropped, IsReading(listing, shown, dropped),
           NEW c \in Told
    PROVE  c \in DOMAIN listing /\ listing[c].suite \notin dropped /\ listing[c].name = checks[c].name
  <1>1. ChecksAreTheirJobs /\ BeganIsRead /\ IsSnapshot(listing)
    BY DEF PollInv, IsReading
  <1>2. /\ DOMAIN listing = 1 .. Len(listing) /\ Len(listing) \in Nat
        /\ \A d \in DOMAIN listing : listing[d].suite = checks[d].suite /\ listing[d].name = checks[d].name
    BY <1>1, SnapshotOfChecks
  <1>3. c \in 1 .. began.checks /\ ~(config.readable /\ Superseded(checks[c].suite))
    BY DEF Told
  <1>4. began.checks \in Nat /\ began.checks <= Len(listing)
    BY <1>1 DEF IsSnapshot, BeganIsRead
  <1>5. c \in DOMAIN listing
    BY <1>2, <1>3, <1>4
  <1> QED
    BY <1>2, <1>3, <1>5 DEF IsReading

LEMMA FailHasCause ==
    ASSUME PollInv, phase \in {"runs", "events"},
           NEW listing, NEW shown \in BOOLEAN, NEW dropped, IsReading(listing, shown, dropped),
           "fail" \in Verdicts(listing, shown, dropped)
    PROVE  HasCause
  <1>1. ChecksAreTheirJobs /\ PollTypeOK /\ BeganIsRead /\ IsSnapshot(listing)
    BY DEF PollInv, IsReading
  <1>2. /\ listing \in Seq(Check) /\ DOMAIN listing = 1 .. Len(listing) /\ Len(listing) \in Nat
        /\ DOMAIN listing \subseteq DOMAIN checks
        /\ \A d \in DOMAIN listing :
              /\ listing[d].suite = checks[d].suite /\ listing[d].name = checks[d].name
              /\ listing[d].result # "running" => checks[d].result = listing[d].result
    BY <1>1, SnapshotOfChecks
  <1>3. Relevant(listing, dropped) \subseteq DOMAIN listing
    BY DEF Relevant
  <1>4. CASE \E c \in Relevant(listing, dropped) : Bad(listing[c])
    BY <1>4, BadCheckWasNotReplaced DEF HasCause
  <1>5. CASE \E s \in seen.unstarted : NotStarted(s, shown, dropped)
    <2>1. PICK s \in seen.unstarted : NotStarted(s, shown, dropped)
      BY <1>5
    <2>2. s \in DOMAIN suites /\ suites[s].state = "cut" /\ Empty(s)
      BY <1>1 DEF BeganIsRead
    <2>3. shown = config.readable /\ dropped = {t \in DOMAIN suites : config.readable /\ Superseded(t)}
      BY <2>1 DEF IsReading, NeedsEvents
    <2>4. ASSUME config.readable
          PROVE  /\ ~SupersededBy(s, began.suites)
                 /\ ~Gating(suites[s].flow) =>
                       EventOf[suites[s].flow] = "push" /\ config.event = "pull_request"
      <3>1. s \notin dropped
        BY <2>1, <2>3, <2>4 DEF NotStarted
      <3>2. ~Superseded(s)
        BY <2>2, <2>3, <2>4, <3>1
      <3>3. began.suites \in Nat /\ Len(suites) \in Nat /\ began.suites <= Len(suites) /\ s \in Nat
        BY <1>1, <2>2, SuitesType DEF BeganIsRead
      <3>4. s + 1 .. began.suites \subseteq s + 1 .. Len(suites)
        BY <3>3
      <3>5. ~SupersededBy(s, began.suites)
        BY <3>2, <3>4 DEF Superseded, SupersededBy
      <3> QED
        BY <2>1, <2>3, <2>4, <3>5 DEF NotStarted
    <2>5. Completed(s)
      BY <2>2 DEF Completed
    <2> QED
      BY <2>2, <2>4, <2>5 DEF HasCause, NeverStartedStands
  <1>6. CASE \E n \in Required : \E c \in Relevant(listing, dropped) :
                 listing[c].name = n /\ listing[c].result = "skipped"
    BY <1>2, <1>3, <1>6 DEF HasCause, RequiredLacks
  <1>7. CASE /\ \A c \in Relevant(listing, dropped) : listing[c].result # "running"
             /\ \E n \in Required : \A c \in Relevant(listing, dropped) : listing[c].name # n
    <2>1. PICK n \in Required : \A c \in Relevant(listing, dropped) : listing[c].name # n
      BY <1>7
    <2>2. ASSUME NEW c \in Told, checks[c].name = n
          PROVE  FALSE
      <3>1. c \in DOMAIN listing /\ listing[c].suite \notin dropped /\ listing[c].name = n
        BY <2>2, ToldCounts
      <3>2. PICK d \in Relevant(listing, dropped) : listing[d].name = listing[c].name /\ d >= c
        BY <1>2, <3>1, NewestIsRelevant
      <3> QED
        BY <2>1, <3>1, <3>2
    <2> QED
      BY <2>2 DEF HasCause, RequiredLacks
  <1>8. CASE Relevant(listing, dropped) = {} /\ ~(AllowNone /\ config.event = "pull_request")
    <2>1. ASSUME NEW c \in Told
          PROVE  FALSE
      <3>1. c \in DOMAIN listing /\ listing[c].suite \notin dropped
        BY ToldCounts
      <3>2. \E d \in Relevant(listing, dropped) : listing[d].name = listing[c].name /\ d >= c
        BY <1>2, <3>1, NewestIsRelevant
      <3> QED
        BY <1>8, <3>2
    <2> QED
      BY <1>8, <2>1 DEF HasCause, NothingToJudge
  <1> QED
    BY <1>2, <1>4, <1>5, <1>6, <1>7, <1>8, FailFoundACause

-----------------------------------------------------------------------------
(* The steps of a poll.                                                    *)

\* A step of the gate that reads or waits: the result it counts stands.
LEMMA GateStepKeeps ==
    ASSUME PollInv, UNCHANGED <<suites, checks, late, config, last, stable, obliged>>,
           phase # "done"
    PROVE  /\ ChecksAreTheirJobs'
           /\ phase' # "done" => FirstResult'
           /\ answer' \in {"none", "spent", "timeout"} => PassIsComplete' /\ PassIsClean' /\ FailIsGenuine'
  <1>1. ChecksAreTheirJobs'
    BY DEF PollInv, ChecksAreTheirJobs, ChecksOf, Empty, Running
  <1>2. \A s, m : (Settled(s, m) <=> Settled(s, m)') /\ (Started(s, m) <=> Started(s, m)')
    BY DEF Started, Settled, Ended, Grown, Completed, Due, AllJobs, Running, Empty, ChecksOf
  <1>3. \A s : Superseded(s) <=> Superseded(s)'
    BY DEF Superseded, SupersededBy
  <1>4. \A n : CountedIn(n)' = CountedIn(n)
    BY DEF CountedIn
  <1>5. FirstResult'
    BY <1>2, <1>3, <1>4 DEF PollInv, FirstResult
  <1> QED
    BY <1>1, <1>5 DEF PassIsComplete, PassIsClean, FailIsGenuine

LEMMA QuietStepKeepsPollInv ==
    ASSUME PollInv, UNCHANGED <<suites, checks, late, config, last, stable, obliged>>,
           phase # "done", phase' \in {"sleep", "suites", "done"},
           left' \in 0 .. MaxPolls, missed' \in 0 .. MaxMissed,
           answer' \in {"none", "spent", "timeout"}, answer' = "none" <=> phase' # "done"
    PROVE  PollInv'
  <1>1. ChecksAreTheirJobs' /\ FirstResult' /\ PassIsComplete' /\ PassIsClean' /\ FailIsGenuine'
    BY GateStepKeeps DEF FirstResult
  <1>2. PollTypeOK'
    BY DEF PollInv, PollTypeOK
  <1>3. BeganIsRead' /\ RunsAreRead'
    BY DEF BeganIsRead, RunsAreRead
  <1> QED
    BY <1>1, <1>2, <1>3 DEF PollInv

LEMMA WakeKeepsPollInv ==
    ASSUME PollInv, Wake
    PROVE  PollInv'
  <1>1. PollTypeOK /\ left > 0 /\ left' = left - 1 /\ phase' = "suites" /\ phase = "sleep"
    BY DEF PollInv, Wake
  <1>2. UNCHANGED <<suites, checks, late, config, last, stable, obliged, missed, answer>>
    BY DEF Wake, world
  <1>3. left' \in 0 .. MaxPolls
    BY <1>1, PollBounds DEF PollTypeOK
  <1>4. missed' \in 0 .. MaxMissed /\ answer' = "none"
    BY <1>1, <1>2 DEF PollTypeOK
  <1> QED
    BY <1>1, <1>2, <1>3, <1>4, QuietStepKeepsPollInv

LEMMA TimeOutKeepsPollInv ==
    ASSUME PollInv, TimeOut
    PROVE  PollInv'
  <1>1. PollTypeOK /\ phase = "sleep" /\ phase' = "done" /\ answer' = "timeout"
    BY DEF PollInv, TimeOut
  <1>2. UNCHANGED <<suites, checks, late, config, last, stable, obliged, missed, left>>
    BY DEF TimeOut, world
  <1>3. left' \in 0 .. MaxPolls /\ missed' \in 0 .. MaxMissed
    BY <1>1, <1>2 DEF PollTypeOK
  <1> QED
    BY <1>1, <1>2, <1>3, QuietStepKeepsPollInv

LEMMA FaultCounts ==
    ASSUME PollTypeOK, Fault
    PROVE  missed' \in 0 .. MaxMissed /\ phase # "done" /\ answer = "none"
  <1>1. missed \in 0 .. MaxMissed /\ missed < MaxMissed /\ missed' = missed + 1
    BY DEF PollTypeOK, Fault
  <1>2. missed' \in 0 .. MaxMissed
    BY <1>1, PollBounds
  <1> QED
    BY <1>2 DEF PollTypeOK, Fault, Reading

LEMMA PollFailsKeepsPollInv ==
    ASSUME PollInv, PollFails
    PROVE  PollInv'
  <1>1. PollTypeOK /\ Fault /\ phase' = "sleep"
    BY DEF PollInv, PollFails
  <1>2. UNCHANGED <<suites, checks, late, config, last, stable, obliged, left, answer>>
    BY DEF PollFails, world
  <1>3. missed' \in 0 .. MaxMissed /\ phase # "done" /\ answer = "none"
    BY <1>1, FaultCounts
  <1>4. left' \in 0 .. MaxPolls
    BY <1>1, <1>2 DEF PollTypeOK
  <1> QED
    BY <1>1, <1>2, <1>3, <1>4, QuietStepKeepsPollInv

LEMMA BudgetSpentKeepsPollInv ==
    ASSUME PollInv, BudgetSpent
    PROVE  PollInv'
  <1>1. PollTypeOK /\ Fault
    BY DEF PollInv, BudgetSpent
  <1>2. UNCHANGED <<suites, checks, late, config, last, stable, obliged>>
    BY DEF BudgetSpent, world
  <1>3. missed' \in 0 .. MaxMissed /\ phase # "done" /\ answer = "none"
    BY <1>1, FaultCounts
  <1>4. left \in 0 .. MaxPolls
    BY <1>1 DEF PollTypeOK
  <1>5. left' \in 0 .. MaxPolls
    BY <1>4, PollBounds DEF BudgetSpent
  <1>6. \/ phase' = "sleep" /\ answer' = answer
        \/ phase' = "done" /\ answer' = "spent"
    BY DEF BudgetSpent
  <1> QED
    BY <1>2, <1>3, <1>5, <1>6, QuietStepKeepsPollInv

\* A cause names the state, not the answer: it stands while nothing moves.
LEMMA CauseStands ==
    ASSUME UNCHANGED <<suites, checks, config, began>>
    PROVE  HasCause <=> HasCause'
  <1>1. \A s : /\ (Superseded(s) <=> Superseded(s)') /\ (Empty(s) <=> Empty(s)')
               /\ (Completed(s) <=> Completed(s)')
               /\ \A n : (SupersededBy(s, n) <=> SupersededBy(s, n)')
    BY DEF Superseded, SupersededBy, Empty, Completed, AllJobs, Running, ChecksOf
  <1>2. Told' = Told /\ \A c : StartedAgain(c) <=> StartedAgain(c)'
    BY <1>1 DEF Told, StartedAgain
  <1>3. BadCheckStands <=> BadCheckStands'
    BY <1>2 DEF BadCheckStands, Bad
  <1>4. NeverStartedStands <=> NeverStartedStands'
    BY <1>1 DEF NeverStartedStands, Gating
  <1>5. (RequiredLacks <=> RequiredLacks') /\ (NothingToJudge <=> NothingToJudge')
    BY <1>2 DEF RequiredLacks, NothingToJudge
  <1> QED
    BY <1>3, <1>4, <1>5 DEF HasCause

\* The steps that judge what was read.
LEMMA EvaluateKeeps ==
    ASSUME PollInv, phase \in {"runs", "events"},
           NEW listing, NEW shown \in BOOLEAN, NEW dropped, IsReading(listing, shown, dropped),
           Evaluate(listing, shown, dropped), EndedThenIsSettled(listing)',
           UNCHANGED <<suites, checks, config, missed>>, late' \subseteq DOMAIN suites
    PROVE  PollInv'
  <1>1. /\ PollTypeOK /\ ChecksAreTheirJobs /\ BeganIsRead /\ FirstResult
        /\ phase # "done" /\ answer = "none"
    BY DEF PollInv, PollTypeOK
  <1>2. listing \in Seq(Check) /\ UNCHANGED left
    BY DEF IsReading, IsSnapshot, Evaluate
  <1>3. ChecksAreTheirJobs'
    BY <1>1 DEF ChecksAreTheirJobs, ChecksOf, Empty, Running
  <1>4. ASSUME phase' \in {"sleep", "done"}, answer' \in {"none", "pass", "fail"},
               answer' = "none" <=> phase' # "done", stable' \in 0 .. 2,
               obliged'.suites \subseteq DOMAIN suites
        PROVE  PollTypeOK' /\ BeganIsRead' /\ RunsAreRead'
    <2>1. PollTypeOK'
      BY <1>1, <1>2, <1>4 DEF PollTypeOK
    <2> QED
      BY <1>4, <2>1 DEF BeganIsRead, RunsAreRead
  <1>5. PICK v \in Verdicts(listing, shown, dropped) :
          \/ /\ v = "fail" /\ phase' = "done" /\ answer' = "fail"
             /\ UNCHANGED <<last, stable, obliged>>
          \/ /\ v = "none" /\ phase' = "sleep" /\ stable' = 0 /\ last' = NoResult
             /\ obliged' = NotObliged /\ UNCHANGED answer
          \/ /\ v = "pass"
             /\ CountResult(Result(listing, dropped),
                            [suites |-> began.obliged, checks |-> Len(listing), replaced |-> dropped])
    BY DEF Evaluate
  <1>6. CASE v = "fail"
    <2>1. phase' = "done" /\ answer' = "fail" /\ UNCHANGED <<last, stable, obliged, began>>
      BY <1>5, <1>6 DEF Evaluate
    <2>2. stable' \in 0 .. 2 /\ obliged'.suites \subseteq DOMAIN suites
      BY <1>1, <2>1 DEF PollTypeOK
    <2>3. HasCause
      BY <1>5, <1>6, FailHasCause
    <2>4. HasCause'
      BY <2>1, <2>3, CauseStands
    <2>5. FailIsGenuine'
      BY <2>4 DEF FailIsGenuine, HasCause, BadCheckStands, NeverStartedStands, RequiredLacks,
             NothingToJudge, StartedAgain, Told
    <2>6. PassIsComplete' /\ PassIsClean' /\ FirstResult'
      BY <2>1 DEF PassIsComplete, PassIsClean, FirstResult
    <2> QED
      BY <1>3, <1>4, <2>1, <2>2, <2>5, <2>6 DEF PollInv
  <1>7. CASE v = "none"
    <2>1. phase' = "sleep" /\ stable' = 0 /\ obliged' = NotObliged /\ answer' = "none"
      BY <1>1, <1>5, <1>7
    <2>2. stable' \in 0 .. 2 /\ obliged'.suites \subseteq DOMAIN suites
      BY <2>1 DEF NotObliged
    <2>3. PassIsComplete' /\ PassIsClean' /\ FailIsGenuine' /\ FirstResult'
      BY <2>1 DEF PassIsComplete, PassIsClean, FailIsGenuine, FirstResult
    <2> QED
      BY <1>3, <1>4, <2>1, <2>2, <2>3 DEF PollInv
  <1>8. CASE v = "pass"
    <2> DEFINE result == Result(listing, dropped)
               answersFor == [suites |-> began.obliged, checks |-> Len(listing), replaced |-> dropped]
    <2>1. FoundGood(listing, shown, dropped)
      BY <1>2, <1>5, <1>8, PassFoundGood
    <2>2. CountResult(result, answersFor)
      BY <1>5, <1>8
    <2>3. CASE stable > 0 /\ result = last
      <3>1. stable = 1
        BY <1>1, <2>3 DEF FirstResult
      <3>2. stable' = 2 /\ obliged' = obliged /\ phase' = "done" /\ answer' = "pass"
        <4>1. stable' = 2 /\ obliged' = obliged
          BY <2>2, <2>3, <3>1 DEF CountResult
        <4> QED
          BY <2>2, <4>1 DEF CountResult
      <3>3. PassIsComplete' /\ PassIsClean'
        BY <1>1, <2>1, <2>3, <3>1, <3>2, SecondPasses
      <3>4. FailIsGenuine' /\ FirstResult'
        BY <3>2 DEF FailIsGenuine, FirstResult
      <3>5. stable' \in 0 .. 2 /\ obliged'.suites \subseteq DOMAIN suites
        BY <1>1, <3>2 DEF PollTypeOK
      <3> QED
        BY <1>3, <1>4, <3>2, <3>3, <3>4, <3>5 DEF PollInv
    <2>4. CASE ~(stable > 0 /\ result = last)
      <3>1. stable' = 1 /\ last' = result /\ obliged' = answersFor
        BY <2>2, <2>4 DEF CountResult
      <3>2. phase' = "sleep" /\ answer' = "none"
        BY <1>1, <2>2, <3>1 DEF CountResult
      <3>3. FirstResult'
        BY <2>1, <3>1, FirstIsCounted
      <3>4. PassIsComplete' /\ PassIsClean' /\ FailIsGenuine'
        BY <3>2 DEF PassIsComplete, PassIsClean, FailIsGenuine
      <3>5. stable' \in 0 .. 2 /\ obliged'.suites \subseteq DOMAIN suites
        BY <1>1, <3>1 DEF BeganIsRead
      <3> QED
        BY <1>3, <1>4, <3>2, <3>3, <3>4, <3>5 DEF PollInv
    <2> QED
      BY <2>3, <2>4
  <1> QED
    BY <1>5, <1>6, <1>7, <1>8

\* What the first read finds of a suite without checks: it ended only if it was cut.
LEMMA EmptyEndsCut ==
    ASSUME PollTypeOK, NEW s \in DOMAIN suites, Empty(s), Completed(s)
    PROVE  suites[s].state = "cut"
  <1>1. Cardinality(ChecksOf(s)) = 0
    BY FS_EmptySet DEF Empty
  <1>2. Len(Jobs[suites[s].flow]) # 0
    BY SuitesType, JobsOf
  <1> QED
    BY <1>1, <1>2 DEF Completed, AllJobs

LEMMA ReadSuitesKeepsPollInv ==
    ASSUME PollInv, ReadSuites
    PROVE  PollInv'
  <1>1. PollTypeOK /\ ChecksAreTheirJobs /\ phase = "suites" /\ phase' = "runs"
    BY DEF PollInv, ReadSuites
  <1>2. UNCHANGED <<suites, checks, late, config, last, stable, obliged, missed, answer, left>>
    BY DEF ReadSuites, world
  <1>3. PollTypeOK' /\ answer' = "none"
    BY <1>1, <1>2 DEF PollTypeOK
  <1>4. ChecksAreTheirJobs' /\ FirstResult' /\ PassIsComplete' /\ PassIsClean' /\ FailIsGenuine'
    BY <1>1, <1>2, <1>3, GateStepKeeps
  <1>5. /\ seen'.waiting = {s \in DOMAIN suites : Empty(s) /\ ~Completed(s)}
        /\ seen'.unstarted = {s \in DOMAIN suites : Empty(s) /\ Completed(s)}
    BY DEF ReadSuites, NothingSeen
  <1>6. /\ began'.suites = Len(suites) /\ began'.checks = Len(checks)
        /\ began'.obliged = {s \in DOMAIN suites :
                               ~Empty(s) \/ (config.readable /\ Gating(suites[s].flow))}
    BY DEF ReadSuites
  <1>7. BeganIsRead'
    <2>1. /\ Len(suites) \in Nat /\ Len(checks) \in Nat /\ DOMAIN checks = 1 .. Len(checks)
      BY <1>1, SuitesType, ChecksType
    <2>2. began'.suites \in 0 .. Len(suites') /\ began'.checks \in 0 .. Len(checks')
      BY <1>2, <1>6, <2>1
    <2>3. \A s \in seen'.unstarted : suites'[s].state = "cut" /\ Empty(s)'
      BY <1>1, <1>2, <1>5, EmptyEndsCut DEF Empty, ChecksOf
    <2>4. ASSUME NEW s \in began'.obliged
          PROVE  \/ \E c \in ChecksOf(s)' : c <= began'.checks
                 \/ /\ config'.readable /\ Gating(suites'[s].flow)
                    /\ s \in seen'.waiting \cup seen'.unstarted
      <3>1. CASE ~Empty(s)
        <4>1. PICK c \in ChecksOf(s) : TRUE
          BY <3>1 DEF Empty
        <4>2. c <= Len(checks)
          BY <2>1, <4>1 DEF ChecksOf
        <4>3. c \in ChecksOf(s)'
          BY <1>2, <4>1 DEF ChecksOf
        <4> QED
          BY <1>6, <4>2, <4>3
      <3>2. CASE Empty(s) /\ config.readable /\ Gating(suites[s].flow)
        <4>1. s \in seen'.waiting \cup seen'.unstarted
          BY <1>5, <1>6, <3>2
        <4> QED
          BY <1>2, <3>2, <4>1 DEF Gating
      <3> QED
        BY <1>6, <3>1, <3>2
    <2> QED
      BY <1>2, <1>5, <1>6, <2>2, <2>3, <2>4 DEF BeganIsRead
  <1>8. RunsAreRead'
    BY <1>1 DEF RunsAreRead
  <1> QED
    BY <1>3, <1>4, <1>7, <1>8 DEF PollInv

\* A job that was due at the poll before has registered: so the check runs read
\* now show whatever grew, and what they show ended is settled.
LEMMA ReadRunsShows ==
    ASSUME PollInv, phase = "runs", \A s \in late : ~Due(s),
           late' = {s \in DOMAIN suites : Due(s)}, UNCHANGED <<suites, checks>>,
           NEW listing, listing = checks
    PROVE  IsSnapshot(listing) /\ EndedThenIsSettled(listing)' /\ SinceTheFirst(listing)
  <1>1. PollTypeOK /\ ChecksAreTheirJobs /\ BeganIsRead /\ FirstResult
    BY DEF PollInv
  <1>2. checks \in Seq(Check) /\ Len(checks) \in Nat /\ DOMAIN checks = 1 .. Len(checks)
    BY <1>1, ChecksType DEF ChecksAreTheirJobs
  <1>3. IsSnapshot(listing)
    <2>1. began.checks <= Len(listing) /\ Len(listing) <= Len(checks)
      BY <1>1, <1>2 DEF BeganIsRead
    <2> QED
      BY <1>2, <2>1 DEF IsSnapshot
  <1>4. EndedThenIsSettled(listing)'
    <2> SUFFICES ASSUME NEW s \in DOMAIN suites,
                        \E c \in 1 .. Len(listing) : listing[c].suite = s,
                        \A c \in 1 .. Len(listing) : listing[c].suite = s => listing[c].result # "running"
                 PROVE  Settled(s, Len(listing))'
      BY DEF EndedThenIsSettled
    <2>1. ~Empty(s) /\ ~Running(s) /\ \A c \in ChecksOf(s) : c <= Len(listing)
      BY <1>2 DEF Empty, Running, ChecksOf
    <2>2. /\ ChecksOf(s)' = ChecksOf(s) /\ (Empty(s) <=> Empty(s)')
          /\ (Completed(s) <=> Completed(s)') /\ (Due(s) <=> Due(s)')
      BY DEF ChecksOf, Empty, Completed, Due, AllJobs, Running
    <2>3. CASE Completed(s)
      <3>1. Ended(s, Len(listing))'
        BY <2>1, <2>2, <2>3 DEF Ended
      <3> QED
        BY <3>1 DEF Settled
    <2>4. CASE ~Completed(s)
      <3>1. suites[s].state = "open"
        <4>1. suites[s].state \in {"queued", "open", "cut"}
          BY <1>1, SuitesType
        <4> QED
          BY <1>1, <2>1, <2>4, <4>1 DEF ChecksAreTheirJobs, Completed
      <3>2. Due(s)
        BY <2>1, <2>4, <3>1 DEF Due, Completed
      <3> QED
        BY <2>2, <3>2 DEF Settled
    <2> QED
      BY <2>3, <2>4
  <1>5. SinceTheFirst(listing)
    <2> SUFFICES ASSUME stable = 1
                 PROVE  /\ obliged.checks <= Len(listing)
                        /\ \A s \in obliged.suites :
                              \/ Superseded(s) \/ Ended(s, obliged.checks)
                              \/ \E c \in ChecksOf(s) : c > obliged.checks /\ c <= Len(listing)
      BY DEF SinceTheFirst
    <2>1. /\ obliged.checks \in 0 .. Len(checks)
          /\ \A s \in obliged.suites : Superseded(s) \/ Settled(s, obliged.checks)
      BY <1>1 DEF FirstResult
    <2>2. \A s \in obliged.suites :
              \/ Superseded(s) \/ Ended(s, obliged.checks)
              \/ \E c \in ChecksOf(s) : c > obliged.checks
      BY <2>1 DEF Settled, Grown
    <2>3. \A s : \A c \in ChecksOf(s) : c <= Len(listing)
      BY <1>2 DEF ChecksOf
    <2> QED
      BY <1>2, <2>1, <2>2, <2>3
  <1> QED
    BY <1>3, <1>4, <1>5

LEMMA ReadableIsKnown ==
    ASSUME PollTypeOK
    PROVE  config.readable \in BOOLEAN
  BY ConstantsAssumption DEF PollTypeOK

LEMMA ReadRunsKeepsPollInv ==
    ASSUME PollInv, ReadRuns
    PROVE  PollInv'
  <1>1. /\ PollTypeOK /\ ChecksAreTheirJobs /\ BeganIsRead /\ FirstResult
        /\ phase = "runs" /\ answer = "none"
    BY DEF PollInv, PollTypeOK, ReadRuns
  <1>2. /\ \A s \in late : ~Due(s)
        /\ late' = {s \in DOMAIN suites : Due(s)}
        /\ UNCHANGED <<suites, checks, config, missed>>
    BY DEF ReadRuns
  <1>3. PICK r : r = checks
    OBVIOUS
  <1>4. IsSnapshot(r) /\ EndedThenIsSettled(r)' /\ SinceTheFirst(r)
    BY <1>1, <1>2, <1>3, ReadRunsShows
  <1>5. late' \subseteq DOMAIN suites
    BY <1>2
  <1>6. CASE ~NeedsEvents(checks) /\ Evaluate(checks, FALSE, {})
    <2>1. IsReading(r, FALSE, {}) /\ Evaluate(r, FALSE, {})
      BY <1>3, <1>4, <1>6 DEF IsReading
    <2>2. FALSE \in BOOLEAN
      OBVIOUS
    <2> QED
      BY <1>1, <1>2, <1>4, <1>5, <2>1, <2>2, EvaluateKeeps
  <1>7. CASE /\ phase' = "events" /\ seen' = [seen EXCEPT !.runs = checks]
             /\ UNCHANGED <<left, last, stable, answer, began, obliged>>
    <2>1. PollTypeOK'
      BY <1>1, <1>2, <1>5, <1>7 DEF PollTypeOK
    <2>2. ChecksAreTheirJobs'
      BY <1>1, <1>2 DEF ChecksAreTheirJobs, ChecksOf, Empty, Running
    <2>3. seen'.waiting = seen.waiting /\ seen'.unstarted = seen.unstarted
      BY <1>7
    <2>4. BeganIsRead'
      BY <1>1, <1>2, <1>7, <2>3 DEF BeganIsRead, Empty, ChecksOf, Gating
    <2>5. RunsAreRead'
      <3>1. IsSnapshot(r)'
        BY <1>2, <1>4, <1>7 DEF IsSnapshot
      <3>2. \A s, m : /\ (Superseded(s) <=> Superseded(s)') /\ ChecksOf(s)' = ChecksOf(s)
                      /\ (Ended(s, m) <=> Ended(s, m)')
        BY <1>2 DEF Superseded, SupersededBy, Ended, Completed, AllJobs, Running, Empty, ChecksOf
      <3>3. SinceTheFirst(r)'
        BY <1>4, <1>7, <3>2 DEF SinceTheFirst
      <3> QED
        BY <1>3, <1>4, <1>7, <3>1, <3>3 DEF RunsAreRead
    <2>6. FirstResult'
      <3>1. \A s, m : (Settled(s, m) => Settled(s, m)') /\ (Started(s, m) <=> Started(s, m)')
        BY <1>2 DEF Started, Settled, Ended, Grown, Completed, AllJobs, Running, Empty, ChecksOf
      <3>2. \A s : Superseded(s) <=> Superseded(s)'
        BY <1>2 DEF Superseded, SupersededBy
      <3>3. \A n : CountedIn(n)' = CountedIn(n)
        BY <1>2, <1>7 DEF CountedIn
      <3> QED
        BY <1>1, <1>2, <1>7, <3>1, <3>2, <3>3 DEF FirstResult
    <2>7. PassIsComplete' /\ PassIsClean' /\ FailIsGenuine'
      BY <1>1, <1>7 DEF PassIsComplete, PassIsClean, FailIsGenuine
    <2> QED
      BY <2>1, <2>2, <2>4, <2>5, <2>6, <2>7 DEF PollInv
  <1> QED
    BY <1>6, <1>7 DEF ReadRuns

LEMMA ReadEventsKeepsPollInv ==
    ASSUME PollInv, ReadEvents
    PROVE  PollInv'
  <1>1. PollTypeOK /\ phase = "events" /\ UNCHANGED <<suites, checks, late, config, missed>>
    BY DEF PollInv, ReadEvents, world
  <1>2. PICK r : r = seen.runs
    OBVIOUS
  <1>3. PICK shown \in BOOLEAN : shown = config.readable
    BY <1>1, ReadableIsKnown
  <1>4. PICK dropped : dropped = {s \in DOMAIN suites : config.readable /\ Superseded(s)}
    OBVIOUS
  <1>5. IsSnapshot(r) /\ EndedThenIsSettled(r) /\ SinceTheFirst(r)
    BY <1>1, <1>2 DEF PollInv, RunsAreRead
  <1>6. IsReading(r, shown, dropped)
    BY <1>3, <1>4, <1>5 DEF IsReading
  <1>7. Evaluate(r, shown, dropped)
    BY <1>2, <1>3, <1>4 DEF ReadEvents
  <1>8. EndedThenIsSettled(r)'
    <2>1. \A s, m : Settled(s, m) <=> Settled(s, m)'
      BY <1>1 DEF Settled, Ended, Grown, Completed, Due, AllJobs, Running, Empty, ChecksOf
    <2> QED
      BY <1>1, <1>5, <2>1 DEF EndedThenIsSettled
  <1>9. late' \subseteq DOMAIN suites
    BY <1>1 DEF PollTypeOK
  <1> QED
    BY <1>1, <1>6, <1>7, <1>8, <1>9, EvaluateKeeps

-----------------------------------------------------------------------------
(* What the aggregate promises.                                            *)

LEMMA PollInitPollInv ==
    PollInit => PollInv
  <1> SUFFICES ASSUME PollInit PROVE PollInv
    OBVIOUS
  <1>1. suites = <<>> /\ checks = <<>> /\ late = {} /\ DOMAIN suites = {} /\ DOMAIN checks = {}
    BY DEF PollInit
  <1>2. suites \in Seq([flow : Flows, state : {"queued", "open", "cut"}]) /\ checks \in Seq(Check)
        /\ Len(suites) = 0
    BY <1>1, EmptySeq
  <1>3. PollTypeOK
    BY <1>1, <1>2, PollBounds DEF PollInit, PollTypeOK, NotObliged
  <1>4. ChecksAreTheirJobs
    BY <1>1, <1>2 DEF ChecksAreTheirJobs
  <1>5. BeganIsRead /\ RunsAreRead /\ FirstResult /\ PassIsComplete /\ PassIsClean /\ FailIsGenuine
    BY DEF PollInit, BeganIsRead, RunsAreRead, FirstResult, PassIsComplete, PassIsClean, FailIsGenuine
  <1> QED
    BY <1>3, <1>4, <1>5 DEF PollInv

LEMMA PollStepKeepsPollInv ==
    PollInv /\ [PollNext]_pollVars => PollInv'
  <1>1. ASSUME PollInv, PollNext PROVE PollInv'
    BY <1>1, WorldKeepsPollInv, WakeKeepsPollInv, TimeOutKeepsPollInv, ReadSuitesKeepsPollInv,
       ReadRunsKeepsPollInv, ReadEventsKeepsPollInv, PollFailsKeepsPollInv, BudgetSpentKeepsPollInv
       DEF PollNext, Poll
  <1>2. ASSUME PollInv, UNCHANGED pollVars PROVE PollInv'
    <2>1. UNCHANGED <<suites, checks, late, config, phase, left, seen, last, stable, answer,
                      missed, began, obliged>>
      BY <1>2 DEF pollVars, world, gate
    <2>2. PollTypeOK' /\ ChecksAreTheirJobs'
      BY <1>2, <2>1 DEF PollInv, PollTypeOK, ChecksAreTheirJobs, ChecksOf, Empty, Running
    <2>3. /\ \A s, m : /\ (Superseded(s) <=> Superseded(s)') /\ ChecksOf(s)' = ChecksOf(s)
                       /\ (Empty(s) <=> Empty(s)') /\ (Completed(s) <=> Completed(s)')
                       /\ (Ended(s, m) <=> Ended(s, m)') /\ (Settled(s, m) <=> Settled(s, m)')
                       /\ (SupersededBy(s, m) <=> SupersededBy(s, m)') /\ (Started(s, m) <=> Started(s, m)')
          /\ \A n : CountedIn(n)' = CountedIn(n)
      BY <2>1 DEF Superseded, SupersededBy, Started, Settled, Ended, Grown, Completed, Due, AllJobs, Running,
             Empty, ChecksOf, CountedIn
    <2>4. BeganIsRead'
      BY <1>2, <2>1, <2>3 DEF PollInv, BeganIsRead, Gating
    <2>5. RunsAreRead'
      <3>1. phase = "events" => IsSnapshot(seen.runs)'
        BY <1>2, <2>1 DEF PollInv, RunsAreRead, IsSnapshot
      <3>2. phase = "events" => EndedThenIsSettled(seen.runs)'
        BY <1>2, <2>1, <2>3 DEF PollInv, RunsAreRead, EndedThenIsSettled
      <3>3. phase = "events" => SinceTheFirst(seen.runs)'
        BY <1>2, <2>1, <2>3 DEF PollInv, RunsAreRead, SinceTheFirst
      <3> QED
        BY <2>1, <3>1, <3>2, <3>3 DEF RunsAreRead
    <2>6. FirstResult'
      BY <1>2, <2>1, <2>3 DEF PollInv, FirstResult
    <2>7. PassIsComplete' /\ PassIsClean'
      <3>1. Judged' = Judged
        BY <2>1, <2>3 DEF Judged, Disguised
      <3> QED
        BY <1>2, <2>1, <2>3, <3>1 DEF PollInv, PassIsComplete, PassIsClean, Bad
    <2>8. FailIsGenuine'
      <3>1. answer = "fail" => HasCause
        BY <1>2, FailNamesACause DEF PollInv
      <3>2. answer' = "fail" => HasCause'
        BY <2>1, <3>1, CauseStands
      <3> QED
        BY <3>2 DEF FailIsGenuine, HasCause, BadCheckStands, NeverStartedStands, RequiredLacks,
               NothingToJudge, StartedAgain, Told
    <2> QED
      BY <2>2, <2>4, <2>5, <2>6, <2>7, <2>8 DEF PollInv
  <1> QED
    BY <1>1, <1>2

\* The inductive invariant: what the gate and the forge keep between two reads.
THEOREM PollInvariant == PollSpec => []PollInv
  <1>1. PollInit => PollInv
    BY PollInitPollInv
  <1>2. PollInv /\ [PollNext]_pollVars => PollInv'
    BY PollStepKeepsPollInv
  <1> QED
    BY <1>1, <1>2, PTL DEF PollSpec

\* When the aggregate passes, every workflow it answers for has run to its end
\* without a bad check, however the forge's steps fall between its reads.
THEOREM PassIsCompleteAndClean == PollSpec => []OkInv
  <1>1. PollInv => OkInv
    BY DEF PollInv, OkInv
  <1> QED
    BY <1>1, PollInvariant, PTL

\* When the aggregate fails the commit, a cause stands that the code may name.
THEOREM FailureIsGenuine == PollSpec => []FailIsGenuine
  <1>1. PollInv => FailIsGenuine
    BY DEF PollInv
  <1> QED
    BY <1>1, PollInvariant, PTL

-----------------------------------------------------------------------------
(* Names that are apart.                                                   *)

\* No two jobs bear one name.
NamesApart ==
    \A f, g \in Flows : \A i \in DOMAIN Jobs[f], j \in DOMAIN Jobs[g] :
        Jobs[f][i] = Jobs[g][j] => f = g /\ i = j

IsJob(c, k) == checks[c].name = Jobs[suites[checks[c].suite].flow][k]

\* The jobs of a run register one after the other, each when the one before it has
\* ended, and none after one that was cancelled.
EachIsAJob ==
    \A c \in DOMAIN checks :
        \E k \in 1 .. Cardinality(ChecksOf(checks[c].suite)) :
            /\ IsJob(c, k)
            /\ \A j \in 1 .. k - 1 : \E b \in ChecksOf(checks[c].suite) : b < c /\ IsJob(b, j)
EachJobIsBorne ==
    \A s \in DOMAIN suites : \A k \in 1 .. Cardinality(ChecksOf(s)) : \E c \in ChecksOf(s) : IsJob(c, k)
OneOfEachName ==
    NamesApart => \A c, d \in DOMAIN checks :
                      checks[c].suite = checks[d].suite /\ c < d => checks[c].name # checks[d].name
OnlyTheLastRuns ==
    \A c, d \in DOMAIN checks :
        checks[c].suite = checks[d].suite /\ c < d => checks[c].result \notin {"running", "cancelled"}
CancelledIsCut ==
    \A c \in DOMAIN checks : checks[c].result = "cancelled" => suites[checks[c].suite].state = "cut"
JobsInOrder == EachIsAJob /\ EachJobIsBorne /\ OneOfEachName /\ OnlyTheLastRuns /\ CancelledIsCut

\* The next job of s registers.
OneMore(s) ==
    /\ Due(s) /\ DOMAIN suites' = DOMAIN suites
    /\ DOMAIN checks' = DOMAIN checks \cup {Len(checks) + 1} /\ Len(checks) + 1 \notin DOMAIN checks
    /\ checks'[Len(checks) + 1].suite = s /\ checks'[Len(checks) + 1].name = NextJob(s)
    /\ ChecksOf(s)' = ChecksOf(s) \cup {Len(checks) + 1}
    /\ Cardinality(ChecksOf(s)') = Cardinality(ChecksOf(s)) + 1
    /\ \A t : t # s => ChecksOf(t)' = ChecksOf(t)

LEMMA NamesStay ==
    ASSUME PollTypeOK, ChecksAreTheirJobs, JobsInOrder, GoesOn, DOMAIN checks' = DOMAIN checks
    PROVE  EachIsAJob' /\ EachJobIsBorne' /\ OneOfEachName'
  <1>1. /\ \A c \in DOMAIN checks : /\ checks[c].suite \in DOMAIN suites
                                    /\ checks'[c].suite = checks[c].suite /\ checks'[c].name = checks[c].name
        /\ \A s \in DOMAIN suites : suites'[s].flow = suites[s].flow
    BY DEF GoesOn, ChecksAreTheirJobs
  <1>2. \A s : ChecksOf(s)' = ChecksOf(s)
    BY <1>1 DEF ChecksOf
  <1>3. \A c \in DOMAIN checks : \A k : IsJob(c, k) <=> IsJob(c, k)'
    BY <1>1 DEF IsJob
  <1>4. \A s : ChecksOf(s) \subseteq DOMAIN checks
    BY DEF ChecksOf
  <1>5. EachIsAJob'
    BY <1>1, <1>2, <1>3, <1>4 DEF JobsInOrder, EachIsAJob
  <1>6. EachJobIsBorne'
    <2> SUFFICES ASSUME NEW s \in DOMAIN suites', NEW k \in 1 .. Cardinality(ChecksOf(s))
                 PROVE  \E c \in ChecksOf(s) : IsJob(c, k)'
      BY <1>2 DEF EachJobIsBorne
    <2>1. s \in DOMAIN suites
      <3>1. CASE ChecksOf(s) = {}
        <4>1. Cardinality(ChecksOf(s)) = 0
          BY <3>1, FS_EmptySet
        <4>2. k \in 1 .. 0
          BY <4>1
        <4> QED
          BY <4>2
      <3>2. CASE ChecksOf(s) # {}
        BY <1>1, <3>2 DEF ChecksOf
      <3> QED
        BY <3>1, <3>2
    <2>2. \E c \in ChecksOf(s) : IsJob(c, k)
      BY <2>1 DEF JobsInOrder, EachJobIsBorne
    <2> QED
      BY <1>3, <1>4, <2>2
  <1>7. OneOfEachName'
    <2> SUFFICES ASSUME NamesApart, NEW c \in DOMAIN checks, NEW d \in DOMAIN checks,
                        checks'[c].suite = checks'[d].suite, c < d
                 PROVE  checks'[c].name # checks'[d].name
      BY DEF OneOfEachName, NamesApart
    <2> QED
      BY <1>1 DEF JobsInOrder, OneOfEachName
  <1> QED
    BY <1>5, <1>6, <1>7

LEMMA NextIsInOrder ==
    ASSUME PollTypeOK, ChecksAreTheirJobs, JobsInOrder, GoesOn, NEW s \in DOMAIN suites, OneMore(s)
    PROVE  EachIsAJob' /\ EachJobIsBorne' /\ OneOfEachName'
  <1>0. PICK new, n, f : new = Len(checks) + 1 /\ n = Cardinality(ChecksOf(s)) /\ f = suites[s].flow
    OBVIOUS
  <1>1. /\ \A c \in DOMAIN checks : /\ checks[c].suite \in DOMAIN suites
                                    /\ checks'[c].suite = checks[c].suite /\ checks'[c].name = checks[c].name
        /\ \A t \in DOMAIN suites : suites'[t].flow = suites[t].flow
    BY DEF GoesOn, ChecksAreTheirJobs
  <1>2. /\ Len(checks) \in Nat /\ DOMAIN checks = 1 .. Len(checks) /\ n \in Nat
        /\ f \in Flows
    BY <1>0, ChecksType, ChecksOfAreFinite, SuitesType
  <1>3. /\ DOMAIN checks' = DOMAIN checks \cup {new} /\ new \notin DOMAIN checks
        /\ checks'[new].suite = s /\ checks'[new].name = Jobs[f][n + 1]
        /\ ChecksOf(s)' = ChecksOf(s) \cup {new} /\ Cardinality(ChecksOf(s)') = n + 1
        /\ \A t : t # s => ChecksOf(t)' = ChecksOf(t)
        /\ DOMAIN suites' = DOMAIN suites
    BY <1>0 DEF OneMore, NextJob
  <1>4. \A c \in DOMAIN checks : (\A k : IsJob(c, k) <=> IsJob(c, k)') /\ c < new
    BY <1>0, <1>1, <1>2 DEF IsJob
  <1>5. IsJob(new, n + 1)'
    BY <1>0, <1>1, <1>3 DEF IsJob
  <1>6. \A t : ChecksOf(t) \subseteq DOMAIN checks /\ ChecksOf(t) \subseteq ChecksOf(t)'
    BY <1>3 DEF ChecksOf
  <1>7. n + 1 \in 1 .. Len(Jobs[f])
    <2>1. Due(s)
      BY DEF OneMore
    <2>2. n + 1 <= Len(Jobs[f])
      BY <1>0, <2>1, DueRun
    <2> QED
      BY <1>2, <2>2, JobsOf
  <1>8. \A t \in DOMAIN suites : 1 .. Cardinality(ChecksOf(t)) \subseteq 1 .. Cardinality(ChecksOf(t)')
    <2> SUFFICES ASSUME NEW t \in DOMAIN suites
                 PROVE  1 .. Cardinality(ChecksOf(t)) \subseteq 1 .. Cardinality(ChecksOf(t)')
      OBVIOUS
    <2>1. CASE t = s
      <3>1. Cardinality(ChecksOf(t)) = n /\ Cardinality(ChecksOf(t)') = n + 1
        <4>1. ChecksOf(t) = ChecksOf(s) /\ ChecksOf(t)' = ChecksOf(s)'
          BY <2>1
        <4> QED
          BY <1>0, <1>3, <4>1
      <3> QED
        BY <1>2, <3>1
    <2>2. CASE t # s
      BY <1>3, <2>2
    <2> QED
      BY <2>1, <2>2
  <1>9. EachIsAJob'
    <2>1. ASSUME NEW c \in DOMAIN checks, NEW u, u = checks[c].suite
          PROVE  \E k \in 1 .. Cardinality(ChecksOf(u)') :
                    /\ IsJob(c, k)'
                    /\ \A j \in 1 .. k - 1 : \E b \in ChecksOf(u)' : b < c /\ IsJob(b, j)'
      <3>1. PICK k \in 1 .. Cardinality(ChecksOf(u)) :
                /\ IsJob(c, k)
                /\ \A j \in 1 .. k - 1 : \E b \in ChecksOf(u) : b < c /\ IsJob(b, j)
        BY <2>1 DEF JobsInOrder, EachIsAJob
      <3>2. k \in 1 .. Cardinality(ChecksOf(u)')
        BY <1>1, <1>8, <2>1, <3>1
      <3>3. IsJob(c, k)'
        BY <1>4, <3>1
      <3>4. \A j \in 1 .. k - 1 : \E b \in ChecksOf(u)' : b < c /\ IsJob(b, j)'
        BY <1>4, <1>6, <3>1
      <3> QED
        BY <3>2, <3>3, <3>4
    <2>2. \E k \in 1 .. Cardinality(ChecksOf(s)') :
              /\ IsJob(new, k)'
              /\ \A j \in 1 .. k - 1 : \E b \in ChecksOf(s)' : b < new /\ IsJob(b, j)'
      <3>1. n + 1 \in 1 .. Cardinality(ChecksOf(s)') /\ (n + 1) - 1 = n
        BY <1>2, <1>3
      <3>2. \A j \in 1 .. n : \E b \in ChecksOf(s)' : b < new /\ IsJob(b, j)'
        BY <1>0, <1>4, <1>6 DEF JobsInOrder, EachJobIsBorne
      <3> QED
        BY <1>5, <3>1, <3>2
    <2>3. \A c \in DOMAIN checks' : c \in DOMAIN checks \/ c = new
      BY <1>3
    <2> QED
      BY <1>1, <1>3, <2>1, <2>2, <2>3 DEF EachIsAJob
  <1>10. EachJobIsBorne'
    <2> SUFFICES ASSUME NEW t \in DOMAIN suites, NEW k \in 1 .. Cardinality(ChecksOf(t)')
                 PROVE  \E c \in ChecksOf(t)' : IsJob(c, k)'
      BY <1>3 DEF EachJobIsBorne
    <2>1. CASE k \in 1 .. Cardinality(ChecksOf(t))
      BY <1>4, <1>6, <2>1 DEF JobsInOrder, EachJobIsBorne
    <2>2. CASE t = s /\ k = n + 1
      BY <1>3, <1>5, <2>2
    <2>3. t # s => k \in 1 .. Cardinality(ChecksOf(t))
      BY <1>3
    <2>4. ASSUME t = s PROVE k \in 1 .. n \/ k = n + 1
      <3>1. ChecksOf(t)' = ChecksOf(s)'
        BY <2>4
      <3>2. k \in 1 .. n + 1
        BY <1>3, <3>1
      <3> QED
        BY <1>2, <3>2
    <2> QED
      BY <1>0, <2>1, <2>2, <2>3, <2>4
  <1>11. OneOfEachName'
    <2> SUFFICES ASSUME NamesApart, NEW c \in DOMAIN checks', NEW d \in DOMAIN checks',
                        checks'[c].suite = checks'[d].suite, c < d
                 PROVE  checks'[c].name # checks'[d].name
      BY DEF OneOfEachName, NamesApart
    <2>1. CASE c \in DOMAIN checks /\ d \in DOMAIN checks
      BY <1>1, <2>1 DEF JobsInOrder, OneOfEachName
    <2>2. CASE c \in DOMAIN checks /\ d = new
      <3>1. checks[c].suite = s
        BY <1>1, <1>3, <2>2
      <3>2. PICK k \in 1 .. n : IsJob(c, k)
        BY <1>0, <2>2, <3>1 DEF JobsInOrder, EachIsAJob
      <3>3. k \in 1 .. Len(Jobs[f]) /\ k # n + 1
        BY <1>2, <1>7, JobsOf
      <3>4. checks'[c].name = Jobs[f][k]
        BY <1>0, <1>1, <2>2, <3>1, <3>2 DEF IsJob
      <3>5. Jobs[f] \in Seq(STRING)
        BY <1>2, ConstantsAssumption
      <3>6. DOMAIN Jobs[f] = 1 .. Len(Jobs[f])
        BY <3>5, LenProperties
      <3> QED
        BY <1>2, <1>3, <1>7, <2>2, <3>3, <3>4, <3>6 DEF NamesApart
    <2>3. CASE c = new
      BY <1>0, <1>2, <1>3, <2>3
    <2> QED
      BY <1>3, <2>1, <2>2, <2>3
  <1> QED
    BY <1>9, <1>10, <1>11

LEMMA TriggerKeepsOrder ==
    ASSUME PollTypeOK, ChecksAreTheirJobs, JobsInOrder, NEW f \in Flows, Trigger(f)
    PROVE  JobsInOrder'
  <1>1. GoesOn /\ checks' = checks
    BY TriggerGoesOn DEF Trigger
  <1>2. EachIsAJob' /\ EachJobIsBorne' /\ OneOfEachName'
    BY <1>1, NamesStay
  <1>3. OnlyTheLastRuns' /\ CancelledIsCut'
    BY <1>1 DEF JobsInOrder, OnlyTheLastRuns, CancelledIsCut, GoesOn, ChecksAreTheirJobs
  <1> QED
    BY <1>2, <1>3 DEF JobsInOrder

LEMMA OpenKeepsOrder ==
    ASSUME PollTypeOK, ChecksAreTheirJobs, JobsInOrder, NEW s \in DOMAIN suites, Open(s)
    PROVE  JobsInOrder'
  <1>1. GoesOn /\ checks' = checks
    BY OpenGoesOn DEF Open
  <1>2. EachIsAJob' /\ EachJobIsBorne' /\ OneOfEachName'
    BY <1>1, NamesStay
  <1>3. OnlyTheLastRuns' /\ CancelledIsCut'
    BY <1>1 DEF JobsInOrder, OnlyTheLastRuns, CancelledIsCut, GoesOn, ChecksAreTheirJobs
  <1> QED
    BY <1>2, <1>3 DEF JobsInOrder

LEMMA RegisterKeepsOrder ==
    ASSUME PollTypeOK, ChecksAreTheirJobs, JobsInOrder, NEW s \in DOMAIN suites, Register(s)
    PROVE  JobsInOrder'
  <1>1. GoesOn /\ Due(s) /\ suites' = suites
    BY RegisterGoesOn DEF Register
  <1>2. PICK result \in {"running", "skipped"} :
            checks' = Append(checks, [suite |-> s, name |-> NextJob(s), result |-> result])
    BY DEF Register
  <1>3. /\ Len(checks) \in Nat /\ DOMAIN checks = 1 .. Len(checks) /\ checks \in Seq(Check)
        /\ Len(suites) \in Nat /\ DOMAIN suites = 1 .. Len(suites)
    BY ChecksType, SuitesType DEF ChecksAreTheirJobs
  <1>4. suites[s].state = "open" /\ ~Running(s) /\ NextJob(s) \in Names
    BY <1>1, DueRun
  <1>5. [suite |-> s, name |-> NextJob(s), result |-> result] \in Check
    BY <1>3, <1>4 DEF Check, Results
  <1>6. /\ DOMAIN checks' = DOMAIN checks \cup {Len(checks) + 1} /\ Len(checks) + 1 \notin DOMAIN checks
        /\ \A c \in DOMAIN checks : checks'[c] = checks[c]
        /\ checks'[Len(checks) + 1] = [suite |-> s, name |-> NextJob(s), result |-> result]
        /\ ChecksOf(s)' = ChecksOf(s) \cup {Len(checks) + 1}
        /\ Cardinality(ChecksOf(s)') = Cardinality(ChecksOf(s)) + 1
        /\ \A t : t # s => ChecksOf(t)' = ChecksOf(t)
    BY <1>2, <1>3, <1>5, OneMoreCheck
  <1>7. OneMore(s)
    BY <1>1, <1>6 DEF OneMore
  <1>8. EachIsAJob' /\ EachJobIsBorne' /\ OneOfEachName'
    BY <1>1, <1>7, NextIsInOrder
  <1>9. OnlyTheLastRuns'
    <2>1. \A c \in DOMAIN checks : checks[c].suite = s => checks[c].result \notin {"running", "cancelled"}
      BY <1>4 DEF JobsInOrder, CancelledIsCut, Running, ChecksOf
    <2>2. \A c \in DOMAIN checks' : \A d \in DOMAIN checks' : c < d => c \in DOMAIN checks
      BY <1>3, <1>6
    <2> QED
      BY <1>6, <2>1, <2>2 DEF JobsInOrder, OnlyTheLastRuns
  <1>10. CancelledIsCut'
    BY <1>1, <1>6 DEF JobsInOrder, CancelledIsCut
  <1> QED
    BY <1>8, <1>9, <1>10 DEF JobsInOrder

LEMMA ConcludeKeepsOrder ==
    ASSUME PollTypeOK, ChecksAreTheirJobs, JobsInOrder, NEW c \in DOMAIN checks, Conclude(c)
    PROVE  JobsInOrder'
  <1>1. GoesOn /\ suites' = suites /\ checks[c].result = "running"
    BY ConcludeGoesOn DEF Conclude
  <1>2. PICK result \in {"success", "failure"} : checks' = [checks EXCEPT ![c].result = result]
    BY DEF Conclude
  <1>3. DOMAIN checks' = DOMAIN checks
    BY <1>2
  <1>4. EachIsAJob' /\ EachJobIsBorne' /\ OneOfEachName'
    BY <1>1, <1>3, NamesStay
  <1>5. /\ \A d \in DOMAIN checks : d # c => checks'[d] = checks[d]
        /\ checks'[c].result = result /\ checks'[c].suite = checks[c].suite
    <2>1. checks[c] \in Check
      BY ChecksType
    <2> QED
      BY <1>2, <2>1 DEF Check
  <1>6. OnlyTheLastRuns'
    <2>1. \A d \in DOMAIN checks :
            /\ checks'[d].suite = checks[d].suite
            /\ checks'[d].result \in {"running", "cancelled"} => checks'[d].result = checks[d].result
      BY <1>5
    <2> QED
      BY <1>3, <2>1 DEF JobsInOrder, OnlyTheLastRuns
  <1>7. CancelledIsCut'
    BY <1>1, <1>3, <1>5 DEF JobsInOrder, CancelledIsCut
  <1> QED
    BY <1>4, <1>6, <1>7 DEF JobsInOrder

LEMMA CancelKeepsOrder ==
    ASSUME PollTypeOK, ChecksAreTheirJobs, JobsInOrder, NEW s \in DOMAIN suites, Cancel(s)
    PROVE  JobsInOrder'
  <1> DEFINE ended == [c \in DOMAIN checks |->
                          IF checks[c].suite = s /\ checks[c].result = "running"
                          THEN [checks[c] EXCEPT !.result = "cancelled"] ELSE checks[c]]
             job == [suite |-> s, name |-> NextJob(s), result |-> "cancelled"]
  <1>1. /\ GoesOn /\ suites' = [suites EXCEPT ![s].state = "cut"]
        /\ checks' = IF Due(s) THEN Append(ended, job) ELSE ended
    BY CancelGoesOn DEF Cancel
  <1>2. /\ Len(checks) \in Nat /\ DOMAIN checks = 1 .. Len(checks) /\ checks \in Seq(Check)
        /\ \A d \in DOMAIN checks : checks[d] \in Check
        /\ Len(suites) \in Nat /\ DOMAIN suites = 1 .. Len(suites)
        /\ \A t \in DOMAIN suites : suites[t] \in Suite
    BY ChecksType, SuitesType DEF ChecksAreTheirJobs, Suite
  <1>3. DOMAIN suites' = DOMAIN suites /\ suites'[s].state = "cut"
        /\ \A t \in DOMAIN suites : t # s => suites'[t] = suites[t]
    BY <1>1, <1>2 DEF Suite
  <1>4. ended \in [DOMAIN checks -> Check]
    BY <1>2 DEF Check, Results
  <1>5. ended \in Seq(Check) /\ Len(ended) = Len(checks)
    BY <1>2, <1>4, SameDomain
  <1>6. \A c \in DOMAIN checks :
          /\ ended[c].suite = checks[c].suite /\ ended[c].name = checks[c].name
          /\ \/ ended[c].result = checks[c].result
             \/ checks[c].suite = s /\ checks[c].result = "running" /\ ended[c].result = "cancelled"
    BY <1>2 DEF Check
  <1>7. CASE ~Due(s)
    <2>1. checks' = ended /\ DOMAIN checks' = DOMAIN checks
      BY <1>1, <1>7
    <2>2. EachIsAJob' /\ EachJobIsBorne' /\ OneOfEachName'
      BY <1>1, <2>1, NamesStay
    <2>3. OnlyTheLastRuns'
      <3> HIDE DEF ended
      <3> QED
        BY <1>6, <2>1 DEF JobsInOrder, OnlyTheLastRuns
    <2>4. CancelledIsCut'
      <3> HIDE DEF ended
      <3>1. \A c \in DOMAIN checks : checks[c].suite \in DOMAIN suites
        BY DEF ChecksAreTheirJobs
      <3>2. \A t \in DOMAIN suites : suites[t].state = "cut" => suites'[t].state = "cut"
        BY <1>3
      <3>3. \A c \in DOMAIN checks :
              checks'[c].result = "cancelled" => checks[c].result = "cancelled" \/ checks[c].suite = s
        BY <1>6, <2>1
      <3>4. \A c \in DOMAIN checks : checks'[c].suite = checks[c].suite
        BY <1>6, <2>1
      <3> QED
        BY <1>3, <2>1, <3>1, <3>2, <3>3, <3>4 DEF JobsInOrder, CancelledIsCut
    <2> QED
      BY <2>2, <2>3, <2>4 DEF JobsInOrder
  <1>8. CASE Due(s)
    <2>1. suites[s].state = "open" /\ ~Running(s) /\ NextJob(s) \in Names
      BY <1>8, DueRun
    <2>2. job \in Check
      BY <1>2, <2>1 DEF Check, Results
    <2>3. checks' = Append(ended, job)
      BY <1>1, <1>8
    <2>4. \A c \in DOMAIN checks : ended[c].suite = checks[c].suite
      BY <1>6
    <2>5. job.suite = s /\ job.name = NextJob(s)
      OBVIOUS
    <2> HIDE DEF ended, job
    <2>6. /\ DOMAIN checks' = DOMAIN checks \cup {Len(checks) + 1} /\ Len(checks) + 1 \notin DOMAIN checks
          /\ \A c \in DOMAIN checks : checks'[c] = ended[c]
          /\ checks'[Len(checks) + 1] = job
          /\ ChecksOf(s)' = ChecksOf(s) \cup {Len(checks) + 1}
          /\ Cardinality(ChecksOf(s)') = Cardinality(ChecksOf(s)) + 1
          /\ \A t : t # s => ChecksOf(t)' = ChecksOf(t)
      BY <1>5, <2>2, <2>3, <2>4, <2>5, OneMoreCheck
    <2>7. OneMore(s)
      BY <1>3, <1>8, <2>5, <2>6 DEF OneMore
    <2>8. EachIsAJob' /\ EachJobIsBorne' /\ OneOfEachName'
      BY <1>1, <2>7, NextIsInOrder
    <2>9. \A c \in DOMAIN checks : checks[c].suite = s => checks[c].result \notin {"running", "cancelled"}
      BY <2>1 DEF JobsInOrder, CancelledIsCut, Running, ChecksOf
    <2>10. \A c \in DOMAIN checks : checks'[c].result = checks[c].result /\ checks'[c].suite = checks[c].suite
      BY <1>6, <2>6, <2>9
    <2>11. OnlyTheLastRuns'
      <3>1. \A c \in DOMAIN checks' : \A d \in DOMAIN checks' : c < d => c \in DOMAIN checks
        BY <1>2, <2>6
      <3> QED
        BY <2>5, <2>6, <2>9, <2>10, <3>1 DEF JobsInOrder, OnlyTheLastRuns
    <2>12. CancelledIsCut'
      <3>1. checks'[Len(checks) + 1].suite = s
        BY <2>5, <2>6
      <3>2. \A c \in DOMAIN checks : checks[c].suite \in DOMAIN suites
        BY DEF ChecksAreTheirJobs
      <3> QED
        BY <1>3, <2>6, <2>9, <2>10, <3>1, <3>2 DEF JobsInOrder, CancelledIsCut
    <2> QED
      BY <2>8, <2>11, <2>12 DEF JobsInOrder
  <1> QED
    BY <1>7, <1>8

LEMMA WorldKeepsOrder ==
    ASSUME PollTypeOK, ChecksAreTheirJobs, JobsInOrder, World
    PROVE  JobsInOrder'
  <1>1. CASE \E f \in Flows : Trigger(f)
    BY <1>1, TriggerKeepsOrder
  <1>2. CASE \E s \in DOMAIN suites : Open(s) \/ Register(s) \/ Cancel(s)
    BY <1>2, OpenKeepsOrder, RegisterKeepsOrder, CancelKeepsOrder
  <1>3. CASE \E c \in DOMAIN checks : Conclude(c)
    BY <1>3, ConcludeKeepsOrder
  <1> QED
    BY <1>1, <1>2, <1>3 DEF World

LEMMA NothingMovesKeepsOrder ==
    ASSUME JobsInOrder, UNCHANGED <<suites, checks>>
    PROVE  JobsInOrder'
  <1>1. \A s : ChecksOf(s)' = ChecksOf(s)
    BY DEF ChecksOf
  <1>2. \A c, k : IsJob(c, k) <=> IsJob(c, k)'
    BY DEF IsJob
  <1>3. EachIsAJob'
    BY <1>1, <1>2 DEF JobsInOrder, EachIsAJob
  <1>4. EachJobIsBorne'
    BY <1>1, <1>2 DEF JobsInOrder, EachJobIsBorne
  <1>5. OneOfEachName' /\ OnlyTheLastRuns' /\ CancelledIsCut'
    BY DEF JobsInOrder, OneOfEachName, OnlyTheLastRuns, CancelledIsCut, NamesApart
  <1> QED
    BY <1>3, <1>4, <1>5 DEF JobsInOrder

LEMMA JobNames ==
    ASSUME PollTypeOK, ChecksAreTheirJobs, NamesApart,
           NEW c \in DOMAIN checks, NEW i \in 1 .. Cardinality(ChecksOf(checks[c].suite)), IsJob(c, i),
           NEW d \in DOMAIN checks, NEW j \in 1 .. Cardinality(ChecksOf(checks[d].suite)), IsJob(d, j)
    PROVE  /\ checks[c].name = checks[d].name =>
                 suites[checks[c].suite].flow = suites[checks[d].suite].flow /\ i = j
           /\ suites[checks[c].suite].flow = suites[checks[d].suite].flow /\ i = j =>
                 checks[c].name = checks[d].name
  <1> SUFFICES ASSUME checks[c].name = checks[d].name
               PROVE  suites[checks[c].suite].flow = suites[checks[d].suite].flow /\ i = j
    BY DEF IsJob
  <1>1. ASSUME NEW b \in DOMAIN checks, NEW k \in 1 .. Cardinality(ChecksOf(checks[b].suite))
        PROVE  /\ suites[checks[b].suite].flow \in Flows
               /\ k \in DOMAIN Jobs[suites[checks[b].suite].flow]
    <2>1. checks[b].suite \in DOMAIN suites
      BY DEF ChecksAreTheirJobs
    <2>2. suites[checks[b].suite].flow \in Flows
      BY <2>1, SuitesType
    <2>3. /\ Cardinality(ChecksOf(checks[b].suite)) <= Len(Jobs[suites[checks[b].suite].flow])
          /\ Cardinality(ChecksOf(checks[b].suite)) \in Nat
      BY <2>1, ChecksOfAreFinite DEF ChecksAreTheirJobs
    <2>4. Jobs[suites[checks[b].suite].flow] \in Seq(STRING)
      BY <2>2, ConstantsAssumption
    <2>5. /\ DOMAIN Jobs[suites[checks[b].suite].flow] = 1 .. Len(Jobs[suites[checks[b].suite].flow])
          /\ Len(Jobs[suites[checks[b].suite].flow]) \in Nat
      BY <2>4, LenProperties
    <2> QED
      BY <2>2, <2>3, <2>5
  <1>2. /\ suites[checks[c].suite].flow \in Flows /\ i \in DOMAIN Jobs[suites[checks[c].suite].flow]
        /\ suites[checks[d].suite].flow \in Flows /\ j \in DOMAIN Jobs[suites[checks[d].suite].flow]
    BY <1>1
  <1>3. PICK f, g : f = suites[checks[c].suite].flow /\ g = suites[checks[d].suite].flow
    OBVIOUS
  <1>4. f \in Flows /\ g \in Flows /\ i \in DOMAIN Jobs[f] /\ j \in DOMAIN Jobs[g]
    BY <1>2, <1>3
  <1>5. Jobs[f][i] = Jobs[g][j]
    BY <1>3 DEF IsJob
  <1>6. f = g /\ i = j
    BY <1>4, <1>5 DEF NamesApart
  <1> QED
    BY <1>3, <1>6

\* Where names are apart, equal results hide nothing: the workflow itself ran before,
\* so its first job was counted twice in the first result and once in the second.
LEMMA ApartHidesNothing ==
    ASSUME PollInv, JobsInOrder, NamesApart, phase # "done", stable = 1,
           NEW listing, NEW shown \in BOOLEAN, NEW dropped, IsReading(listing, shown, dropped),
           FoundGood(listing, shown, dropped), last = Result(listing, dropped),
           NEW s \in obliged.suites, ~Superseded(s)
    PROVE  Ended(s, obliged.checks)
  <1>1. PollTypeOK /\ ChecksAreTheirJobs /\ IsSnapshot(listing) /\ FirstResult
    BY DEF PollInv, IsReading
  <1>2. /\ DOMAIN listing = 1 .. Len(listing) /\ Len(listing) \in Nat /\ DOMAIN listing \subseteq DOMAIN checks
        /\ DOMAIN checks = 1 .. Len(checks) /\ Len(checks) \in Nat
        /\ \A x \in DOMAIN listing : listing[x].suite = checks[x].suite /\ listing[x].name = checks[x].name
    BY <1>1, SnapshotOfChecks
  <1>3. /\ obliged.checks \in 0 .. Len(checks) /\ Started(s, obliged.checks)
        /\ obliged.replaced \subseteq {t \in DOMAIN suites : Superseded(t)}
    BY <1>1 DEF FirstResult
  <1> SUFFICES ASSUME Disguised(s), dropped # {}
               PROVE  FALSE
    BY EqualResultsHideNothing
  <1>4. dropped = {t \in DOMAIN suites : Superseded(t)}
    BY DEF IsReading, Disguised
  <1>5. PICK c \in 1 .. obliged.checks, d \in ChecksOf(s) :
            /\ d > obliged.checks /\ checks[d].name = checks[c].name
            /\ checks[c].suite \notin obliged.replaced /\ Superseded(checks[c].suite)
    BY DEF Disguised
  <1>6. PICK e \in ChecksOf(s) : e <= obliged.checks
    BY <1>3 DEF Started
  <1>7. /\ c \in DOMAIN checks /\ d \in DOMAIN checks /\ e \in DOMAIN checks
        /\ checks[d].suite = s /\ checks[e].suite = s /\ e < d /\ e \in 1 .. obliged.checks
    BY <1>2, <1>3, <1>5, <1>6 DEF ChecksOf
  <1>8. PICK k \in 1 .. Cardinality(ChecksOf(checks[c].suite)) :
            /\ IsJob(c, k)
            /\ \A j \in 1 .. k - 1 : \E b \in ChecksOf(checks[c].suite) : b < c /\ IsJob(b, j)
    BY <1>7 DEF JobsInOrder, EachIsAJob
  <1>9. PICK l \in 1 .. Cardinality(ChecksOf(checks[d].suite)) : IsJob(d, l)
    BY <1>7 DEF JobsInOrder, EachIsAJob
  <1>10. suites[checks[c].suite].flow = suites[s].flow /\ k = l
    BY <1>1, <1>5, <1>7, <1>8, <1>9, JobNames
  <1>11. PICK j \in 1 .. Cardinality(ChecksOf(checks[e].suite)) :
            /\ IsJob(e, j)
            /\ \A i \in 1 .. j - 1 : \E b \in ChecksOf(checks[e].suite) : b < e /\ IsJob(b, i)
    BY <1>7 DEF JobsInOrder, EachIsAJob
  <1>12. ASSUME NEW x \in DOMAIN checks, checks[x].suite = s, checks[x].name = checks[e].name
         PROVE  x = e
    <2>1. x \in Nat /\ e \in Nat
      BY <1>2, <1>7
    <2>2. ~(x < e) /\ ~(e < x)
      BY <1>7, <1>12 DEF JobsInOrder, OneOfEachName
    <2> QED
      BY <2>1, <2>2
  <1>13. j \in 1 .. k - 1
    <2>1. j # k
      <3>1. checks[e].name # checks[d].name
        BY <1>7 DEF JobsInOrder, OneOfEachName
      <3> QED
        BY <1>1, <1>7, <1>9, <1>10, <1>11, <3>1, JobNames
    <2>2. ~(k \in 1 .. j - 1)
      <3> SUFFICES ASSUME k \in 1 .. j - 1 PROVE FALSE
        OBVIOUS
      <3>1. PICK b \in ChecksOf(s) : b < e /\ IsJob(b, k)
        BY <1>7, <1>11
      <3>2. b \in DOMAIN checks /\ checks[b].suite = s /\ checks[b].name = checks[d].name
        BY <1>7, <1>9, <1>10, <3>1 DEF ChecksOf, IsJob
      <3>3. b < d
        BY <1>2, <1>7, <3>1, <3>2
      <3> QED
        BY <1>7, <3>2, <3>3 DEF JobsInOrder, OneOfEachName
    <2>3. j \in Nat \ {0} /\ k \in Nat \ {0}
      BY <1>1, ChecksOfAreFinite
    <2> QED
      BY <2>1, <2>2, <2>3
  <1>14. PICK b \in ChecksOf(checks[c].suite) : b < c /\ IsJob(b, j)
    BY <1>8, <1>13
  <1>15. /\ b \in DOMAIN checks /\ checks[b].suite = checks[c].suite /\ b \in 1 .. obliged.checks
         /\ checks[b].name = checks[e].name
    <2>1. b \in DOMAIN checks /\ checks[b].suite = checks[c].suite
      BY <1>14 DEF ChecksOf
    <2>2. b \in 1 .. obliged.checks
      BY <1>2, <1>3, <1>14, <2>1
    <2>3. checks[b].name = checks[e].name
      BY <1>7, <1>10, <1>11, <1>14, <2>1 DEF IsJob
    <2> QED
      BY <2>1, <2>2, <2>3
  <1> DEFINE n == checks[e].name
             A == CountedIn(n)
             B == {x \in Relevant(listing, dropped) : listing[x].name = n}
  <1>16. b \in A /\ e \in A
    <2>1. checks[b].result # "cancelled" /\ checks[e].result # "cancelled"
      BY <1>7, <1>14, <1>15 DEF JobsInOrder, OnlyTheLastRuns
    <2>2. checks[b].suite \notin obliged.replaced /\ checks[e].suite \notin obliged.replaced
      BY <1>3, <1>5, <1>7, <1>15
    <2> QED
      BY <1>7, <1>15, <2>1, <2>2 DEF CountedIn
  <1>17. b \notin B
    BY <1>2, <1>4, <1>5, <1>15 DEF Relevant, ChecksAreTheirJobs, PollInv
  <1>18. B \subseteq {e}
    <2> SUFFICES ASSUME NEW x \in B PROVE x = e
      OBVIOUS
    <2>1. x \in DOMAIN listing /\ x \in DOMAIN checks /\ checks[x].name = n /\ checks[x].suite \notin dropped
      BY <1>2 DEF Relevant
    <2>2. checks[x].suite \in DOMAIN suites /\ ~Superseded(checks[x].suite)
      BY <1>1, <1>4, <2>1 DEF ChecksAreTheirJobs
    <2>3. PICK i \in 1 .. Cardinality(ChecksOf(checks[x].suite)) : IsJob(x, i)
      BY <2>1 DEF JobsInOrder, EachIsAJob
    <2>4. suites[checks[x].suite].flow = suites[s].flow
      BY <1>1, <1>7, <1>11, <2>1, <2>3, JobNames
    <2>5. checks[x].suite = s
      <3>1. /\ DOMAIN suites = 1 .. Len(suites) /\ Len(suites) \in Nat
            /\ s \in DOMAIN suites
        BY <1>1, <1>7, SuitesType DEF ChecksAreTheirJobs
      <3>2. ~(checks[x].suite < s)
        <4> SUFFICES ASSUME checks[x].suite < s PROVE FALSE
          OBVIOUS
        <4>1. s \in checks[x].suite + 1 .. Len(suites)
          BY <2>2, <3>1
        <4> QED
          BY <2>2, <2>4, <4>1 DEF Superseded, SupersededBy
      <3>3. ~(s < checks[x].suite)
        <4> SUFFICES ASSUME s < checks[x].suite PROVE FALSE
          OBVIOUS
        <4>1. checks[x].suite \in s + 1 .. Len(suites)
          BY <2>2, <3>1
        <4> QED
          BY <2>4, <4>1 DEF Superseded, SupersededBy
      <3> QED
        BY <2>2, <3>1, <3>2, <3>3
    <2> QED
      BY <1>12, <2>1, <2>5
  <1>19. Cardinality(A) = Cardinality(B)
    <2>1. n \in Names
      BY <1>1, <1>7, ChecksType DEF Check
    <2>2. last[n] = Cardinality(A)
      <3>1. last = [m \in Names |-> Cardinality(CountedIn(m))]
        BY <1>1 DEF FirstResult
      <3> HIDE DEF n
      <3> QED
        BY <2>1, <3>1
    <2>3. last[n] = Cardinality(B)
      <3>1. last = [m \in Names |-> Cardinality({x \in Relevant(listing, dropped) : listing[x].name = m})]
        BY DEF Result
      <3> HIDE DEF n
      <3> QED
        BY <2>1, <3>1
    <2> QED
      BY <2>2, <2>3
  <1>20. A \in SUBSET (1 .. obliged.checks) /\ obliged.checks \in Nat
    BY <1>3 DEF CountedIn
  <1>21. IsFiniteSet(A)
    BY <1>20, FiniteRange
  <1> HIDE DEF A, B
  <1>22. B \subseteq A /\ B # A
    BY <1>16, <1>17, <1>18
  <1>23. Cardinality(B) = Cardinality(A) => B = A
    BY <1>21, <1>22, FS_Subset
  <1> QED
    BY <1>19, <1>22, <1>23

\* Every workflow the pass answers for has run to its end, whatever registered late.
NobodyIsLeftOut ==
    answer = "pass" => \A s \in obliged.suites : ~Superseded(s) => Completed(s) /\ ~Empty(s)

LEMMA PassLeavesNobodyOut ==
    ASSUME PollInv, JobsInOrder, NamesApart, phase \in {"runs", "events"},
           NEW listing, NEW shown \in BOOLEAN, NEW dropped, IsReading(listing, shown, dropped),
           Evaluate(listing, shown, dropped), UNCHANGED <<suites, checks, config>>
    PROVE  NobodyIsLeftOut'
  <1> SUFFICES ASSUME answer' = "pass"
               PROVE  \A s \in obliged'.suites : ~Superseded(s)' => Completed(s)' /\ ~Empty(s)'
    BY DEF NobodyIsLeftOut
  <1>1. FirstResult /\ answer = "none" /\ listing \in Seq(Check) /\ phase # "done"
    BY DEF PollInv, PollTypeOK, IsReading, IsSnapshot
  <1> DEFINE result == Result(listing, dropped)
             answersFor == [suites |-> began.obliged, checks |-> Len(listing), replaced |-> dropped]
  <1>2. "pass" \in Verdicts(listing, shown, dropped) /\ CountResult(result, answersFor)
    BY <1>1 DEF Evaluate
  <1>3. FoundGood(listing, shown, dropped)
    BY <1>1, <1>2, PassFoundGood
  <1>4. CASE ~(stable > 0 /\ result = last)
    <2>1. stable' = 1
      BY <1>2, <1>4 DEF CountResult
    <2>2. answer' = answer
      BY <1>2, <2>1 DEF CountResult
    <2> QED
      BY <1>1, <2>2
  <1>5. CASE stable > 0 /\ result = last
    <2>1. stable = 1
      BY <1>1, <1>5 DEF FirstResult
    <2>2. obliged' = obliged
      BY <1>2, <1>5 DEF CountResult
    <2>3. \A s \in obliged.suites : ~Superseded(s) => Ended(s, obliged.checks)
      BY <1>1, <1>3, <1>5, <2>1, ApartHidesNothing
    <2>4. \A s : /\ (Superseded(s) <=> Superseded(s)')
                 /\ (Completed(s) <=> Completed(s)') /\ (Empty(s) <=> Empty(s)')
      BY DEF Superseded, SupersededBy, Completed, AllJobs, Running, Empty, ChecksOf
    <2> QED
      BY <2>2, <2>3, <2>4 DEF Ended
  <1> QED
    BY <1>4, <1>5

LEMMA StepLeavesNobodyOut ==
    ASSUME PollInv, JobsInOrder, NamesApart, NobodyIsLeftOut, [PollNext]_pollVars
    PROVE  NobodyIsLeftOut'
  <1>1. CASE World
    <2>1. answer' = answer /\ answer = "none"
      BY <1>1 DEF World, gate, PollInv, PollTypeOK
    <2> QED
      BY <2>1 DEF NobodyIsLeftOut
  <1>2. CASE Wake \/ ReadSuites \/ PollFails
    <2>1. answer' = answer /\ phase # "done"
      BY <1>2 DEF Wake, ReadSuites, PollFails, Fault, Reading
    <2> QED
      BY <2>1 DEF NobodyIsLeftOut, PollInv, PollTypeOK
  <1>3. CASE TimeOut \/ BudgetSpent
    <2>1. answer' # "pass"
      BY <1>3 DEF TimeOut, BudgetSpent, Fault, Reading, PollInv, PollTypeOK
    <2> QED
      BY <2>1 DEF NobodyIsLeftOut
  <1>4. CASE ReadRuns
    <2>1. PICK r : r = checks
      OBVIOUS
    <2>2. phase = "runs" /\ UNCHANGED <<suites, checks, config>> /\ answer = "none"
      BY <1>4 DEF ReadRuns, PollInv, PollTypeOK
    <2>3. CASE ~NeedsEvents(checks) /\ Evaluate(checks, FALSE, {})
      <3>1. IsSnapshot(r) /\ SinceTheFirst(r)
        <4>1. (\A s \in late : ~Due(s)) /\ late' = {s \in DOMAIN suites : Due(s)}
          BY <1>4 DEF ReadRuns
        <4> QED
          BY <2>1, <2>2, <4>1, ReadRunsShows
      <3>2. IsReading(r, FALSE, {}) /\ Evaluate(r, FALSE, {}) /\ FALSE \in BOOLEAN
        BY <2>1, <2>3, <3>1 DEF IsReading
      <3> QED
        BY <2>2, <3>2, PassLeavesNobodyOut
    <2>4. CASE UNCHANGED answer
      BY <2>2, <2>4 DEF NobodyIsLeftOut
    <2> QED
      BY <1>4, <2>3, <2>4 DEF ReadRuns
  <1>5. CASE ReadEvents
    <2>1. PICK r : r = seen.runs
      OBVIOUS
    <2>2. PollTypeOK /\ phase = "events" /\ UNCHANGED <<suites, checks, config>>
      BY <1>5 DEF ReadEvents, PollInv, world
    <2>3. PICK shown \in BOOLEAN : shown = config.readable
      BY <2>2, ReadableIsKnown
    <2>4. PICK dropped : dropped = {s \in DOMAIN suites : config.readable /\ Superseded(s)}
      OBVIOUS
    <2>5. IsReading(r, shown, dropped)
      BY <2>1, <2>2, <2>3, <2>4 DEF IsReading, PollInv, RunsAreRead
    <2>6. Evaluate(r, shown, dropped)
      BY <1>5, <2>1, <2>3, <2>4 DEF ReadEvents
    <2> QED
      BY <2>2, <2>5, <2>6, PassLeavesNobodyOut
  <1>6. CASE UNCHANGED pollVars
    <2>1. UNCHANGED <<suites, checks, answer, obliged>>
      BY <1>6 DEF pollVars, world, gate
    <2>2. \A s : /\ (Superseded(s) <=> Superseded(s)')
                 /\ (Completed(s) <=> Completed(s)') /\ (Empty(s) <=> Empty(s)')
      BY <2>1 DEF Superseded, SupersededBy, Completed, AllJobs, Running, Empty, ChecksOf
    <2> QED
      BY <2>1, <2>2 DEF NobodyIsLeftOut
  <1> QED
    BY <1>1, <1>2, <1>3, <1>4, <1>5, <1>6 DEF PollNext, Poll

LEMMA StepKeepsOrder ==
    ASSUME PollInv, JobsInOrder, [PollNext]_pollVars
    PROVE  JobsInOrder'
  <1>1. PollTypeOK /\ ChecksAreTheirJobs
    BY DEF PollInv
  <1>2. CASE World
    BY <1>1, <1>2, WorldKeepsOrder
  <1>3. CASE Poll \/ PollFails \/ BudgetSpent \/ UNCHANGED pollVars
    <2>1. UNCHANGED <<suites, checks>>
      BY <1>3 DEF Poll, Wake, TimeOut, ReadSuites, ReadRuns, ReadEvents, PollFails, BudgetSpent, pollVars, world
    <2> QED
      BY <2>1, NothingMovesKeepsOrder
  <1> QED
    BY <1>2, <1>3 DEF PollNext

\* Where no two jobs bear one name, nothing that registers between the equal results
\* is missed, re-triggered workflows included: all the pass answers for has ended.
THEOREM ApartPassMissesNothing ==
    ASSUME NamesApart
    PROVE  PollSpec => []NobodyIsLeftOut
  <1>1. PollInit => JobsInOrder /\ NobodyIsLeftOut
    <2> SUFFICES ASSUME PollInit PROVE JobsInOrder /\ NobodyIsLeftOut
      OBVIOUS
    <2>1. DOMAIN checks = {} /\ DOMAIN suites = {} /\ answer = "none"
      BY DEF PollInit
    <2> QED
      BY <2>1 DEF JobsInOrder, EachIsAJob, EachJobIsBorne, OneOfEachName, OnlyTheLastRuns,
             CancelledIsCut, NobodyIsLeftOut
  <1>2. PollInv /\ JobsInOrder /\ NobodyIsLeftOut /\ [PollNext]_pollVars => (JobsInOrder /\ NobodyIsLeftOut)'
    BY StepKeepsOrder, StepLeavesNobodyOut
  <1> QED
    BY <1>1, <1>2, PollInvariant, PTL DEF PollSpec
=============================================================================
