------------------------ MODULE PostMainRangeProofs ------------------------
(***************************************************************************)
(* Proofs about PostMainRange, for every number of commits, runs and lanes *)
(* and every bound.                                                        *)
(***************************************************************************)
EXTENDS PostMainRange, TLAPS

Sound(c, l) == <<code[c][l], ci[c]>> \notin Bad

\* A run that has started has a commit of the trunk; only a dispatch names lanes.
OriginInv == \A r \in Runs :
    /\ commit[r] <= head
    /\ result[r] = "absent" => event[r] = "none"
    /\ Eligible(r) => only[r] = {}

\* What a finished lane job stands for: a lane that ran, or one whose files the
\* range found unchanged, is sound on the run's commit.
LaneInv == \A r \in Runs, l \in Lanes :
    /\ lane[r][l] = "success" => Sound(commit[r], l)
    /\ Eligible(r) /\ plan[r] = "success" /\ lane[r][l] = "skipped" => Sound(commit[r], l)

\* The aggregate comes last, and not at all after a cancel.
AggregateInv == \A r \in Runs :
    /\ verified[r] \in {"success", "failure"} => plan[r] # "queued" /\ LanesOver(r)
    /\ verified[r] = "success" => NeedsPass(r)
    /\ result[r] = "running" => verified[r] # "skipped"
    /\ result[r] = "absent" =>
          plan[r] = "queued" /\ verified[r] = "none" /\ \A l \in Lanes : lane[r][l] = "queued"

IInv == TypeOK /\ OriginInv /\ LaneInv /\ AggregateInv

-----------------------------------------------------------------------------
LEMMA InitIInv == Init => IInv
<1> SUFFICES ASSUME Init PROVE IInv
  OBVIOUS
<1>1. TypeOK
  BY RangeAssumption DEF Init, TypeOK, TrunkType, OriginType, PlanType, LaneType, EndType, CountType, Commits, Runs,
     Events, PlanStates, LaneStates, Aggregates, Results, Settled, NoBase
<1>2. OriginInv /\ LaneInv /\ AggregateInv
  BY DEF Init, OriginInv, LaneInv, AggregateInv, Eligible
<1> QED
  BY <1>1, <1>2 DEF IInv

\* A certified commit is sound in every lane: the invariant implies the property.
LEMMA CertifiedIsWhole == IInv => VerifiedIsWhole
  BY DEF IInv, TypeOK, LaneType, OriginInv, LaneInv, AggregateInv, VerifiedIsWhole, Certified, ShaVerdictIs,
     IsLatestRun, CheckedVerdict, NeedsPass, Pass, Whole, Sound, Eligible, Runs

\* What a step leaves of the invariant when it leaves the variables of a part alone.
LEMMA Frame == IInv =>
    /\ UNCHANGED trunk => TrunkType'
    /\ UNCHANGED origin => OriginType'
    /\ UNCHANGED <<plan, cursor, base>> => PlanType'
    /\ UNCHANGED lane => LaneType'
    /\ UNCHANGED <<verified, result>> => EndType'
    /\ UNCHANGED counts => CountType'
    /\ UNCHANGED <<trunk, origin, result>> => OriginInv'
    /\ UNCHANGED <<trunk, origin, plan, lane>> => LaneInv'
    /\ UNCHANGED <<plan, lane, verified, result>> => AggregateInv'
<1> SUFFICES ASSUME IInv PROVE
    /\ UNCHANGED trunk => TrunkType'
    /\ UNCHANGED origin => OriginType'
    /\ UNCHANGED <<plan, cursor, base>> => PlanType'
    /\ UNCHANGED lane => LaneType'
    /\ UNCHANGED <<verified, result>> => EndType'
    /\ UNCHANGED counts => CountType'
    /\ UNCHANGED <<trunk, origin, result>> => OriginInv'
    /\ UNCHANGED <<trunk, origin, plan, lane>> => LaneInv'
    /\ UNCHANGED <<plan, lane, verified, result>> => AggregateInv'
  OBVIOUS
<1>1. UNCHANGED trunk => TrunkType'
  BY DEF IInv, TypeOK, TrunkType, trunk
<1>2. UNCHANGED origin => OriginType'
  BY DEF IInv, TypeOK, OriginType, origin
<1>3. UNCHANGED <<plan, cursor, base>> => PlanType'
  BY DEF IInv, TypeOK, PlanType
<1>4. UNCHANGED lane => LaneType'
  BY DEF IInv, TypeOK, LaneType
<1>5. UNCHANGED <<verified, result>> => EndType'
  BY DEF IInv, TypeOK, EndType
<1>6. UNCHANGED counts => CountType'
  BY DEF IInv, TypeOK, CountType, counts
<1>7. UNCHANGED <<trunk, origin, result>> => OriginInv'
  BY DEF IInv, OriginInv, Eligible, trunk, origin
<1>8. UNCHANGED <<trunk, origin, plan, lane>> => LaneInv'
  BY DEF IInv, LaneInv, Sound, Eligible, trunk, origin
<1>9. UNCHANGED <<plan, lane, verified, result>> => AggregateInv'
  BY DEF IInv, AggregateInv, LanesOver, NeedsPass
<1> QED
  BY <1>1, <1>2, <1>3, <1>4, <1>5, <1>6, <1>7, <1>8, <1>9

LEMMA RememberType == ASSUME Remember PROVE standing' \in [Runs -> SUBSET Commits]
  BY DEF Remember, Certified

LEMMA LandKeeps == ASSUME IInv, Land, Remember PROVE IInv'
<1>1. /\ head' \in Commits
      /\ code' \in [Commits -> [Lanes -> Versions]]
      /\ ci' \in [Commits -> Versions]
      /\ \A c \in Commits : c <= head => code'[c] = code[c] /\ ci'[c] = ci[c]
  <2>1. head + 1 \in Commits /\ code[head] \in [Lanes -> Versions] /\ ci[head] \in Versions
    BY RangeAssumption DEF IInv, TypeOK, TrunkType, Land, Commits
  <2>2. PICK files \in [Lanes -> Versions], version \in Versions :
          code' = [code EXCEPT ![head + 1] = files] /\ ci' = [ci EXCEPT ![head + 1] = version]
    <3>1. PICK v \in Versions :
            \/ /\ \E l \in Lanes : code' = [code EXCEPT ![head + 1] = [code[head] EXCEPT ![l] = v]]
               /\ ci' = [ci EXCEPT ![head + 1] = ci[head]]
            \/ /\ code' = [code EXCEPT ![head + 1] = code[head]]
               /\ ci' = [ci EXCEPT ![head + 1] = v]
      BY DEF Land
    <3>2. \A l \in Lanes : [code[head] EXCEPT ![l] = v] \in [Lanes -> Versions]
      BY <2>1
    <3> QED
      BY <2>1, <3>1, <3>2
  <2>3. \A c \in Commits : c <= head => c # head + 1
    BY RangeAssumption DEF IInv, TypeOK, TrunkType, Commits
  <2> QED
    BY <2>1, <2>2, <2>3 DEF IInv, TypeOK, TrunkType, Land
<1>2. TypeOK'
  BY <1>1, Frame, RememberType DEF Land, TypeOK, TrunkType, jobs
<1>3. OriginInv' /\ AggregateInv'
  BY RangeAssumption DEF Land, IInv, TypeOK, TrunkType, OriginType, OriginInv, AggregateInv, Eligible, LanesOver,
     NeedsPass, origin, jobs, Commits
<1>4. LaneInv'
  BY <1>1 DEF Land, IInv, TypeOK, OriginType, OriginInv, LaneInv, Sound, Eligible, origin, jobs
<1> QED
  BY <1>2, <1>3, <1>4 DEF IInv

LEMMA StartKeeps ==
    ASSUME IInv, Remember, NEW r \in Runs, NEW e \in {"push", "dispatch"}, NEW lanes \in SUBSET Lanes,
           e = "push" => lanes = {}, Start(r, e, lanes)
    PROVE  IInv'
<1>0. head - 1 \in 0..MaxCommit /\ head \in Commits
  BY RangeAssumption DEF IInv, TypeOK, TrunkType, Commits
<1>1. OriginType' /\ PlanType' /\ EndType'
  BY <1>0 DEF Start, IInv, TypeOK, OriginType, PlanType, EndType, Events, Results
<1>2. TypeOK'
  BY <1>1, Frame, RememberType DEF Start, TypeOK
<1>3. OriginInv'
  BY <1>0 DEF Start, IInv, TypeOK, OriginType, EndType, OriginInv, Eligible, trunk, Commits
<1>4. LaneInv'
  <2>1. plan'[r] = "queued" /\ \A l \in Lanes : lane'[r][l] = "queued"
    BY DEF IInv, AggregateInv, Start
  <2>2. \A s \in Runs : s # r => commit'[s] = commit[s] /\ event'[s] = event[s]
    BY DEF Start, IInv, TypeOK, OriginType
  <2> QED
    BY <2>1, <2>2 DEF Start, IInv, LaneInv, Sound, Eligible, trunk
<1>5. AggregateInv'
  BY DEF Start, IInv, TypeOK, EndType, AggregateInv, LanesOver, NeedsPass
<1> QED
  BY <1>2, <1>3, <1>4, <1>5 DEF IInv

\* The range of a base that is certified leaves out only sound lanes.
LEMMA SelectIsSound ==
    ASSUME IInv, NEW r \in Runs, Eligible(r), NEW l \in Lanes,
           NEW b \in 0..MaxCommit, b = NoBase \/ b \in Certified, ~RunsLane(r, b, l)
    PROVE  Sound(commit[r], l)
<1>1. b \in Certified /\ code[b][l] = code[commit[r]][l] /\ ci[b] = ci[commit[r]]
  BY DEF IInv, OriginInv, RunsLane, Selected
<1>2. Sound(b, l)
  BY <1>1, CertifiedIsWhole DEF VerifiedIsWhole, Whole, Sound
<1> QED
  BY <1>1, <1>2 DEF Sound

LEMMA SelectKeeps ==
    ASSUME IInv, Remember, NEW r \in Runs, Planning(r),
           NEW b \in 0..MaxCommit, b = NoBase \/ b \in Certified, Select(r, b),
           UNCHANGED <<trunk, origin, verified, result, reruns, cancels>>,
           faults' \in 0..MaxFaults
    PROVE  IInv'
<1>1. PlanType' /\ LaneType'
  BY DEF Select, IInv, TypeOK, PlanType, LaneType, PlanStates, LaneStates, Settled
<1>2. CountType'
  BY DEF IInv, TypeOK, CountType
<1>3. TypeOK' /\ OriginInv'
  BY <1>1, <1>2, Frame, RememberType DEF TypeOK
<1>4. \A l \in Lanes : lane'[r][l] \in {"queued", "skipped"} /\ (lane'[r][l] = "skipped" => ~RunsLane(r, b, l))
  BY DEF Select, IInv, TypeOK, LaneType
<1>5. \A s \in Runs : s # r => lane'[s] = lane[s] /\ plan'[s] = plan[s]
  BY DEF Select, IInv, TypeOK, LaneType, PlanType
<1>6. LaneInv'
  BY <1>4, <1>5, SelectIsSound DEF IInv, LaneInv, Sound, Eligible, trunk, origin
<1>7. AggregateInv'
  BY <1>5 DEF Planning, IInv, AggregateInv, LanesOver, NeedsPass
<1> QED
  BY <1>3, <1>6, <1>7 DEF IInv

LEMMA WalkKeeps == ASSUME IInv, Remember, NEW r \in Runs, Walk(r) PROVE IInv'
<1>0. Planning(r) /\ NoBase \in 0..MaxCommit /\ faults' \in 0..MaxFaults
      /\ UNCHANGED <<trunk, origin, verified, result, reruns, cancels>>
  BY RangeAssumption DEF Walk, IInv, TypeOK, CountType, counts, NoBase
<1>1. CASE WalkExhausted(r)
  BY <1>0, <1>1, SelectKeeps DEF Walk
<1>2. CASE ~WalkExhausted(r) /\ cursor[r] \in Certified
  <2>1. cursor[r] \in 0..MaxCommit /\ Select(r, cursor[r])
    BY <1>2 DEF Walk, IInv, TypeOK, PlanType
  <2> QED
    BY <1>0, <1>2, <2>1, SelectKeeps
<1>3. CASE ~WalkExhausted(r) /\ cursor[r] \notin Certified
  <2>1. cursor' = [cursor EXCEPT ![r] = cursor[r] - 1] /\ UNCHANGED <<plan, base, lane, counts>>
    BY <1>3 DEF Walk
  <2>2. cursor[r] - 1 \in 0..MaxCommit
    BY <1>3, RangeAssumption DEF IInv, TypeOK, PlanType, WalkExhausted
  <2>3. PlanType'
    BY <2>1, <2>2 DEF IInv, TypeOK, PlanType
  <2> QED
    BY <1>0, <2>1, <2>3, Frame, RememberType DEF IInv, TypeOK
<1> QED
  BY <1>1, <1>2, <1>3

LEMMA RangeUnavailableKeeps == ASSUME IInv, Remember, NEW r \in Runs, RangeUnavailable(r) PROVE IInv'
<1>1. NoBase \in 0..MaxCommit /\ faults' \in 0..MaxFaults
  BY RangeAssumption DEF RangeUnavailable, IInv, TypeOK, CountType, NoBase
<1> QED
  BY <1>1, SelectKeeps DEF RangeUnavailable

LEMMA PlanFailsKeeps == ASSUME IInv, Remember, NEW r \in Runs, PlanFails(r) PROVE IInv'
<1>1. PlanType' /\ LaneType'
  BY DEF PlanFails, IInv, TypeOK, PlanType, LaneType, PlanStates, LaneStates, Settled
<1>2. CountType'
  BY RangeAssumption DEF PlanFails, IInv, TypeOK, CountType
<1>3. TypeOK' /\ OriginInv'
  BY <1>1, <1>2, Frame, RememberType DEF PlanFails, TypeOK
<1>4. LaneInv'
  BY DEF PlanFails, IInv, TypeOK, PlanType, LaneType, LaneInv, Sound, Eligible, trunk, origin
<1>5. AggregateInv'
  BY DEF PlanFails, Planning, IInv, TypeOK, PlanType, LaneType, AggregateInv, LanesOver, NeedsPass
<1> QED
  BY <1>3, <1>4, <1>5 DEF IInv

LEMMA LaneEndsKeeps == ASSUME IInv, Remember, NEW r \in Runs, NEW l \in Lanes, LaneEnds(r, l) PROVE IInv'
<1>1. PICK outcome \in LaneOutcomes(r, l) : lane' = [lane EXCEPT ![r][l] = outcome]
  BY DEF LaneEnds
<1>2. /\ outcome \in {"success", "failing", "failure", "cancelled"}
      /\ outcome = "success" => Sound(commit[r], l)
  BY DEF LaneOutcomes, Sound
<1>3. LaneType'
  BY <1>1, <1>2 DEF IInv, TypeOK, LaneType, LaneStates, Settled
<1>4. TypeOK' /\ OriginInv'
  BY <1>3, Frame, RememberType DEF LaneEnds, TypeOK
<1>5. LaneInv'
  BY <1>1, <1>2 DEF LaneEnds, IInv, TypeOK, LaneType, LaneInv, Sound, Eligible, trunk, origin
<1>6. AggregateInv'
  BY <1>1 DEF LaneEnds, IInv, TypeOK, LaneType, AggregateInv, LanesOver, NeedsPass
<1> QED
  BY <1>4, <1>5, <1>6 DEF IInv

LEMMA HookCancelsKeeps == ASSUME IInv, Remember, NEW r \in Runs, NEW l \in Lanes, HookCancels(r, l) PROVE IInv'
<1>1. /\ LaneType'
      /\ \A s \in Runs : s # r => lane'[s] = lane[s]
      /\ \A m \in Lanes : lane'[r][m] \in {"success", "skipped"} => lane'[r][m] = lane[r][m]
  BY DEF HookCancels, Cut, IInv, TypeOK, LaneType, LaneStates, Settled
<1>2. EndType'
  BY DEF HookCancels, IInv, TypeOK, EndType, Results, Settled
<1>3. TypeOK'
  BY <1>1, <1>2, Frame, RememberType DEF HookCancels, TypeOK
<1>4. OriginInv'
  BY DEF HookCancels, IInv, TypeOK, EndType, OriginInv, Eligible, trunk, origin
<1>5. LaneInv'
  BY <1>1 DEF HookCancels, IInv, LaneInv, Sound, Eligible, trunk, origin
<1>6. verified[r] \notin {"success", "failure"}
  BY DEF HookCancels, IInv, AggregateInv, LanesOver
<1>7. AggregateInv'
  BY <1>1, <1>6 DEF HookCancels, IInv, TypeOK, EndType, AggregateInv, LanesOver, NeedsPass
<1> QED
  BY <1>3, <1>4, <1>5, <1>7 DEF IInv

LEMMA HookFailsKeeps == ASSUME IInv, Remember, NEW r \in Runs, NEW l \in Lanes, HookFails(r, l) PROVE IInv'
<1>1. LaneType'
  BY DEF HookFails, IInv, TypeOK, LaneType, LaneStates, Settled
<1>2. CountType'
  BY RangeAssumption DEF HookFails, IInv, TypeOK, CountType
<1>3. TypeOK' /\ OriginInv'
  BY <1>1, <1>2, Frame, RememberType DEF HookFails, TypeOK
<1>4. LaneInv'
  BY DEF HookFails, IInv, TypeOK, LaneType, LaneInv, Sound, Eligible, trunk, origin
<1>5. AggregateInv'
  BY DEF HookFails, IInv, TypeOK, LaneType, AggregateInv, LanesOver, NeedsPass
<1> QED
  BY <1>3, <1>4, <1>5 DEF IInv

LEMMA AggregateKeeps == ASSUME IInv, Remember, NEW r \in Runs, Aggregate(r) PROVE IInv'
<1>1. EndType'
  BY DEF Aggregate, IInv, TypeOK, EndType, Aggregates
<1>2. TypeOK' /\ OriginInv' /\ LaneInv'
  BY <1>1, Frame, RememberType DEF Aggregate, TypeOK
<1>3. AggregateInv'
  BY DEF Aggregate, IInv, TypeOK, EndType, AggregateInv, LanesOver, NeedsPass
<1> QED
  BY <1>2, <1>3 DEF IInv

LEMMA FinishKeeps == ASSUME IInv, Remember, NEW r \in Runs, Finish(r) PROVE IInv'
<1>0. verified[r] \in {"success", "failure"}
  BY DEF Finish, IInv, TypeOK, EndType, AggregateInv, Aggregates
<1>1. EndType' /\ result'[r] \in {"success", "failure"} /\ \A s \in Runs : s # r => result'[s] = result[s]
  BY <1>0 DEF Finish, jobs, IInv, TypeOK, EndType, Results, Settled
<1>2. TypeOK' /\ LaneInv'
  BY <1>1, Frame, RememberType DEF Finish, jobs, TypeOK
<1>3. OriginInv'
  BY <1>1 DEF Finish, IInv, OriginInv, Eligible, trunk, origin
<1>4. AggregateInv'
  BY <1>0, <1>1 DEF Finish, jobs, IInv, AggregateInv, LanesOver, NeedsPass
<1> QED
  BY <1>2, <1>3, <1>4 DEF IInv

LEMMA CancelKeeps == ASSUME IInv, Remember, NEW r \in Runs, Cancel(r) PROVE IInv'
<1>1. /\ PlanType' /\ LaneType'
      /\ plan'[r] = Cut(plan[r])
      /\ \A m \in Lanes : lane'[r][m] = Cut(lane[r][m])
      /\ \A s \in Runs : s # r => lane'[s] = lane[s] /\ plan'[s] = plan[s]
  BY DEF Cancel, Cut, IInv, TypeOK, PlanType, LaneType, PlanStates, LaneStates, Settled
<1>2. /\ EndType' /\ result'[r] = "cancelled"
      /\ verified'[r] = (IF verified[r] = "none" THEN "skipped" ELSE verified[r])
      /\ \A s \in Runs : s # r => result'[s] = result[s] /\ verified'[s] = verified[s]
  BY DEF Cancel, IInv, TypeOK, EndType, Aggregates, Results, Settled
<1>3. CountType'
  BY RangeAssumption DEF Cancel, IInv, TypeOK, CountType
<1>4. TypeOK'
  BY <1>1, <1>2, <1>3, Frame, RememberType DEF Cancel, TypeOK
<1>5. OriginInv'
  BY <1>2 DEF Cancel, IInv, OriginInv, Eligible, trunk, origin
<1>6. LaneInv'
  BY <1>1 DEF Cancel, Cut, IInv, LaneInv, Sound, Eligible, trunk, origin
<1>7. AggregateInv'
  BY <1>1, <1>2 DEF Cut, IInv, AggregateInv, LanesOver, NeedsPass, Pass
<1> QED
  BY <1>4, <1>5, <1>6, <1>7 DEF IInv

LEMMA RerunKeeps == ASSUME IInv, Remember, NEW r \in Runs, Rerun(r) PROVE IInv'
<1>1. commit[r] - 1 \in 0..MaxCommit /\ NoBase \in 0..MaxCommit
  BY RangeAssumption DEF IInv, TypeOK, OriginType, Commits, NoBase
<1>2. /\ PlanType' /\ LaneType'
      /\ \A m \in Lanes : lane'[r][m] \in {"success", "skipped"} => lane'[r][m] = lane[r][m] /\ plan'[r] = plan[r]
      /\ \A s \in Runs : s # r => lane'[s] = lane[s] /\ plan'[s] = plan[s]
  <2>1. CASE RerunAll(r)
    BY <1>1, <2>1 DEF RerunAll, IInv, TypeOK, PlanType, LaneType, PlanStates, LaneStates
  <2>2. CASE RerunFailed(r)
    BY <2>2 DEF RerunFailed, IInv, TypeOK, PlanType, LaneType, LaneStates
  <2> QED
    BY <2>1, <2>2 DEF Rerun
<1>3. /\ EndType' /\ result'[r] = "running" /\ verified'[r] = "none"
      /\ \A s \in Runs : s # r => result'[s] = result[s] /\ verified'[s] = verified[s]
  BY DEF Rerun, IInv, TypeOK, EndType, Aggregates, Results
<1>4. CountType'
  BY RangeAssumption DEF Rerun, IInv, TypeOK, CountType
<1>5. TypeOK'
  BY <1>2, <1>3, <1>4, Frame, RememberType DEF Rerun, TypeOK
<1>6. OriginInv'
  BY <1>3 DEF Rerun, IInv, OriginInv, Eligible, trunk, origin
<1>7. LaneInv'
  BY <1>2 DEF Rerun, IInv, LaneInv, Sound, Eligible, trunk, origin
<1>8. AggregateInv'
  BY <1>2, <1>3 DEF IInv, AggregateInv, LanesOver, NeedsPass
<1> QED
  BY <1>5, <1>6, <1>7, <1>8 DEF IInv

LEMMA NextKeeps == IInv /\ [Next]_vars => IInv'
<1> SUFFICES ASSUME IInv, [Next]_vars PROVE IInv'
  OBVIOUS
<1>1. CASE UNCHANGED vars
  BY <1>1, Frame DEF vars, jobs, IInv, TypeOK
<1>2. CASE Forge /\ Remember
  <2>1. ASSUME NEW r \in Runs, NEW lanes \in Named, Start(r, "dispatch", lanes) PROVE IInv'
    BY <1>2, <2>1, StartKeeps, RangeAssumption
  <2>2. ASSUME NEW r \in Runs, Start(r, "push", {}) PROVE IInv'
    BY <1>2, <2>2, StartKeeps
  <2> QED
    BY <1>2, <2>1, <2>2, LandKeeps, CancelKeeps, RerunKeeps DEF Forge
<1>3. ASSUME NEW r \in Runs, Work(r), Remember PROVE IInv'
  BY <1>3, WalkKeeps, RangeUnavailableKeeps, PlanFailsKeeps, LaneEndsKeeps, HookCancelsKeeps, HookFailsKeeps,
     AggregateKeeps, FinishKeeps DEF Work
<1> QED
  BY <1>1, <1>2, <1>3 DEF Next

LEMMA Invariance == Spec => []IInv
  BY InitIInv, NextKeeps, PTL DEF Spec

-----------------------------------------------------------------------------
\* Every value the verify runs keep has its type, the base and the cursor of a
\* walk included.
THEOREM Typed == Spec => []TypeOK
  BY Invariance, PTL DEF IInv

\* No commit counts as verified while a lane fails on it, however its runs were
\* superseded, cancelled, re-run or dispatched.
THEOREM NoGapInTheRanges == Spec => []VerifiedIsWhole
  BY Invariance, CertifiedIsWhole, PTL

\* Both together, as the runs check them.
THEOREM RangesAreSound == Spec => []RangeInv
  BY Typed, NoGapInTheRanges, PTL DEF RangeInv

-----------------------------------------------------------------------------
(* A verdict stands until its run is re-run.                               *)

\* A step that leaves the origin and the end of run s alone, and the lanes of a
\* cancelled run, leaves its verdict alone.
LEMMA SameVerdict ==
    ASSUME NEW s \in Runs, event'[s] = event[s], verified'[s] = verified[s],
           \/ result'[s] = result[s]
           \/ verified[s] \in {"success", "failure"},
           result[s] = "cancelled" => lane'[s] = lane[s]
    PROVE  CheckedVerdict(s)' = CheckedVerdict(s)
  BY DEF CheckedVerdict, FailureBeforeCancel, Eligible

LEMMA StepKeepsVerdict ==
    ASSUME IInv, [Next]_vars, NEW r \in Runs, NEW v \in {"success", "failure"},
           CheckedVerdict(r) = v, reruns' = reruns
    PROVE  CheckedVerdict(r)' = v
<1>0. event[r] = "push" /\ result[r] # "absent"
      /\ (verified[r] \in {"success", "failure"} \/ result[r] = "cancelled")
  BY DEF CheckedVerdict, Eligible, IInv, OriginInv
<1>1. CASE UNCHANGED vars
  BY <1>1, SameVerdict DEF vars, origin, jobs
<1>2. CASE Land
  BY <1>2, SameVerdict DEF Land, origin, jobs
<1>3. ASSUME NEW s \in Runs, NEW e, NEW lanes, Start(s, e, lanes) PROVE CheckedVerdict(r)' = v
  <2>1. s # r
    BY <1>0, <1>3 DEF Start
  <2> QED
    BY <2>1, <1>3, SameVerdict DEF Start, IInv, TypeOK, OriginType, EndType
<1>4. ASSUME NEW s \in Runs, Cancel(s) PROVE CheckedVerdict(r)' = v
  <2>1. CASE s = r
    <3>1. verified[r] \in {"success", "failure"}
      BY <1>0, <1>4, <2>1 DEF Cancel
    <3> QED
      BY <1>4, <2>1, <3>1, SameVerdict DEF Cancel, origin, IInv, TypeOK, EndType
  <2>2. CASE s # r
    BY <1>4, <2>2, SameVerdict DEF Cancel, origin, IInv, TypeOK, EndType, LaneType
  <2> QED
    BY <2>1, <2>2
<1>5. ASSUME NEW s \in Runs, Rerun(s) PROVE CheckedVerdict(r)' = v
  BY <1>5 DEF Rerun, IInv, TypeOK, CountType
<1>6. ASSUME NEW s \in Runs, Walk(s) \/ RangeUnavailable(s) \/ PlanFails(s) PROVE CheckedVerdict(r)' = v
  <2>1. /\ Planning(s) /\ UNCHANGED <<origin, verified, result>>
        /\ \A q \in Runs : q # s => lane'[q] = lane[q]
    BY <1>6 DEF Walk, RangeUnavailable, PlanFails, Select, IInv, TypeOK, LaneType
  <2> QED
    BY <2>1, SameVerdict DEF Planning, origin
<1>7. ASSUME NEW s \in Runs, NEW l \in Lanes, LaneEnds(s, l) \/ HookFails(s, l) PROVE CheckedVerdict(r)' = v
  <2>1. /\ result[s] = "running" /\ UNCHANGED <<origin, verified, result>>
        /\ \A q \in Runs : q # s => lane'[q] = lane[q]
    BY <1>7 DEF LaneEnds, HookFails, IInv, TypeOK, LaneType
  <2> QED
    BY <2>1, SameVerdict DEF origin
<1>8. ASSUME NEW s \in Runs, NEW l \in Lanes, HookCancels(s, l) PROVE CheckedVerdict(r)' = v
  <2>1. s # r
    BY <1>0, <1>8 DEF HookCancels, IInv, AggregateInv, LanesOver
  <2> QED
    BY <2>1, <1>8, SameVerdict DEF HookCancels, origin, IInv, TypeOK, EndType, LaneType
<1>9. ASSUME NEW s \in Runs, Aggregate(s) PROVE CheckedVerdict(r)' = v
  <2>1. s # r
    BY <1>0, <1>9 DEF Aggregate
  <2> QED
    BY <2>1, <1>9, SameVerdict DEF Aggregate, origin, IInv, TypeOK, EndType
<1>10. ASSUME NEW s \in Runs, Finish(s) PROVE CheckedVerdict(r)' = v
  <2>1. CASE s = r
    <3>1. verified[r] \in {"success", "failure"}
      BY <1>0, <1>10, <2>1 DEF Finish
    <3> QED
      BY <1>10, <2>1, <3>1, SameVerdict DEF Finish, origin, jobs
  <2>2. CASE s # r
    BY <1>10, <2>2, SameVerdict DEF Finish, origin, jobs, IInv, TypeOK, EndType
  <2> QED
    BY <2>1, <2>2
<1> QED
  BY <1>1, <1>2, <1>3, <1>4, <1>5, <1>6, <1>7, <1>8, <1>9, <1>10 DEF Next, Forge, Work

\* Until a run is re-run its verdict stands: a cancel of what is left of it
\* after the aggregate hides neither a proof nor a failure.
THEOREM VerdictStandsUntilRerun == Spec => VerdictStands
<1>1. IInv /\ [Next]_vars => [\A r \in Runs : \A v \in {"success", "failure"} :
        CheckedVerdict(r) = v /\ reruns' = reruns => CheckedVerdict(r)' = v]_vars
  BY StepKeepsVerdict
<1> QED
  BY <1>1, Invariance, PTL DEF Spec, VerdictStands

-----------------------------------------------------------------------------
(* Red verdicts are genuine where no lane is cancelled alone.              *)

GenuinelyFailed(r) == plan[r] = "failure" \/ \E l \in Lanes : lane[r][l] \in {"failure", "marked"}

\* While a run is under way nothing of it is cancelled, and a failed aggregate
\* has a failed job under it.
RedInv == \A r \in Runs :
    /\ result[r] = "running" => plan[r] # "cancelled" /\ \A l \in Lanes : lane[r][l] # "cancelled"
    /\ verified[r] = "failure" => GenuinelyFailed(r)

LEMMA RedStep ==
    ASSUME LaneLimits = FALSE, IInv, RedInv, [Next]_vars
    PROVE  RedInv'
<1> DEFINE Part(s) ==
      /\ result[s] = "running" => plan[s] # "cancelled" /\ \A l \in Lanes : lane[s][l] # "cancelled"
      /\ verified[s] = "failure" => GenuinelyFailed(s)
<1>0. \A s \in Runs : plan'[s] = plan[s] /\ lane'[s] = lane[s] /\ verified'[s] = verified[s]
                      /\ (result'[s] = "running" => result[s] = "running") => Part(s)'
  BY DEF RedInv, GenuinelyFailed
<1>1. CASE UNCHANGED vars
  BY <1>0, <1>1 DEF vars, jobs, RedInv
<1>2. CASE Land
  BY <1>0, <1>2 DEF Land, jobs, RedInv
<1>3. ASSUME NEW r \in Runs, NEW e, NEW lanes, Start(r, e, lanes) PROVE RedInv'
  <2>1. plan[r] = "queued" /\ verified[r] = "none" /\ \A l \in Lanes : lane[r][l] = "queued"
    BY <1>3 DEF Start, IInv, AggregateInv
  <2>2. \A s \in Runs : s # r => result'[s] = result[s]
    BY <1>3 DEF Start, IInv, TypeOK, EndType
  <2> QED
    BY <1>0, <1>3, <2>1, <2>2 DEF Start, RedInv, GenuinelyFailed
<1>4. ASSUME NEW r \in Runs, Cancel(r) PROVE RedInv'
  <2>1. /\ result'[r] = "cancelled"
        /\ verified'[r] = "failure" => verified[r] = "failure"
        /\ plan[r] = "failure" => plan'[r] = "failure"
        /\ \A l \in Lanes : lane[r][l] \in {"failure", "marked"} => lane'[r][l] = lane[r][l]
    BY <1>4 DEF Cancel, Cut, IInv, TypeOK, EndType, PlanType, LaneType
  <2>2. \A s \in Runs : s # r =>
          plan'[s] = plan[s] /\ lane'[s] = lane[s] /\ verified'[s] = verified[s] /\ result'[s] = result[s]
    BY <1>4 DEF Cancel, IInv, TypeOK, EndType, PlanType, LaneType
  <2> QED
    BY <1>0, <2>1, <2>2 DEF RedInv, GenuinelyFailed
<1>5. ASSUME NEW r \in Runs, Rerun(r) PROVE RedInv'
  <2>1. /\ verified'[r] = "none"
        /\ plan'[r] \in {"queued", "success"}
        /\ \A l \in Lanes : lane'[r][l] \in {"queued", "success", "skipped"}
    BY <1>5 DEF Rerun, RerunAll, RerunFailed, Pass, IInv, TypeOK, EndType, PlanType, LaneType
  <2>2. \A s \in Runs : s # r =>
          plan'[s] = plan[s] /\ lane'[s] = lane[s] /\ verified'[s] = verified[s] /\ result'[s] = result[s]
    BY <1>5 DEF Rerun, RerunAll, RerunFailed, IInv, TypeOK, EndType, PlanType, LaneType
  <2> QED
    BY <1>0, <2>1, <2>2 DEF RedInv, GenuinelyFailed
<1>6. ASSUME NEW r \in Runs, Walk(r) \/ RangeUnavailable(r) \/ PlanFails(r) PROVE RedInv'
  <2>1. /\ plan[r] = "queued" /\ UNCHANGED <<verified, result>>
        /\ plan'[r] \in {"queued", "success", "failure"}
        /\ lane'[r] = lane[r] \/ \A l \in Lanes : lane'[r][l] \in {"queued", "skipped"}
        /\ \A s \in Runs : s # r => plan'[s] = plan[s] /\ lane'[s] = lane[s]
    BY <1>6 DEF Planning, Walk, RangeUnavailable, PlanFails, Select, IInv, TypeOK, PlanType, LaneType
  <2>2. verified[r] # "failure"
    BY <2>1 DEF IInv, AggregateInv
  <2> QED
    BY <1>0, <2>1, <2>2 DEF RedInv, GenuinelyFailed
<1>7. ASSUME NEW r \in Runs, NEW l \in Lanes, LaneEnds(r, l) \/ HookFails(r, l) PROVE RedInv'
  <2>1. /\ UNCHANGED <<plan, verified, result>>
        /\ lane[r][l] \in {"queued", "failing"} /\ lane'[r][l] # "cancelled"
        /\ \A m \in Lanes : m # l => lane'[r][m] = lane[r][m]
        /\ \A s \in Runs : s # r => lane'[s] = lane[s]
    BY <1>7 DEF LaneEnds, LaneOutcomes, HookFails, IInv, TypeOK, LaneType
  <2>2. verified[r] # "failure"
    BY <2>1 DEF IInv, AggregateInv, LanesOver
  <2> QED
    BY <1>0, <2>1, <2>2 DEF RedInv, GenuinelyFailed
<1>8. ASSUME NEW r \in Runs, NEW l \in Lanes, HookCancels(r, l) PROVE RedInv'
  <2>1. /\ UNCHANGED <<plan, verified>> /\ result'[r] = "cancelled"
        /\ \A s \in Runs : s # r => lane'[s] = lane[s] /\ result'[s] = result[s]
    BY <1>8 DEF HookCancels, IInv, TypeOK, LaneType, EndType
  <2>2. verified[r] # "failure"
    BY <1>8 DEF HookCancels, IInv, AggregateInv, LanesOver
  <2> QED
    BY <1>0, <2>1, <2>2 DEF RedInv, GenuinelyFailed
<1>9. ASSUME NEW r \in Runs, Aggregate(r) PROVE RedInv'
  <2>1. UNCHANGED <<plan, lane, result>> /\ \A s \in Runs : s # r => verified'[s] = verified[s]
    BY <1>9 DEF Aggregate, IInv, TypeOK, EndType
  <2>2. ~NeedsPass(r) => GenuinelyFailed(r)
    BY <1>9 DEF Aggregate, NeedsPass, LanesOver, Pass, GenuinelyFailed, RedInv, IInv, TypeOK, PlanType, LaneType,
       PlanStates, LaneStates, Settled
  <2>3. verified'[r] = "failure" => GenuinelyFailed(r)
    BY <1>9, <2>2 DEF Aggregate, IInv, TypeOK, EndType
  <2> QED
    BY <1>0, <2>1, <2>3 DEF RedInv, GenuinelyFailed
<1>10. ASSUME NEW r \in Runs, Finish(r) PROVE RedInv'
  <2>1. UNCHANGED jobs /\ \A s \in Runs : result'[s] = "running" => result[s] = "running"
    BY <1>10 DEF Finish, IInv, TypeOK, EndType, AggregateInv, Aggregates
  <2> QED
    BY <1>0, <2>1 DEF jobs, RedInv
<1> QED
  BY <1>1, <1>2, <1>3, <1>4, <1>5, <1>6, <1>7, <1>8, <1>9, <1>10 DEF Next, Forge, Work

\* Where no lane is cancelled alone, every red verdict has a job that failed in
\* its attempt: cancelling a run never makes it red.
THEOREM CancellationIsNotRed == ASSUME LaneLimits = FALSE PROVE Spec => []RedIsGenuine
<1>1. Init => RedInv
  BY DEF Init, RedInv
<1>2. IInv /\ RedInv /\ [Next]_vars => RedInv'
  BY RedStep
<1>3. IInv /\ RedInv => RedIsGenuine
  BY DEF RedIsGenuine, RedInv, GenuinelyFailed, CheckedVerdict, FailureBeforeCancel
<1> QED
  BY <1>1, <1>2, <1>3, Invariance, PTL DEF Spec

-----------------------------------------------------------------------------
(* The verify runs implement VerifiedTrunk.                                *)

\* A step of run r can change whether the run's own commit is certified, no other.
LEMMA OneCommit ==
    ASSUME NEW r \in Runs, NEW c \in Commits,
           c # commit[r] \/ event[r] = "none", c # commit'[r],
           \A s \in Runs : s # r =>
               /\ event'[s] = event[s] /\ commit'[s] = commit[s] /\ CheckedVerdict(s)' = CheckedVerdict(s)
    PROVE  c \in Certified' <=> c \in Certified
  BY DEF Certified, ShaVerdictIs, IsLatestRun, Eligible

\* A step that keeps the trunk and changes at most one certificate is a step of VerifiedTrunk.
LEMMA CertificateStep ==
    ASSUME UNCHANGED trunk, VerifiedIsWhole', NEW c0 \in Commits,
           \A c \in Commits : c # c0 => (c \in Certified' <=> c \in Certified)
    PROVE  VT!Next
<1>1. Certified \subseteq Commits /\ Certified' \subseteq Commits
  BY DEF Certified, Commits
<1>2. CASE c0 \in Certified'
  <2>1. c0 <= head /\ VT!Whole(c0)
    BY <1>2 DEF VerifiedIsWhole, Whole, VT!Whole, trunk
  <2>2. Certified' = Certified \cup {c0}
    BY <1>1, <1>2
  <2>3. VT!Certify(c0)
    BY <2>1, <2>2 DEF VT!Certify, VT!trunk, trunk
  <2> QED
    BY <2>3 DEF VT!Next, VT!Commits, Commits
<1>3. CASE c0 \notin Certified'
  <2>1. Certified' = Certified \ {c0}
    BY <1>1, <1>3
  <2>2. VT!Withdraw(c0)
    BY <2>1 DEF VT!Withdraw, VT!trunk, trunk
  <2> QED
    BY <2>2 DEF VT!Next, VT!Commits, Commits
<1> QED
  BY <1>2, <1>3

\* A step of run r alone.
Alone(r) == \A s \in Runs : s # r =>
    /\ event'[s] = event[s] /\ commit'[s] = commit[s] /\ lane'[s] = lane[s]
    /\ verified'[s] = verified[s] /\ result'[s] = result[s]

LEMMA AloneStep ==
    ASSUME IInv, NEW r \in Runs, Alone(r), UNCHANGED trunk, VerifiedIsWhole',
           commit'[r] \in Commits, commit'[r] = commit[r] \/ event[r] = "none"
    PROVE  VT!Next
<1>1. \A s \in Runs : s # r => CheckedVerdict(s)' = CheckedVerdict(s)
  BY SameVerdict DEF Alone
<1>2. \A c \in Commits : c # commit'[r] => (c \in Certified' <=> c \in Certified)
  BY <1>1, OneCommit DEF Alone
<1> QED
  BY <1>2, CertificateStep

LEMMA WorkIsAlone ==
    ASSUME IInv, NEW r \in Runs, Work(r) \/ Cancel(r) \/ Rerun(r)
    PROVE  Alone(r) /\ UNCHANGED <<trunk, origin>>
<1>1. CASE Walk(r) \/ RangeUnavailable(r) \/ PlanFails(r)
  BY <1>1 DEF Walk, RangeUnavailable, PlanFails, Select, Alone, origin, IInv, TypeOK, LaneType
<1>2. ASSUME NEW l \in Lanes, LaneEnds(r, l) \/ HookCancels(r, l) \/ HookFails(r, l)
      PROVE  Alone(r) /\ UNCHANGED <<trunk, origin>>
  BY <1>2 DEF LaneEnds, HookCancels, HookFails, Alone, origin, IInv, TypeOK, LaneType, EndType
<1>3. CASE Aggregate(r) \/ Finish(r)
  BY <1>3 DEF Aggregate, Finish, Alone, origin, jobs, IInv, TypeOK, EndType
<1>4. CASE Cancel(r)
  BY <1>4 DEF Cancel, Alone, origin, IInv, TypeOK, LaneType, EndType
<1>5. CASE Rerun(r)
  BY <1>5 DEF Rerun, RerunAll, RerunFailed, Alone, origin, IInv, TypeOK, LaneType, EndType
<1> QED
  BY <1>1, <1>2, <1>3, <1>4, <1>5 DEF Work

LEMMA LandIsLand == ASSUME IInv, Land PROVE VT!Land
<1>1. head \in Commits /\ code[head] \in [Lanes -> Versions] /\ ci[head] \in Versions
  BY DEF IInv, TypeOK, TrunkType
<1>2. PICK v \in Versions :
        \/ /\ \E l \in Lanes : code' = [code EXCEPT ![head + 1] = [code[head] EXCEPT ![l] = v]]
           /\ ci' = [ci EXCEPT ![head + 1] = ci[head]]
        \/ /\ code' = [code EXCEPT ![head + 1] = code[head]]
           /\ ci' = [ci EXCEPT ![head + 1] = v]
  BY DEF Land
<1>3. \A l \in Lanes : [code[head] EXCEPT ![l] = v] \in [Lanes -> Versions]
  BY <1>1
<1>4. /\ \E files \in [Lanes -> Versions] : code' = [code EXCEPT ![head + 1] = files]
      /\ \E version \in Versions : ci' = [ci EXCEPT ![head + 1] = version]
  BY <1>1, <1>2, <1>3
<1>5. UNCHANGED Certified
  <2>1. UNCHANGED <<event, commit, lane, verified, result>>
    BY DEF Land, origin, jobs
  <2> QED
    BY <2>1 DEF Certified, ShaVerdictIs, IsLatestRun, Eligible, CheckedVerdict, FailureBeforeCancel
<1> QED
  BY <1>4, <1>5 DEF Land, VT!Land

LEMMA StepRefines == ASSUME IInv, IInv', [Next]_vars PROVE VT!Next \/ UNCHANGED <<trunk, Certified>>
<1>0. VerifiedIsWhole'
  BY CertifiedIsWhole, PTL
<1>1. CASE UNCHANGED vars
  BY <1>1 DEF vars, trunk, origin, jobs, Certified, ShaVerdictIs, IsLatestRun, Eligible, CheckedVerdict,
     FailureBeforeCancel
<1>2. CASE Land
  BY <1>2, LandIsLand DEF VT!Next
<1>3. ASSUME NEW r \in Runs, NEW e, NEW lanes, Start(r, e, lanes) PROVE VT!Next
  <2>1. event[r] = "none" /\ commit'[r] \in Commits /\ Alone(r)
    BY <1>3 DEF Start, Alone, IInv, TypeOK, TrunkType, OriginType, EndType, OriginInv
  <2> QED
    BY <1>0, <1>3, <2>1, AloneStep DEF Start
<1>4. ASSUME NEW r \in Runs, Work(r) \/ Cancel(r) \/ Rerun(r) PROVE VT!Next
  <2>1. Alone(r) /\ UNCHANGED <<trunk, origin>>
    BY <1>4, WorkIsAlone
  <2>2. commit'[r] = commit[r] /\ commit'[r] \in Commits
    BY <2>1 DEF origin, IInv, TypeOK, OriginType
  <2> QED
    BY <1>0, <2>1, <2>2, AloneStep
<1> QED
  BY <1>1, <1>2, <1>3, <1>4 DEF Next, Forge

\* The walks, lanes, hooks, cancels and re-runs of the verify runs certify as
\* VerifiedTrunk does: only whole commits, one at a time, on a trunk that only
\* grows.
THEOREM RunsImplementVerifiedTrunk == Spec => CertifiesOnlyWhole
<1>1. Init => VT!Init
  <2> SUFFICES ASSUME Init PROVE VT!Init
    OBVIOUS
  <2>1. Certified = {}
    BY DEF Init, Certified, ShaVerdictIs, IsLatestRun, Eligible
  <2>2. code \in [Commits -> [Lanes -> Versions]] /\ ci \in [Commits -> Versions]
    BY RangeAssumption DEF Init
  <2> QED
    BY <2>1, <2>2 DEF Init, VT!Init, VT!Commits, Commits
<1>2. IInv /\ IInv' /\ [Next]_vars => [VT!Next]_<<VT!trunk, Certified>>
  BY StepRefines DEF VT!trunk, trunk
<1> QED
  BY <1>1, <1>2, Invariance, PTL DEF Spec, CertifiesOnlyWhole, VT!Spec


-----------------------------------------------------------------------------
(* The base of a range.                                                    *)

\* What has been verified ever since the plan began is yet to be walked past.
StandingIsAhead ==
    \A r \in Runs : Planning(r) => \A c \in standing[r] : c \in Certified /\ c <= cursor[r]

\* A step walks one run's cursor on, past a commit that is not verified, or begins a plan.
LEMMA StandingNext ==
    ASSUME IInv, StandingIsAhead, [Next]_vars
    PROVE  StandingIsAhead'
<1>0. TypeOK
  BY DEF IInv
<1>1. CASE UNCHANGED vars
  BY <1>1 DEF StandingIsAhead, Planning, Certified, ShaVerdictIs, IsLatestRun, Eligible, CheckedVerdict,
              FailureBeforeCancel, vars, trunk, origin, jobs
<1>2. CASE Next
  <2> SUFFICES ASSUME NEW r \in Runs, Planning(r)', NEW c \in standing'[r]
               PROVE  c \in Certified' /\ c <= cursor'[r]
    BY DEF StandingIsAhead
  <2>1. c \in Certified' /\ c < commit'[r] /\ (Planning(r) => c \in standing[r])
    BY <1>2 DEF Next, Remember
  <2>2. c \in Nat
    BY <2>1 DEF Certified, Commits
  <2>3. commit[r] \in Nat /\ cursor[r] \in Nat /\ head \in Nat
    BY <1>0 DEF TypeOK, OriginType, PlanType, TrunkType, Commits
  <2>4. CASE ~Planning(r)
    <3>1. cursor'[r] = commit'[r] - 1 /\ commit'[r] \in Nat
      <4>1. CASE \E s \in Runs : \E e, lanes : Start(s, e, lanes)
        BY <1>0, <2>3, <2>4, <4>1 DEF Start, Planning, TypeOK, OriginType, PlanType, EndType
      <4>2. CASE \E s \in Runs : Rerun(s)
        BY <1>0, <2>3, <2>4, <4>2 DEF Rerun, RerunAll, RerunFailed, Planning, origin,
                                     TypeOK, OriginType, PlanType, EndType
      <4>3. CASE Land \/ \E s \in Runs : Cancel(s) \/ Work(s)
        <5>1. plan'[r] = "queued" => plan[r] = "queued"
          BY <1>0, <4>3 DEF Land, Cancel, Cut, Work, Walk, RangeUnavailable, PlanFails, Select, LaneEnds, HookCancels,
                      HookFails, Aggregate, Finish, jobs, TypeOK, PlanType
        <5>2. result'[r] = "running" => result[r] = "running"
          BY <1>0, <4>3 DEF Land, Cancel, Cut, Work, Walk, RangeUnavailable, PlanFails, Select, LaneEnds, HookCancels,
                      HookFails, Aggregate, Finish, jobs, TypeOK, EndType, Settled
        <5> QED
          BY <2>4, <5>1, <5>2 DEF Planning
      <4> QED
        BY <1>2, <4>1, <4>2, <4>3 DEF Next, Forge
    <3> QED
      BY <2>1, <2>2, <3>1
  <2>5. CASE Planning(r)
    <3>1. c \in Certified /\ c <= cursor[r]
      BY <2>1, <2>5 DEF StandingIsAhead
    <3>2. cursor'[r] = cursor[r] \/ (cursor[r] \notin Certified /\ cursor'[r] = cursor[r] - 1)
      <4>1. ASSUME NEW s \in Runs, Walk(s) PROVE cursor'[r] = cursor[r] \/ (cursor[r] \notin Certified /\ cursor'[r] = cursor[r] - 1)
        BY <1>0, <4>1 DEF Walk, Select, TypeOK, PlanType
      <4>2. ASSUME NEW s \in Runs, Rerun(s) \/ (\E e, lanes : Start(s, e, lanes)) PROVE cursor'[r] = cursor[r]
        <5>1. s # r
          BY <2>5, <4>2 DEF Rerun, Start, Completed, Planning, Settled
        <5> QED
          BY <1>0, <4>2, <5>1 DEF Rerun, RerunAll, RerunFailed, Start, TypeOK, PlanType
      <4>3. CASE Land \/ \E s \in Runs : Cancel(s)
        BY <4>3 DEF Land, Cancel, jobs
      <4>4. ASSUME NEW s \in Runs, Work(s), ~Walk(s) PROVE cursor'[r] = cursor[r]
        BY <4>4 DEF Work, RangeUnavailable, PlanFails, Select, LaneEnds, HookCancels, HookFails, Aggregate, Finish, jobs
      <4> QED
        BY <1>2, <4>1, <4>2, <4>3, <4>4 DEF Next, Forge
    <3>3. cursor[r] \notin Certified => c # cursor[r]
      BY <3>1
    <3> QED
      BY <2>1, <2>2, <2>3, <3>1, <3>2, <3>3
  <2> QED
    BY <2>4, <2>5
<1> QED
  BY <1>1, <1>2

LEMMA BaseStep ==
    ASSUME IInv, StandingIsAhead, [Next]_vars, NEW r \in Runs, Planning(r), plan'[r] = "success",
           faults' = faults, NEW c \in standing[r], commit[r] - c <= WalkLimit
    PROVE  base'[r] >= c
<1>0. TypeOK
  BY DEF IInv
<1>1. c \in Certified /\ c <= cursor[r] /\ c \in Nat \ {0}
  BY DEF StandingIsAhead, Certified, Commits
<1>2. commit[r] \in Nat /\ cursor[r] \in Nat /\ WalkLimit \in Nat /\ faults \in Nat
  BY <1>0, RangeAssumption DEF TypeOK, OriginType, PlanType, CountType, Commits
<1>3. plan[r] # plan'[r]
  BY DEF Planning
<1>4. Walk(r)
  <2>1. ASSUME NEW s \in Runs, Rerun(s) PROVE FALSE
    BY <1>0, <1>3, <2>1 DEF Rerun, RerunAll, RerunFailed, TypeOK, PlanType
  <2>2. CASE UNCHANGED vars \/ Land \/ \E s \in Runs : (\E e, lanes : Start(s, e, lanes))
    BY <1>3, <2>2 DEF vars, Land, Start, jobs
  <2>3. ASSUME NEW s \in Runs, Cancel(s) PROVE FALSE
    BY <1>0, <1>3, <2>3 DEF Cancel, Cut, TypeOK, PlanType
  <2>4. ASSUME NEW s \in Runs, RangeUnavailable(s) \/ PlanFails(s) PROVE FALSE
    BY <1>2, <2>4 DEF RangeUnavailable, PlanFails
  <2>5. ASSUME NEW s \in Runs, Work(s), ~RangeUnavailable(s), ~PlanFails(s) PROVE Walk(r)
    <3>1. Walk(s)
      BY <1>3, <2>5 DEF Work, LaneEnds, HookCancels, HookFails, Aggregate, Finish, jobs
    <3>2. s = r
      BY <1>0, <1>3, <3>1 DEF Walk, Select, TypeOK, PlanType
    <3> QED
      BY <3>1, <3>2
  <2> QED
    BY <2>1, <2>2, <2>3, <2>4, <2>5 DEF Next, Forge
<1>5. ~WalkExhausted(r)
  BY <1>1, <1>2 DEF WalkExhausted
<1>6. base'[r] = cursor[r]
  BY <1>0, <1>3, <1>4, <1>5 DEF Walk, Select, TypeOK, PlanType
<1> QED
  BY <1>1, <1>2, <1>6

\* A range whose history could be read begins no earlier than the newest ancestor
\* within the walk's reach that stayed verified while the plan was made.
THEOREM BaseIsTheNewest == Spec => BaseIsNewest
<1>1. Init => StandingIsAhead
  BY DEF Init, StandingIsAhead
<1>2. IInv /\ StandingIsAhead /\ [Next]_vars => StandingIsAhead'
  BY StandingNext
<1>3. IInv /\ StandingIsAhead /\ [Next]_vars =>
        [\A r \in Runs : Planning(r) /\ plan'[r] = "success" /\ faults' = faults =>
           \A c \in standing[r] : commit[r] - c <= WalkLimit => base'[r] >= c]_vars
  BY BaseStep
<1> QED
  BY <1>1, <1>2, <1>3, Invariance, PTL DEF Spec, BaseIsNewest
=============================================================================
