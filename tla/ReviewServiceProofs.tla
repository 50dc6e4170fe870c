------------------------ MODULE ReviewServiceProofs ------------------------
(***************************************************************************)
(* Proofs about ReviewService, for every number of deliveries, runs, moves *)
(* of the head and the base, and faults.                                   *)
(***************************************************************************)
EXTENDS ReviewService, SequenceTheorems, WellFoundedInduction, TLAPS

-----------------------------------------------------------------------------
(* The inductive invariant.                                                *)

Before  == {"idle", "queued", "target", "gather", "list", "create"}
Working == {"readback", "review", "recheck"}
Ending  == {"finalize", "settle", "over"}
Sources == Nat \X Nat

DelRecs ==
    [pc : Before \cup Working \cup {"patch", "confirm"} \cup Ending,
     head : Nat, policy : Nat, input : {"none", "bound", "outside", "unread"}, again : BOOLEAN,
     check : Nat, verdict : Verdicts \cup {"none"}, saved : {"none", "begun", "sent"},
     refused : BOOLEAN, report : {"none", "passed", "failed", "deferred"}]

CheckRecs ==
    [head : Nat, input : Sources, source : Sources, owner : Runs,
     external : [source : Sources, dispatch : SUBSET Deliveries],
     status : {"in_progress", "completed"}, conclusion : Verdicts \cup {"none"}, by : Runs,
     excused : BOOLEAN]

Shapes ==
    /\ head \in 1..MaxMoves + 1 /\ policy \in 1..MaxMoves + 1 /\ faults \in 0..MaxFaults
    /\ runOf \in [Deliveries -> Runs]
    /\ del \in [Deliveries -> DelRecs]
    /\ checks \in Seq(CheckRecs)

\* A run has one delivery at a time.
OnePerRun ==
    \A d \in Deliveries, e \in Deliveries :
        Active(d) /\ Active(e) /\ runOf[d] = runOf[e] => d = e

\* A delivery whose record is r is to complete its check.
Holds(r) == r.pc \in {"patch", "settle"} \/ r.saved = "begun"

\* How far a delivery is goes with what it saved ...
Saves(r) ==
    /\ r.pc \in Before => r.saved = "none"
    /\ r.pc \in Working => r.saved = "begun"
    /\ r.saved = "begun" => r.pc \in Working \cup {"finalize"}
    /\ r.saved # "none" => r.check # 0
    /\ r.pc \in {"patch", "confirm", "settle"} => r.saved = "sent"
    /\ r.pc \notin Ending => r.report = "none" /\ ~r.refused
    /\ r.pc \in {"gather", "list"} => r.head # 0
    /\ r.report \in {"passed", "deferred"} => r.check # 0
    /\ r.pc = "recheck" => r.verdict \in {"success", "failure", "neutral", "unavailable"}
    /\ r.pc = "patch" => r.verdict \in Verdicts \ {"unavailable"}

\* ... and with the check it works on: the check is its run's own, open until
\* it publishes, and of the source it collected; what it reports rests on it.
WorksOn(d, r) ==
    /\ r.check \in {0} \cup DOMAIN checks
    /\ Holds(r) => /\ checks[r.check].owner = runOf[d]
                   /\ checks[r.check].status # "completed"
                   /\ checks[r.check].source = <<r.head, r.policy>>
    /\ r.pc = "confirm" => /\ checks[r.check].status = "completed"
                           /\ checks[r.check].conclusion = r.verdict
                           /\ checks[r.check].source = <<r.head, r.policy>>
    /\ r.report = "passed" => /\ checks[r.check].status = "completed"
                              /\ checks[r.check].conclusion \in {"success", "outside"}
                              /\ checks[r.check].source = <<r.head, r.policy>>
    /\ r.report = "deferred" => /\ checks[r.check].owner # runOf[d]
                                /\ checks[r.check].source = <<r.head, r.policy>>

\* A check names its source or no input; it is open only while a delivery of its
\* run is to complete it, unless its end was lost.
CheckOK(c) ==
    /\ checks[c].by = checks[c].owner
    /\ checks[c].input \in {checks[c].source, NoInput}
    /\ checks[c].status = "completed" <=> checks[c].conclusion \in Verdicts \ {"unavailable"}
    /\ checks[c].status # "completed" /\ ~checks[c].excused =>
          \E d \in Deliveries : del[d].check = c /\ Holds(del[d]) /\ ~del[d].refused

IInv ==
    /\ Shapes /\ OnePerRun
    /\ \A d \in Deliveries : Saves(del[d]) /\ WorksOn(d, del[d])
    /\ \A c \in DOMAIN checks : CheckOK(c)

-----------------------------------------------------------------------------
(* Steps.                                                                  *)

\* The bounded counters keep their bounds.
Around == head' \in 1..MaxMoves + 1 /\ policy' \in 1..MaxMoves + 1 /\ faults' \in 0..MaxFaults

\* What a step of delivery d may do to the checks: open some, and complete open
\* ones of its own run.
ChecksMove(d) ==
    /\ checks' \in Seq(CheckRecs)
    /\ DOMAIN checks \subseteq DOMAIN checks'
    /\ \A c \in DOMAIN checks :
          /\ checks'[c].owner = checks[c].owner
          /\ checks'[c].source = checks[c].source
          /\ checks[c].status = "completed" => /\ checks'[c].status = "completed"
                                               /\ checks'[c].conclusion = checks[c].conclusion
                                               /\ checks'[c].by = checks[c].by
          /\ checks[c].status # "completed" /\ checks'[c].status = "completed"
                => checks[c].owner = runOf[d]

\* No verdict is replaced.
VerdictsStay ==
    \A c \in DOMAIN checks : checks[c].status = "completed" =>
        /\ checks'[c].status = "completed"
        /\ checks'[c].conclusion = checks[c].conclusion
        /\ checks'[c].by = checks[c].by

\* A delivery that holds a check is active and the check exists.
LEMMA HoldsIsActive ==
    ASSUME NEW d \in Deliveries, Saves(del[d]), WorksOn(d, del[d]), Holds(del[d])
    PROVE  Active(d) /\ del[d].check \in DOMAIN checks
  BY DEF Saves, WorksOn, Holds, Active, Before, Working, Ending

\* What another delivery works on is left alone by a step of d.
LEMMA OthersWorkOn ==
    ASSUME IInv, NEW d \in Deliveries, NEW e \in Deliveries, e # d, Active(d),
           ChecksMove(d), UNCHANGED runOf, NEW r, r = del[e]
    PROVE  WorksOn(e, r)'
  <1>1. Saves(r) /\ WorksOn(e, r)
    BY DEF IInv
  <1>2. r.check \in {0} \cup DOMAIN checks'
    BY <1>1 DEF WorksOn, ChecksMove
  <1>3. ASSUME Holds(r)
        PROVE  /\ checks'[r.check].owner = runOf[e] /\ checks'[r.check].status # "completed"
               /\ checks'[r.check].source = <<r.head, r.policy>>
    <2>1. Active(e) /\ r.check \in DOMAIN checks
      BY <1>1, <1>3, HoldsIsActive
    <2>2. /\ checks[r.check].owner = runOf[e] /\ checks[r.check].status # "completed"
          /\ checks[r.check].source = <<r.head, r.policy>>
      BY <1>1, <1>3 DEF WorksOn
    <2>3. runOf[e] # runOf[d]
      BY <2>1 DEF IInv, OnePerRun
    <2> QED
      BY <2>1, <2>2, <2>3 DEF ChecksMove
  <1>4. r.pc = "confirm" \/ r.report \in {"passed", "deferred"} => r.check \in DOMAIN checks
    BY <1>1 DEF Saves, WorksOn
  <1>5. /\ r.pc = "confirm" => /\ checks'[r.check].status = "completed"
                               /\ checks'[r.check].conclusion = r.verdict
                               /\ checks'[r.check].source = <<r.head, r.policy>>
        /\ r.report = "passed" => /\ checks'[r.check].status = "completed"
                                  /\ checks'[r.check].conclusion \in {"success", "outside"}
                                  /\ checks'[r.check].source = <<r.head, r.policy>>
        /\ r.report = "deferred" => /\ checks'[r.check].owner # runOf[e]
                                    /\ checks'[r.check].source = <<r.head, r.policy>>
    BY <1>1, <1>4 DEF WorksOn, ChecksMove
  <1> QED
    BY <1>2, <1>3, <1>5 DEF WorksOn, Holds

\* A step of an active delivery that leaves its record and the checks in order
\* keeps the invariant.
LEMMA DelStep ==
    ASSUME IInv, NEW d \in Deliveries, NEW n \in DelRecs, Step(d, n), Active(d), n.pc # "idle",
           Saves(n), WorksOn(d, n)', ChecksMove(d), Around, UNCHANGED runOf,
           \A c \in DOMAIN checks' : CheckOK(c)'
    PROVE  IInv' /\ VerdictsStay
  <1>1. /\ del \in [Deliveries -> DelRecs]
        /\ del' = [del EXCEPT ![d] = n]
    BY DEF IInv, Shapes, Step
  <1>2. del' \in [Deliveries -> DelRecs] /\ del'[d] = n
        /\ \A e \in Deliveries : e # d => del'[e] = del[e]
    BY <1>1
  <1>3. Shapes'
    BY <1>2 DEF IInv, Shapes, Around, ChecksMove
  <1>4. OnePerRun'
    BY <1>2 DEF IInv, OnePerRun, Active
  <1>5. ASSUME NEW e \in Deliveries PROVE Saves(del[e])' /\ WorksOn(e, del[e])'
    <2>1. CASE e = d
      BY <1>2, <2>1 DEF Saves, WorksOn, Holds
    <2>2. CASE e # d
      <3>1. PICK r : r = del[e]
        OBVIOUS
      <3>2. del'[e] = r /\ Saves(r)
        BY <1>2, <2>2, <3>1 DEF IInv
      <3>3. WorksOn(e, r)'
        BY <2>2, <3>1, OthersWorkOn
      <3> QED
        BY <3>2, <3>3 DEF Saves, WorksOn, Holds
    <2> QED
      BY <2>1, <2>2
  <1>6. VerdictsStay
    BY DEF ChecksMove, VerdictsStay
  <1> QED
    BY <1>3, <1>4, <1>5, <1>6 DEF IInv

-----------------------------------------------------------------------------
(* The four things a step does to the checks.                              *)

\* The next record of d still holds the check that d had to complete.
StillHolds(d, n) ==
    Holds(del[d]) /\ ~del[d].refused => n.check = del[d].check /\ Holds(n) /\ ~n.refused

\* A check that stays as it is stays in order.
LEMMA SameCheckOK ==
    ASSUME IInv, NEW d \in Deliveries, NEW n, Step(d, n), NEW c \in DOMAIN checks,
           checks'[c].by = checks[c].by, checks'[c].owner = checks[c].owner,
           checks'[c].input = checks[c].input, checks'[c].source = checks[c].source,
           checks'[c].status = checks[c].status, checks'[c].conclusion = checks[c].conclusion,
           checks[c].excused => checks'[c].excused,
           checks'[c].excused \/ del[d].check # c \/ StillHolds(d, n)
    PROVE  CheckOK(c)'
  <1>1. CheckOK(c)
    BY DEF IInv
  <1>2. ASSUME checks'[c].status # "completed", ~checks'[c].excused
        PROVE  \E e \in Deliveries : del'[e].check = c /\ Holds(del[e])' /\ ~del'[e].refused
    <2>1. PICK e \in Deliveries : del[e].check = c /\ Holds(del[e]) /\ ~del[e].refused
      BY <1>1, <1>2 DEF CheckOK
    <2>2. del \in [Deliveries -> DelRecs]
      BY DEF IInv, Shapes
    <2>3. CASE e # d
      <3>1. del'[e] = del[e]
        BY <2>2, <2>3 DEF Step
      <3> QED
        BY <2>1, <3>1 DEF Holds
    <2>4. CASE e = d
      <3>1. del'[d] = n /\ n.check = c /\ Holds(n) /\ ~n.refused
        BY <1>2, <2>1, <2>2, <2>4 DEF Step, StillHolds
      <3> QED
        BY <3>1 DEF Holds
    <2> QED
      BY <2>3, <2>4
  <1> QED
    BY <1>1, <1>2 DEF CheckOK

\* Nothing.
LEMMA QuietStep ==
    ASSUME IInv, NEW d \in Deliveries, NEW n \in DelRecs, Step(d, n), Active(d), n.pc # "idle",
           Saves(n), WorksOn(d, n), StillHolds(d, n), Around, UNCHANGED <<runOf, checks>>
    PROVE  IInv' /\ VerdictsStay
  <1>1. ChecksMove(d)
    BY DEF ChecksMove, IInv, Shapes
  <1>2. WorksOn(d, n)'
    BY DEF WorksOn
  <1>3. \A c \in DOMAIN checks' : CheckOK(c)'
    BY SameCheckOK
  <1> QED
    BY <1>1, <1>2, <1>3, DelStep

\* The end of a check is lost.
LEMMA ExcusedStep ==
    ASSUME IInv, NEW d \in Deliveries, NEW n \in DelRecs, Step(d, n), Active(d), n.pc # "idle",
           Saves(n), WorksOn(d, n), checks' = Excused(del[d].check), Around, UNCHANGED runOf
    PROVE  IInv' /\ VerdictsStay
  <1>1. checks \in Seq(CheckRecs)
    BY DEF IInv, Shapes
  <1>2. /\ DOMAIN checks' = DOMAIN checks
        /\ \A c \in DOMAIN checks :
              checks'[c] = [checks[c] EXCEPT !.excused = checks[c].excused \/ c = del[d].check]
    BY DEF Excused
  <1>3. \A c \in DOMAIN checks :
           /\ checks'[c] \in CheckRecs
           /\ checks'[c].by = checks[c].by /\ checks'[c].owner = checks[c].owner
           /\ checks'[c].input = checks[c].input /\ checks'[c].source = checks[c].source
           /\ checks'[c].status = checks[c].status /\ checks'[c].conclusion = checks[c].conclusion
           /\ checks'[c].excused = (checks[c].excused \/ c = del[d].check)
    <2> SUFFICES ASSUME NEW c \in DOMAIN checks
                 PROVE  /\ checks'[c] \in CheckRecs
                        /\ checks'[c].by = checks[c].by /\ checks'[c].owner = checks[c].owner
                        /\ checks'[c].input = checks[c].input /\ checks'[c].source = checks[c].source
                        /\ checks'[c].status = checks[c].status
                        /\ checks'[c].conclusion = checks[c].conclusion
                        /\ checks'[c].excused = (checks[c].excused \/ c = del[d].check)
      OBVIOUS
    <2>1. checks[c] \in CheckRecs
      BY <1>1
    <2>2. PICK b \in BOOLEAN : b = (checks[c].excused \/ c = del[d].check)
      OBVIOUS
    <2>3. PICK q : q = checks[c]
      OBVIOUS
    <2>4. checks'[c] = [q EXCEPT !.excused = b]
      BY <1>2, <2>2, <2>3
    <2>5. /\ [q EXCEPT !.excused = b] \in CheckRecs
          /\ \A p : p = [q EXCEPT !.excused = b] =>
                /\ p.by = q.by /\ p.owner = q.owner /\ p.input = q.input /\ p.source = q.source
                /\ p.status = q.status /\ p.conclusion = q.conclusion /\ p.excused = b
      BY <2>1, <2>3 DEF CheckRecs
    <2> QED
      BY <2>2, <2>3, <2>4, <2>5
  <1>4. checks' \in Seq(CheckRecs)
    <2>1. Len(checks) \in Nat /\ DOMAIN checks = 1 .. Len(checks)
      BY <1>1
    <2>2. checks' \in [1 .. Len(checks) -> CheckRecs]
      BY <1>2, <1>3, <2>1 DEF Excused
    <2> QED
      BY <2>1, <2>2, SeqDef
  <1>5. ChecksMove(d)
    BY <1>2, <1>3, <1>4 DEF ChecksMove
  <1>6. WorksOn(d, n)'
    <2>1. /\ n.check \in DOMAIN checks => /\ checks'[n.check].owner = checks[n.check].owner
                                          /\ checks'[n.check].source = checks[n.check].source
                                          /\ checks'[n.check].status = checks[n.check].status
                                          /\ checks'[n.check].conclusion = checks[n.check].conclusion
      BY <1>3
    <2>2. Holds(n) \/ n.pc = "confirm" \/ n.report \in {"passed", "deferred"}
             => n.check \in DOMAIN checks
      BY DEF Saves, WorksOn, Holds
    <2> QED
      BY <1>2, <2>1, <2>2 DEF WorksOn, Holds
  <1>7. \A c \in DOMAIN checks' : CheckOK(c)'
    BY <1>2, <1>3, SameCheckOK
  <1> QED
    BY <1>5, <1>6, <1>7, DelStep

\* The check that d holds is completed.
LEMMA CompletedStep ==
    ASSUME IInv, NEW d \in Deliveries, NEW n \in DelRecs, Step(d, n), Active(d), n.pc # "idle",
           Saves(n), Holds(del[d]), NEW v \in Verdicts \ {"unavailable"},
           NEW input \in {checks[del[d].check].input, NoInput},
           checks' = Completed(d, del[d].check, v, input), Around, UNCHANGED runOf,
           n.check = del[d].check, n.head = del[d].head, n.policy = del[d].policy, ~Holds(n),
           n.pc = "confirm" => n.verdict = v, n.report \notin {"passed", "deferred"}
    PROVE  IInv' /\ VerdictsStay
  <1> DEFINE c0 == del[d].check
  <1>1. checks \in Seq(CheckRecs) /\ runOf[d] \in Runs
    BY DEF IInv, Shapes
  <1>2. /\ c0 \in DOMAIN checks
        /\ checks[c0].owner = runOf[d] /\ checks[c0].status # "completed"
        /\ checks[c0].source = <<n.head, n.policy>>
    BY HoldsIsActive DEF IInv, WorksOn
  <1>3. CheckOK(c0) /\ checks[c0] \in CheckRecs
    BY <1>1, <1>2 DEF IInv
  <1>4. PICK i : i = IF v \in {"success", "failure", "neutral"} THEN input ELSE NoInput
    OBVIOUS
  <1>5. i \in {checks[c0].source, NoInput}
    BY <1>3, <1>4 DEF CheckOK
  <1>6. i \in Sources
    BY <1>3, <1>5 DEF NoInput, Sources, CheckRecs
  <1>7. PICK p : p = [checks[c0] EXCEPT !.status = "completed", !.conclusion = v, !.by = runOf[d],
                                        !.input = i]
    OBVIOUS
  <1>8. /\ p \in CheckRecs
        /\ p.status = "completed" /\ p.conclusion = v /\ p.by = runOf[d] /\ p.input = i
        /\ p.owner = checks[c0].owner /\ p.source = checks[c0].source
    BY <1>1, <1>3, <1>6, <1>7 DEF CheckRecs
  <1>9. checks' = [checks EXCEPT ![c0] = p]
    BY <1>2, <1>4, <1>7 DEF Completed
  <1>10. /\ checks' \in Seq(CheckRecs) /\ DOMAIN checks' = DOMAIN checks
         /\ checks'[c0] = p
         /\ \A c \in DOMAIN checks : c # c0 => checks'[c] = checks[c]
    <2>1. Len(checks) \in Nat /\ DOMAIN checks = 1 .. Len(checks) /\ checks \in [1 .. Len(checks) -> CheckRecs]
      BY <1>1
    <2>2. checks' \in [1 .. Len(checks) -> CheckRecs]
      BY <1>8, <1>9, <2>1
    <2> HIDE DEF c0
    <2> QED
      BY <1>2, <1>9, <2>1, <2>2, SeqDef
  <1> HIDE DEF c0
  <1>11. ChecksMove(d)
    BY <1>2, <1>8, <1>10 DEF ChecksMove
  <1>12. WorksOn(d, n)'
    BY <1>2, <1>8, <1>10 DEF WorksOn, Holds, c0
  <1>13. ASSUME NEW c \in DOMAIN checks' PROVE CheckOK(c)'
    <2>1. CASE c = c0
      BY <1>2, <1>5, <1>8, <1>10, <2>1 DEF CheckOK
    <2>2. CASE c # c0
      BY <1>10, <2>2, SameCheckOK DEF c0
    <2> QED
      BY <2>1, <2>2
  <1> QED
    BY <1>11, <1>12, <1>13, DelStep

\* A check is created; d remembers it, or nobody will end it.
LEMMA OpenedStep ==
    ASSUME IInv, NEW d \in Deliveries, NEW n \in DelRecs, Step(d, n), n.pc # "idle", Saves(n),
           del[d].pc = "create", NEW x \in BOOLEAN, checks' = Opened(d, x), Around, UNCHANGED runOf,
           n.head = del[d].head, n.policy = del[d].policy,
           n.pc # "confirm", n.report \notin {"passed", "deferred"},
           \/ x /\ ~Holds(n) /\ n.check = del[d].check
           \/ Holds(n) /\ ~n.refused /\ n.check = Len(checks) + 1
    PROVE  IInv' /\ VerdictsStay
  <1>1. checks \in Seq(CheckRecs) /\ runOf[d] \in Runs /\ del[d] \in DelRecs /\ Active(d)
    BY DEF IInv, Shapes, Active
  <1>2. ~Holds(del[d])
    BY DEF IInv, Saves, Holds, Before
  <1>3. PICK new : new = [head |-> del[d].head,
                    input |-> IF del[d].input = "bound" THEN Input(d) ELSE NoInput,
                    source |-> Input(d), owner |-> runOf[d], external |-> External(d),
                    status |-> "in_progress", conclusion |-> "none", by |-> runOf[d],
                    excused |-> x]
    OBVIOUS
  <1>4. Input(d) = <<n.head, n.policy>> /\ Input(d) \in Sources
    BY <1>1 DEF Input, Sources, DelRecs
  <1>5. External(d) \in [source : Sources, dispatch : SUBSET Deliveries]
    BY <1>4 DEF External
  <1>6. new \in CheckRecs
    <2>1. PICK i : i = IF del[d].input = "bound" THEN Input(d) ELSE NoInput
      OBVIOUS
    <2>2. i \in Sources
      BY <1>4, <2>1 DEF NoInput, Sources
    <2>3. del[d].head \in Nat
      BY <1>1 DEF DelRecs
    <2> QED
      BY <1>1, <1>3, <1>4, <1>5, <2>1, <2>2, <2>3 DEF CheckRecs
  <1>7. checks' = Append(checks, new)
    BY <1>3 DEF Opened
  <1>8. PICK S : S = CheckRecs
    OBVIOUS
  <1>9. /\ checks' \in Seq(CheckRecs) /\ Len(checks) \in Nat
        /\ DOMAIN checks = 1 .. Len(checks) /\ DOMAIN checks' = 1 .. Len(checks) + 1
        /\ checks'[Len(checks) + 1] = new
        /\ \A c \in DOMAIN checks : checks'[c] = checks[c]
    <2>1. checks \in Seq(S) /\ new \in S
      BY <1>1, <1>6, <1>8
    <2>2. checks' \in Seq(S) /\ Len(checks) \in Nat /\ Len(checks') = Len(checks) + 1
          /\ DOMAIN checks = 1 .. Len(checks) /\ DOMAIN checks' = 1 .. Len(checks')
          /\ checks'[Len(checks) + 1] = new
          /\ \A c \in 1 .. Len(checks) : checks'[c] = checks[c]
      BY <1>7, <2>1, AppendProperties
    <2> QED
      BY <1>8, <2>2
  <1>10. DOMAIN checks \subseteq DOMAIN checks' /\ Len(checks) + 1 \in DOMAIN checks'
         /\ \A c \in DOMAIN checks' : c \in DOMAIN checks \/ c = Len(checks) + 1
    BY <1>9
  <1>11. ChecksMove(d)
    BY <1>9, <1>10 DEF ChecksMove
  <1>12. WorksOn(d, n)'
    <2>1. del[d].check \in {0} \cup DOMAIN checks
      BY DEF IInv, WorksOn
    <2>2. n.check \in {0} \cup DOMAIN checks'
      BY <1>10, <2>1
    <2>3. ASSUME Holds(n)
          PROVE  /\ checks'[n.check].owner = runOf[d] /\ checks'[n.check].status # "completed"
                 /\ checks'[n.check].source = <<n.head, n.policy>>
      BY <1>3, <1>4, <1>9, <2>3
    <2> QED
      BY <2>2, <2>3 DEF WorksOn, Holds
  <1>13. ASSUME NEW c \in DOMAIN checks' PROVE CheckOK(c)'
    <2>1. CASE c \in DOMAIN checks
      BY <1>2, <1>9, <2>1, SameCheckOK DEF StillHolds
    <2>2. CASE c = Len(checks) + 1
      <3>1. checks'[c] = new /\ del'[d] = n
        BY <1>9, <2>2 DEF IInv, Shapes, Step
      <3>2. new.input \in {new.source, NoInput} /\ new.by = new.owner
            /\ new.status = "in_progress" /\ new.conclusion = "none" /\ new.excused = x
        BY <1>3
      <3>3. ~x => del'[d].check = c /\ Holds(del[d])' /\ ~del'[d].refused
        BY <2>2, <3>1 DEF Holds
      <3>4. "none" \notin Verdicts
        BY DEF Verdicts
      <3> QED
        BY <3>1, <3>2, <3>3, <3>4 DEF CheckOK
    <2> QED
      BY <1>10, <2>1, <2>2
  <1> QED
    BY <1>1, <1>11, <1>12, <1>13, DelStep

-----------------------------------------------------------------------------
(* The model's operators.                                                  *)

\* The bounds of the moves and of the faults are natural numbers.
LEMMA BoundsAreNaturals == MaxMoves \in Nat /\ MaxFaults \in Nat
  BY ConstantsAssumption

\* One more fault is within the bound.
LEMMA OneMoreFault ==
    ASSUME faults \in 0..MaxFaults, Fault
    PROVE  faults' \in 0..MaxFaults
  BY BoundsAreNaturals DEF Fault

\* A step of a delivery alone moves neither the head nor the base.
LEMMA AroundKept ==
    ASSUME IInv, UNCHANGED <<head, policy>>, UNCHANGED faults \/ Fault
    PROVE  Around
  BY OneMoreFault DEF IInv, Shapes, Around

\* The newest check on a head is a check, when there is one.
LEMMA NewestIsACheck ==
    ASSUME checks \in Seq(CheckRecs), NEW h
    PROVE  Newest(h) \in {0} \cup DOMAIN checks
  <1> DEFINE on == {c \in DOMAIN checks : checks[c].head = h}
             n == Len(checks)
             T == {n - c : c \in on}
  <1>1. n \in Nat /\ on \subseteq 1 .. n
    OBVIOUS
  <1>2. ASSUME on # {} PROVE \E c \in on : \A e \in on : e <= c
    <2>1. T \subseteq Nat /\ T # {}
      <3> HIDE DEF on, n
      <3> QED
        BY <1>1, <1>2
    <2>2. IsWellFoundedOn({p \in Nat \X Nat : p[1] < p[2]}, Nat)
      BY NatLessThanWellFounded DEF OpToRel
    <2>3. PICK x \in T : \A y \in T : <<y, x>> \notin {p \in Nat \X Nat : p[1] < p[2]}
      <3> HIDE DEF T
      <3> QED
        BY <2>1, <2>2, WFMin
    <2>4. PICK c \in on : x = n - c
      OBVIOUS
    <2>5. ASSUME NEW e \in on PROVE e <= c
      <3>1. n - e \in T
        OBVIOUS
      <3>2. <<n - e, x>> \notin {p \in Nat \X Nat : p[1] < p[2]}
        BY <2>3, <3>1
      <3>3. n - e \in Nat /\ x \in Nat
        BY <2>1, <3>1
      <3>4. ~(n - e < x)
        BY <3>2, <3>3
      <3>5. e \in Nat /\ c \in Nat
        BY <1>1
      <3> HIDE DEF n, on, T
      <3> QED
        BY <1>1, <2>4, <3>4, <3>5
    <2> QED
      BY <2>5
  <1>3. CASE on = {}
    BY <1>3 DEF Newest
  <1>4. CASE on # {}
    <2>1. Newest(h) = CHOOSE c \in on : \A e \in on : e <= c
      BY <1>4 DEF Newest
    <2>2. Newest(h) \in on
      <3> HIDE DEF on
      <3> QED
        BY <1>2, <1>4, <2>1
    <2> QED
      BY <2>2
  <1> QED
    BY <1>3, <1>4

\* The record of a delivery that leaves for its finalizer.
LEMMA LeaveRecord ==
    ASSUME NEW d \in Deliveries, del[d] \in DelRecs,
           NEW report \in {"none", "passed", "failed", "deferred"}, NEW n, n = Leave(d, report)
    PROVE  /\ n \in DelRecs
           /\ n.pc = "finalize" /\ n.report = report /\ n.check = del[d].check
           /\ n.saved = del[d].saved /\ n.refused = del[d].refused
           /\ n.head = del[d].head /\ n.policy = del[d].policy
  BY DEF Leave, DelRecs, Ending

\* The record of a delivery that is over.
LEMMA OverRecord ==
    ASSUME NEW d \in Deliveries, del[d] \in DelRecs, NEW n, n = Over(d)
    PROVE  /\ n \in DelRecs
           /\ n.pc = "over" /\ n.report = del[d].report /\ n.check = del[d].check
           /\ n.saved = "none" /\ ~n.refused
           /\ n.head = del[d].head /\ n.policy = del[d].policy
  BY DEF Over, DelRecs, Ending

\* The record of a delivery that is about to publish.
LEMMA PublishingRecord ==
    ASSUME NEW d \in Deliveries, del[d] \in DelRecs, NEW v \in Verdicts, NEW n, n = Publishing(d, v)
    PROVE  /\ n \in DelRecs
           /\ n.pc = "patch" /\ n.verdict = v /\ n.report = del[d].report /\ n.check = del[d].check
           /\ n.saved = "sent" /\ n.refused = del[d].refused
           /\ n.head = del[d].head /\ n.policy = del[d].policy
  BY DEF Publishing, DelRecs

\* The record of a delivery whose finalizer is about to close its check.
LEMMA SettlingRecord ==
    ASSUME NEW d \in Deliveries, del[d] \in DelRecs, NEW n, n = Settling(d)
    PROVE  /\ n \in DelRecs
           /\ n.pc = "settle" /\ n.report = del[d].report /\ n.check = del[d].check
           /\ n.saved = "sent" /\ n.refused = del[d].refused
           /\ n.head = del[d].head /\ n.policy = del[d].policy
  BY DEF Settling, DelRecs, Ending

\* What the invariant says of one delivery.
LEMMA Typing ==
    ASSUME IInv, NEW d \in Deliveries
    PROVE  /\ del[d] \in DelRecs /\ Saves(del[d]) /\ WorksOn(d, del[d])
           /\ checks \in Seq(CheckRecs)
  BY DEF IInv, Shapes

-----------------------------------------------------------------------------
(* The pull request and the collection.                                    *)

\* The invariant holds at the start.
LEMMA InitIInv == Init => IInv
  <1> SUFFICES ASSUME Init PROVE IInv
    OBVIOUS
  <1>1. /\ Idle \in DelRecs /\ Idle.pc = "idle" /\ Idle.saved = "none" /\ Idle.check = 0
        /\ Idle.report = "none" /\ ~Idle.refused
    BY DEF Idle, DelRecs, Before
  <1>2. \A d \in Deliveries : del[d] = Idle
    BY DEF Init
  <1>3. head \in 1..MaxMoves + 1 /\ policy \in 1..MaxMoves + 1 /\ faults \in 0..MaxFaults
    BY BoundsAreNaturals DEF Init
  <1>4. checks \in Seq(CheckRecs) /\ DOMAIN checks = {}
    BY DEF Init
  <1>5. del \in [Deliveries -> DelRecs] /\ runOf \in [Deliveries -> Runs]
    BY <1>1, ConstantsAssumption DEF Init
  <1>6. \A d \in Deliveries : ~Active(d)
    BY <1>1, <1>2 DEF Active
  <1>7. \A d \in Deliveries : Saves(del[d]) /\ WorksOn(d, del[d])
    BY <1>1, <1>2 DEF Saves, WorksOn, Holds, Before, Working, Ending
  <1> QED
    BY <1>3, <1>4, <1>5, <1>6, <1>7 DEF IInv, Shapes, OnePerRun

\* The head and the base move only below their bound.
LEMMA MoveIsBounded ==
    ASSUME head \in 1..MaxMoves + 1, policy \in 1..MaxMoves + 1, CanMove
    PROVE  head + 1 \in 1..MaxMoves + 1 /\ policy + 1 \in 1..MaxMoves + 1
  BY BoundsAreNaturals DEF CanMove

\* The head or the base moves.
LEMMA MoveStep ==
    ASSUME IInv, Push \/ BaseMoves
    PROVE  IInv' /\ VerdictsStay
  <1>1. UNCHANGED <<runOf, event, checks, del, faults>>
    BY DEF Push, BaseMoves
  <1>2. Around
    BY MoveIsBounded DEF Push, BaseMoves, IInv, Shapes, Around
  <1>3. Shapes' /\ OnePerRun'
    BY <1>1, <1>2 DEF IInv, Shapes, Around, OnePerRun, Active
  <1>4. \A d \in Deliveries : Saves(del[d])' /\ WorksOn(d, del[d])'
    BY <1>1 DEF IInv, Saves, WorksOn, Holds
  <1>5. \A c \in DOMAIN checks' : CheckOK(c)'
    BY <1>1 DEF IInv, CheckOK, Holds
  <1> QED
    BY <1>1, <1>3, <1>4, <1>5 DEF IInv, VerdictsStay

\* A run's next attempt is requested once no other one is active.
LEMMA RequestStep ==
    ASSUME IInv, NEW d \in Deliveries, Request(d)
    PROVE  IInv' /\ VerdictsStay
  <1>1. PICK n : n = [Idle EXCEPT !.pc = "queued"]
    OBVIOUS
  <1>2. /\ n \in DelRecs /\ n.pc = "queued" /\ n.saved = "none" /\ n.check = 0
        /\ n.report = "none" /\ ~n.refused
    BY <1>1 DEF Idle, DelRecs, Before
  <1>3. /\ del[d].pc = "idle" /\ ~Live(runOf[d]) /\ Step(d, n)
        /\ UNCHANGED <<head, policy, runOf, checks, faults>>
    BY <1>1 DEF Request
  <1>4. /\ del \in [Deliveries -> DelRecs] /\ del' \in [Deliveries -> DelRecs] /\ del'[d] = n
        /\ \A e \in Deliveries : e # d => del'[e] = del[e]
    BY <1>2, <1>3 DEF IInv, Shapes, Step
  <1>5. Shapes'
    BY <1>3, <1>4 DEF IInv, Shapes
  <1>6. OnePerRun'
    <2>1. \A e \in Deliveries : Active(e) => runOf[e] # runOf[d]
      BY <1>3 DEF Live
    <2>2. \A e \in Deliveries : e # d => (Active(e)' <=> Active(e))
      BY <1>4 DEF Active
    <2> QED
      BY <1>3, <2>1, <2>2 DEF IInv, OnePerRun
  <1>7. ASSUME NEW e \in Deliveries PROVE Saves(del[e])' /\ WorksOn(e, del[e])'
    <2>1. CASE e = d
      BY <1>2, <1>4, <2>1 DEF Saves, WorksOn, Holds, Before, Working, Ending
    <2>2. CASE e # d
      BY <1>3, <1>4, <2>2 DEF IInv, Saves, WorksOn, Holds
    <2> QED
      BY <2>1, <2>2
  <1>8. ~Holds(del[d])
    BY <1>3, Typing DEF Saves, Holds, Before
  <1>9. \A c \in DOMAIN checks' : CheckOK(c)'
    BY <1>3, <1>8, SameCheckOK DEF StillHolds
  <1> QED
    BY <1>3, <1>5, <1>6, <1>7, <1>9 DEF IInv, VerdictsStay

\* The steps before a check is looked for save nothing.
LEMMA CollectStep ==
    ASSUME IInv, NEW d \in Deliveries, Start(d) \/ Target(d) \/ Gather(d) \/ GatherFails(d)
    PROVE  IInv' /\ VerdictsStay
  <1>1. /\ del[d] \in DelRecs /\ Saves(del[d]) /\ WorksOn(d, del[d])
    BY Typing
  <1>2. /\ UNCHANGED <<head, policy, runOf, checks>> /\ (UNCHANGED faults \/ Fault)
        /\ del[d].pc \in {"queued", "target", "gather"}
    BY DEF Start, Target, Gather, GatherFails, Local, FaultLocal
  <1>3. Around
    BY <1>2, AroundKept
  <1>4. Active(d) /\ ~Holds(del[d]) /\ del[d].saved = "none" /\ del[d].report = "none" /\ ~del[d].refused
    BY <1>1, <1>2 DEF Active, Saves, Holds, Before, Ending
  <1>5. head \in Nat /\ head # 0 /\ policy \in Nat
    BY BoundsAreNaturals DEF IInv, Shapes
  <1>6. \E n \in DelRecs :
           /\ Step(d, n) /\ n.pc \in {"target", "gather", "list", "finalize"}
           /\ n.saved = "none" /\ n.report = "none" /\ ~n.refused /\ n.check = del[d].check
           /\ n.pc \in {"gather", "list"} => n.head # 0
    <2>1. CASE Start(d)
      <3>1. PICK n : n = [del[d] EXCEPT !.pc = "target"]
        OBVIOUS
      <3>2. n \in DelRecs /\ n.pc = "target" /\ n.saved = "none" /\ n.report = "none" /\ ~n.refused
            /\ n.check = del[d].check
        BY <1>1, <1>4, <3>1 DEF DelRecs, Before
      <3> QED
        BY <2>1, <3>1, <3>2 DEF Start
    <2>2. CASE Target(d)
      <3>1. PICK n : n = [del[d] EXCEPT !.pc = "gather", !.head = head, !.policy = policy]
        OBVIOUS
      <3>2. n \in DelRecs /\ n.pc = "gather" /\ n.saved = "none" /\ n.report = "none" /\ ~n.refused
            /\ n.check = del[d].check /\ n.head = head
        BY <1>1, <1>4, <1>5, <3>1 DEF DelRecs, Before
      <3>3. PICK m : m = Leave(d, "none")
        OBVIOUS
      <3>4. m \in DelRecs /\ m.pc = "finalize" /\ m.saved = "none" /\ m.report = "none" /\ ~m.refused
            /\ m.check = del[d].check
        BY <1>1, <1>4, <3>3, LeaveRecord
      <3>5. Step(d, n) \/ Step(d, m)
        BY <2>2, <3>1, <3>3 DEF Target
      <3> QED
        BY <1>5, <3>2, <3>4, <3>5
    <2>3. CASE Gather(d) \/ GatherFails(d)
      <3>1. del[d].pc = "gather"
        BY <2>3 DEF Gather, GatherFails
      <3>2. PICK input \in {"bound", "outside", "unread"} : Step(d, [del[d] EXCEPT !.pc = "list", !.input = input])
        BY <2>3 DEF Gather, GatherFails
      <3>3. PICK n : n = [del[d] EXCEPT !.pc = "list", !.input = input]
        OBVIOUS
      <3>4. n \in DelRecs /\ n.pc = "list" /\ n.saved = "none" /\ n.report = "none" /\ ~n.refused
            /\ n.check = del[d].check /\ n.head = del[d].head
        BY <1>1, <1>4, <3>3 DEF DelRecs, Before
      <3> QED
        BY <1>1, <3>1, <3>2, <3>3, <3>4 DEF Saves
    <2> QED
      BY <2>1, <2>2, <2>3
  <1>7. PICK n \in DelRecs :
           /\ Step(d, n) /\ n.pc \in {"target", "gather", "list", "finalize"}
           /\ n.saved = "none" /\ n.report = "none" /\ ~n.refused /\ n.check = del[d].check
           /\ n.pc \in {"gather", "list"} => n.head # 0
    BY <1>6
  <1>8. Saves(n) /\ WorksOn(d, n)
    BY <1>1, <1>7 DEF Saves, WorksOn, Holds, Before, Working, Ending
  <1> QED
    BY <1>2, <1>3, <1>4, <1>7, <1>8, QuietStep DEF StillHolds

-----------------------------------------------------------------------------
(* The check a delivery works on.                                          *)

\* A check that names the input of a delivery is of the source it collected.
LEMMA InputIsSource ==
    ASSUME IInv, NEW d \in Deliveries, del[d].head # 0, NEW c \in DOMAIN checks,
           checks[c].input = Input(d)
    PROVE  checks[c].source = <<del[d].head, del[d].policy>>
  <1>1. checks[c].input \in {checks[c].source, NoInput}
    BY DEF IInv, CheckOK
  <1>2. Input(d) # NoInput
    BY DEF Input, NoInput
  <1> QED
    BY <1>1, <1>2 DEF Input

\* A step that finds, defers to, takes up or misses a check leaves the checks alone.
LEMMA ListStep ==
    ASSUME IInv, NEW d \in Deliveries,
           Reuse(d) \/ Again(d) \/ Defer(d) \/ Adopt(d) \/ GoCreate(d) \/ OwnerUnread(d) \/ ListFails(d)
    PROVE  IInv' /\ VerdictsStay
  <1>1. /\ del[d] \in DelRecs /\ Saves(del[d]) /\ WorksOn(d, del[d]) /\ checks \in Seq(CheckRecs)
    BY Typing
  <1>2. /\ UNCHANGED <<head, policy, runOf, checks>> /\ (UNCHANGED faults \/ Fault)
        /\ del[d].pc = "list"
    BY DEF Reuse, Again, Defer, Adopt, GoCreate, OwnerUnread, ListFails, Local, FaultLocal
  <1>3. Around
    BY <1>2, AroundKept
  <1>4. /\ Active(d) /\ ~Holds(del[d]) /\ del[d].saved = "none" /\ del[d].report = "none"
        /\ ~del[d].refused /\ del[d].head # 0
    BY <1>1, <1>2 DEF Active, Saves, Holds, Before, Ending
  <1>5. PICK c : c = Newest(del[d].head)
    OBVIOUS
  <1>6. c \in {0} \cup DOMAIN checks /\ DOMAIN checks \subseteq Nat \ {0}
    BY <1>1, <1>5, NewestIsACheck
  <1>7. \E n \in DelRecs : Step(d, n) /\ n.pc # "idle" /\ Saves(n) /\ WorksOn(d, n)
    <2>1. CASE Reuse(d)
      <3>1. PICK report \in {"passed", "failed"} :
               /\ Step(d, [Leave(d, report) EXCEPT !.check = c, !.saved = "sent"])
               /\ report = "passed" => checks[c].conclusion = "success"
        BY <1>5, <2>1 DEF Reuse, ReusedState
      <3>2. /\ c # 0 /\ checks[c].status = "completed" /\ checks[c].input = Input(d)
        BY <1>5, <2>1 DEF Reuse, Reusable
      <3>3. c \in DOMAIN checks /\ c \in Nat /\ checks[c].source = <<del[d].head, del[d].policy>>
        BY <1>4, <1>6, <3>2, InputIsSource
      <3>4. PICK m : m = Leave(d, report)
        OBVIOUS
      <3>5. /\ m \in DelRecs /\ m.pc = "finalize" /\ m.report = report /\ ~m.refused
            /\ m.head = del[d].head /\ m.policy = del[d].policy
        BY <1>1, <1>4, <3>4, LeaveRecord
      <3>6. PICK n : n = [m EXCEPT !.check = c, !.saved = "sent"]
        OBVIOUS
      <3>7. /\ n \in DelRecs /\ n.pc = "finalize" /\ n.report = report /\ n.saved = "sent" /\ ~n.refused
            /\ n.check = c /\ n.head = del[d].head /\ n.policy = del[d].policy
        BY <3>3, <3>5, <3>6 DEF DelRecs
      <3>8. Step(d, n)
        BY <3>1, <3>4, <3>6
      <3> QED
        BY <3>1, <3>2, <3>3, <3>7, <3>8 DEF Saves, WorksOn, Holds, Before, Working, Ending
    <2>2. CASE Again(d)
      <3>1. PICK n : n = [del[d] EXCEPT !.again = TRUE]
        OBVIOUS
      <3>2. /\ n \in DelRecs /\ n.pc = "list" /\ n.report = "none" /\ n.saved = "none" /\ ~n.refused
            /\ n.check = del[d].check /\ n.head = del[d].head
        BY <1>1, <1>2, <1>4, <3>1 DEF DelRecs
      <3>3. Step(d, n)
        BY <2>2, <3>1 DEF Again
      <3> QED
        BY <1>1, <1>4, <3>2, <3>3 DEF Saves, WorksOn, Holds, Before, Working, Ending
    <2>3. CASE Defer(d)
      <3>1. /\ c # 0 /\ checks[c].owner # runOf[d] /\ checks[c].input = Input(d)
            /\ Step(d, [Leave(d, "deferred") EXCEPT !.check = c])
        BY <1>5, <2>3 DEF Defer, OwnedElsewhere, SameInput
      <3>2. c \in DOMAIN checks /\ c \in Nat /\ checks[c].source = <<del[d].head, del[d].policy>>
        BY <1>4, <1>6, <3>1, InputIsSource
      <3>3. PICK m : m = Leave(d, "deferred")
        OBVIOUS
      <3>4. /\ m \in DelRecs /\ m.pc = "finalize" /\ m.report = "deferred" /\ ~m.refused
            /\ m.saved = "none" /\ m.head = del[d].head /\ m.policy = del[d].policy
        BY <1>1, <1>4, <3>3, LeaveRecord
      <3>5. PICK n : n = [m EXCEPT !.check = c]
        OBVIOUS
      <3>6. /\ n \in DelRecs /\ n.pc = "finalize" /\ n.report = "deferred" /\ n.saved = "none" /\ ~n.refused
            /\ n.check = c /\ n.head = del[d].head /\ n.policy = del[d].policy
        BY <3>2, <3>4, <3>5 DEF DelRecs
      <3>7. Step(d, n)
        BY <3>1, <3>3, <3>5
      <3> QED
        BY <3>1, <3>2, <3>6, <3>7 DEF Saves, WorksOn, Holds, Before, Working, Ending
    <2>4. CASE Adopt(d)
      <3>1. /\ c # 0 /\ checks[c].owner = runOf[d] /\ checks[c].input = Input(d)
            /\ checks[c].status = "in_progress"
            /\ Step(d, [del[d] EXCEPT !.pc = "review", !.check = c, !.saved = "begun"])
        BY <1>5, <2>4 DEF Adopt, Own, SameInput
      <3>2. c \in DOMAIN checks /\ c \in Nat /\ checks[c].source = <<del[d].head, del[d].policy>>
        BY <1>4, <1>6, <3>1, InputIsSource
      <3>3. PICK n : n = [del[d] EXCEPT !.pc = "review", !.check = c, !.saved = "begun"]
        OBVIOUS
      <3>4. /\ n \in DelRecs /\ n.pc = "review" /\ n.report = "none" /\ n.saved = "begun" /\ ~n.refused
            /\ n.check = c /\ n.head = del[d].head /\ n.policy = del[d].policy
        BY <1>1, <1>4, <3>2, <3>3 DEF DelRecs, Working
      <3>5. Step(d, n)
        BY <3>1, <3>3
      <3> QED
        BY <3>1, <3>2, <3>4, <3>5 DEF Saves, WorksOn, Holds, Before, Working, Ending
    <2>5. CASE GoCreate(d) \/ OwnerUnread(d)
      <3>1. PICK n : n = [del[d] EXCEPT !.pc = "create", !.again = FALSE]
        OBVIOUS
      <3>2. /\ n \in DelRecs /\ n.pc = "create" /\ n.report = "none" /\ n.saved = "none" /\ ~n.refused
            /\ n.check = del[d].check
        BY <1>1, <1>4, <3>1 DEF DelRecs, Before
      <3>3. Step(d, n)
        BY <2>5, <3>1 DEF GoCreate, OwnerUnread
      <3> QED
        BY <1>1, <3>2, <3>3 DEF Saves, WorksOn, Holds, Before, Working, Ending
    <2>6. CASE ListFails(d)
      <3>1. PICK n : n = Leave(d, "failed")
        OBVIOUS
      <3>2. /\ n \in DelRecs /\ n.pc = "finalize" /\ n.report = "failed" /\ n.saved = "none" /\ ~n.refused
            /\ n.check = del[d].check
        BY <1>1, <1>4, <3>1, LeaveRecord
      <3>3. Step(d, n)
        BY <2>6, <3>1 DEF ListFails
      <3> QED
        BY <1>1, <3>2, <3>3 DEF Saves, WorksOn, Holds, Before, Working, Ending
    <2> QED
      BY <2>1, <2>2, <2>3, <2>4, <2>5, <2>6
  <1>8. PICK n \in DelRecs : Step(d, n) /\ n.pc # "idle" /\ Saves(n) /\ WorksOn(d, n)
    BY <1>7
  <1> QED
    BY <1>2, <1>3, <1>4, <1>8, QuietStep DEF StillHolds

\* The record of a delivery that leaves without a report to answer for: nothing
\* is asked of it but to hold the check that it saved as begun.
LEMMA LeaveFailed ==
    ASSUME IInv, NEW d \in Deliveries, del[d].pc \notin {"idle", "queued"}, NEW b \in BOOLEAN, NEW n,
           n = [Leave(d, "failed") EXCEPT !.refused = b] \/ (n = Leave(d, "failed") /\ b = del[d].refused)
    PROVE  /\ n \in DelRecs /\ n.pc = "finalize" /\ n.report = "failed" /\ n.check = del[d].check
           /\ n.saved = del[d].saved /\ n.refused = b
           /\ n.head = del[d].head /\ n.policy = del[d].policy
           /\ Saves(n)
           /\ (Holds(del[d]) \/ ~Holds(n)) => WorksOn(d, n)
  <1>1. /\ del[d] \in DelRecs /\ Saves(del[d]) /\ WorksOn(d, del[d])
    BY Typing
  <1>2. PICK m : m = Leave(d, "failed")
    OBVIOUS
  <1>3. /\ m \in DelRecs /\ m.pc = "finalize" /\ m.report = "failed" /\ m.check = del[d].check
        /\ m.saved = del[d].saved /\ m.refused = del[d].refused
        /\ m.head = del[d].head /\ m.policy = del[d].policy
    BY <1>1, <1>2, LeaveRecord
  <1>4. /\ n \in DelRecs /\ n.pc = "finalize" /\ n.report = "failed" /\ n.check = del[d].check
        /\ n.saved = del[d].saved /\ n.refused = b
        /\ n.head = del[d].head /\ n.policy = del[d].policy
    <2>1. CASE n = [m EXCEPT !.refused = b]
      BY <1>3, <2>1 DEF DelRecs
    <2>2. CASE n = m /\ b = del[d].refused
      BY <1>3, <2>2
    <2> QED
      BY <1>2, <2>1, <2>2
  <1>5. Saves(n)
    BY <1>1, <1>4 DEF Saves, Before, Working, Ending
  <1>6. (Holds(del[d]) \/ ~Holds(n)) => WorksOn(d, n)
    BY <1>1, <1>4 DEF WorksOn
  <1> QED
    BY <1>4, <1>5, <1>6

\* A check is created, or perhaps: the answer never arrives.
LEMMA CreateStep ==
    ASSUME IInv, NEW d \in Deliveries,
           Create(d) \/ CreateUnanswered(d) \/ (Cancel(d) /\ checks' = Opened(d, TRUE) /\ del[d].pc = "create")
    PROVE  IInv' /\ VerdictsStay
  <1>1. /\ del[d] \in DelRecs /\ Saves(del[d]) /\ WorksOn(d, del[d]) /\ checks \in Seq(CheckRecs)
    BY Typing
  <1>2. /\ UNCHANGED <<head, policy, runOf>> /\ (UNCHANGED faults \/ Fault)
        /\ del[d].pc = "create"
    BY DEF Create, CreateUnanswered, Cancel
  <1>3. Around
    BY <1>2, AroundKept
  <1>4. /\ Active(d) /\ ~Holds(del[d]) /\ del[d].saved = "none" /\ del[d].report = "none"
        /\ ~del[d].refused
    BY <1>1, <1>2 DEF Active, Saves, Holds, Before, Ending
  <1>5. CASE Create(d)
    <2>1. PICK n : n = [del[d] EXCEPT !.pc = "readback", !.check = Len(checks) + 1, !.saved = "begun"]
      OBVIOUS
    <2>2. Len(checks) + 1 \in Nat \ {0}
      BY <1>1
    <2>3. /\ n \in DelRecs /\ n.pc = "readback" /\ n.report = "none" /\ n.saved = "begun" /\ ~n.refused
          /\ n.check = Len(checks) + 1 /\ n.head = del[d].head /\ n.policy = del[d].policy
      BY <1>1, <1>4, <2>1, <2>2 DEF DelRecs, Working
    <2>4. Step(d, n) /\ checks' = Opened(d, FALSE)
      BY <1>5, <2>1 DEF Create, Remembered
    <2>5. Saves(n) /\ Holds(n)
      BY <2>2, <2>3 DEF Saves, Holds, Before, Working, Ending
    <2> QED
      BY <1>2, <1>3, <2>3, <2>4, <2>5, OpenedStep
  <1>6. CASE ~Create(d)
    <2>1. \E b \in BOOLEAN : \E m : Step(d, m)
              /\ (m = [Leave(d, "failed") EXCEPT !.refused = b]
                     \/ (m = Leave(d, "failed") /\ b = del[d].refused))
      <3>1. del[d].refused \in BOOLEAN
        BY <1>1 DEF DelRecs
      <3>2. CASE CreateUnanswered(d)
        <4>1. Step(d, [Leave(d, "failed") EXCEPT !.refused = TRUE])
          BY <3>2 DEF CreateUnanswered
        <4> QED
          BY <4>1
      <3>3. CASE Cancel(d)
        <4>1. Step(d, Leave(d, "failed"))
          BY <3>3 DEF Cancel
        <4> QED
          BY <3>1, <4>1
      <3> QED
        BY <1>6, <3>2, <3>3
    <2>b. PICK b \in BOOLEAN : \E m : Step(d, m)
              /\ (m = [Leave(d, "failed") EXCEPT !.refused = b]
                     \/ (m = Leave(d, "failed") /\ b = del[d].refused))
      BY <2>1
    <2>2. PICK m : Step(d, m)
              /\ (m = [Leave(d, "failed") EXCEPT !.refused = b]
                     \/ (m = Leave(d, "failed") /\ b = del[d].refused))
      BY <2>b
    <2>3. /\ m \in DelRecs /\ m.pc = "finalize" /\ m.report = "failed" /\ m.check = del[d].check
          /\ m.saved = del[d].saved /\ m.refused = b
          /\ m.head = del[d].head /\ m.policy = del[d].policy
          /\ Saves(m) /\ ((Holds(del[d]) \/ ~Holds(m)) => WorksOn(d, m))
      BY <1>2, <2>2, LeaveFailed
    <2>4. ~Holds(m)
      BY <1>4, <2>3 DEF Holds
    <2>5. checks' = Opened(d, TRUE) \/ checks' = checks
      BY <1>6 DEF CreateUnanswered
    <2>6. CASE checks' = Opened(d, TRUE)
      BY <1>2, <1>3, <2>2, <2>3, <2>4, <2>6, OpenedStep
    <2>7. CASE checks' = checks
      BY <1>2, <1>3, <1>4, <2>2, <2>3, <2>4, <2>7, QuietStep DEF StillHolds
    <2> QED
      BY <2>5, <2>6, <2>7
  <1> QED
    BY <1>5, <1>6

-----------------------------------------------------------------------------
(* The review and its publication.                                         *)

\* A delivery that works on its check keeps holding it, whatever it concludes.
LEMMA WorkingStep ==
    ASSUME IInv, NEW d \in Deliveries,
           ReadBack(d) \/ ReadBackFails(d) \/ Review(d) \/ Recheck(d) \/ RecheckFails(d)
    PROVE  IInv' /\ VerdictsStay
  <1>1. /\ del[d] \in DelRecs /\ Saves(del[d]) /\ WorksOn(d, del[d])
    BY Typing
  <1>2. /\ UNCHANGED <<head, policy, runOf, checks>> /\ (UNCHANGED faults \/ Fault)
        /\ del[d].pc \in {"readback", "review", "recheck"}
    BY DEF ReadBack, ReadBackFails, Review, Recheck, RecheckFails, Local, FaultLocal
  <1>3. Around
    BY <1>2, AroundKept
  <1>4. /\ Active(d) /\ Holds(del[d]) /\ del[d].saved = "begun" /\ del[d].report = "none"
        /\ ~del[d].refused /\ del[d].check # 0
    BY <1>1, <1>2 DEF Active, Saves, Holds, Working, Ending
  <1>5. {"success", "failure", "neutral", "unavailable", "outside", "cancelled"} \subseteq Verdicts
    BY DEF Verdicts
  <1>6. \E n \in DelRecs :
           /\ Step(d, n) /\ n.check = del[d].check /\ ~n.refused
           /\ n.head = del[d].head /\ n.policy = del[d].policy
           /\ \/ n.pc = "patch" /\ n.saved = "sent" /\ n.verdict \in Verdicts \ {"unavailable"}
                   /\ n.report = "none"
              \/ n.pc = "review" /\ n.saved = "begun" /\ n.report = "none"
              \/ n.pc = "recheck" /\ n.saved = "begun" /\ n.report = "none"
                   /\ n.verdict \in {"success", "failure", "neutral", "unavailable"}
              \/ n.pc = "finalize" /\ n.saved = "begun" /\ n.report = "failed"
    <2>1. CASE \E v \in Verdicts \ {"unavailable"} : Step(d, Publishing(d, v))
      <3>1. PICK v \in Verdicts \ {"unavailable"} : Step(d, Publishing(d, v))
        BY <2>1
      <3>2. PICK n : n = Publishing(d, v)
        OBVIOUS
      <3>3. /\ n \in DelRecs
            /\ n.pc = "patch" /\ n.verdict = v /\ n.report = del[d].report /\ n.check = del[d].check
            /\ n.saved = "sent" /\ n.refused = del[d].refused
            /\ n.head = del[d].head /\ n.policy = del[d].policy
        BY <1>1, <3>2, PublishingRecord
      <3> QED
        BY <1>4, <3>1, <3>2, <3>3
    <2>2. CASE Step(d, Leave(d, "failed"))
      <3>1. PICK n : n = Leave(d, "failed")
        OBVIOUS
      <3>2. /\ n \in DelRecs
            /\ n.pc = "finalize" /\ n.report = "failed" /\ n.check = del[d].check
            /\ n.saved = del[d].saved /\ n.refused = del[d].refused
            /\ n.head = del[d].head /\ n.policy = del[d].policy
        BY <1>1, <3>1, LeaveRecord
      <3> QED
        BY <1>4, <2>2, <3>1, <3>2
    <2>3. CASE Step(d, [del[d] EXCEPT !.pc = "review", !.saved = "begun"])
      <3>1. PICK n : n = [del[d] EXCEPT !.pc = "review", !.saved = "begun"]
        OBVIOUS
      <3>2. /\ n \in DelRecs /\ n.pc = "review" /\ n.saved = "begun" /\ n.report = del[d].report
            /\ n.check = del[d].check /\ n.refused = del[d].refused
            /\ n.head = del[d].head /\ n.policy = del[d].policy
        BY <1>1, <3>1 DEF DelRecs, Working
      <3> QED
        BY <1>4, <2>3, <3>1, <3>2
    <2>4. CASE \E v \in {"success", "failure", "neutral", "unavailable"} :
                  Step(d, [del[d] EXCEPT !.pc = "recheck", !.verdict = v])
      <3>1. PICK v \in {"success", "failure", "neutral", "unavailable"} :
                  Step(d, [del[d] EXCEPT !.pc = "recheck", !.verdict = v])
        BY <2>4
      <3>2. PICK n : n = [del[d] EXCEPT !.pc = "recheck", !.verdict = v]
        OBVIOUS
      <3>3. v \in Verdicts
        BY <1>5
      <3>4. /\ n \in DelRecs /\ n.pc = "recheck" /\ n.verdict = v /\ n.report = del[d].report
            /\ n.check = del[d].check /\ n.refused = del[d].refused /\ n.saved = del[d].saved
            /\ n.head = del[d].head /\ n.policy = del[d].policy
        BY <1>1, <3>2, <3>3 DEF DelRecs, Working
      <3> QED
        BY <1>4, <3>1, <3>2, <3>4
    <2>5. CASE ReadBack(d)
      BY <2>3, <2>5 DEF ReadBack
    <2>6. CASE ReadBackFails(d)
      BY <2>2, <2>6 DEF ReadBackFails
    <2>7. CASE Review(d)
      BY <1>5, <2>1, <2>4, <2>7 DEF Review
    <2>8. CASE Recheck(d)
      <3>1. del[d].verdict \in {"success", "failure", "neutral", "unavailable"}
        BY <1>1, <2>8 DEF Recheck, Saves
      <3>2. PICK v : v = IF head # del[d].head THEN "cancelled"
                         ELSE IF del[d].verdict = "unavailable" THEN "neutral" ELSE del[d].verdict
        OBVIOUS
      <3>3. v \in Verdicts \ {"unavailable"}
        BY <1>5, <3>1, <3>2
      <3>4. Step(d, Publishing(d, v))
        BY <2>8, <3>2 DEF Recheck
      <3> QED
        BY <2>1, <3>3, <3>4
    <2>9. CASE RecheckFails(d)
      <3>1. del[d].verdict \in {"success", "failure", "neutral", "unavailable"}
        BY <1>1, <2>9 DEF RecheckFails, Saves
      <3>2. CASE del[d].verdict = "unavailable"
        BY <2>2, <2>9, <3>2 DEF RecheckFails
      <3>3. CASE del[d].verdict # "unavailable"
        <4>1. PICK v \in {"neutral", del[d].verdict} : Step(d, Publishing(d, v))
          BY <2>9, <3>3 DEF RecheckFails
        <4>2. v \in Verdicts \ {"unavailable"}
          BY <1>5, <3>1, <3>3
        <4> QED
          BY <2>1, <4>1, <4>2
      <3> QED
        BY <3>2, <3>3
    <2> QED
      BY <2>5, <2>6, <2>7, <2>8, <2>9
  <1>7. PICK n \in DelRecs :
           /\ Step(d, n) /\ n.check = del[d].check /\ ~n.refused
           /\ n.head = del[d].head /\ n.policy = del[d].policy
           /\ \/ n.pc = "patch" /\ n.saved = "sent" /\ n.verdict \in Verdicts \ {"unavailable"}
                   /\ n.report = "none"
              \/ n.pc = "review" /\ n.saved = "begun" /\ n.report = "none"
              \/ n.pc = "recheck" /\ n.saved = "begun" /\ n.report = "none"
                   /\ n.verdict \in {"success", "failure", "neutral", "unavailable"}
              \/ n.pc = "finalize" /\ n.saved = "begun" /\ n.report = "failed"
    BY <1>6
  <1>8. Saves(n) /\ Holds(n) /\ n.pc # "idle"
    BY <1>4, <1>7 DEF Saves, Holds, Before, Working, Ending
  <1>9. WorksOn(d, n)
    BY <1>1, <1>4, <1>7 DEF WorksOn
  <1> QED
    BY <1>2, <1>3, <1>4, <1>7, <1>8, <1>9, QuietStep DEF StillHolds

\* The check is completed, or the end of it is lost, in the only PATCH.
LEMMA PatchStep ==
    ASSUME IInv, NEW d \in Deliveries,
           Patch(d) \/ PatchFails(d)
             \/ (Cancel(d) /\ del[d].pc = "patch"
                   /\ (checks' = Completed(d, del[d].check, del[d].verdict, checks[del[d].check].input)
                         \/ checks' = Excused(del[d].check)))
    PROVE  IInv' /\ VerdictsStay
  <1>1. /\ del[d] \in DelRecs /\ Saves(del[d]) /\ WorksOn(d, del[d])
    BY Typing
  <1>2. /\ UNCHANGED <<head, policy, runOf>> /\ (UNCHANGED faults \/ Fault)
        /\ del[d].pc = "patch"
    BY DEF Patch, PatchFails, Cancel
  <1>3. Around
    BY <1>2, AroundKept
  <1>4. /\ Active(d) /\ Holds(del[d]) /\ del[d].saved = "sent" /\ del[d].report = "none"
        /\ ~del[d].refused /\ del[d].check # 0 /\ del[d].verdict \in Verdicts \ {"unavailable"}
    BY <1>1, <1>2 DEF Active, Saves, Holds, Ending
  <1>5. CASE Patch(d)
    <2>1. PICK n : n = [del[d] EXCEPT !.pc = "confirm"]
      OBVIOUS
    <2>2. /\ n \in DelRecs /\ n.pc = "confirm" /\ n.report = "none" /\ n.saved = "sent" /\ ~n.refused
          /\ n.check = del[d].check /\ n.head = del[d].head /\ n.policy = del[d].policy
          /\ n.verdict = del[d].verdict
      BY <1>1, <1>4, <2>1 DEF DelRecs
    <2>3. Saves(n) /\ ~Holds(n)
      BY <1>4, <2>2 DEF Saves, Holds, Before, Working, Ending
    <2>4. Step(d, n)
      BY <1>5, <2>1 DEF Patch
    <2>5. PICK input \in {checks[del[d].check].input, NoInput} :
             checks' = Completed(d, del[d].check, del[d].verdict, input)
      BY <1>5 DEF Patch
    <2> QED
      BY <1>2, <1>3, <1>4, <2>2, <2>3, <2>4, <2>5, CompletedStep
  <1>6. CASE ~Patch(d)
    <2>1. \E b \in BOOLEAN : \E m : Step(d, m)
              /\ (m = [Leave(d, "failed") EXCEPT !.refused = b]
                     \/ (m = Leave(d, "failed") /\ b = del[d].refused))
      <3>1. del[d].refused \in BOOLEAN
        BY <1>1 DEF DelRecs
      <3>2. CASE PatchFails(d)
        <4>1. PICK b \in BOOLEAN : Step(d, [Leave(d, "failed") EXCEPT !.refused = b])
          BY <3>2 DEF PatchFails
        <4> QED
          BY <4>1
      <3>3. CASE Cancel(d)
        <4>1. Step(d, Leave(d, "failed"))
          BY <3>3 DEF Cancel
        <4> QED
          BY <3>1, <4>1
      <3> QED
        BY <1>6, <3>2, <3>3
    <2>b. PICK b \in BOOLEAN : \E m : Step(d, m)
              /\ (m = [Leave(d, "failed") EXCEPT !.refused = b]
                     \/ (m = Leave(d, "failed") /\ b = del[d].refused))
      BY <2>1
    <2>2. PICK m : Step(d, m)
              /\ (m = [Leave(d, "failed") EXCEPT !.refused = b]
                     \/ (m = Leave(d, "failed") /\ b = del[d].refused))
      BY <2>b
    <2>3. /\ m \in DelRecs /\ m.pc = "finalize" /\ m.report = "failed" /\ m.check = del[d].check
          /\ m.saved = del[d].saved /\ m.refused = b
          /\ m.head = del[d].head /\ m.policy = del[d].policy
          /\ Saves(m) /\ ((Holds(del[d]) \/ ~Holds(m)) => WorksOn(d, m))
      BY <1>2, <2>2, LeaveFailed
    <2>4. ~Holds(m)
      BY <1>4, <2>3 DEF Holds
    <2>5. \/ checks' = Completed(d, del[d].check, del[d].verdict, checks[del[d].check].input)
          \/ checks' = Excused(del[d].check)
      BY <1>6 DEF PatchFails
    <2>6. CASE checks' = Completed(d, del[d].check, del[d].verdict, checks[del[d].check].input)
      <3>1. PICK i \in {checks[del[d].check].input, NoInput} : i = checks[del[d].check].input
        OBVIOUS
      <3>2. checks' = Completed(d, del[d].check, del[d].verdict, i)
        BY <2>6, <3>1
      <3> QED
        BY <1>2, <1>3, <1>4, <2>2, <2>3, <2>4, <3>2, CompletedStep
    <2>7. CASE checks' = Excused(del[d].check)
      BY <1>2, <1>3, <1>4, <2>2, <2>3, <2>4, <2>7, ExcusedStep
    <2> QED
      BY <2>5, <2>6, <2>7
  <1> QED
    BY <1>5, <1>6

\* The publication is read back, or cannot be.
LEMMA ConfirmStep ==
    ASSUME IInv, NEW d \in Deliveries, Confirm(d) \/ ConfirmFails(d)
    PROVE  IInv' /\ VerdictsStay
  <1>1. /\ del[d] \in DelRecs /\ Saves(del[d]) /\ WorksOn(d, del[d])
    BY Typing
  <1>2. /\ UNCHANGED <<head, policy, runOf, checks>> /\ (UNCHANGED faults \/ Fault)
        /\ del[d].pc = "confirm"
    BY DEF Confirm, ConfirmFails, Local, FaultLocal
  <1>3. Around
    BY <1>2, AroundKept
  <1>4. /\ Active(d) /\ ~Holds(del[d]) /\ del[d].saved = "sent"
        /\ ~del[d].refused /\ del[d].check # 0
    BY <1>1, <1>2 DEF Active, Saves, Holds, Ending
  <1>5. PICK report \in {"passed", "failed"} :
           /\ Step(d, Leave(d, report))
           /\ report = "passed" => del[d].verdict \in {"success", "outside"}
    <2>1. CASE Confirm(d) /\ del[d].verdict \in {"success", "outside"}
      BY <2>1 DEF Confirm
    <2>2. CASE Confirm(d) /\ del[d].verdict \notin {"success", "outside"}
      BY <2>2 DEF Confirm
    <2>3. CASE ConfirmFails(d)
      BY <2>3 DEF ConfirmFails
    <2> QED
      BY <2>1, <2>2, <2>3
  <1>6. PICK n : n = Leave(d, report)
    OBVIOUS
  <1>7. /\ n \in DelRecs /\ n.pc = "finalize" /\ n.report = report /\ n.check = del[d].check
        /\ n.saved = "sent" /\ ~n.refused
        /\ n.head = del[d].head /\ n.policy = del[d].policy
    BY <1>1, <1>4, <1>6, LeaveRecord
  <1>8. Saves(n) /\ ~Holds(n)
    BY <1>4, <1>7 DEF Saves, Holds, Before, Working, Ending
  <1>9. WorksOn(d, n)
    BY <1>1, <1>2, <1>5, <1>7, <1>8 DEF WorksOn
  <1>10. Step(d, n)
    BY <1>5, <1>6
  <1> QED
    BY <1>2, <1>3, <1>4, <1>7, <1>8, <1>9, <1>10, QuietStep DEF StillHolds

-----------------------------------------------------------------------------
(* The finalizer.                                                          *)

\* A delivery that is over answers for what its finalizer's report says.
LEMMA OverKeeps ==
    ASSUME IInv, NEW d \in Deliveries, NEW m, m = Over(d), NEW n,
           n = m \/ n = [m EXCEPT !.report = "failed"],
           del[d].pc \in {"finalize", "settle"} \/ n = [m EXCEPT !.report = "failed"]
    PROVE  n \in DelRecs /\ n.pc = "over" /\ n.check = del[d].check
           /\ n.head = del[d].head /\ n.policy = del[d].policy /\ n.report \in {del[d].report, "failed"}
           /\ Saves(n) /\ ~Holds(n) /\ WorksOn(d, n)
  <1>1. /\ del[d] \in DelRecs /\ Saves(del[d]) /\ WorksOn(d, del[d])
    BY Typing
  <1>2. /\ m \in DelRecs
        /\ m.pc = "over" /\ m.report = del[d].report /\ m.check = del[d].check
        /\ m.saved = "none" /\ ~m.refused
        /\ m.head = del[d].head /\ m.policy = del[d].policy
    BY <1>1, OverRecord
  <1>3. /\ n \in DelRecs
        /\ n.pc = "over" /\ n.report \in {del[d].report, "failed"} /\ n.check = del[d].check
        /\ n.saved = "none" /\ ~n.refused
        /\ n.head = del[d].head /\ n.policy = del[d].policy
    BY <1>2 DEF DelRecs
  <1>4. Saves(n) /\ ~Holds(n)
    BY <1>1, <1>3 DEF Saves, Holds, Before, Working, Ending
  <1>5. WorksOn(d, n)
    BY <1>1, <1>3, <1>4 DEF WorksOn
  <1> QED
    BY <1>3, <1>4, <1>5

\* The finalizer ends at once, or goes to close the check it was left.
LEMMA FinalizeStep ==
    ASSUME IInv, NEW d \in Deliveries, FinalizeOver(d) \/ Finalize(d) \/ FinalizeUnread(d)
    PROVE  IInv' /\ VerdictsStay
  <1>1. /\ del[d] \in DelRecs /\ Saves(del[d]) /\ WorksOn(d, del[d])
    BY Typing
  <1>2. /\ UNCHANGED <<head, policy, runOf, checks>> /\ (UNCHANGED faults \/ Fault)
        /\ del[d].pc = "finalize"
    BY DEF FinalizeOver, Finalize, FinalizeUnread, Local, FaultLocal
  <1>3. Around /\ Active(d)
    BY <1>2, AroundKept DEF Active
  <1>4. CASE FinalizeOver(d)
    <2>1. PICK n : n = Over(d)
      OBVIOUS
    <2>2. n \in DelRecs /\ n.pc = "over" /\ Saves(n) /\ ~Holds(n) /\ WorksOn(d, n)
      BY <1>2, <2>1, OverKeeps
    <2>3. Step(d, n)
      BY <1>4, <2>1 DEF FinalizeOver
    <2>4. del[d].refused \/ ~Holds(del[d])
      BY <1>1, <1>2, <1>4 DEF FinalizeOver, WorksOn, Holds
    <2> QED
      BY <1>2, <1>3, <2>2, <2>3, <2>4, QuietStep DEF StillHolds
  <1>5. CASE Finalize(d) \/ FinalizeUnread(d)
    <2>1. PICK n : n = Settling(d)
      OBVIOUS
    <2>2. /\ n \in DelRecs
          /\ n.pc = "settle" /\ n.report = del[d].report /\ n.check = del[d].check
          /\ n.saved = "sent" /\ n.refused = del[d].refused
          /\ n.head = del[d].head /\ n.policy = del[d].policy
      BY <1>1, <2>1, SettlingRecord
    <2>3. Step(d, n) /\ Holds(del[d])
      BY <1>5, <2>1 DEF Finalize, FinalizeUnread, Holds
    <2>4. Saves(n) /\ Holds(n)
      BY <1>1, <2>2, <2>3, HoldsIsActive DEF Saves, Holds, Before, Working, Ending
    <2>5. WorksOn(d, n)
      BY <1>1, <2>2, <2>3 DEF WorksOn
    <2> QED
      BY <1>2, <1>3, <2>2, <2>3, <2>4, <2>5, QuietStep DEF StillHolds
  <1> QED
    BY <1>4, <1>5

\* The finalizer closes the check, or the end of it is lost.
LEMMA SettleStep ==
    ASSUME IInv, NEW d \in Deliveries, Settle(d) \/ SettleFails(d)
    PROVE  IInv' /\ VerdictsStay
  <1>1. /\ UNCHANGED <<head, policy, runOf>> /\ (UNCHANGED faults \/ Fault)
        /\ del[d].pc = "settle"
    BY DEF Settle, SettleFails
  <1>2. Around /\ Active(d) /\ Holds(del[d])
    BY <1>1, AroundKept DEF Active, Holds
  <1>3. PICK n : n = Over(d)
    OBVIOUS
  <1>4. /\ n \in DelRecs /\ n.pc = "over" /\ n.check = del[d].check
        /\ n.head = del[d].head /\ n.policy = del[d].policy
        /\ Saves(n) /\ ~Holds(n) /\ WorksOn(d, n)
    BY <1>1, <1>3, OverKeeps
  <1>5. Step(d, n)
    BY <1>3 DEF Settle, SettleFails
  <1>6. PICK v \in Verdicts \ {"unavailable"} : v = "interrupted"
    BY DEF Verdicts
  <1>7. CASE checks' = Completed(d, del[d].check, v, NoInput)
    <2>1. n.report \in {del[d].report, "failed"}
      BY <1>1, <1>3, OverKeeps
    <2>2. n.report \notin {"passed", "deferred"}
      BY <1>2, <2>1, Typing DEF WorksOn
    <2>3. PICK i \in {checks[del[d].check].input, NoInput} : i = NoInput
      OBVIOUS
    <2>4. checks' = Completed(d, del[d].check, v, i)
      BY <1>7, <2>3
    <2> QED
      BY <1>1, <1>2, <1>4, <1>5, <2>2, <2>4, CompletedStep
  <1>8. CASE checks' = Excused(del[d].check)
    BY <1>1, <1>2, <1>4, <1>5, <1>8, ExcusedStep
  <1> QED
    BY <1>6, <1>7, <1>8 DEF Settle, SettleFails

-----------------------------------------------------------------------------
(* Refusals, cancellations and lost runners.                               *)

\* A refused request, a cancellation or a lost runner ends the delivery, and the
\* check it held is left to its finalizer or to nobody.
LEMMA EndedStep ==
    ASSUME IInv, NEW d \in Deliveries,
           Refused(d) \/ (Cancel(d) /\ del[d].pc # "patch" /\ UNCHANGED checks) \/ RunnerLost(d)
    PROVE  IInv' /\ VerdictsStay
  <1>1. /\ del[d] \in DelRecs /\ Saves(del[d]) /\ WorksOn(d, del[d])
    BY Typing
  <1>2. /\ UNCHANGED <<head, policy, runOf>> /\ Fault /\ Active(d) /\ del[d].pc # "idle"
    BY DEF Refused, Cancel, RunnerLost, Active
  <1>3. Around
    BY <1>2, AroundKept
  <1>4. CASE Refused(d)
    <2>1. CASE del[d].pc \in {"finalize", "settle"}
      <3>1. PICK n : n = Over(d)
        OBVIOUS
      <3>2. /\ n \in DelRecs /\ n.pc = "over" /\ Saves(n) /\ WorksOn(d, n)
        BY <2>1, <3>1, OverKeeps
      <3>3. Step(d, n) /\ checks' = Excused(del[d].check)
        BY <1>4, <2>1, <3>1 DEF Refused
      <3> QED
        BY <1>2, <1>3, <3>2, <3>3, ExcusedStep
    <2>2. CASE del[d].pc \notin {"finalize", "settle"}
      <3>1. del[d].pc \notin {"idle", "queued"}
        BY <1>2, <1>4 DEF Refused
      <3>2. ASSUME NEW b \in BOOLEAN, NEW m, m = [Leave(d, "failed") EXCEPT !.refused = b]
            PROVE  /\ m \in DelRecs /\ m.pc = "finalize" /\ m.saved = del[d].saved /\ Saves(m)
                   /\ (Holds(del[d]) \/ ~Holds(m)) => WorksOn(d, m)
        <4>1. \/ m = [Leave(d, "failed") EXCEPT !.refused = b]
              \/ (m = Leave(d, "failed") /\ b = del[d].refused)
          BY <3>2
        <4> QED
          BY <3>1, <4>1, LeaveFailed
      <3>3. PICK n : n = [Leave(d, "failed") EXCEPT !.refused = TRUE]
        OBVIOUS
      <3>4. /\ n \in DelRecs /\ n.pc = "finalize" /\ n.saved = del[d].saved /\ Saves(n)
            /\ (Holds(del[d]) \/ ~Holds(n)) => WorksOn(d, n)
        BY <3>2, <3>3
      <3>5. WorksOn(d, n)
        BY <2>2, <3>4, Typing DEF Holds, Saves
      <3>6. Step(d, n) /\ checks' = Excused(del[d].check)
        BY <1>4, <2>2, <3>3 DEF Refused
      <3> QED
        BY <1>2, <1>3, <3>4, <3>5, <3>6, ExcusedStep
    <2> QED
      BY <2>1, <2>2
  <1>5. CASE Cancel(d) /\ del[d].pc # "patch" /\ UNCHANGED checks
    <2>1. PICK n : n = Leave(d, "failed")
      OBVIOUS
    <2>2. del[d].pc \notin {"idle", "queued", "patch", "settle", "finalize", "over"} /\ Step(d, n)
      BY <1>5, <2>1 DEF Cancel
    <2>3. del[d].refused \in BOOLEAN
      BY <1>1 DEF DelRecs
    <2>4. /\ n \in DelRecs /\ n.pc = "finalize" /\ n.saved = del[d].saved /\ Saves(n)
          /\ n.check = del[d].check /\ n.refused = del[d].refused
          /\ (Holds(del[d]) \/ ~Holds(n)) => WorksOn(d, n)
      BY <2>1, <2>2, <2>3, LeaveFailed
    <2>5. WorksOn(d, n) /\ StillHolds(d, n)
      BY <2>2, <2>4 DEF Holds, StillHolds
    <2> QED
      BY <1>2, <1>3, <1>5, <2>2, <2>4, <2>5, QuietStep
  <1>6. CASE RunnerLost(d)
    <2>1. PICK m : m = Over(d)
      OBVIOUS
    <2>2. m.report = del[d].report
      BY <1>1, <2>1, OverRecord
    <2>3. PICK n : n = [Over(d) EXCEPT !.report = IF del[d].pc \in {"finalize", "settle"} THEN @ ELSE "failed"]
      OBVIOUS
    <2>4. Step(d, n) /\ checks' = Excused(del[d].check)
      BY <1>6, <2>3 DEF RunnerLost
    <2>5. CASE del[d].pc \in {"finalize", "settle"}
      <3>1. n = [m EXCEPT !.report = m.report]
        BY <2>1, <2>3, <2>5
      <3>2. m \in DelRecs
        BY <1>1, <2>1, OverRecord
      <3>3. n = m
        BY <3>1, <3>2 DEF DelRecs
      <3>4. n \in DelRecs /\ n.pc = "over" /\ Saves(n) /\ WorksOn(d, n)
        BY <2>1, <2>5, <3>3, OverKeeps
      <3> QED
        BY <1>2, <1>3, <2>4, <3>4, ExcusedStep
    <2>6. CASE del[d].pc \notin {"finalize", "settle"}
      <3>1. n = [m EXCEPT !.report = "failed"]
        BY <2>1, <2>3, <2>6
      <3>2. n \in DelRecs /\ n.pc = "over" /\ Saves(n) /\ WorksOn(d, n)
        BY <2>1, <3>1, OverKeeps
      <3> QED
        BY <1>2, <1>3, <2>4, <3>2, ExcusedStep
    <2> QED
      BY <2>5, <2>6
  <1> QED
    BY <1>4, <1>5, <1>6

-----------------------------------------------------------------------------
(* The theorems.                                                           *)

\* Every step keeps the invariant and every verdict.
LEMMA NextIInv ==
    ASSUME IInv, Next
    PROVE  IInv' /\ VerdictsStay
  <1>1. CASE Push \/ BaseMoves
    BY <1>1, MoveStep
  <1>2. CASE \E d \in Deliveries : Request(d)
    BY <1>2, RequestStep
  <1>3. ASSUME NEW d \in Deliveries, Work(d) PROVE IInv' /\ VerdictsStay
    <2>1. CASE Start(d) \/ Target(d) \/ Gather(d)
      BY <2>1, CollectStep
    <2>2. CASE Reuse(d) \/ Again(d) \/ Defer(d) \/ Adopt(d) \/ GoCreate(d)
      BY <2>2, ListStep
    <2>3. CASE Create(d)
      BY <2>3, CreateStep
    <2>4. CASE ReadBack(d) \/ Review(d) \/ Recheck(d)
      BY <2>4, WorkingStep
    <2>5. CASE Patch(d)
      BY <2>5, PatchStep
    <2>6. CASE Confirm(d)
      BY <2>6, ConfirmStep
    <2>7. CASE FinalizeOver(d) \/ Finalize(d)
      BY <2>7, FinalizeStep
    <2>8. CASE Settle(d)
      BY <2>8, SettleStep
    <2> QED
      BY <1>3, <2>1, <2>2, <2>3, <2>4, <2>5, <2>6, <2>7, <2>8 DEF Work
  <1>4. ASSUME NEW d \in Deliveries, Trouble(d) PROVE IInv' /\ VerdictsStay
    <2>1. CASE GatherFails(d)
      BY <2>1, CollectStep
    <2>2. CASE ListFails(d) \/ OwnerUnread(d)
      BY <2>2, ListStep
    <2>3. CASE CreateUnanswered(d)
      BY <2>3, CreateStep
    <2>4. CASE ReadBackFails(d) \/ RecheckFails(d)
      BY <2>4, WorkingStep
    <2>5. CASE PatchFails(d)
      BY <2>5, PatchStep
    <2>6. CASE ConfirmFails(d)
      BY <2>6, ConfirmStep
    <2>7. CASE FinalizeUnread(d)
      BY <2>7, FinalizeStep
    <2>8. CASE SettleFails(d)
      BY <2>8, SettleStep
    <2>9. CASE Cancel(d)
      <3>1. \/ del[d].pc # "patch" /\ UNCHANGED checks
            \/ del[d].pc = "create" /\ checks' = Opened(d, TRUE)
            \/ /\ del[d].pc = "patch"
               /\ \/ checks' = Completed(d, del[d].check, del[d].verdict, checks[del[d].check].input)
                  \/ checks' = Excused(del[d].check)
        BY <2>9 DEF Cancel
      <3>2. CASE del[d].pc # "patch" /\ UNCHANGED checks
        BY <2>9, <3>2, EndedStep
      <3>3. CASE del[d].pc = "create" /\ checks' = Opened(d, TRUE)
        BY <2>9, <3>3, CreateStep
      <3>4. CASE /\ del[d].pc = "patch"
                 /\ \/ checks' = Completed(d, del[d].check, del[d].verdict, checks[del[d].check].input)
                    \/ checks' = Excused(del[d].check)
        BY <2>9, <3>4, PatchStep
      <3> QED
        BY <3>1, <3>2, <3>3, <3>4
    <2>10. CASE Refused(d) \/ RunnerLost(d)
      BY <2>10, EndedStep
    <2> QED
      BY <1>4, <2>1, <2>2, <2>3, <2>4, <2>5, <2>6, <2>7, <2>8, <2>9, <2>10 DEF Trouble
  <1> QED
    BY <1>1, <1>2, <1>3, <1>4 DEF Next

\* A step that changes nothing keeps them too.
LEMMA StutterIInv ==
    ASSUME IInv, UNCHANGED vars
    PROVE  IInv' /\ VerdictsStay
  <1>1. UNCHANGED <<head, policy, faults>> /\ UNCHANGED <<runOf, checks, del>>
    BY DEF vars
  <1>2. Shapes' /\ OnePerRun'
    BY <1>1 DEF IInv, Shapes, OnePerRun, Active
  <1>3. \A d \in Deliveries : Saves(del[d])' /\ WorksOn(d, del[d])'
    BY <1>1 DEF IInv, Saves, WorksOn, Holds
  <1>4. \A c \in DOMAIN checks' : CheckOK(c)'
    BY <1>1 DEF IInv, CheckOK, Holds
  <1> QED
    BY <1>1, <1>2, <1>3, <1>4 DEF IInv, VerdictsStay

\* The inductive invariant holds in every reachable state.
LEMMA Inductive == Spec => []IInv
  <1>1. IInv /\ [Next]_vars => IInv'
    BY NextIInv, StutterIInv
  <1> QED
    BY <1>1, InitIInv, PTL DEF Spec

\* The invariant gives what the checks and the reports say.
LEMMA IInvIsSound ==
    ASSUME IInv
    PROVE  ReviewInv /\ DeferralIsServed
  <1>1. ASSUME NEW d \in Deliveries
        PROVE  /\ del[d] \in DelRecs /\ Saves(del[d]) /\ WorksOn(d, del[d])
    BY Typing
  <1>2. \A c \in DOMAIN checks : CheckOK(c) /\ checks[c] \in CheckRecs
    BY DEF IInv, Shapes
  <1>3. TypeOK
    <2>1. head \in 1..MaxMoves + 1 /\ policy \in 1..MaxMoves + 1 /\ faults \in 0..MaxFaults
      BY DEF IInv, Shapes
    <2>2. ASSUME NEW d \in Deliveries
          PROVE  /\ del[d].check \in {0} \cup DOMAIN checks
                 /\ del[d].saved # "none" => del[d].check # 0
                 /\ del[d].verdict \in Verdicts \cup {"none"}
      BY <1>1 DEF DelRecs, Saves, WorksOn
    <2>3. ASSUME NEW c \in DOMAIN checks
          PROVE  /\ checks[c].owner \in Runs
                 /\ checks[c].status = "completed" <=> checks[c].conclusion \in Verdicts \ {"unavailable"}
      BY <1>2 DEF CheckRecs, CheckOK
    <2> QED
      BY <2>1, <2>2, <2>3 DEF TypeOK
  <1>4. PassedIsReviewed
    BY <1>1 DEF PassedIsReviewed, WorksOn, Input
  <1>5. OwnerCompletes
    BY <1>2 DEF OwnerCompletes, CheckOK
  <1>6. ASSUME NEW d \in Deliveries, del[d].report = "deferred"
        PROVE  LET c == checks[del[d].check]
               IN  /\ c.source = Input(d) /\ c.owner # runOf[d]
                   /\ c.status = "completed" \/ c.excused \/ Live(c.owner)
    <2>1. /\ checks[del[d].check].owner # runOf[d]
          /\ checks[del[d].check].source = Input(d)
      BY <1>1, <1>6 DEF WorksOn, Input
    <2>2. del[d].check \in DOMAIN checks
      BY <1>1, <1>6 DEF Saves, WorksOn
    <2>3. PICK k \in DOMAIN checks : k = del[d].check
      BY <2>2
    <2>4. ASSUME checks[k].status # "completed", ~checks[k].excused
          PROVE  Live(checks[k].owner)
      <3>1. PICK e \in Deliveries : del[e].check = k /\ Holds(del[e])
        BY <1>2, <2>4 DEF CheckOK
      <3>2. runOf[e] = checks[k].owner /\ Active(e)
        BY <1>1, <3>1, HoldsIsActive DEF WorksOn
      <3> QED
        BY <3>2 DEF Live
    <2> QED
      BY <2>1, <2>3, <2>4
  <1>7. DeferralIsServed
    BY <1>6 DEF DeferralIsServed
  <1> QED
    BY <1>3, <1>4, <1>5, <1>7 DEF ReviewInv

\* A passed report rests on a completed check of the very source the delivery
\* collected, and every check is completed by the run that opened it, whatever
\* deliveries overlap and whichever of their requests fail.
THEOREM ReviewIsSound == Spec => []ReviewInv
  <1>1. IInv => ReviewInv
    BY IInvIsSound
  <1> QED
    BY <1>1, Inductive, PTL

\* A delivery defers only to a review of what it collected itself, which is
\* completed, alive, or lost with a request or a runner.
THEOREM DeferralsAreServed == Spec => []DeferralIsServed
  <1>1. IInv => DeferralIsServed
    BY IInvIsSound
  <1> QED
    BY <1>1, Inductive, PTL

\* No step replaces the conclusion of a completed check.
THEOREM VerdictsAreFinal == Spec => VerdictIsFinal
  <1>1. IInv /\ [Next]_vars => VerdictsStay
    BY NextIInv, StutterIInv
  <1>2. VerdictsStay => [\A c \in DOMAIN checks : checks[c].status = "completed" =>
                            /\ checks'[c].status = "completed"
                            /\ checks'[c].conclusion = checks[c].conclusion
                            /\ checks'[c].by = checks[c].by]_checks
    BY DEF VerdictsStay
  <1> QED
    BY <1>1, <1>2, Inductive, PTL DEF Spec, VerdictIsFinal
=============================================================================
