------------------------- MODULE RedMainRepairProofs -------------------------
(***************************************************************************)
(* Proofs about RedMainRepair, for every set of regions and every bound.   *)
(* With the invariant of the calls and their pull requests (IInv): the     *)
(* jumps keep apart, and what is shielded is not reverted.  With that of   *)
(* the trunk, the blame and the standing reverts (RInv): types, one open   *)
(* revert, and that a revert of single-region commits removes a break.     *)
(***************************************************************************)
EXTENDS RedMainRepair, FiniteSetTheorems, WellFoundedInduction, TLAPS

-----------------------------------------------------------------------------
(* The inductive invariant.                                                *)

\* The handler's pull requests are records; a patch is whatever git made it.
PullRecords(patches) ==
    [state : {"none", "open", "closed", "merged"}, first : Int, last : Int, unarmed : BOOLEAN,
     patch : patches, labels : SUBSET Labels, armed : BOOLEAN, place : Places]

PullShape == pulls \in [Pulls -> PullRecords({pulls[p].patch : p \in Pulls})]

Opened(p) == pulls[p].state # "none"

\* Pull requests are numbered in the order they are opened.
InOrder == \A p, q \in Pulls : p < q /\ Opened(q) => Opened(p)

\* The blamed commits are numbers, and the modes are those of the repository.
CallShape == red \in Int /\ first \in Int /\ last \in Int

\* From the guard on, what on_red and revert-window allow; after it, nothing shielded is blamed.
Allowed == mode # "notify" /\ (named \/ revertWindow)
GuardInv ==
    /\ pc \in {"guard", "standing", "fetch", "open"} => Allowed
    /\ pc \in {"standing", "fetch", "open"} => (first..last) \cap spared = {}

\* The call that has a pull request has the newest one, which has not jumped before it has its labels.
HasPull == {"label", "arm", "others", "queue", "dequeue", "jump"}
PullInv ==
    /\ pc \in HasPull => pull \in Pulls /\ Opened(pull) /\ \A q \in Pulls : pull < q => ~Opened(q)
    /\ pc = "label" => pull \notin jumps

\* What jumped is open or was, moved lately, and is not labelled once a call is free to jump.
JumpInv ==
    /\ jumps \subseteq recent /\ recent \subseteq Pulls
    /\ \A p \in jumps : Opened(p)
    /\ pc \in {"queue", "dequeue", "jump"} => \A p \in jumps \ {pull} : pulls[p].labels = {}

IInv == PullShape /\ InOrder /\ CallShape /\ GuardInv /\ PullInv /\ JumpInv /\ JumpsApart

-----------------------------------------------------------------------------
(* What the steps do to the pull requests.                                 *)

Kept ==
    /\ PullShape'
    /\ \A p \in Pulls : Opened(p)' = Opened(p) /\ pulls'[p].labels = pulls[p].labels

LEMMA Updated ==
    ASSUME PullShape, NEW p \in Pulls, NEW x, pulls' = [pulls EXCEPT ![p] = x],
           NEW patches, x \in PullRecords(patches)
    PROVE  /\ PullShape'
           /\ pulls'[p] = x
           /\ \A q \in Pulls : q # p => pulls'[q] = pulls[q]
  <1>1. pulls'[p] = x /\ \A q \in Pulls : q # p => pulls'[q] = pulls[q]
    BY DEF PullShape
  <1>2. ASSUME NEW q \in Pulls
        PROVE  pulls'[q] \in PullRecords({pulls'[r].patch : r \in Pulls})
    <2>1. CASE q = p
      BY <1>1, <2>1 DEF PullRecords
    <2>2. CASE q # p
      BY <1>1, <2>2 DEF PullRecords, PullShape
    <2> QED
      BY <2>1, <2>2
  <1>3. pulls' = [q \in Pulls |-> pulls'[q]]
    BY DEF PullShape
  <1> QED
    BY <1>1, <1>2, <1>3 DEF PullShape

LEMMA UpdateKeeps ==
    ASSUME PullShape, NEW p \in Pulls, NEW x, pulls' = [pulls EXCEPT ![p] = x],
           x \in PullRecords({pulls[q].patch : q \in Pulls}),
           x.state = "none" <=> pulls[p].state = "none",
           x.labels = pulls[p].labels
    PROVE  Kept
  <1>1. /\ PullShape' /\ pulls'[p] = x
        /\ \A q \in Pulls : q # p => pulls'[q] = pulls[q]
    BY Updated
  <1> QED
    BY <1>1 DEF Kept, Opened

LEMMA UnchangedKeeps == PullShape /\ UNCHANGED pulls => Kept
  BY DEF Kept, PullShape, Opened

LEMMA DecideKeeps ==
    ASSUME PullShape, NEW p \in Pulls, Decide(p)
    PROVE  Kept
  <1> DEFINE patches == {pulls[q].patch : q \in Pulls}
  <1>1. pulls[p] \in PullRecords(patches) /\ pulls[p].state = "open"
    BY DEF PullShape, Decide, Open
  <1>2. CASE pulls' = [pulls EXCEPT ![p] = [@ EXCEPT !.state = "closed", !.armed = FALSE, !.place = "out"]]
    <2> DEFINE x == [pulls[p] EXCEPT !.state = "closed", !.armed = FALSE, !.place = "out"]
    <2>1. x \in PullRecords(patches) /\ x.state = "closed" /\ x.labels = pulls[p].labels
      BY <1>1 DEF PullRecords, Places
    <2>2. pulls' = [pulls EXCEPT ![p] = x]
      BY <1>2 DEF PullShape
    <2> QED
      BY <1>1, <2>1, <2>2, UpdateKeeps
  <1>3. CASE pulls' = [pulls EXCEPT ![p].armed = TRUE]
    <2> DEFINE x == [pulls[p] EXCEPT !.armed = TRUE]
    <2>1. x \in PullRecords(patches) /\ x.state = "open" /\ x.labels = pulls[p].labels
      BY <1>1 DEF PullRecords
    <2>2. pulls' = [pulls EXCEPT ![p] = x]
      BY <1>3 DEF PullShape
    <2> QED
      BY <1>1, <2>1, <2>2, UpdateKeeps
  <1> QED
    BY <1>2, <1>3 DEF Decide

LEMMA EnqueueKeeps ==
    ASSUME PullShape, NEW p \in Pulls, Enqueue(p)
    PROVE  Kept
  <1> DEFINE patches == {pulls[q].patch : q \in Pulls}
             x == [pulls[p] EXCEPT !.place = "in"]
  <1>1. pulls[p] \in PullRecords(patches)
    BY DEF PullShape
  <1>2. x \in PullRecords(patches) /\ x.state = pulls[p].state /\ x.labels = pulls[p].labels
    BY <1>1 DEF PullRecords, Places
  <1>3. pulls' = [pulls EXCEPT ![p] = x]
    BY DEF PullShape, Enqueue
  <1> QED
    BY <1>2, <1>3, UpdateKeeps

LEMMA LandPullKeeps ==
    ASSUME PullShape, NEW p \in Pulls, LandPull(p)
    PROVE  Kept
  <1> DEFINE patches == {pulls[q].patch : q \in Pulls}
  <1>1. pulls[p] \in PullRecords(patches) /\ pulls[p].state = "open"
    BY DEF PullShape, LandPull, Open
  <1>2. CASE pulls' = [pulls EXCEPT ![p] = [@ EXCEPT !.state = "merged", !.armed = FALSE, !.place = "out"]]
    <2> DEFINE x == [pulls[p] EXCEPT !.state = "merged", !.armed = FALSE, !.place = "out"]
    <2>1. x \in PullRecords(patches) /\ x.state = "merged" /\ x.labels = pulls[p].labels
      BY <1>1 DEF PullRecords, Places
    <2>2. pulls' = [pulls EXCEPT ![p] = x]
      BY <1>2 DEF PullShape
    <2> QED
      BY <1>1, <2>1, <2>2, UpdateKeeps
  <1>3. CASE pulls' = [pulls EXCEPT ![p] = [@ EXCEPT !.armed = FALSE, !.place = "out"]]
    <2> DEFINE x == [pulls[p] EXCEPT !.armed = FALSE, !.place = "out"]
    <2>1. x \in PullRecords(patches) /\ x.state = "open" /\ x.labels = pulls[p].labels
      BY <1>1 DEF PullRecords, Places
    <2>2. pulls' = [pulls EXCEPT ![p] = x]
      BY <1>3 DEF PullShape
    <2> QED
      BY <1>1, <2>1, <2>2, UpdateKeeps
  <1> QED
    BY <1>2, <1>3 DEF LandPull

LEMMA ArmKeeps ==
    ASSUME PullShape, pull \in Pulls, Arm
    PROVE  Kept
  <1> DEFINE patches == {pulls[q].patch : q \in Pulls}
             x == [pulls[pull] EXCEPT !.armed = TRUE]
  <1>1. CASE pulls' = [pulls EXCEPT ![pull].armed = TRUE]
    <2>1. x \in PullRecords(patches) /\ x.state = pulls[pull].state /\ x.labels = pulls[pull].labels
      BY DEF PullRecords, PullShape
    <2>2. pulls' = [pulls EXCEPT ![pull] = x]
      BY <1>1 DEF PullShape
    <2> QED
      BY <2>1, <2>2, UpdateKeeps
  <1>2. CASE UNCHANGED pulls
    BY <1>2, UnchangedKeeps
  <1> QED
    BY <1>1, <1>2 DEF Arm

LEMMA DequeueKeeps ==
    ASSUME PullShape, pull \in Pulls, Dequeue
    PROVE  Kept
  <1> DEFINE patches == {pulls[q].patch : q \in Pulls}
  <1>1. ASSUME NEW keeps \in BOOLEAN,
               pulls' = [pulls EXCEPT ![pull] = [@ EXCEPT !.place = "out", !.armed = keeps]]
        PROVE  Kept
    <2> DEFINE x == [pulls[pull] EXCEPT !.place = "out", !.armed = keeps]
    <2>1. x \in PullRecords(patches) /\ x.state = pulls[pull].state /\ x.labels = pulls[pull].labels
      BY DEF PullRecords, PullShape, Places
    <2>2. pulls' = [pulls EXCEPT ![pull] = x]
      BY <1>1 DEF PullShape
    <2> QED
      BY <2>1, <2>2, UpdateKeeps
  <1>2. CASE UNCHANGED pulls
    BY <1>2, UnchangedKeeps
  <1> QED
    BY <1>1, <1>2 DEF Dequeue

LEMMA JumpKeeps ==
    ASSUME PullShape, pull \in Pulls, Jump
    PROVE  Kept
  <1> DEFINE patches == {pulls[q].patch : q \in Pulls}
             x == [pulls[pull] EXCEPT !.place = "front"]
  <1>1. CASE pulls' = [pulls EXCEPT ![pull].place = "front"]
    <2>1. x \in PullRecords(patches) /\ x.state = pulls[pull].state /\ x.labels = pulls[pull].labels
      BY DEF PullRecords, PullShape, Places
    <2>2. pulls' = [pulls EXCEPT ![pull] = x]
      BY <1>1 DEF PullShape
    <2> QED
      BY <2>1, <2>2, UpdateKeeps
  <1>2. CASE UNCHANGED pulls
    BY <1>2, UnchangedKeeps
  <1> QED
    BY <1>1, <1>2 DEF Jump, forge

\* Only the call's own pull request gets labels.
LEMMA LabelMarksItsOwn ==
    ASSUME PullShape, pull \in Pulls, Label
    PROVE  /\ PullShape'
           /\ \A q \in Pulls : Opened(q)' = Opened(q) /\ (q # pull => pulls'[q].labels = pulls[q].labels)
  <1> DEFINE patches == {pulls[q].patch : q \in Pulls}
             x == [pulls[pull] EXCEPT !.labels = ToSet \cap defined]
  <1>1. CASE pulls' = [pulls EXCEPT ![pull].labels = ToSet \cap defined]
    <2>1. x \in PullRecords(patches) /\ x.state = pulls[pull].state
      BY DEF PullRecords, PullShape, ToSet, Labels
    <2>2. pulls' = [pulls EXCEPT ![pull] = x]
      BY <1>1 DEF PullShape
    <2>3. PullShape' /\ pulls'[pull] = x /\ \A q \in Pulls : q # pull => pulls'[q] = pulls[q]
      BY <2>1, <2>2, Updated
    <2> QED
      BY <2>1, <2>3 DEF Opened
  <1>2. CASE UNCHANGED pulls
    BY <1>2, UnchangedKeeps DEF Kept
  <1> QED
    BY <1>1, <1>2 DEF Label

\* A new pull request is open and has no labels.
LEMMA OpenPullOpensOne ==
    ASSUME PullShape, CallShape, NEW p \in Pulls, OpenPull(p)
    PROVE  /\ PullShape' /\ ~Opened(p) /\ Opened(p)'
           /\ pulls'[p].first = first /\ pulls'[p].last = last
           /\ \A q \in Pulls : q # p => pulls'[q] = pulls[q]
  <1> DEFINE x == [NewPull EXCEPT !.state = "open", !.first = first, !.last = last,
                                  !.unarmed = act = "revert_pr_unarmed", !.patch = patch]
  <1>1. NewPull \in PullRecords({{}, patch})
    BY DEF NewPull, PullRecords, Places
  <1>2. /\ x \in PullRecords({{}, patch})
        /\ x.state = "open" /\ x.first = first /\ x.last = last
    BY <1>1 DEF PullRecords, CallShape
  <1>3. pulls' = [pulls EXCEPT ![p] = x] /\ ~Opened(p)
    BY DEF OpenPull, Create, Opened
  <1>4. PullShape' /\ pulls'[p] = x /\ \A q \in Pulls : q # p => pulls'[q] = pulls[q]
    BY <1>2, <1>3, Updated
  <1> QED
    BY <1>2, <1>3, <1>4 DEF Opened

-----------------------------------------------------------------------------
(* The invariant is inductive.                                             *)

\* The parts that speak of the forge alone.
ForgeInv ==
    /\ PullShape /\ InOrder /\ JumpsApart
    /\ jumps \subseteq recent /\ recent \subseteq Pulls
    /\ \A p \in jumps : Opened(p)

\* The parts that speak of the call.
Free == pc \in {"queue", "dequeue", "jump"} => \A p \in jumps \ {pull} : pulls[p].labels = {}
CallInv == CallShape /\ GuardInv /\ PullInv /\ Free

LEMMA Parts == IInv <=> ForgeInv /\ CallInv
  BY DEF IInv, ForgeInv, CallInv, JumpInv, Free

LEMMA PartsNext == IInv' <=> ForgeInv' /\ CallInv'
  BY Parts, PTL

LEMMA InitInv == Init => IInv
  <1> SUFFICES ASSUME Init PROVE IInv
    OBVIOUS
  <1>1. PullShape
    <2>1. NewPull \in PullRecords({{}})
      BY DEF NewPull, PullRecords, Places
    <2>2. \A p \in Pulls : pulls[p] = NewPull
      BY DEF Init
    <2>3. \A p \in Pulls : NewPull \in PullRecords({pulls[q].patch : q \in Pulls})
      BY <2>1, <2>2 DEF PullRecords, NewPull
    <2> QED
      BY <2>2, <2>3 DEF PullShape, Init
  <1>2. \A p \in Pulls : ~Opened(p)
    BY DEF Init, Opened, NewPull
  <1>3. InOrder
    BY <1>2 DEF InOrder
  <1>4. CallShape /\ GuardInv /\ PullInv
    BY DEF Init, CallShape, GuardInv, PullInv, HasPull
  <1>5. JumpInv /\ JumpsApart
    BY DEF Init, JumpInv, JumpsApart
  <1> QED
    BY <1>1, <1>3, <1>4, <1>5 DEF IInv

\* Steps that keep the pull requests and add no jump.
LEMMA ForgeKept ==
    ASSUME IInv, Kept, jumps' \subseteq jumps, jumps' \subseteq recent', recent' \subseteq Pulls
    PROVE  ForgeInv'
  <1>1. InOrder'
    BY DEF IInv, Kept, InOrder
  <1>2. jumps \subseteq Pulls
    BY DEF IInv, JumpInv
  <1>3. JumpsApart'
    BY <1>2 DEF IInv, Kept, JumpsApart
  <1>4. \A p \in jumps' : Opened(p)'
    BY <1>2 DEF IInv, JumpInv, Kept
  <1> QED
    BY <1>1, <1>3, <1>4 DEF Kept, ForgeInv

LEMMA SparedShrinks == Remember /\ pc # "idle" => spared' \subseteq spared
  BY DEF Remember

\* What happens outside leaves the call alone.
LEMMA OutsideKeeps ==
    ASSUME IInv, Kept, UNCHANGED <<inputs, call>>, Remember,
           jumps' \subseteq jumps, jumps' \subseteq recent', recent' \subseteq Pulls
    PROVE  IInv'
  <1>1. ForgeInv'
    BY ForgeKept
  <1> USE DEF inputs, call, blame, plan
  <1>2. CallShape'
    BY DEF IInv, CallShape
  <1>3. GuardInv'
    BY SparedShrinks DEF IInv, GuardInv, Allowed
  <1>4. PullInv'
    BY DEF IInv, PullInv, HasPull, Kept
  <1>5. Free'
    BY DEF IInv, JumpInv, Free, Kept
  <1> QED
    BY <1>1, <1>2, <1>3, <1>4, <1>5, PartsNext DEF CallInv

LEMMA OutsideInv ==
    ASSUME IInv, Outside \/ MergeQueue, Remember
    PROVE  IInv'
  <1>1. jumps \subseteq recent /\ recent \subseteq Pulls /\ PullShape
    BY DEF IInv, JumpInv
  <1>2. CASE Land
    BY <1>1, <1>2, UnchangedKeeps, OutsideKeeps DEF Land, forge
  <1>3. ASSUME NEW c \in Commits, Verify(c) \/ Rerun(c) \/ Shield(c) PROVE IInv'
    BY <1>1, <1>3, UnchangedKeeps, OutsideKeeps DEF Verify, Rerun, Shield, forge
  <1>4. ASSUME NEW p \in Pulls, Decide(p) PROVE IInv'
    BY <1>1, <1>4, DecideKeeps, OutsideKeeps DEF Decide, Touch
  <1>5. ASSUME NEW p \in Pulls, Ages(p) PROVE IInv'
    BY <1>1, <1>5, UnchangedKeeps, OutsideKeeps DEF Ages
  <1>6. ASSUME NEW p \in Pulls, Enqueue(p) PROVE IInv'
    BY <1>1, <1>6, EnqueueKeeps, OutsideKeeps DEF Enqueue, Touch
  <1>7. ASSUME NEW p \in Pulls, LandPull(p) PROVE IInv'
    BY <1>1, <1>7, LandPullKeeps, OutsideKeeps DEF LandPull, Touch
  <1> QED
    BY <1>2, <1>3, <1>4, <1>5, <1>6, <1>7 DEF Outside, MergeQueue

\* A call that ends leaves nothing of itself.
LEMMA EndKeeps ==
    ASSUME IInv, Kept, NEW how, End(how),
           jumps' \subseteq jumps, jumps' \subseteq recent', recent' \subseteq Pulls
    PROVE  IInv'
  <1>1. ForgeInv'
    BY ForgeKept
  <1>2. CallInv'
    BY DEF End, CallInv, CallShape, GuardInv, PullInv, Free, HasPull
  <1> QED
    BY <1>1, <1>2, PartsNext

\* A step of a call that has no pull request yet, and only reads.
LEMMA ReadKeeps ==
    ASSUME IInv, Kept, UNCHANGED jumps, recent \subseteq recent', recent' \subseteq Pulls,
           pc' \notin HasPull, CallShape', GuardInv'
    PROVE  IInv'
  <1>1. jumps' \subseteq recent'
    BY DEF IInv, JumpInv
  <1>2. ForgeInv'
    BY <1>1, ForgeKept
  <1>3. CallInv'
    BY DEF CallInv, PullInv, Free, HasPull
  <1> QED
    BY <1>2, <1>3, PartsNext

LEMMA BeginInv ==
    ASSUME IInv, NEW c \in Commits, Begin(c), Remember
    PROVE  IInv'
  <1>1. Kept /\ jumps \subseteq recent /\ recent \subseteq Pulls /\ UNCHANGED <<jumps, recent>>
    BY UnchangedKeeps DEF IInv, JumpInv, Begin, forge
  <1>2. CASE proof[c] = "failure"
    <2>1. pc' = "search" /\ red' = c /\ UNCHANGED blame
      BY <1>2 DEF Begin, Enter
    <2>2. CallShape'
      BY <2>1 DEF IInv, CallShape, Commits, blame
    <2>3. GuardInv'
      BY <2>1 DEF GuardInv
    <2> QED
      BY <1>1, <2>1, <2>2, <2>3, ReadKeeps DEF HasPull
  <1>3. CASE proof[c] # "failure"
    BY <1>1, <1>3, EndKeeps DEF Begin
  <1> QED
    BY <1>2, <1>3

LEMMA StopInv ==
    ASSUME IInv, Stop
    PROVE  IInv'
  <1>1. Kept /\ jumps \subseteq recent /\ recent \subseteq Pulls /\ UNCHANGED <<jumps, recent>>
    BY UnchangedKeeps DEF IInv, JumpInv, Stop, forge
  <1> QED
    BY <1>1, EndKeeps DEF Stop

\* The reads before the guard.
LEMMA EarlyInv ==
    ASSUME IInv, Search \/ SameSha \/ Proof
    PROVE  IInv'
  <1>1. Kept /\ jumps \subseteq recent /\ recent \subseteq Pulls /\ UNCHANGED <<jumps, recent>>
    BY UnchangedKeeps DEF IInv, JumpInv, Search, SameSha, Proof, forge
  <1>2. (\E how : End(how)) \/ (\E step \in {"same sha", "trace", "base proof"} : GoTo(step))
    BY DEF Search, SameSha, Proof
  <1>3. ASSUME NEW step \in {"same sha", "trace", "base proof"}, GoTo(step)
        PROVE  IInv'
    <2>1. pc' = step /\ UNCHANGED <<red, blame>>
      BY <1>3 DEF GoTo, Enter
    <2>2. CallShape'
      BY <2>1 DEF IInv, CallShape, blame
    <2>3. GuardInv' /\ pc' \notin HasPull
      BY <2>1 DEF GuardInv, HasPull
    <2> QED
      BY <1>1, <2>2, <2>3, ReadKeeps
  <1> QED
    BY <1>1, <1>2, <1>3, EndKeeps

LEMMA TraceInv ==
    ASSUME IInv, Trace
    PROVE  IInv'
  <1>1. Kept /\ jumps \subseteq recent /\ recent \subseteq Pulls /\ UNCHANGED <<jumps, recent>>
    BY UnchangedKeeps DEF IInv, JumpInv, Trace, forge
  <1>2. ASSUME NEW b \in Commits, NEW own \in BOOLEAN, Blame(b, own)
        PROVE  IInv'
    <2>1. pc' = "proof" /\ red' = red
      BY <1>2 DEF Blame, Enter
    <2>2. b \in Int /\ red \in Int
      BY DEF Commits, IInv, CallShape
    <2>3. first' \in Int /\ last' \in Int
      BY <1>2, <2>2 DEF Blame, WindowStart
    <2>4. CallShape'
      BY <2>1, <2>2, <2>3 DEF CallShape
    <2>5. GuardInv' /\ pc' \notin HasPull
      BY <2>1 DEF GuardInv, HasPull
    <2> QED
      BY <1>1, <2>4, <2>5, ReadKeeps
  <1> QED
    BY <1>1, <1>2, EndKeeps DEF Trace

\* The guard is reached only where a revert is wanted.
LEMMA BaseProofInv ==
    ASSUME IInv, BaseProof
    PROVE  IInv'
  <1>1. Kept /\ jumps \subseteq recent /\ recent \subseteq Pulls /\ UNCHANGED <<jumps, recent, mode, revertWindow>>
    BY UnchangedKeeps DEF IInv, JumpInv, BaseProof, forge, World, inputs
  <1>2. CASE GoTo("guard") /\ mode # "notify" /\ (named \/ revertWindow)
    <2>1. pc' = "guard" /\ UNCHANGED <<red, blame>>
      BY <1>2 DEF GoTo, Enter
    <2>2. CallShape'
      BY <2>1 DEF IInv, CallShape, blame
    <2>3. GuardInv' /\ pc' \notin HasPull
      BY <1>1, <1>2, <2>1 DEF GuardInv, HasPull, Allowed, blame
    <2> QED
      BY <1>1, <2>2, <2>3, ReadKeeps
  <1> QED
    BY <1>1, <1>2, EndKeeps DEF BaseProof

\* The guard asks every blamed commit; a shield that comes later is not one that held all the while.
LEMMA GuardStepInv ==
    ASSUME IInv, Guard, Remember
    PROVE  IInv'
  <1>1. Kept /\ jumps \subseteq recent /\ recent \subseteq Pulls /\ UNCHANGED <<jumps, recent, inputs, shielded>>
    BY UnchangedKeeps DEF IInv, JumpInv, Guard, forge, World
  <1>2. CASE Asked \cap shielded = {}
    <2>1. pc = "guard" /\ pc' \in {"standing", "fetch"} /\ UNCHANGED <<red, blame>>
      BY <1>2 DEF Guard, Enter
    <2>2. CallShape'
      BY <2>1 DEF IInv, CallShape, blame
    <2>3. (first..last) \cap spared' = {}
      BY <1>1, <1>2, <2>1 DEF Asked, Blamed, Remember
    <2>4. Allowed'
      BY <1>1, <2>1 DEF IInv, GuardInv, Allowed, inputs, blame
    <2>5. GuardInv' /\ pc' \notin HasPull
      BY <2>1, <2>3, <2>4 DEF GuardInv, HasPull, blame
    <2> QED
      BY <1>1, <2>2, <2>5, ReadKeeps
  <1> QED
    BY <1>1, <1>2, EndKeeps DEF Guard

\* The steps between the guard and the new pull request change nothing that is blamed.
LEMMA GuardedKeeps ==
    ASSUME IInv, Kept, UNCHANGED <<jumps, inputs, red, blame>>, Remember,
           recent \subseteq recent', recent' \subseteq Pulls,
           pc \in {"standing", "fetch"}, pc' \in {"fetch", "open"}
    PROVE  IInv'
  <1>1. CallShape'
    BY DEF IInv, CallShape, blame
  <1>2. Allowed'
    BY DEF IInv, GuardInv, Allowed, inputs, blame
  <1>3. (first'..last') \cap spared' = {}
    BY SparedShrinks DEF IInv, GuardInv, blame
  <1>4. GuardInv' /\ pc' \notin HasPull
    BY <1>2, <1>3 DEF GuardInv, HasPull
  <1> QED
    BY <1>1, <1>4, ReadKeeps

LEMMA StandingInv ==
    ASSUME IInv, Standing, Remember
    PROVE  IInv'
  <1>1. Kept /\ jumps \subseteq recent /\ recent \subseteq Pulls /\ UNCHANGED <<jumps, inputs>>
    BY UnchangedKeeps DEF IInv, JumpInv, Standing, World
  <1>2. recent \subseteq recent' /\ recent' \subseteq Pulls
    BY <1>1 DEF Standing, Touch, Open
  <1>3. (\E how : End(how)) \/ GoTo("fetch")
    BY DEF Standing
  <1>4. CASE GoTo("fetch")
    <2>1. pc = "standing" /\ pc' = "fetch" /\ UNCHANGED <<red, blame>>
      BY <1>4 DEF Standing, GoTo, Enter
    <2> QED
      BY <1>1, <1>2, <2>1, GuardedKeeps
  <1> QED
    BY <1>1, <1>2, <1>3, <1>4, EndKeeps

LEMMA FetchInv ==
    ASSUME IInv, Fetch, Remember
    PROVE  IInv'
  <1>1. Kept /\ jumps \subseteq recent /\ recent \subseteq Pulls /\ UNCHANGED <<jumps, recent, inputs>>
    BY UnchangedKeeps DEF IInv, JumpInv, Fetch, forge, World
  <1>2. (\E how : End(how)) \/ (pc' = "open" /\ UNCHANGED <<red, blame>>)
    BY DEF Fetch, Enter
  <1>3. CASE pc' = "open" /\ UNCHANGED <<red, blame>>
    <2>1. pc = "fetch"
      BY DEF Fetch
    <2> QED
      BY <1>1, <1>3, <2>1, GuardedKeeps
  <1> QED
    BY <1>1, <1>2, <1>3, EndKeeps

\* A new pull request is the newest, and has not jumped.
LEMMA OpenPullInv ==
    ASSUME IInv, NEW p \in Pulls, OpenPull(p)
    PROVE  IInv'
  <1>1. PullShape /\ CallShape /\ InOrder /\ jumps \subseteq recent /\ recent \subseteq Pulls
    BY DEF IInv, JumpInv
  <1>2. /\ PullShape' /\ ~Opened(p) /\ Opened(p)'
        /\ \A q \in Pulls : q # p => pulls'[q] = pulls[q]
    BY <1>1, OpenPullOpensOne
  <1>3. \A q \in Pulls : q # p => Opened(q)' = Opened(q)
    BY <1>2 DEF Opened
  <1>4. \A q \in Pulls : q < p => Opened(q)
    BY DEF OpenPull, Create, Opened
  <1>5. UNCHANGED jumps /\ recent' = recent \cup {p}
    BY DEF OpenPull, Create, Touch
  <1>6. p \notin jumps /\ \A q \in jumps : Opened(q)
    BY <1>2 DEF IInv, JumpInv
  <1>7. InOrder'
    <2> SUFFICES ASSUME NEW q \in Pulls, NEW r \in Pulls, q < r, Opened(r)'
                 PROVE  Opened(q)'
      BY DEF InOrder
    <2>1. CASE r = p
      BY <1>3, <1>4, <2>1 DEF Pulls
    <2>2. CASE r # p
      BY <1>1, <1>2, <1>3, <2>2 DEF InOrder
    <2> QED
      BY <2>1, <2>2
  <1>8. JumpsApart'
    BY <1>1, <1>2, <1>5, <1>6 DEF IInv, JumpsApart
  <1>9. ForgeInv'
    BY <1>1, <1>2, <1>3, <1>5, <1>6, <1>7, <1>8 DEF ForgeInv
  <1>10. CASE \E how : End(how)
    <2>1. CallInv'
      BY <1>10 DEF End, CallInv, CallShape, GuardInv, PullInv, Free, HasPull
    <2> QED
      BY <1>9, <2>1, PartsNext
  <1>11. CASE Enter("label") /\ pull' = p /\ UNCHANGED <<red, blame>>
    <2>1. pc' = "label" /\ pull' = p /\ UNCHANGED <<red, blame>>
      BY <1>11 DEF Enter
    <2>2. CallShape' /\ GuardInv' /\ Free'
      BY <1>1, <2>1 DEF CallShape, GuardInv, Free, blame
    <2>3. \A q \in Pulls : p < q => ~Opened(q)'
      BY <1>1, <1>2, <1>3 DEF InOrder, Pulls
    <2>4. PullInv'
      BY <1>2, <1>5, <1>6, <2>1, <2>3 DEF PullInv, HasPull
    <2> QED
      BY <1>9, <2>2, <2>4, PartsNext DEF CallInv
  <1> QED
    BY <1>10, <1>11 DEF OpenPull

\* The steps of a call that has its labelled pull request.
LEMMA HeldKeeps ==
    ASSUME IInv, Kept, UNCHANGED <<jumps, red, blame, plan>>,
           recent \subseteq recent', recent' \subseteq Pulls,
           pc \in HasPull, pc' \in HasPull \ {"label"}, Free'
    PROVE  IInv'
  <1>1. jumps' \subseteq recent'
    BY DEF IInv, JumpInv
  <1>2. ForgeInv'
    BY <1>1, ForgeKept
  <1>3. CallShape'
    BY DEF IInv, CallShape, blame
  <1>4. GuardInv'
    BY DEF GuardInv, HasPull
  <1>5. PullInv'
    BY DEF IInv, PullInv, Kept, plan
  <1> QED
    BY <1>2, <1>3, <1>4, <1>5, PartsNext DEF CallInv

\* Labels come before the jump, so no pull request that has jumped gets any.
LEMMA LabelInv ==
    ASSUME IInv, Label
    PROVE  IInv'
  <1>1. /\ PullShape /\ jumps \subseteq recent /\ recent \subseteq Pulls
        /\ pc = "label" /\ pull \in Pulls /\ Opened(pull) /\ pull \notin jumps
        /\ \A q \in Pulls : pull < q => ~Opened(q)
    BY DEF IInv, JumpInv, PullInv, HasPull, Label
  <1>2. /\ PullShape'
        /\ \A q \in Pulls : Opened(q)' = Opened(q) /\ (q # pull => pulls'[q].labels = pulls[q].labels)
    BY <1>1, LabelMarksItsOwn
  <1>3. UNCHANGED jumps /\ recent' = recent \cup {pull}
    BY DEF Label, Touch
  <1>4. InOrder'
    BY <1>2 DEF IInv, InOrder
  <1>5. JumpsApart'
    BY <1>1, <1>2, <1>3 DEF IInv, JumpsApart
  <1>6. \A p \in jumps' : Opened(p)'
    BY <1>1, <1>2, <1>3 DEF IInv, JumpInv
  <1>7. ForgeInv'
    BY <1>1, <1>2, <1>3, <1>4, <1>5, <1>6 DEF ForgeInv
  <1>8. CASE \E how : End(how)
    <2>1. CallInv'
      BY <1>8 DEF End, CallInv, CallShape, GuardInv, PullInv, Free, HasPull
    <2> QED
      BY <1>7, <2>1, PartsNext
  <1>9. CASE GoTo("arm")
    <2>1. pc' = "arm" /\ UNCHANGED <<red, blame, pull>>
      BY <1>9 DEF GoTo, Enter, plan
    <2>2. CallShape' /\ GuardInv' /\ Free'
      BY <2>1 DEF IInv, CallShape, GuardInv, Free, blame
    <2>3. PullInv'
      BY <1>1, <1>2, <2>1 DEF PullInv
    <2> QED
      BY <1>7, <2>2, <2>3, PartsNext DEF CallInv
  <1> QED
    BY <1>8, <1>9 DEF Label

LEMMA ArmInv ==
    ASSUME IInv, Arm
    PROVE  IInv'
  <1>1. PullShape /\ recent \subseteq Pulls /\ pc = "arm" /\ pull \in Pulls
    BY DEF IInv, JumpInv, PullInv, HasPull, Arm
  <1>2. Kept /\ UNCHANGED <<jumps, red, blame, plan>> /\ recent' = recent \cup {pull} /\ pc' = "others"
    BY <1>1, ArmKeeps DEF Arm, GoTo, Enter, Touch
  <1> QED
    BY <1>1, <1>2, HeldKeeps DEF Free, HasPull

\* What jumped has moved lately, so a call that counts nothing has seen it without labels.
LEMMA CountOthersInv ==
    ASSUME IInv, CountOthers
    PROVE  IInv'
  <1>1. Kept /\ jumps \subseteq recent /\ recent \subseteq Pulls /\ UNCHANGED <<jumps, pulls>>
    BY UnchangedKeeps DEF IInv, JumpInv, CountOthers
  <1>2. pc = "others" /\ pull \in Pulls
    BY DEF IInv, PullInv, HasPull, CountOthers
  <1>3. CASE Others = {} /\ GoTo("queue") /\ UNCHANGED recent
    <2>1. pc' = "queue" /\ UNCHANGED <<red, blame, plan>>
      BY <1>3 DEF GoTo, Enter
    <2>2. Free'
      BY <1>1, <1>3, <2>1 DEF Others, Free, plan
    <2> QED
      BY <1>1, <1>2, <1>3, <2>1, <2>2, HeldKeeps DEF HasPull
  <1>4. CASE End("reverted") /\ Touch(pull)
    <2>1. jumps' \subseteq jumps /\ jumps' \subseteq recent' /\ recent' \subseteq Pulls
      BY <1>1, <1>2, <1>4 DEF Touch
    <2> QED
      BY <1>1, <1>4, <2>1, EndKeeps
  <1> QED
    BY <1>3, <1>4 DEF CountOthers

LEMMA QueueStateInv ==
    ASSUME IInv, QueueState
    PROVE  IInv'
  <1>1. /\ Kept /\ jumps \subseteq recent /\ recent \subseteq Pulls /\ UNCHANGED <<jumps, recent, pulls>>
        /\ pc = "queue"
    BY UnchangedKeeps DEF IInv, JumpInv, QueueState, forge
  <1>2. (\E how : End(how)) \/ (pc' \in {"dequeue", "jump"} /\ UNCHANGED <<red, blame, plan>>)
    BY DEF QueueState, GoTo, Enter
  <1>3. CASE pc' \in {"dequeue", "jump"} /\ UNCHANGED <<red, blame, plan>>
    <2>1. Free'
      BY <1>1, <1>3 DEF IInv, JumpInv, Free, plan
    <2> QED
      BY <1>1, <1>3, <2>1, HeldKeeps DEF HasPull
  <1> QED
    BY <1>1, <1>2, <1>3, EndKeeps

LEMMA DequeueInv ==
    ASSUME IInv, Dequeue
    PROVE  IInv'
  <1>1. PullShape /\ jumps \subseteq recent /\ recent \subseteq Pulls /\ pc = "dequeue" /\ pull \in Pulls
    BY DEF IInv, JumpInv, PullInv, HasPull, Dequeue
  <1>2. Kept /\ UNCHANGED jumps /\ recent \subseteq recent' /\ recent' \subseteq Pulls
    BY <1>1, DequeueKeeps DEF Dequeue, Touch
  <1>3. (\E how : End(how)) \/ (pc' = "jump" /\ UNCHANGED <<red, blame, plan>>)
    BY DEF Dequeue, GoTo, Enter
  <1>4. CASE pc' = "jump" /\ UNCHANGED <<red, blame, plan>>
    <2>1. jumps \subseteq Pulls /\ \A p \in jumps \ {pull} : pulls[p].labels = {}
      BY <1>1 DEF IInv, JumpInv
    <2>2. Free'
      BY <1>2, <1>4, <2>1 DEF Kept, Free, plan
    <2> QED
      BY <1>1, <1>2, <1>4, <2>2, HeldKeeps DEF HasPull
  <1>5. jumps' \subseteq recent'
    BY <1>1, <1>2
  <1> QED
    BY <1>2, <1>3, <1>4, <1>5, EndKeeps

\* The pull request that jumps is the newest of those that have, and the others have no labels.
LEMMA JumpStepInv ==
    ASSUME IInv, Jump
    PROVE  IInv'
  <1>1. /\ PullShape /\ jumps \subseteq recent /\ recent \subseteq Pulls /\ pc = "jump" /\ pull \in Pulls
        /\ Opened(pull) /\ \A q \in Pulls : pull < q => ~Opened(q)
        /\ \A p \in jumps : Opened(p)
        /\ \A p \in jumps \ {pull} : pulls[p].labels = {}
    BY DEF IInv, JumpInv, PullInv, HasPull, Jump
  <1>2. Kept /\ End("reverted")
    BY <1>1, JumpKeeps DEF Jump
  <1>3. CASE jumps' = jumps \cup {pull} /\ Touch(pull)
    <2>1. jumps' \subseteq recent' /\ recent' \subseteq Pulls
      BY <1>1, <1>3 DEF Touch
    <2>2. \A p \in jumps' : Opened(p)'
      BY <1>1, <1>2, <1>3 DEF Kept
    <2>3. \A p, q \in jumps' : p < q => p \in jumps \ {pull}
      BY <1>1, <1>3 DEF Pulls
    <2>4. JumpsApart'
      BY <1>1, <1>2, <2>3 DEF Kept, JumpsApart
    <2>5. InOrder'
      BY <1>2 DEF IInv, Kept, InOrder
    <2>6. ForgeInv'
      BY <1>2, <2>1, <2>2, <2>4, <2>5 DEF Kept, ForgeInv
    <2>7. CallInv'
      BY <1>2 DEF End, CallInv, CallShape, GuardInv, PullInv, Free, HasPull
    <2> QED
      BY <2>6, <2>7, PartsNext
  <1>4. CASE UNCHANGED forge
    BY <1>1, <1>2, <1>4, EndKeeps DEF forge
  <1> QED
    BY <1>3, <1>4 DEF Jump

LEMMA NextInv == IInv /\ [Next]_vars => IInv'
  <1> SUFFICES ASSUME IInv, [Next]_vars PROVE IInv'
    OBVIOUS
  <1>1. CASE (Outside \/ MergeQueue) /\ Remember
    BY <1>1, OutsideInv
  <1>2. CASE (\E c \in Commits : Begin(c)) /\ Remember
    BY <1>2, BeginInv
  <1>3. CASE Handler /\ Remember
    BY <1>3, EarlyInv, TraceInv, BaseProofInv, GuardStepInv, StandingInv, FetchInv, OpenPullInv, LabelInv,
       ArmInv, CountOthersInv, QueueStateInv, DequeueInv, JumpStepInv DEF Handler
  <1>4. CASE Stop /\ Remember
    BY <1>4, StopInv
  <1>5. CASE UNCHANGED vars
    BY <1>5 DEF vars, forge, inputs, blame, plan, call, IInv, PullShape, InOrder, CallShape, GuardInv,
       Allowed, PullInv, JumpInv, JumpsApart, Opened
  <1> QED
    BY <1>1, <1>2, <1>3, <1>4, <1>5 DEF Next

LEMMA InvHolds == Spec => []IInv
  BY InitInv, NextInv, PTL DEF Spec

-----------------------------------------------------------------------------
\* A second revert jumps the queue only after the first was left alone for half an hour, unless that
\* one lost its labels, however many calls run and however the queue and people act in between.
THEOREM JumpsKeepApart == Spec => []JumpsApart
  <1>1. IInv => JumpsApart
    BY DEF IInv
  <1> QED
    BY <1>1, InvHolds, PTL

-----------------------------------------------------------------------------
(* What a revert contains.                                                 *)

\* A pull request appears only where the handler opens it.
LEMMA OnlyTheHandlerOpens ==
    ASSUME IInv, [Next]_vars
    PROVE  (\E p \in Pulls : OpenPull(p)) \/ \A p \in Pulls : Opened(p)' = Opened(p)
  <1>1. PullShape /\ (pc \in HasPull => pull \in Pulls)
    BY DEF IInv, PullInv
  <1>2. Kept \/ UNCHANGED pulls => \A p \in Pulls : Opened(p)' = Opened(p)
    BY DEF Kept, Opened
  <1>3. CASE Outside
    <2>1. (\E p \in Pulls : Decide(p)) \/ UNCHANGED pulls
      BY <1>3 DEF Outside, Land, Verify, Rerun, Shield, Ages, forge
    <2> QED
      BY <1>1, <1>2, <2>1, DecideKeeps
  <1>4. CASE MergeQueue
    BY <1>1, <1>2, <1>4, EnqueueKeeps, LandPullKeeps DEF MergeQueue
  <1>5. CASE (\E c \in Commits : Begin(c)) \/ Stop \/ UNCHANGED vars
    BY <1>2, <1>5 DEF Begin, Stop, vars, forge
  <1>6. CASE Search \/ SameSha \/ Trace \/ Proof \/ BaseProof \/ Guard \/ Standing \/ Fetch
             \/ CountOthers \/ QueueState
    BY <1>2, <1>6 DEF Search, SameSha, Trace, Proof, BaseProof, Guard, Standing, Fetch, CountOthers,
                      QueueState, forge
  <1>7. CASE Label
    BY <1>1, <1>7, LabelMarksItsOwn DEF Label, HasPull
  <1>8. CASE Arm \/ Dequeue \/ Jump
    <2>1. pull \in Pulls
      BY <1>1, <1>8 DEF Arm, Dequeue, Jump, HasPull
    <2> QED
      BY <1>1, <1>2, <1>8, <2>1, ArmKeeps, DequeueKeeps, JumpKeeps
  <1> QED
    BY <1>3, <1>4, <1>5, <1>6, <1>7, <1>8 DEF Next, Handler

LEMMA SparedStep ==
    ASSUME IInv, [Next]_vars, NEW p \in Pulls, pulls[p].state = "none", pulls'[p].state = "open"
    PROVE  /\ (pulls'[p].first..pulls'[p].last) \cap spared = {}
           /\ mode # "notify"
           /\ named \/ revertWindow
  <1>1. ~Opened(p) /\ Opened(p)'
    BY DEF Opened
  <1>2. PICK q \in Pulls : OpenPull(q)
    BY <1>1, OnlyTheHandlerOpens
  <1>3. PullShape /\ CallShape
    BY DEF IInv
  <1>4. /\ pulls'[q].first = first /\ pulls'[q].last = last
        /\ \A r \in Pulls : r # q => pulls'[r] = pulls[r]
    BY <1>2, <1>3, OpenPullOpensOne
  <1>5. p = q
    BY <1>4
  <1>6. pc = "open"
    BY <1>2 DEF OpenPull
  <1> QED
    BY <1>4, <1>5, <1>6 DEF IInv, GuardInv, Allowed

\* A revert never contains a commit that was shielded all the while the call ran, wherever the shield
\* of another commit comes and goes; none is opened in notify mode, or of an unwanted window.
THEOREM ShieldedStays == Spec => SparedStay
  <1>1. IInv /\ [Next]_vars =>
           \A p \in Pulls : pulls[p].state = "none" /\ pulls'[p].state = "open" =>
              /\ (pulls'[p].first..pulls'[p].last) \cap spared = {}
              /\ mode # "notify"
              /\ named \/ revertWindow
    BY SparedStep
  <1> QED
    BY <1>1, InvHolds, PTL DEF Spec, SparedStay

-----------------------------------------------------------------------------
(* The second invariant: what the trunk holds, what is blamed for it, and  *)
(* which reverts stand.                                                    *)

\* What a patch and a pull request may hold once n commits have landed.
Patches(n) == [region : Regions, from : 0..n, to : 0..n]
PullsWith(n) ==
    [state : {"none", "open", "closed", "merged"}, first : 0..n, last : 0..n, unarmed : BOOLEAN,
     patch : SUBSET Patches(n), labels : SUBSET Labels, armed : BOOLEAN, place : Places]

\* Contents are named by commits that landed, and a proof tells what its commit holds.
TrunkInv ==
    /\ head \in 1..MaxChanges + Cardinality(MergedPulls)
    /\ tree \in [Commits -> [Regions -> 0..head]] /\ bad \subseteq 0..head
    /\ proof \in [Commits -> Proofs]
    /\ \A c \in Commits : /\ proof[c] = "absent" <=> head < c
                          /\ proof[c] = "success" => ~Red(c)
                          /\ proof[c] = "failure" => Red(c)

ChosenInv ==
    /\ mode \in Modes /\ revertWindow \in BOOLEAN /\ migrations \in MigrationSets /\ defined \in LabelSets
    /\ shielded \subseteq Commits /\ spared \subseteq Commits /\ pending \subseteq 1..head
    /\ faults \in 0..MaxFaults /\ events \in 0..MaxEvents

PullTypes == pulls \in [Pulls -> PullsWith(head)]

CallTypes ==
    /\ pc \in Steps /\ outcome \in Outcomes
    /\ act \in {"revert", "revert_pr_unarmed", "notify"}
    /\ unitBase \in BOOLEAN /\ named \in BOOLEAN
    /\ pull \in Pulls \cup {NoPull} /\ patch \subseteq Patches(head)

\* From the trace on the call has blamed commits after its baseline: one that a failure begins with, or
\* all those from a baseline without a failure to the red commit that has it.
Aimed == Steps \ {"idle", "search", "same sha", "trace"}
BlameInv ==
    /\ red \in (IF pc = "idle" THEN 0..head ELSE 1..head)
    /\ pc \notin Aimed => base = 0 /\ first = 0 /\ last = 0
    /\ pc \in Aimed =>
          /\ base \in 1..red - 1 /\ first \in base + 1..red /\ last \in first..red
          /\ \E r \in Regions :
                IF named THEN first = last /\ BadIn(first, r) /\ ~BadIn(first - 1, r)
                         ELSE first = base + 1 /\ last = red /\ BadIn(red, r) /\ ~BadIn(base, r)

\* What is about to be opened takes out a break.
MendInv ==
    pc = "open" /\ (\A c \in Blamed : ChangesOne(c)) => \E x \in patch : x.from \in bad /\ x.to \notin bad

\* Where no request failed, every open revert is marked, or about to be, and a call goes on to open one
\* only while none stands, or none of its culprit where reverts wait for people.
StandInv ==
    faults = 0 /\ "auto-revert" \in defined =>
        IF mode = "revert_pr_unarmed"
        THEN /\ \A p, q \in Open : p < q => pulls[q].first \notin pulls[p].first..pulls[p].last
             /\ pc \in {"fetch", "open"} => \A p \in Open : ~Names(p)
        ELSE /\ \A p, q \in Open : p = q
             /\ \A p \in Open : "auto-revert" \in pulls[p].labels \/ (pc = "label" /\ p = pull)
             /\ pc \notin HasPull \cup {"idle", "search"} => Open = {}

RInv == TrunkInv /\ ChosenInv /\ PullTypes /\ CallTypes /\ BlameInv /\ MendInv /\ StandInv

-----------------------------------------------------------------------------
(* What a list of reverts makes of a tree.                                 *)

\* A set of numbers that is not empty has a least one.
LEMMA FirstOfSome ==
    ASSUME NEW S \in SUBSET Nat, S # {}
    PROVE  \E x \in S : \A y \in S : x <= y
  <1>1. IsWellFoundedOn({p \in Nat \X Nat : p[1] < p[2]}, Nat)
    BY NatLessThanWellFounded DEF OpToRel
  <1>2. PICK x \in S : \A y \in S : <<y, x>> \notin {p \in Nat \X Nat : p[1] < p[2]}
    BY <1>1, WFMin
  <1>3. ASSUME NEW y \in S PROVE x <= y
    <2>1. <<y, x>> \notin {p \in Nat \X Nat : p[1] < p[2]} /\ x \in Nat /\ y \in Nat
      BY <1>2
    <2> QED
      BY <2>1
  <1> QED
    BY <1>3

\* A set of numbers up to n that is not empty has a greatest one.
LEMMA LastOfSome ==
    ASSUME NEW n \in Nat, NEW S \in SUBSET (0..n), S # {}
    PROVE  \E x \in S : \A y \in S : y <= x
  <1> DEFINE D == {n - x : x \in S}
  <1>1. \A x \in S : n - x \in Nat
    OBVIOUS
  <1>2. D \in SUBSET Nat /\ D # {}
    BY <1>1
  <1> HIDE DEF D
  <1>3. PICK d \in D : \A e \in D : d <= e
    BY <1>2, FirstOfSome
  <1>4. PICK x \in S : d = n - x
    BY DEF D
  <1>5. ASSUME NEW y \in S PROVE y <= x
    <2>1. n - y \in D /\ x \in 0..n /\ y \in 0..n
      BY DEF D
    <2>2. n - x <= n - y
      BY <1>3, <1>4, <2>1
    <2> QED
      BY <2>1, <2>2
  <1> QED
    BY <1>5

\* A region no reverted commit changed stays as it is.
LEMMA UntouchedStays ==
    ASSUME NEW t, NEW k, NEW r \in Regions, \A c \in first..k : r \notin Changed(c)
    PROVE  Reverted(t, k)[r] = t[r]
  <1>1. {c \in first..k : r \in Changed(c)} = {}
    OBVIOUS
  <1> QED
    BY <1>1 DEF Reverted

\* The last reverted commit that changed a region decides it.
LEMMA LastDecides ==
    ASSUME NEW t, first \in Nat, NEW k \in Nat, NEW r \in Regions, NEW m \in first..k, r \in Changed(m),
           \A c \in m + 1..k : r \notin Changed(c)
    PROVE  Reverted(t, k)[r] = tree[m - 1][r]
  <1> DEFINE changes == {c \in first..k : r \in Changed(c)}
  <1>1. m \in changes
    OBVIOUS
  <1>2. \A c \in changes : c \in Nat /\ c <= k /\ (c \in m + 1..k \/ c <= m)
    OBVIOUS
  <1>3. \A c \in changes : c <= m
    BY <1>2
  <1>4. m \in Nat
    OBVIOUS
  <1> HIDE DEF changes
  <1>5. Newest(m, changes)
    BY <1>1, <1>3 DEF Newest
  <1>6. \A c \in changes : Newest(c, changes) => c = m
    BY <1>1, <1>2, <1>3, <1>4 DEF Newest
  <1>7. (CHOOSE c \in changes : Newest(c, changes)) = m
    BY <1>1, <1>5, <1>6
  <1>8. Reverted(t, k)[r] = tree[(CHOOSE c \in changes : Newest(c, changes)) - 1][r]
    BY <1>1 DEF Reverted, changes
  <1> QED
    BY <1>7, <1>8

\* One commit more is reverted by undoing it: the definition by cases is the list of git's steps.
LEMMA RevertedUndoes ==
    ASSUME NEW t, first \in Nat, NEW k \in Nat, first <= k
    PROVE  Reverted(t, k) = Undo(Reverted(t, k - 1), k)
  <1>1. ASSUME NEW r \in Regions, r \in Changed(k) PROVE Reverted(t, k)[r] = tree[k - 1][r]
    <2>1. k \in first..k /\ \A c \in k + 1..k : r \notin Changed(c)
      OBVIOUS
    <2> QED
      BY <1>1, <2>1, LastDecides
  <1>2. ASSUME NEW r \in Regions, r \notin Changed(k) PROVE Reverted(t, k)[r] = Reverted(t, k - 1)[r]
    <2>1. first..k = (first..k - 1) \cup {k}
      OBVIOUS
    <2> DEFINE now == {c \in first..k : r \in Changed(c)}
               before == {c \in first..k - 1 : r \in Changed(c)}
    <2>2. now = before
      BY <1>2, <2>1
    <2>3. Reverted(t, k)[r] = IF now = {} THEN t[r] ELSE tree[(CHOOSE c \in now : Newest(c, now)) - 1][r]
      BY DEF Reverted
    <2>4. Reverted(t, k - 1)[r] =
             IF before = {} THEN t[r] ELSE tree[(CHOOSE c \in before : Newest(c, before)) - 1][r]
      BY DEF Reverted
    <2> HIDE DEF now, before
    <2> QED
      BY <2>2, <2>3, <2>4
  <1>3. Reverted(t, k) = [r \in Regions |-> Reverted(t, k)[r]]
    BY DEF Reverted
  <1>4. \A r \in Regions : Undo(Reverted(t, k - 1), k)[r] = Reverted(t, k)[r]
    BY <1>1, <1>2 DEF Undo
  <1>5. Undo(Reverted(t, k - 1), k) = [r \in Regions |-> Undo(Reverted(t, k - 1), k)[r]]
    BY DEF Undo
  <1> QED
    BY <1>3, <1>4, <1>5

-----------------------------------------------------------------------------
(* A revert takes out a break.                                             *)

\* A commit that changes one region, and whose revert leaves something to put back, is still in place there.
LEMMA StillInPlace ==
    ASSUME NEW t, NEW k, NEW r \in Regions, Changed(k) = {r}, Applies(t, k), t = [q \in Regions |-> t[q]]
    PROVE  t[r] = tree[k][r] /\ tree[k][r] # tree[k - 1][r]
  <1>1. tree[k][r] # tree[k - 1][r]
    BY DEF Changed
  <1>2. t[r] \in {tree[k][r], tree[k - 1][r]} /\ Undo(t, k) # t
    BY DEF Applies
  <1>3. CASE t[r] = tree[k - 1][r]
    <2>1. \A q \in Regions : (IF q \in Changed(k) THEN tree[k - 1][q] ELSE t[q]) = t[q]
      BY <1>3
    <2>2. Undo(t, k) = [q \in Regions |-> t[q]]
      BY <2>1 DEF Undo
    <2> QED
      BY <1>2, <2>2
  <1> QED
    BY <1>1, <1>2, <1>3

LEMMA RevertedIsATree == \A t, k : Reverted(t, k) = [q \in Regions |-> Reverted(t, k)[q]]
  BY DEF Reverted

\* Nothing is reverted before the first commit.
LEMMA NothingReverted ==
    ASSUME NEW t, t = [q \in Regions |-> t[q]], first \in Nat, NEW k \in Int, k < first
    PROVE  Reverted(t, k) = t
  <1>1. \A q \in Regions : \A c \in first..k : q \notin Changed(c)
    OBVIOUS
  <1>2. \A q \in Regions : Reverted(t, k)[q] = t[q]
    BY <1>1, UntouchedStays
  <1> QED
    BY <1>2, RevertedIsATree

\* Of one culprit: it broke the region, is still in place there, and what it replaced comes back.
LEMMA CulpritIsTakenOut ==
    ASSUME NEW t, t = [q \in Regions |-> t[q]], first \in Nat, last = first, RevertApplies(t),
           ChangesOne(first), NEW r \in Regions, BadIn(first, r), ~BadIn(first - 1, r)
    PROVE  t[r] \in bad /\ Reverted(t, last)[r] \notin bad
  <1>1. r \in Changed(first)
    BY DEF BadIn, Changed
  <1>2. Changed(first) = {r}
    BY <1>1 DEF ChangesOne
  <1>3. first \in first..last /\ first - 1 < first /\ first - 1 \in Int
    OBVIOUS
  <1>4. Applies(Reverted(t, first - 1), first)
    BY <1>3 DEF RevertApplies
  <1>5. Reverted(t, first - 1) = t
    BY <1>3, NothingReverted
  <1>6. t[r] = tree[first][r]
    BY <1>2, <1>4, <1>5, StillInPlace
  <1>7. Reverted(t, last)[r] = tree[first - 1][r]
    <2>1. \A c \in first + 1..last : r \notin Changed(c)
      OBVIOUS
    <2> QED
      BY <1>1, <1>3, <2>1, LastDecides
  <1> QED
    BY <1>6, <1>7 DEF BadIn

\* The first commit of the window that changed the region.
LEMMA WindowHasAChange ==
    ASSUME first \in Nat \ {0}, last \in Nat, first <= last, NEW r \in Regions,
           tree[last][r] # tree[first - 1][r]
    PROVE  \E m \in first..last : /\ r \in Changed(m) /\ tree[m - 1][r] = tree[first - 1][r]
                                  /\ \A c \in first..m - 1 : r \notin Changed(c)
  <1> DEFINE S == {c \in first..last : tree[c][r] # tree[first - 1][r]}
  <1>1. S \in SUBSET Nat /\ last \in S
    OBVIOUS
  <1> HIDE DEF S
  <1>2. PICK m \in S : \A c \in S : m <= c
    BY <1>1, FirstOfSome
  <1>3. m \in first..last /\ tree[m][r] # tree[first - 1][r]
    BY <1>2 DEF S
  <1>4. ASSUME NEW c \in first - 1..m - 1 PROVE tree[c][r] = tree[first - 1][r]
    <2>1. CASE c = first - 1
      BY <2>1
    <2>2. CASE c # first - 1
      <3>1. c \in first..last /\ ~(m <= c)
        BY <1>3, <2>2
      <3> QED
        BY <1>2, <3>1 DEF S
    <2> QED
      BY <2>1, <2>2
  <1>5. m - 1 \in first - 1..m - 1
    BY <1>3
  <1>6. tree[m - 1][r] = tree[first - 1][r]
    BY <1>4, <1>5
  <1>7. r \in Changed(m)
    BY <1>3, <1>6 DEF Changed
  <1>8. ASSUME NEW c \in first..m - 1 PROVE r \notin Changed(c)
    <2>1. c \in first - 1..m - 1 /\ c - 1 \in first - 1..m - 1
      BY <1>3
    <2>2. tree[c][r] = tree[c - 1][r]
      BY <1>4, <2>1
    <2> QED
      BY <2>2 DEF Changed
  <1> QED
    BY <1>3, <1>6, <1>7, <1>8

\* From there on the trunk and the reverted tree hold the content before and after that change, in turn:
\* otherwise a later change of the region would conflict.
LEMMA TakeTurns ==
    ASSUME NEW t, first \in Nat \ {0}, last \in Nat, RevertApplies(t), NEW r \in Regions,
           NEW m \in first..last, r \in Changed(m), NEW k \in m..last
    PROVE  \/ tree[k][r] = tree[m][r] /\ Reverted(t, k)[r] = tree[m - 1][r]
           \/ tree[k][r] = tree[m - 1][r] /\ Reverted(t, k)[r] = tree[m][r]
  <1> DEFINE Turn(j) == \/ tree[j][r] = tree[m][r] /\ Reverted(t, j)[r] = tree[m - 1][r]
                        \/ tree[j][r] = tree[m - 1][r] /\ Reverted(t, j)[r] = tree[m][r]
             S == {j \in m..last : ~Turn(j)}
  <1>1. tree[m][r] # tree[m - 1][r]
    BY DEF Changed
  <1>2. Turn(m)
    <2>1. m \in first..m /\ \A c \in m + 1..m : r \notin Changed(c)
      OBVIOUS
    <2>2. Reverted(t, m)[r] = tree[m - 1][r]
      BY <2>1, LastDecides
    <2> QED
      BY <2>2
  <1>3. ASSUME NEW j \in m + 1..last, Turn(j - 1) PROVE Turn(j)
    <2>1. j \in Nat /\ first <= j /\ j \in first..last
      OBVIOUS
    <2>2. Reverted(t, j) = Undo(Reverted(t, j - 1), j)
      BY <2>1, RevertedUndoes
    <2>3. CASE r \notin Changed(j)
      <3>1. tree[j][r] = tree[j - 1][r] /\ Reverted(t, j)[r] = Reverted(t, j - 1)[r]
        BY <2>2, <2>3 DEF Changed, Undo
      <3> QED
        BY <1>3, <3>1
    <2>4. CASE r \in Changed(j)
      <3>1. tree[j][r] # tree[j - 1][r] /\ Reverted(t, j)[r] = tree[j - 1][r]
        BY <2>2, <2>4 DEF Changed, Undo
      <3>2. Reverted(t, j - 1)[r] \in {tree[j][r], tree[j - 1][r]}
        BY <2>1, <2>4 DEF RevertApplies, Applies
      <3> QED
        BY <1>1, <1>3, <3>1, <3>2
    <2> QED
      BY <2>3, <2>4
  <1> HIDE DEF Turn
  <1>4. S = {}
    <2> SUFFICES ASSUME S # {} PROVE FALSE
      OBVIOUS
    <2>1. S \in SUBSET Nat
      OBVIOUS
    <2>2. PICK j \in S : \A i \in S : j <= i
      BY <2>1, FirstOfSome
    <2>3. j \in m + 1..last /\ j - 1 \in m..last /\ ~(j <= j - 1)
      BY <1>2, <2>2
    <2>4. Turn(j - 1)
      BY <2>2, <2>3
    <2> QED
      BY <1>3, <2>2, <2>3, <2>4
  <1>5. Turn(k)
    BY <1>4
  <1> QED
    BY <1>5 DEF Turn

\* Of a window between a sound and a broken commit: what is broken at its end is in place, and what the
\* window began with comes back.
LEMMA WindowIsTakenOut ==
    ASSUME NEW t, t = [q \in Regions |-> t[q]], first \in Nat \ {0}, last \in Nat, first <= last,
           RevertApplies(t), \A c \in first..last : ChangesOne(c),
           NEW r \in Regions, BadIn(last, r), ~BadIn(first - 1, r)
    PROVE  t[r] \in bad /\ Reverted(t, last)[r] \notin bad
  <1>1. tree[last][r] # tree[first - 1][r]
    BY DEF BadIn
  <1>2. PICK m \in first..last : /\ r \in Changed(m) /\ tree[m - 1][r] = tree[first - 1][r]
                                 /\ \A c \in first..m - 1 : r \notin Changed(c)
    BY <1>1, WindowHasAChange
  <1>3. Changed(m) = {r}
    BY <1>2 DEF ChangesOne
  <1>4. Applies(Reverted(t, m - 1), m)
    BY DEF RevertApplies
  <1>5. Reverted(t, m - 1)[r] = tree[m][r]
    BY <1>3, <1>4, StillInPlace, RevertedIsATree
  <1>6. t[r] = tree[m][r]
    BY <1>2, <1>5, UntouchedStays
  <1>7. last \in m..last
    OBVIOUS
  <1>8. \/ tree[last][r] = tree[m][r] /\ Reverted(t, last)[r] = tree[m - 1][r]
        \/ tree[last][r] = tree[m - 1][r] /\ Reverted(t, last)[r] = tree[m][r]
    BY <1>2, <1>7, TakeTurns
  <1>9. tree[last][r] = tree[m][r] /\ Reverted(t, last)[r] = tree[m - 1][r]
    BY <1>1, <1>2, <1>8
  <1> QED
    BY <1>2, <1>6, <1>9 DEF BadIn

-----------------------------------------------------------------------------
(* The trunk.                                                              *)

LEMMA Bounds ==
    /\ MaxChanges \in Nat /\ MaxChanges >= 1 /\ MaxPulls \in Nat /\ MaxFaults \in Nat /\ MaxEvents \in Nat
    /\ MaxCommit \in Nat /\ MaxCommit = MaxChanges + MaxPulls
  BY RepairAssumption DEF MaxCommit

LEMMA MergedAreFew ==
    /\ IsFiniteSet(MergedPulls) /\ Cardinality(MergedPulls) \in 0..MaxPulls
    /\ \A p \in Open : /\ Cardinality(MergedPulls \cup {p}) = Cardinality(MergedPulls) + 1
                       /\ Cardinality(MergedPulls) + 1 <= MaxPulls
  <1>1. IsFiniteSet(Pulls) /\ Cardinality(Pulls) = MaxPulls
    <2>1. PICK n \in Int : n = MaxPulls
      BY Bounds
    <2>2. IsFiniteSet(1..n) /\ Cardinality(1..n) = IF 1 > n THEN 0 ELSE n - 1 + 1
      BY FS_Interval
    <2> QED
      BY <2>1, <2>2, Bounds DEF Pulls
  <1>2. MergedPulls \in SUBSET Pulls
    BY DEF MergedPulls
  <1>3. /\ IsFiniteSet(MergedPulls) /\ Cardinality(MergedPulls) <= Cardinality(Pulls)
        /\ Cardinality(MergedPulls) \in Nat
    BY <1>1, <1>2, FS_Subset, FS_CardinalityType
  <1>4. ASSUME NEW p \in Open
        PROVE  /\ Cardinality(MergedPulls \cup {p}) = Cardinality(MergedPulls) + 1
               /\ Cardinality(MergedPulls) + 1 <= MaxPulls
    <2>1. p \in Pulls /\ p \notin MergedPulls
      BY DEF Open, MergedPulls
    <2>2. Cardinality(MergedPulls \cup {p}) = Cardinality(MergedPulls) + 1
      BY <1>3, <2>1, FS_AddElement
    <2>3. MergedPulls \cup {p} \in SUBSET Pulls
      BY <1>2, <2>1
    <2>4. Cardinality(MergedPulls \cup {p}) <= Cardinality(Pulls)
      BY <1>1, <2>3, FS_Subset
    <2> QED
      BY <1>1, <2>2, <2>4
  <1>5. Cardinality(MergedPulls) \in 0..MaxPulls
    BY <1>1, <1>3, Bounds
  <1> QED
    BY <1>3, <1>4, <1>5

LEMMA HeadIsACommit == TrunkInv => head \in Commits /\ head \in Nat /\ 0..head \subseteq Contents /\ 1..head \subseteq Commits
  <1> SUFFICES ASSUME TrunkInv PROVE head \in Commits /\ head \in Nat /\ 0..head \subseteq Contents /\ 1..head \subseteq Commits
    OBVIOUS
  <1>1. PICK n \in 0..MaxPulls : n = Cardinality(MergedPulls)
    BY MergedAreFew
  <1>2. head \in 1..MaxChanges + n
    BY <1>1 DEF TrunkInv
  <1> QED
    BY <1>2, Bounds DEF Commits, Contents

\* The trunk only grows, and what is broken in it stays so.
Onward ==
    /\ head' \in Nat /\ head <= head'
    /\ \A c \in 1..head : tree'[c] = tree[c]
    /\ bad \subseteq bad' /\ \A x \in bad' : x \in bad \/ x = head + 1

LEMMA PastStays ==
    ASSUME TrunkInv, Onward, NEW c \in 1..head, NEW r \in Regions
    PROVE  BadIn(c, r)' <=> BadIn(c, r)
  <1>1. c \in Commits /\ head \in Nat
    BY HeadIsACommit
  <1>2. tree[c][r] \in 0..head
    BY <1>1 DEF TrunkInv
  <1>3. tree[c][r] # head + 1
    BY <1>1, <1>2
  <1> QED
    BY <1>3 DEF Onward, BadIn

LEMMA TrunkRests ==
    ASSUME TrunkInv, UNCHANGED trunk, MergedPulls' = MergedPulls
    PROVE  TrunkInv' /\ Onward
  <1>1. head \in Nat
    BY HeadIsACommit
  <1> QED
    BY <1>1 DEF TrunkInv, Onward, trunk, Red, BadIn

\* A commit lands.
LEMMA GrowKeeps ==
    ASSUME TrunkInv, NEW t \in [Regions -> 0..head + 1], Grow(t), bad' = bad \/ bad' = bad \cup {head + 1},
           head + 1 \in Commits, head + 1 \in 1..MaxChanges + Cardinality(MergedPulls')
    PROVE  TrunkInv' /\ Onward
  <1>1. head \in Nat /\ head \in Commits /\ 1..head \subseteq Commits
    BY HeadIsACommit
  <1>2. head' = head + 1 /\ tree' = [tree EXCEPT ![head + 1] = t] /\ proof' = [proof EXCEPT ![head + 1] = "running"]
    BY DEF Grow
  <1>3. tree \in [Commits -> [Regions -> 0..head]] /\ proof \in [Commits -> Proofs] /\ bad \subseteq 0..head
    BY DEF TrunkInv
  <1>4. \A c \in Commits : c # head + 1 => tree'[c] = tree[c] /\ proof'[c] = proof[c]
    BY <1>2, <1>3
  <1>5. tree'[head + 1] = t /\ proof'[head + 1] = "running"
    BY <1>2, <1>3
  <1>6. 0..head \subseteq 0..head + 1 /\ head + 1 \in 0..head + 1
    BY <1>1
  <1>7. tree' \in [Commits -> [Regions -> 0..head + 1]]
    <2>1. \A c \in Commits : tree'[c] \in [Regions -> 0..head + 1]
      BY <1>3, <1>4, <1>5, <1>6
    <2> QED
      BY <1>2, <1>3, <2>1
  <1>8. bad' \subseteq 0..head + 1
    BY <1>3, <1>6
  <1>9. proof' \in [Commits -> Proofs]
    BY <1>2, <1>3 DEF Proofs
  <1>10. Onward
    <2>1. \A c \in 1..head : c \in Commits /\ c # head + 1
      BY <1>1
    <2> QED
      BY <1>1, <1>2, <1>4, <2>1 DEF Onward
  <1>11. ASSUME NEW c \in Commits
         PROVE  /\ proof'[c] = "absent" <=> head + 1 < c
                /\ proof'[c] = "success" => ~Red(c)'
                /\ proof'[c] = "failure" => Red(c)'
    <2>1. c \in Nat
      BY Bounds DEF Commits
    <2>2. CASE c = head + 1
      BY <1>1, <1>5, <2>2
    <2>3. CASE c # head + 1
      <3>1. proof'[c] = proof[c] /\ (head < c <=> head + 1 < c)
        BY <1>1, <1>4, <2>1, <2>3
      <3>2. (proof[c] = "absent" <=> head < c) /\ (proof[c] = "success" => ~Red(c)) /\ (proof[c] = "failure" => Red(c))
        BY DEF TrunkInv
      <3>3. CASE head < c
        BY <3>1, <3>2, <3>3
      <3>4. CASE ~(head < c)
        <4>1. c \in 1..head
          BY <1>1, <3>4 DEF Commits
        <4>2. Red(c)' <=> Red(c)
          BY <1>10, <4>1, PastStays DEF Red
        <4> QED
          BY <3>1, <3>2, <4>2
      <3> QED
        BY <3>3, <3>4
    <2> QED
      BY <2>2, <2>3
  <1> QED
    BY <1>2, <1>7, <1>8, <1>9, <1>10, <1>11 DEF TrunkInv

LEMMA LandTrunk ==
    ASSUME TrunkInv, Land
    PROVE  TrunkInv' /\ Onward
  <1>1. head \in Nat /\ head \in Commits /\ 1..head \subseteq Commits
    BY HeadIsACommit
  <1>2. PICK n \in 0..MaxPulls : n = Cardinality(MergedPulls)
    BY MergedAreFew
  <1>3. head - n < MaxChanges /\ MergedPulls' = MergedPulls
    BY <1>2 DEF Land, forge, MergedPulls
  <1>4. head + 1 \in 1..MaxChanges + n /\ head + 1 \in Commits
    BY <1>1, <1>2, <1>3, Bounds DEF Commits
  <1>5. PICK r \in Regions, c \in {head + 1} \cup {tree[d][q] : d \in 1..head, q \in Regions} :
           /\ Grow([tree[head] EXCEPT ![r] = c])
           /\ bad' = bad \/ bad' = bad \cup {head + 1}
    BY DEF Land
  <1>6. tree \in [Commits -> [Regions -> 0..head]] /\ 0..head \subseteq 0..head + 1 /\ head + 1 \in 0..head + 1
    BY <1>1 DEF TrunkInv
  <1>7. c \in 0..head + 1
    BY <1>1, <1>6
  <1>8. [tree[head] EXCEPT ![r] = c] \in [Regions -> 0..head + 1]
    BY <1>1, <1>6, <1>7
  <1> QED
    BY <1>2, <1>3, <1>4, <1>5, <1>8, GrowKeeps

LEMMA VerifyTrunk ==
    ASSUME TrunkInv, NEW c \in Commits, Verify(c) \/ Rerun(c)
    PROVE  TrunkInv' /\ Onward
  <1>1. head \in Nat /\ UNCHANGED <<head, tree, bad>> /\ MergedPulls' = MergedPulls
    BY HeadIsACommit DEF Verify, Rerun, forge, MergedPulls
  <1>2. proof[c] # "absent"
    BY DEF Verify, Rerun, Completed
  <1>3. PICK v \in {"running", "cancelled", "success", "failure"} :
           /\ proof' = [proof EXCEPT ![c] = v]
           /\ (v = "success" => ~Red(c)) /\ (v = "failure" => Red(c))
    BY DEF Verify, Rerun
  <1>4. proof' \in [Commits -> Proofs] /\ proof'[c] = v /\ \A d \in Commits : d # c => proof'[d] = proof[d]
    BY <1>3 DEF TrunkInv, Proofs
  <1>5. \A d \in Commits : Red(d)' <=> Red(d)
    BY <1>1 DEF Red, BadIn
  <1>6. ASSUME NEW d \in Commits
        PROVE  /\ proof'[d] = "absent" <=> head' < d
               /\ proof'[d] = "success" => ~Red(d)'
               /\ proof'[d] = "failure" => Red(d)'
    <2>1. (proof[d] = "absent" <=> head < d) /\ (proof[d] = "success" => ~Red(d)) /\ (proof[d] = "failure" => Red(d))
      BY DEF TrunkInv
    <2>2. CASE d = c
      BY <1>1, <1>2, <1>3, <1>4, <1>5, <2>1, <2>2
    <2>3. CASE d # c
      BY <1>1, <1>4, <1>5, <2>1, <2>3
    <2> QED
      BY <2>2, <2>3
  <1> QED
    BY <1>1, <1>4, <1>6 DEF TrunkInv, Onward

-----------------------------------------------------------------------------
(* The pull requests.                                                      *)

LEMMA MoreMayHold ==
    ASSUME NEW m \in Nat, NEW n \in Nat, m <= n
    PROVE  Patches(m) \subseteq Patches(n) /\ PullsWith(m) \subseteq PullsWith(n)
  <1>1. 0..m \subseteq 0..n
    OBVIOUS
  <1>2. Patches(m) \subseteq Patches(n)
    BY <1>1 DEF Patches
  <1> QED
    BY <1>1, <1>2 DEF PullsWith

\* A step that opens, merges and marks nothing.
Tended ==
    /\ pulls' \in [Pulls -> PullsWith(head)]
    /\ Open' \subseteq Open
    /\ \A p \in Pulls : /\ pulls'[p].first = pulls[p].first /\ pulls'[p].last = pulls[p].last
                        /\ pulls'[p].labels = pulls[p].labels

LEMMA UpdateIsTended ==
    ASSUME PullTypes, NEW p \in Pulls, NEW x \in PullsWith(head), pulls' = [pulls EXCEPT ![p] = x],
           x.state = "open" => pulls[p].state = "open",
           x.first = pulls[p].first, x.last = pulls[p].last, x.labels = pulls[p].labels
    PROVE  /\ Tended
           /\ (x.state = "merged" <=> pulls[p].state = "merged") => MergedPulls' = MergedPulls
           /\ x.state = "merged" => MergedPulls' = MergedPulls \cup {p}
  <1>1. pulls'[p] = x /\ \A q \in Pulls : q # p => pulls'[q] = pulls[q]
    BY DEF PullTypes
  <1>2. pulls' \in [Pulls -> PullsWith(head)]
    BY DEF PullTypes
  <1>3. Open' \subseteq Open
    BY <1>1 DEF Open
  <1>4. Tended
    BY <1>1, <1>2, <1>3 DEF Tended
  <1>5. (x.state = "merged" <=> pulls[p].state = "merged") => MergedPulls' = MergedPulls
    BY <1>1 DEF MergedPulls
  <1>6. x.state = "merged" => MergedPulls' = MergedPulls \cup {p}
    BY <1>1 DEF MergedPulls
  <1> QED
    BY <1>4, <1>5, <1>6

LEMMA RestTends == PullTypes /\ UNCHANGED pulls => Tended /\ MergedPulls' = MergedPulls
  BY DEF PullTypes, Tended, Open, MergedPulls

LEMMA DecideTends ==
    ASSUME PullTypes, NEW p \in Pulls, Decide(p)
    PROVE  Tended /\ MergedPulls' = MergedPulls
  <1>1. pulls[p] \in PullsWith(head) /\ pulls[p].state = "open"
    BY DEF PullTypes, Decide, Open
  <1>2. CASE pulls' = [pulls EXCEPT ![p] = [@ EXCEPT !.state = "closed", !.armed = FALSE, !.place = "out"]]
    <2> DEFINE x == [pulls[p] EXCEPT !.state = "closed", !.armed = FALSE, !.place = "out"]
    <2>1. /\ x \in PullsWith(head) /\ x.state = "closed"
          /\ x.first = pulls[p].first /\ x.last = pulls[p].last /\ x.labels = pulls[p].labels
      BY <1>1 DEF PullsWith, Places
    <2>2. pulls' = [pulls EXCEPT ![p] = x]
      BY <1>2 DEF PullTypes
    <2> QED
      BY <1>1, <2>1, <2>2, UpdateIsTended
  <1>3. CASE pulls' = [pulls EXCEPT ![p].armed = TRUE]
    <2> DEFINE x == [pulls[p] EXCEPT !.armed = TRUE]
    <2>1. /\ x \in PullsWith(head) /\ x.state = "open"
          /\ x.first = pulls[p].first /\ x.last = pulls[p].last /\ x.labels = pulls[p].labels
      BY <1>1 DEF PullsWith
    <2>2. pulls' = [pulls EXCEPT ![p] = x]
      BY <1>3 DEF PullTypes
    <2> QED
      BY <1>1, <2>1, <2>2, UpdateIsTended
  <1> QED
    BY <1>2, <1>3 DEF Decide

\* Changes of the arming and of the place in the queue.
LEMMA PlaceTends ==
    ASSUME PullTypes, NEW p \in Pulls, NEW a \in BOOLEAN, NEW where \in Places,
           pulls' = [pulls EXCEPT ![p] = [@ EXCEPT !.armed = a, !.place = where]]
    PROVE  Tended /\ MergedPulls' = MergedPulls
  <1> DEFINE x == [pulls[p] EXCEPT !.armed = a, !.place = where]
  <1>1. pulls[p] \in PullsWith(head)
    BY DEF PullTypes
  <1>2. /\ x \in PullsWith(head) /\ x.state = pulls[p].state
        /\ x.first = pulls[p].first /\ x.last = pulls[p].last /\ x.labels = pulls[p].labels
    BY <1>1 DEF PullsWith
  <1>3. pulls' = [pulls EXCEPT ![p] = x]
    BY DEF PullTypes
  <1> HIDE DEF x
  <1> QED
    BY <1>2, <1>3, UpdateIsTended

LEMMA EnqueueTends ==
    ASSUME PullTypes, NEW p \in Pulls, Enqueue(p)
    PROVE  Tended /\ MergedPulls' = MergedPulls
  <1>1. pulls[p] \in PullsWith(head) /\ pulls' = [pulls EXCEPT ![p].place = "in"]
    BY DEF PullTypes, Enqueue
  <1>2. pulls[p].armed \in BOOLEAN /\ "in" \in Places
    BY <1>1 DEF PullsWith, Places
  <1>3. [pulls[p] EXCEPT !.place = "in"] = [pulls[p] EXCEPT !.armed = pulls[p].armed, !.place = "in"]
    BY <1>1 DEF PullsWith
  <1>4. pulls' = [pulls EXCEPT ![p] = [@ EXCEPT !.armed = pulls[p].armed, !.place = "in"]]
    BY <1>1, <1>3 DEF PullTypes
  <1> QED
    BY <1>2, <1>4, PlaceTends

LEMMA ArmTends ==
    ASSUME PullTypes, pull \in Pulls, Arm
    PROVE  Tended /\ MergedPulls' = MergedPulls
  <1>1. CASE pulls' = [pulls EXCEPT ![pull].armed = TRUE]
    <2>1. pulls[pull] \in PullsWith(head)
      BY DEF PullTypes
    <2>2. pulls[pull].place \in Places
      BY <2>1 DEF PullsWith
    <2>3. [pulls[pull] EXCEPT !.armed = TRUE] = [pulls[pull] EXCEPT !.armed = TRUE, !.place = pulls[pull].place]
      BY <2>1 DEF PullsWith
    <2>4. pulls' = [pulls EXCEPT ![pull] = [@ EXCEPT !.armed = TRUE, !.place = pulls[pull].place]]
      BY <1>1, <2>3 DEF PullTypes
    <2> QED
      BY <2>2, <2>4, PlaceTends
  <1>2. CASE UNCHANGED pulls
    BY <1>2, RestTends
  <1> QED
    BY <1>1, <1>2 DEF Arm

LEMMA DequeueTends ==
    ASSUME PullTypes, pull \in Pulls, Dequeue
    PROVE  Tended /\ MergedPulls' = MergedPulls
  <1>1. ASSUME NEW keeps \in BOOLEAN,
               pulls' = [pulls EXCEPT ![pull] = [@ EXCEPT !.place = "out", !.armed = keeps]]
        PROVE  Tended /\ MergedPulls' = MergedPulls
    <2>1. pulls[pull] \in PullsWith(head) /\ "out" \in Places
      BY DEF PullTypes, Places
    <2>2. [pulls[pull] EXCEPT !.place = "out", !.armed = keeps] = [pulls[pull] EXCEPT !.armed = keeps, !.place = "out"]
      BY <2>1 DEF PullsWith
    <2>3. pulls' = [pulls EXCEPT ![pull] = [@ EXCEPT !.armed = keeps, !.place = "out"]]
      BY <1>1, <2>2 DEF PullTypes
    <2> QED
      BY <2>1, <2>3, PlaceTends
  <1>2. CASE UNCHANGED pulls
    BY <1>2, RestTends
  <1> QED
    BY <1>1, <1>2 DEF Dequeue

LEMMA JumpTends ==
    ASSUME PullTypes, pull \in Pulls, Jump
    PROVE  Tended /\ MergedPulls' = MergedPulls
  <1>1. CASE pulls' = [pulls EXCEPT ![pull].place = "front"]
    <2>1. pulls[pull] \in PullsWith(head) /\ "front" \in Places
      BY DEF PullTypes, Places
    <2>2. pulls[pull].armed \in BOOLEAN
      BY <2>1 DEF PullsWith
    <2>3. [pulls[pull] EXCEPT !.place = "front"] = [pulls[pull] EXCEPT !.armed = pulls[pull].armed, !.place = "front"]
      BY <2>1 DEF PullsWith
    <2>4. pulls' = [pulls EXCEPT ![pull] = [@ EXCEPT !.armed = pulls[pull].armed, !.place = "front"]]
      BY <1>1, <2>3 DEF PullTypes
    <2> QED
      BY <2>1, <2>2, <2>4, PlaceTends
  <1>2. CASE UNCHANGED pulls
    BY <1>2, RestTends
  <1> QED
    BY <1>1, <1>2 DEF Jump, forge

\* The queue merges a pull request, whose patch holds nothing that has not landed.
LEMMA LandPullTends ==
    ASSUME PullTypes, TrunkInv, NEW p \in Pulls, LandPull(p)
    PROVE  Tended /\ TrunkInv' /\ Onward
  <1>1. pulls[p] \in PullsWith(head) /\ p \in Open /\ pulls[p].state = "open" /\ "out" \in Places
    BY DEF PullTypes, LandPull, Open, Places
  <1>2. CASE pulls' = [pulls EXCEPT ![p] = [@ EXCEPT !.armed = FALSE, !.place = "out"]] /\ UNCHANGED <<head, tree, proof>>
    <2>1. Tended /\ MergedPulls' = MergedPulls
      BY <1>1, <1>2, PlaceTends
    <2>2. UNCHANGED trunk
      BY <1>2 DEF LandPull, trunk
    <2> QED
      BY <2>1, <2>2, TrunkRests
  <1>3. CASE /\ Grow(Merged(p))
             /\ pulls' = [pulls EXCEPT ![p] = [@ EXCEPT !.state = "merged", !.armed = FALSE, !.place = "out"]]
    <2> DEFINE x == [pulls[p] EXCEPT !.state = "merged", !.armed = FALSE, !.place = "out"]
    <2>1. /\ x \in PullsWith(head) /\ x.state = "merged"
          /\ x.first = pulls[p].first /\ x.last = pulls[p].last /\ x.labels = pulls[p].labels
      BY <1>1 DEF PullsWith
    <2>2. pulls' = [pulls EXCEPT ![p] = x]
      BY <1>3 DEF PullTypes
    <2> HIDE DEF x
    <2>3. Tended /\ MergedPulls' = MergedPulls \cup {p}
      BY <2>1, <2>2, UpdateIsTended
    <2>4. head \in Nat /\ head \in Commits
      BY HeadIsACommit
    <2>5. PICK n \in 0..MaxPulls : n = Cardinality(MergedPulls)
      BY MergedAreFew
    <2>6. Cardinality(MergedPulls') = n + 1 /\ n + 1 <= MaxPulls
      BY <1>1, <2>3, <2>5, MergedAreFew
    <2>7. head \in 1..MaxChanges + n
      BY <2>5 DEF TrunkInv
    <2>8. head + 1 \in 1..MaxChanges + (n + 1) /\ head + 1 \in Commits
      BY <2>4, <2>5, <2>6, <2>7, Bounds DEF Commits
    <2>9. 0..head \subseteq 0..head + 1
      BY <2>4
    <2>10. pulls[p].patch \subseteq Patches(head)
      BY <1>1 DEF PullsWith
    <2>11. Merged(p) \in [Regions -> 0..head + 1]
      <3>1. ASSUME NEW r \in Regions PROVE Merged(p)[r] \in 0..head
        <4>1. CASE \E y \in pulls[p].patch : y.region = r
          <5>1. (CHOOSE y \in pulls[p].patch : y.region = r) \in pulls[p].patch
            BY <4>1
          <5>2. (CHOOSE y \in pulls[p].patch : y.region = r).to \in 0..head
            BY <2>10, <5>1 DEF Patches
          <5> QED
            BY <4>1, <5>2 DEF Merged
        <4>2. CASE ~\E y \in pulls[p].patch : y.region = r
          <5>1. tree[head][r] \in 0..head
            BY <2>4 DEF TrunkInv
          <5> QED
            BY <4>2, <5>1 DEF Merged
        <4> QED
          BY <4>1, <4>2
      <3>2. Merged(p) = [r \in Regions |-> Merged(p)[r]]
        BY DEF Merged
      <3> QED
        BY <2>9, <3>1, <3>2
    <2>12. bad' = bad
      BY DEF LandPull
    <2>13. TrunkInv' /\ Onward
      BY <1>3, <2>6, <2>8, <2>11, <2>12, GrowKeeps
    <2> QED
      BY <2>3, <2>13
  <1> QED
    BY <1>2, <1>3 DEF LandPull

-----------------------------------------------------------------------------
(* The steps keep the second invariant.                                    *)

\* What was blamed stays broken, whatever lands.
LEMMA BlameStays ==
    ASSUME TrunkInv, CallTypes, BlameInv, MendInv, Onward, UNCHANGED call
    PROVE  CallTypes' /\ BlameInv' /\ MendInv'
  <1> USE DEF call, blame, plan
  <1>1. head \in Nat /\ head' \in Nat /\ head <= head'
    BY HeadIsACommit DEF Onward
  <1>2. 0..head \subseteq 0..head' /\ 1..head \subseteq 1..head'
    BY <1>1
  <1>3. CallTypes'
    BY <1>1, MoreMayHold DEF CallTypes
  <1>4. BlameInv'
    <2>1. red' \in (IF pc' = "idle" THEN 0..head' ELSE 1..head')
      BY <1>2 DEF BlameInv
    <2>2. pc' \notin Aimed => base' = 0 /\ first' = 0 /\ last' = 0
      BY DEF BlameInv
    <2>3. ASSUME pc' \in Aimed
          PROVE  /\ base' \in 1..red' - 1 /\ first' \in base' + 1..red' /\ last' \in first'..red'
                 /\ \E r \in Regions :
                      IF named' THEN first' = last' /\ BadIn(first, r)' /\ ~BadIn(first - 1, r)'
                      ELSE first' = base' + 1 /\ last' = red' /\ BadIn(red, r)' /\ ~BadIn(base, r)'
      <3>1. red \in 1..head /\ base \in 1..red - 1 /\ first \in base + 1..red /\ last \in first..red
        BY <2>3 DEF BlameInv, Aimed
      <3>2. /\ base \in 1..head /\ first \in 1..head /\ first - 1 \in 1..head
        BY <1>1, <3>1
      <3>3. PICK r \in Regions : IF named THEN first = last /\ BadIn(first, r) /\ ~BadIn(first - 1, r)
                                 ELSE first = base + 1 /\ last = red /\ BadIn(red, r) /\ ~BadIn(base, r)
        BY <2>3 DEF BlameInv
      <3>4. /\ BadIn(first, r)' <=> BadIn(first, r)
            /\ BadIn(first - 1, r)' <=> BadIn(first - 1, r)
            /\ BadIn(red, r)' <=> BadIn(red, r)
            /\ BadIn(base, r)' <=> BadIn(base, r)
        BY <1>2, <3>1, <3>2, PastStays DEF Onward, BadIn
      <3> QED
        BY <3>1, <3>3, <3>4
    <2> QED
      BY <2>1, <2>2, <2>3 DEF BlameInv
  <1>5. MendInv'
    <2> SUFFICES ASSUME pc = "open", \A c \in Blamed' : ChangesOne(c)'
                 PROVE  \E x \in patch : x.from \in bad' /\ x.to \notin bad'
      BY DEF MendInv
    <2>1. /\ red \in 1..head /\ base \in 1..red - 1 /\ first \in base + 1..red /\ last \in first..red
      BY DEF BlameInv, Aimed, Steps
    <2>2. \A c \in first..last : c \in 1..head /\ c - 1 \in 1..head
      BY <1>1, <2>1
    <2>3. \A c \in first..last : Changed(c)' = Changed(c)
      BY <2>2 DEF Changed, Onward
    <2>4. \A c \in first..last : ChangesOne(c)
      BY <2>3 DEF ChangesOne, Blamed
    <2>5. PICK x \in patch : x.from \in bad /\ x.to \notin bad
      BY <2>4 DEF MendInv, Blamed
    <2>6. x.to \in 0..head
      BY DEF CallTypes, Patches
    <2>7. x.to # head + 1
      BY <1>1, <2>6
    <2> QED
      BY <2>5, <2>7 DEF Onward
  <1> QED
    BY <1>3, <1>4, <1>5

\* The reverts that stand while a step marks nothing and the call goes no further than before.
LEMMA StandStays ==
    ASSUME StandInv, Tended, UNCHANGED <<mode, defined>>, faults' = 0 => faults = 0,
           faults' = 0 /\ pc = "label" => pc' = "label" /\ pull' = pull,
           mode = "revert_pr_unarmed" /\ pc' \in {"fetch", "open"} => pc \in {"fetch", "open"} /\ first' = first,
           pc' \notin HasPull \cup {"idle", "search"} => pc \notin HasPull \cup {"idle", "search"}
    PROVE  StandInv'
  <1> SUFFICES ASSUME faults' = 0, "auto-revert" \in defined
               PROVE  IF mode = "revert_pr_unarmed"
                      THEN /\ \A p, q \in Open' : p < q => pulls'[q].first \notin pulls'[p].first..pulls'[p].last
                           /\ pc' \in {"fetch", "open"} => \A p \in Open' : ~Names(p)'
                      ELSE /\ \A p, q \in Open' : p = q
                           /\ \A p \in Open' : "auto-revert" \in pulls'[p].labels \/ (pc' = "label" /\ p = pull')
                           /\ pc' \notin HasPull \cup {"idle", "search"} => Open' = {}
    BY DEF StandInv
  <1>1. faults = 0
    OBVIOUS
  <1>2. \A p \in Open' : /\ p \in Open /\ p \in Pulls
                         /\ pulls'[p].first = pulls[p].first /\ pulls'[p].last = pulls[p].last
                         /\ pulls'[p].labels = pulls[p].labels
    BY DEF Tended, Open
  <1>3. CASE mode = "revert_pr_unarmed"
    <2>1. /\ \A p, q \in Open : p < q => pulls[q].first \notin pulls[p].first..pulls[p].last
          /\ pc \in {"fetch", "open"} => \A p \in Open : ~Names(p)
      BY <1>1, <1>3 DEF StandInv
    <2>2. \A p, q \in Open' : p < q => pulls'[q].first \notin pulls'[p].first..pulls'[p].last
      BY <1>2, <2>1
    <2>3. pc' \in {"fetch", "open"} => \A p \in Open' : ~Names(p)'
      BY <1>2, <1>3, <2>1 DEF Names
    <2> QED
      BY <1>3, <2>2, <2>3
  <1>4. CASE mode # "revert_pr_unarmed"
    <2>1. /\ \A p, q \in Open : p = q
          /\ \A p \in Open : "auto-revert" \in pulls[p].labels \/ (pc = "label" /\ p = pull)
          /\ pc \notin HasPull \cup {"idle", "search"} => Open = {}
      BY <1>1, <1>4 DEF StandInv
    <2>2. \A p, q \in Open' : p = q
      BY <1>2, <2>1
    <2>3. \A p \in Open' : "auto-revert" \in pulls'[p].labels \/ (pc' = "label" /\ p = pull')
      BY <1>1, <1>2, <2>1
    <2>4. pc' \notin HasPull \cup {"idle", "search"} => Open' = {}
      BY <1>2, <2>1
    <2> QED
      BY <1>4, <2>2, <2>3, <2>4
  <1> QED
    BY <1>3, <1>4

LEMMA EventCounts == ChosenInv /\ Event => faults' \in 0..MaxFaults /\ events' \in 0..MaxEvents /\ faults' = faults
  <1> SUFFICES ASSUME ChosenInv, Event PROVE faults' \in 0..MaxFaults /\ events' \in 0..MaxEvents /\ faults' = faults
    OBVIOUS
  <1>1. events \in Nat /\ events < MaxEvents /\ events' = events + 1 /\ faults \in 0..MaxFaults /\ faults' = faults
    BY Bounds DEF ChosenInv, Event
  <1>2. events' \in 0..MaxEvents
    BY <1>1, Bounds
  <1> QED
    BY <1>1, <1>2

LEMMA FaultCounts == ChosenInv /\ Fault => faults' \in 0..MaxFaults /\ events' \in 0..MaxEvents /\ faults' # 0
  <1> SUFFICES ASSUME ChosenInv, Fault PROVE faults' \in 0..MaxFaults /\ events' \in 0..MaxEvents /\ faults' # 0
    OBVIOUS
  <1>1. faults \in Nat /\ faults < MaxFaults /\ faults' = faults + 1 /\ events \in 0..MaxEvents /\ events' = events
    BY Bounds DEF ChosenInv, Fault
  <1>2. faults' \in 0..MaxFaults /\ faults' # 0
    BY <1>1, Bounds
  <1> QED
    BY <1>1, <1>2

\* What happens outside leaves the call where it is.
LEMMA OutsideKeepsR ==
    ASSUME RInv, TrunkInv', Onward, Tended, UNCHANGED <<inputs, call>>, Remember,
           shielded' \subseteq Commits, pending' \subseteq 1..head',
           faults' = faults, events' \in 0..MaxEvents
    PROVE  RInv'
  <1>1. head \in Nat /\ head' \in Nat /\ head <= head'
    BY HeadIsACommit DEF RInv, Onward
  <1>2. PullTypes'
    BY <1>1, MoreMayHold DEF Tended, PullTypes
  <1>3. CallTypes' /\ BlameInv' /\ MendInv'
    BY BlameStays DEF RInv
  <1>4. UNCHANGED <<mode, revertWindow, migrations, defined, pc, pull, first>>
    BY DEF inputs, call, blame, plan
  <1>5. StandInv'
    BY <1>4, StandStays DEF RInv
  <1>6. spared' \subseteq Commits
    BY DEF Remember, RInv, ChosenInv
  <1>7. ChosenInv'
    BY <1>4, <1>6 DEF RInv, ChosenInv
  <1> QED
    BY <1>2, <1>3, <1>5, <1>7 DEF RInv

LEMMA OutsideR ==
    ASSUME IInv, RInv, Outside \/ MergeQueue, Remember
    PROVE  RInv'
  <1>1. TrunkInv /\ PullTypes /\ ChosenInv /\ head \in Nat /\ 1..head \subseteq Commits
    BY HeadIsACommit DEF RInv
  <1>2. shielded \subseteq Commits /\ pending \subseteq 1..head /\ faults \in 0..MaxFaults /\ events \in 0..MaxEvents
    BY <1>1 DEF ChosenInv
  <1>3. CASE Land
    <2>1. TrunkInv' /\ Onward
      BY <1>1, <1>3, LandTrunk
    <2>2. Tended /\ UNCHANGED <<shielded, pending, inputs, call, faults, events>>
      BY <1>1, <1>3, RestTends DEF Land, forge, counts
    <2>3. 1..head \subseteq 1..head'
      BY <1>1, <2>1 DEF Onward
    <2> QED
      BY <1>2, <2>1, <2>2, <2>3, OutsideKeepsR
  <1>4. ASSUME NEW c \in Commits, Verify(c) PROVE RInv'
    <2>1. TrunkInv' /\ Onward
      BY <1>1, <1>4, VerifyTrunk
    <2>2. Tended /\ UNCHANGED <<shielded, inputs, call, faults, events, head>>
      BY <1>1, <1>4, RestTends DEF Verify, forge, counts
    <2>3. c \in 1..head
      <3>1. proof[c] = "running"
        BY <1>4 DEF Verify
      <3>2. ~(head < c)
        BY <1>1, <3>1 DEF TrunkInv
      <3> QED
        BY <1>1, <3>2, Bounds DEF Commits
    <2>4. pending' \subseteq 1..head'
      BY <1>2, <1>4, <2>2, <2>3 DEF Verify
    <2> QED
      BY <1>2, <2>1, <2>2, <2>4, OutsideKeepsR
  <1>5. ASSUME NEW c \in Commits, Rerun(c) PROVE RInv'
    <2>1. TrunkInv' /\ Onward
      BY <1>1, <1>5, VerifyTrunk
    <2>2. Tended /\ UNCHANGED <<shielded, pending, inputs, call, head>> /\ Event
      BY <1>1, <1>5, RestTends DEF Rerun, forge
    <2> QED
      BY <1>1, <1>2, <2>1, <2>2, EventCounts, OutsideKeepsR
  <1>6. ASSUME NEW c \in Commits, Shield(c) PROVE RInv'
    <2>1. Tended /\ MergedPulls' = MergedPulls /\ UNCHANGED <<trunk, pending, inputs, call, head>> /\ Event
      BY <1>1, <1>6, RestTends DEF Shield, forge, trunk
    <2>2. TrunkInv' /\ Onward
      BY <1>1, <2>1, TrunkRests
    <2>3. shielded' \subseteq Commits
      BY <1>2, <1>6 DEF Shield
    <2> QED
      BY <1>1, <1>2, <2>1, <2>2, <2>3, EventCounts, OutsideKeepsR
  <1>7. ASSUME NEW p \in Pulls, Decide(p) PROVE RInv'
    <2>1. Tended /\ MergedPulls' = MergedPulls
      BY <1>1, <1>7, DecideTends
    <2>2. UNCHANGED <<trunk, shielded, pending, inputs, call, head>> /\ Event
      BY <1>7 DEF Decide, trunk
    <2>3. TrunkInv' /\ Onward
      BY <1>1, <2>1, <2>2, TrunkRests
    <2> QED
      BY <1>1, <1>2, <2>1, <2>2, <2>3, EventCounts, OutsideKeepsR
  <1>8. ASSUME NEW p \in Pulls, Ages(p) \/ Enqueue(p) PROVE RInv'
    <2>1. Tended /\ MergedPulls' = MergedPulls
      BY <1>1, <1>8, RestTends, EnqueueTends DEF Ages
    <2>2. UNCHANGED <<trunk, shielded, pending, inputs, call, head, faults, events>>
      BY <1>8 DEF Ages, Enqueue, trunk, counts
    <2>3. TrunkInv' /\ Onward
      BY <1>1, <2>1, <2>2, TrunkRests
    <2> QED
      BY <1>2, <2>1, <2>2, <2>3, OutsideKeepsR
  <1>9. ASSUME NEW p \in Pulls, LandPull(p) PROVE RInv'
    <2>1. Tended /\ TrunkInv' /\ Onward
      BY <1>1, <1>9, LandPullTends
    <2>2. UNCHANGED <<shielded, pending, inputs, call, faults, events>>
      BY <1>9 DEF LandPull, counts
    <2>3. 1..head \subseteq 1..head'
      BY <1>1, <2>1 DEF Onward
    <2> QED
      BY <1>2, <2>1, <2>2, <2>3, OutsideKeepsR
  <1> QED
    BY <1>3, <1>4, <1>5, <1>6, <1>7, <1>8, <1>9 DEF Outside, MergeQueue

\* A step of the call: what it must leave alone and what it must keep.
LEMMA CallKeepsR ==
    ASSUME RInv, UNCHANGED World, MergedPulls' = MergedPulls, PullTypes', Remember,
           pending' \subseteq 1..head, UNCHANGED counts \/ Fault, CallTypes', BlameInv', MendInv', StandInv'
    PROVE  RInv'
  <1>1. UNCHANGED trunk /\ UNCHANGED <<head, shielded, mode, revertWindow, migrations, defined>>
    BY DEF World, trunk, inputs
  <1>2. TrunkInv'
    BY <1>1, TrunkRests DEF RInv
  <1>3. ChosenInv
    BY DEF RInv
  <1>4. faults' \in 0..MaxFaults /\ events' \in 0..MaxEvents
    BY <1>3, FaultCounts DEF ChosenInv, counts
  <1>5. spared' \subseteq Commits
    BY <1>1, <1>3 DEF Remember, ChosenInv
  <1>6. ChosenInv'
    BY <1>1, <1>3, <1>4, <1>5 DEF ChosenInv
  <1> QED
    BY <1>2, <1>6 DEF RInv

LEMMA TendedTypes ==
    ASSUME RInv, UNCHANGED World, Tended
    PROVE  PullTypes' /\ head' = head /\ head \in Nat
  BY HeadIsACommit DEF RInv, World, trunk, Tended, PullTypes

\* What a call that ended holds.
LEMMA EndTypes ==
    ASSUME RInv, UNCHANGED World, NEW how \in Outcomes, End(how)
    PROVE  CallTypes' /\ BlameInv' /\ MendInv'
  <1>1. mode \in Modes /\ head' = head /\ head \in Nat
    BY HeadIsACommit DEF RInv, ChosenInv, World, trunk
  <1>2. mode \in {"revert", "revert_pr_unarmed", "notify"}
    BY <1>1, RepairAssumption
  <1>3. CallTypes'
    BY <1>2 DEF End, CallTypes, Steps
  <1>4. BlameInv'
    <2>1. red' = 0 /\ pc' = "idle" /\ base' = 0 /\ first' = 0 /\ last' = 0 /\ 0 \in 0..head'
      BY <1>1 DEF End
    <2> QED
      BY <2>1 DEF BlameInv, Aimed
  <1>5. MendInv'
    BY DEF End, MendInv
  <1> QED
    BY <1>3, <1>4, <1>5

LEMMA EndKeepsR ==
    ASSUME RInv, UNCHANGED World, Tended, MergedPulls' = MergedPulls, Remember, pending' \subseteq 1..head,
           UNCHANGED counts \/ Fault, pc # "label" \/ Fault, NEW how \in Outcomes, End(how)
    PROVE  RInv'
  <1>1. PullTypes' /\ CallTypes' /\ BlameInv' /\ MendInv'
    BY TendedTypes, EndTypes
  <1>2. UNCHANGED <<mode, defined>> /\ pc' = "idle"
    BY DEF World, inputs, End
  <1>3. (faults' = 0 => faults = 0) /\ (faults' = 0 => pc # "label")
    BY FaultCounts DEF RInv, counts
  <1>4. StandInv'
    BY <1>2, <1>3, StandStays DEF RInv
  <1> QED
    BY <1>1, <1>4, CallKeepsR

\* A step to the next request that keeps what the call knows.
LEMMA GoTypes ==
    ASSUME RInv, UNCHANGED World, NEW step \in Steps \ {"idle", "open"}, GoTo(step), pc # "idle",
           pc \in Aimed <=> step \in Aimed
    PROVE  CallTypes' /\ BlameInv' /\ MendInv'
  <1>1. /\ pc' = step /\ UNCHANGED <<outcome, red, base, unitBase, first, last, named, act, patch, pull>>
        /\ UNCHANGED <<head, tree, bad>>
    BY DEF GoTo, Enter, blame, plan, World, trunk
  <1>2. CallTypes'
    BY <1>1 DEF RInv, CallTypes
  <1>3. red \in 1..head
    BY DEF RInv, BlameInv
  <1>4. BlameInv'
    BY <1>1, <1>3 DEF RInv, BlameInv, BadIn
  <1>5. MendInv'
    BY <1>1 DEF MendInv
  <1> QED
    BY <1>2, <1>4, <1>5

LEMMA GoKeepsR ==
    ASSUME RInv, UNCHANGED World, Tended, MergedPulls' = MergedPulls, Remember, UNCHANGED pending,
           UNCHANGED counts \/ Fault, NEW step \in Steps \ {"idle", "open"}, GoTo(step), pc # "idle",
           pc \in Aimed <=> step \in Aimed, StandInv'
    PROVE  RInv'
  <1>1. PullTypes' /\ CallTypes' /\ BlameInv' /\ MendInv'
    BY TendedTypes, GoTypes
  <1>2. pending' \subseteq 1..head
    BY DEF RInv, ChosenInv
  <1> QED
    BY <1>1, <1>2, CallKeepsR

LEMMA BeginR ==
    ASSUME RInv, NEW c \in Commits, Begin(c), Remember
    PROVE  RInv'
  <1>1. /\ UNCHANGED World /\ UNCHANGED counts /\ Tended /\ MergedPulls' = MergedPulls
        /\ pc = "idle" /\ c \in pending /\ pending' \subseteq pending
    BY RestTends DEF RInv, Begin, forge
  <1>2. pending \subseteq 1..head
    BY DEF RInv, ChosenInv
  <1>3. CASE proof[c] = "failure"
    <2>1. /\ pc' = "search" /\ red' = c
          /\ UNCHANGED <<outcome, base, unitBase, first, last, named, act, patch, pull, head, mode, defined, faults>>
      BY <1>1, <1>3 DEF Begin, Enter, blame, plan, World, trunk, inputs, counts
    <2>2. CallTypes'
      BY <2>1 DEF RInv, CallTypes, Steps
    <2>3. BlameInv'
      BY <1>1, <1>2, <2>1 DEF RInv, BlameInv, Aimed
    <2>4. MendInv'
      BY <2>1 DEF MendInv
    <2>5. StandInv'
      BY <1>1, <2>1, StandStays DEF RInv
    <2>6. PullTypes'
      BY <1>1, TendedTypes
    <2> QED
      BY <1>1, <1>2, <2>2, <2>3, <2>4, <2>5, <2>6, CallKeepsR
  <1>4. CASE proof[c] # "failure"
    <2>1. PICK how \in Outcomes : End(how)
      BY <1>4 DEF Begin, Outcomes
    <2> QED
      BY <1>1, <1>2, <2>1, EndKeepsR
  <1> QED
    BY <1>3, <1>4

LEMMA StopR ==
    ASSUME RInv, Stop, Remember
    PROVE  RInv'
  <1>1. UNCHANGED World /\ Fault /\ Tended /\ MergedPulls' = MergedPulls /\ End("failed") /\ pc # "idle"
    BY RestTends DEF RInv, Stop, forge
  <1>2. red \in 1..head /\ pending \subseteq 1..head
    BY <1>1 DEF RInv, BlameInv, ChosenInv
  <1>3. pending' \subseteq 1..head
    BY <1>2 DEF Stop
  <1>4. "failed" \in Outcomes
    BY DEF Outcomes
  <1> QED
    BY <1>1, <1>3, <1>4, EndKeepsR

\* The search finds every open revert that is marked, unless it fails.
LEMMA SearchR ==
    ASSUME RInv, Search, Remember
    PROVE  RInv'
  <1>1. /\ UNCHANGED World /\ UNCHANGED pending /\ Tended /\ MergedPulls' = MergedPulls
        /\ pc = "search" /\ (UNCHANGED counts \/ Fault) /\ UNCHANGED <<pulls, mode, defined>>
    BY RestTends DEF RInv, Search, forge, World, inputs
  <1>2. pending' \subseteq 1..head
    BY <1>1 DEF RInv, ChosenInv
  <1>3. CASE End("in hand")
    BY <1>1, <1>2, <1>3, EndKeepsR DEF Outcomes
  <1>4. CASE GoTo("same sha") /\ (Fault \/ (UNCHANGED counts /\ ~(mode # "revert_pr_unarmed" /\ InHand # {})))
    <2>1. pc' = "same sha"
      BY <1>4 DEF GoTo, Enter
    <2>2. StandInv'
      <3>1. CASE Fault
        BY <3>1, FaultCounts DEF RInv, StandInv
      <3>2. CASE UNCHANGED counts /\ ~(mode # "revert_pr_unarmed" /\ InHand # {})
        <4>1. faults' = faults /\ Open' = Open
          BY <1>1, <3>2 DEF counts, Open
        <4>2. CASE mode = "revert_pr_unarmed"
          BY <1>1, <2>1, <4>1, <4>2 DEF RInv, StandInv
        <4>3. CASE mode # "revert_pr_unarmed"
          <5> SUFFICES ASSUME faults = 0, "auto-revert" \in defined
                       PROVE  Open = {} /\ \A p, q \in Open : p = q
            BY <1>1, <2>1, <4>1, <4>3 DEF StandInv
          <5>1. \A p \in Open : "auto-revert" \in pulls[p].labels
            BY <1>1, <4>3 DEF RInv, StandInv
          <5>2. InHand = {}
            BY <3>2, <4>3
          <5> QED
            BY <5>1, <5>2 DEF InHand
        <4> QED
          BY <4>2, <4>3
      <3> QED
        BY <1>4, <3>1, <3>2
    <2>3. "same sha" \in Steps \ {"idle", "open"} /\ (pc \in Aimed <=> "same sha" \in Aimed)
      BY <1>1 DEF Steps, Aimed
    <2> QED
      BY <1>1, <1>4, <2>2, <2>3, GoKeepsR
  <1> QED
    BY <1>3, <1>4 DEF Search

\* The other reads that only go on or end the call.
LEMMA ReadsR ==
    ASSUME RInv, SameSha \/ Proof \/ BaseProof, Remember
    PROVE  RInv'
  <1>1. /\ UNCHANGED World /\ UNCHANGED pending /\ UNCHANGED counts /\ Tended /\ MergedPulls' = MergedPulls
        /\ pc \in {"same sha", "proof", "base proof"} /\ UNCHANGED <<mode, defined, faults>>
    BY RestTends DEF RInv, SameSha, Proof, BaseProof, forge, World, inputs, counts
  <1>2. pending' \subseteq 1..head
    BY <1>1 DEF RInv, ChosenInv
  <1>3. \/ \E how \in Outcomes : End(how)
        \/ pc = "same sha" /\ GoTo("trace")
        \/ pc = "proof" /\ GoTo("base proof")
        \/ pc = "base proof" /\ GoTo("guard")
    BY DEF SameSha, Proof, BaseProof, Outcomes
  <1>4. ASSUME NEW how \in Outcomes, End(how) PROVE RInv'
    BY <1>1, <1>2, <1>4, EndKeepsR
  <1>5. ASSUME NEW step \in {"trace", "base proof", "guard"}, GoTo(step), pc = "same sha" <=> step = "trace"
        PROVE  RInv'
    <2>1. step \in Steps \ {"idle", "open"} /\ (pc \in Aimed <=> step \in Aimed) /\ pc' = step /\ pc # "idle"
      BY <1>1, <1>5 DEF Steps, Aimed, GoTo, Enter
    <2>2. StandInv'
      BY <1>1, <1>5, <2>1, StandStays DEF RInv, HasPull
    <2> QED
      BY <1>1, <1>5, <2>1, <2>2, GoKeepsR
  <1> QED
    BY <1>3, <1>4, <1>5

\* What is blamed: a commit that a confirmed failure begins with, or all those after a commit without it.
LEMMA BlamedBroke ==
    ASSUME RInv, UNCHANGED World, pc = "trace", Confirmed # {}, NEW b \in Commits, NEW own \in BOOLEAN,
           Baseline(b, own), Blame(b, own)
    PROVE  CallTypes' /\ BlameInv' /\ MendInv' /\ pc' = "proof"
  <1>1. /\ pc' = "proof" /\ base' = b /\ unitBase' = own
        /\ UNCHANGED <<outcome, red, act, patch, pull, head, tree, bad>>
    BY DEF Blame, Enter, plan, World, trunk
  <1>2. red \in 1..head /\ head \in Nat /\ head \in Commits
    BY HeadIsACommit DEF RInv, BlameInv
  <1>3. b \in Before(red)
    BY DEF Baseline, UnitBases, Newest
  <1>4. b \in 1..red - 1
    BY <1>3 DEF Before
  <1>5. Confirmed \subseteq Regions /\ \A r \in Confirmed : BadIn(red, r)
    BY DEF Confirmed
  <1>6. \E r \in Confirmed : ~BadIn(b, r)
    <2>1. CASE own = TRUE
      BY <2>1 DEF Baseline, UnitBases, Newest
    <2>2. CASE own = FALSE
      <3>1. proof[b] = "success"
        BY <2>2 DEF Baseline, Newest
      <3>2. ~Red(b)
        BY <3>1 DEF RInv, TrunkInv
      <3> QED
        BY <1>5, <3>2 DEF Red
    <2> QED
      BY <2>1, <2>2
  <1> DEFINE Found ==
        /\ first' \in b + 1..red /\ last' \in first'..red /\ named' \in BOOLEAN
        /\ \E r \in Regions :
              IF named' THEN first' = last' /\ BadIn(first, r)' /\ ~BadIn(first - 1, r)'
              ELSE first' = b + 1 /\ last' = red /\ BadIn(red, r) /\ ~BadIn(b, r)
  <1>7. Found
    <2>1. CASE first' = WindowStart(b) /\ last' = red /\ named' = FALSE
      <3>1. first' = b + 1
        BY <2>1 DEF WindowStart
      <3>2. first' \in b + 1..red /\ last' \in first'..red
        BY <1>2, <1>4, <2>1, <3>1
      <3> QED
        BY <1>5, <1>6, <2>1, <3>1, <3>2
    <2>2. ASSUME NEW c \in WindowStart(b)..red, Introduced(c), first' = c, last' = c, named' = TRUE
          PROVE  Found
      <3>1. c \in b + 1..red
        BY <2>2 DEF WindowStart
      <3>2. first' \in b + 1..red /\ last' \in first'..red
        BY <1>2, <1>4, <2>2, <3>1
      <3>3. PICK r \in Regions : BadIn(c, r) /\ ~BadIn(c - 1, r)
        BY <1>5, <2>2 DEF Introduced
      <3>4. BadIn(first, r)' /\ ~BadIn(first - 1, r)'
        BY <1>1, <2>2, <3>3 DEF BadIn
      <3> QED
        BY <2>2, <3>2, <3>4
    <2>3. \/ \E c \in WindowStart(b)..red : Introduced(c) /\ first' = c /\ last' = c /\ named' = TRUE
          \/ first' = WindowStart(b) /\ last' = red /\ named' = FALSE
      BY DEF Blame
    <2> HIDE DEF Found
    <2> QED
      BY <2>1, <2>2, <2>3
  <1>8. CallTypes'
    BY <1>1, <1>7 DEF RInv, CallTypes, Steps
  <1>9. BlameInv'
    BY <1>1, <1>2, <1>4, <1>7 DEF BlameInv, Aimed, Steps, BadIn
  <1>10. MendInv'
    BY <1>1 DEF MendInv
  <1> QED
    BY <1>1, <1>8, <1>9, <1>10

LEMMA TraceR ==
    ASSUME RInv, Trace, Remember
    PROVE  RInv'
  <1>1. /\ UNCHANGED World /\ UNCHANGED pending /\ (UNCHANGED counts \/ Fault) /\ Tended
        /\ MergedPulls' = MergedPulls /\ pc = "trace" /\ UNCHANGED <<mode, defined>>
    BY RestTends DEF RInv, Trace, forge, World, inputs
  <1>2. pending' \subseteq 1..head /\ (faults' = 0 => faults = 0)
    BY <1>1, FaultCounts DEF RInv, ChosenInv, counts
  <1>3. ASSUME NEW how \in Outcomes, End(how) PROVE RInv'
    BY <1>1, <1>2, <1>3, EndKeepsR
  <1>4. ASSUME Confirmed # {}, NEW b \in Commits, NEW own \in BOOLEAN, Baseline(b, own), Blame(b, own)
        PROVE  RInv'
    <2>1. CallTypes' /\ BlameInv' /\ MendInv' /\ pc' = "proof"
      BY <1>1, <1>4, BlamedBroke
    <2>2. StandInv'
      BY <1>1, <1>2, <2>1, StandStays DEF RInv, HasPull
    <2>3. PullTypes'
      BY <1>1, TendedTypes
    <2> QED
      BY <1>1, <1>2, <2>1, <2>2, <2>3, CallKeepsR
  <1> QED
    BY <1>3, <1>4 DEF Trace, Outcomes

LEMMA GuardR ==
    ASSUME RInv, Guard, Remember
    PROVE  RInv'
  <1>1. /\ UNCHANGED World /\ UNCHANGED pending /\ UNCHANGED counts /\ Tended
        /\ MergedPulls' = MergedPulls /\ pc = "guard" /\ UNCHANGED <<mode, defined, faults, head, tree, bad>>
    BY RestTends DEF RInv, Guard, forge, World, inputs, counts, trunk
  <1>2. pending' \subseteq 1..head
    BY <1>1 DEF RInv, ChosenInv
  <1>3. CASE End("protected")
    BY <1>1, <1>2, <1>3, EndKeepsR DEF Outcomes
  <1>4. ASSUME NEW frozen \in Freezes,
               act' = IF mode = "revert" /\ frozen THEN "revert_pr_unarmed" ELSE mode,
               Enter(IF act' = "revert_pr_unarmed" THEN "standing" ELSE "fetch"),
               UNCHANGED <<red, blame, patch, pull>>
        PROVE  RInv'
    <2>1. /\ pc' \in {"standing", "fetch"} /\ (mode = "revert_pr_unarmed" => pc' = "standing")
          /\ UNCHANGED <<outcome, red, base, unitBase, first, last, named, patch, pull>>
      BY <1>4 DEF Enter, blame
    <2>2. mode \in {"revert", "revert_pr_unarmed", "notify"}
      BY RepairAssumption DEF RInv, ChosenInv
    <2>3. CallTypes'
      BY <1>1, <1>4, <2>1, <2>2 DEF RInv, CallTypes, Steps
    <2>4. BlameInv'
      BY <1>1, <2>1 DEF RInv, BlameInv, Aimed, Steps, BadIn
    <2>5. MendInv'
      BY <2>1 DEF MendInv
    <2>6. StandInv'
      BY <1>1, <2>1, StandStays DEF RInv, HasPull
    <2>7. PullTypes'
      BY <1>1, TendedTypes
    <2> QED
      BY <1>1, <1>2, <2>3, <2>4, <2>5, <2>6, <2>7, CallKeepsR
  <1> QED
    BY <1>3, <1>4 DEF Guard

\* A call goes on to a revert only where none stands that names the culprit, unless the search fails.
LEMMA StandingR ==
    ASSUME RInv, Standing, Remember
    PROVE  RInv'
  <1>1. /\ UNCHANGED World /\ UNCHANGED pending /\ (UNCHANGED counts \/ Fault) /\ Tended
        /\ MergedPulls' = MergedPulls /\ pc = "standing" /\ UNCHANGED <<pulls, mode, defined>>
    BY RestTends DEF RInv, Standing, World, inputs
  <1>2. pending' \subseteq 1..head
    BY <1>1 DEF RInv, ChosenInv
  <1>3. CASE End("standing")
    BY <1>1, <1>2, <1>3, EndKeepsR DEF Outcomes
  <1>4. CASE GoTo("fetch") /\ (Fault \/ (UNCHANGED counts /\ \A p \in Open : ~Names(p)))
    <2>1. pc' = "fetch" /\ first' = first
      BY <1>4 DEF GoTo, Enter, blame
    <2>2. StandInv'
      <3>1. CASE Fault
        BY <3>1, FaultCounts DEF RInv, StandInv
      <3>2. CASE UNCHANGED counts /\ \A p \in Open : ~Names(p)
        <4>1. faults' = faults /\ Open' = Open /\ \A p \in Open : ~Names(p)'
          BY <1>1, <2>1, <3>2 DEF counts, Open, Names
        <4>2. CASE mode = "revert_pr_unarmed"
          BY <1>1, <4>1, <4>2 DEF RInv, StandInv
        <4>3. CASE mode # "revert_pr_unarmed"
          BY <1>1, <2>1, <4>1, <4>3, StandStays DEF RInv, HasPull
        <4> QED
          BY <4>2, <4>3
      <3> QED
        BY <1>4, <3>1, <3>2
    <2>3. "fetch" \in Steps \ {"idle", "open"} /\ (pc \in Aimed <=> "fetch" \in Aimed)
      BY <1>1 DEF Steps, Aimed
    <2> QED
      BY <1>1, <1>4, <2>2, <2>3, GoKeepsR
  <1> QED
    BY <1>3, <1>4 DEF Standing

\* A patch holds only contents of the trunk.
LEMMA PatchTypes ==
    ASSUME TrunkInv, first \in 2..head, last \in first..head
    PROVE  Patch(tree[head]) \subseteq Patches(head)
  <1>1. head \in Nat /\ head \in Commits /\ 1..head \subseteq Commits
    BY HeadIsACommit
  <1>2. \A c \in 1..head, r \in Regions : tree[c][r] \in 0..head
    BY <1>1 DEF TrunkInv
  <1>3. head \in 1..head
    BY <1>1
  <1>4. ASSUME NEW r \in Regions PROVE Reverted(tree[head], last)[r] \in 0..head
    <2> DEFINE changes == {c \in first..last : r \in Changed(c)}
    <2>1. Reverted(tree[head], last)[r] =
             IF changes = {} THEN tree[head][r] ELSE tree[(CHOOSE c \in changes : Newest(c, changes)) - 1][r]
      BY DEF Reverted
    <2>2. changes \in SUBSET (0..head) /\ changes \subseteq first..last
      BY <1>1
    <2> HIDE DEF changes
    <2>3. CASE changes = {}
      BY <1>2, <1>3, <2>1, <2>3
    <2>4. CASE changes # {}
      <3>1. \E c \in changes : Newest(c, changes)
        BY <1>1, <2>2, <2>4, LastOfSome DEF Newest
      <3>2. PICK m \in changes : m = CHOOSE c \in changes : Newest(c, changes)
        BY <3>1
      <3>3. m \in first..last
        BY <2>2
      <3>4. m - 1 \in 1..head
        BY <1>1, <3>3
      <3> QED
        BY <1>2, <2>1, <2>4, <3>2, <3>4
    <2> QED
      BY <2>3, <2>4
  <1>5. \A r \in Regions : tree[head][r] \in 0..head
    BY <1>2, <1>3
  <1> QED
    BY <1>4, <1>5 DEF Patch, Patches

\* A revert of commits that change one region each takes out a break.
LEMMA PatchMends ==
    ASSUME TrunkInv, BlameInv, pc = "fetch", RevertApplies(tree[head]), \A c \in Blamed : ChangesOne(c)
    PROVE  \E x \in Patch(tree[head]) : x.from \in bad /\ x.to \notin bad
  <1>1. red \in 1..head /\ base \in 1..red - 1 /\ first \in base + 1..red /\ last \in first..red
    BY DEF BlameInv, Aimed, Steps
  <1>2. head \in Nat /\ head \in Commits
    BY HeadIsACommit
  <1>3. first \in Nat \ {0} /\ last \in Nat /\ first <= last
    BY <1>1, <1>2
  <1>4. tree[head] = [q \in Regions |-> tree[head][q]]
    BY <1>2 DEF TrunkInv
  <1>5. PICK r \in Regions : IF named THEN first = last /\ BadIn(first, r) /\ ~BadIn(first - 1, r)
                             ELSE first = base + 1 /\ last = red /\ BadIn(red, r) /\ ~BadIn(base, r)
    BY DEF BlameInv, Aimed, Steps
  <1>6. tree[head][r] \in bad /\ Reverted(tree[head], last)[r] \notin bad
    <2>1. CASE named
      <3>1. last = first /\ ChangesOne(first)
        BY <1>3, <1>5, <2>1 DEF Blamed
      <3> QED
        BY <1>3, <1>4, <1>5, <2>1, <3>1, CulpritIsTakenOut
    <2>2. CASE ~named
      <3>1. first - 1 = base /\ BadIn(last, r) /\ ~BadIn(first - 1, r)
        BY <1>1, <1>5, <2>2
      <3> QED
        BY <1>3, <1>4, <3>1, WindowIsTakenOut DEF Blamed
    <2> QED
      BY <2>1, <2>2
  <1>7. Reverted(tree[head], last)[r] # tree[head][r]
    BY <1>6
  <1>8. [region |-> r, from |-> tree[head][r], to |-> Reverted(tree[head], last)[r]] \in Patch(tree[head])
    BY <1>7 DEF Patch
  <1> QED
    BY <1>6, <1>8

LEMMA FetchR ==
    ASSUME RInv, Fetch, Remember
    PROVE  RInv'
  <1>1. /\ UNCHANGED World /\ UNCHANGED pending /\ UNCHANGED counts /\ Tended /\ MergedPulls' = MergedPulls
        /\ pc = "fetch" /\ UNCHANGED <<mode, defined, faults, head, tree, bad>>
    BY RestTends DEF RInv, Fetch, forge, World, inputs, counts, trunk
  <1>2. pending' \subseteq 1..head
    BY <1>1 DEF RInv, ChosenInv
  <1>3. ASSUME NEW how \in Outcomes, End(how) PROVE RInv'
    BY <1>1, <1>2, <1>3, EndKeepsR
  <1>4. CASE /\ RevertApplies(tree[head]) /\ patch' = Patch(tree[head]) /\ Enter("open")
             /\ UNCHANGED <<red, blame, act, pull>>
    <2>1. pc' = "open" /\ UNCHANGED <<outcome, red, base, unitBase, first, last, named, act, pull>>
      BY <1>4 DEF Enter, blame
    <2>2. red \in 1..head /\ base \in 1..red - 1 /\ first \in base + 1..red /\ last \in first..red
      BY <1>1 DEF RInv, BlameInv, Aimed, Steps
    <2>3. head \in Nat
      BY HeadIsACommit DEF RInv
    <2>4. first \in 2..head /\ last \in first..head
      BY <2>2, <2>3
    <2>5. patch' \subseteq Patches(head)
      BY <1>4, <2>4, PatchTypes DEF RInv
    <2>6. CallTypes'
      BY <1>1, <2>1, <2>5 DEF RInv, CallTypes, Steps
    <2>7. BlameInv'
      BY <1>1, <2>1 DEF RInv, BlameInv, Aimed, Steps, BadIn
    <2>8. MendInv'
      <3> SUFFICES ASSUME \A c \in Blamed' : ChangesOne(c)'
                   PROVE  \E x \in patch' : x.from \in bad /\ x.to \notin bad
        BY <1>1 DEF MendInv
      <3>1. \A c \in Blamed : ChangesOne(c)
        BY <1>1, <2>1 DEF Blamed, ChangesOne, Changed
      <3> QED
        BY <1>1, <1>4, <3>1, PatchMends DEF RInv
    <2>9. StandInv'
      BY <1>1, <2>1, StandStays DEF RInv, HasPull
    <2>10. PullTypes'
      BY <1>1, TendedTypes
    <2> QED
      BY <1>1, <1>2, <2>6, <2>7, <2>8, <2>9, <2>10, CallKeepsR
  <1> QED
    BY <1>3, <1>4 DEF Fetch, Outcomes

\* A new pull request is of the blamed commits, and the only one of its culprit.
LEMMA NewPullIs ==
    ASSUME RInv, NEW p \in Pulls, OpenPull(p)
    PROVE  /\ pulls' \in [Pulls -> PullsWith(head)] /\ MergedPulls' = MergedPulls /\ Open' = Open \cup {p}
           /\ pulls'[p].first = first /\ pulls'[p].last = last /\ pulls'[p].patch = patch
           /\ \A q \in Pulls : q # p => pulls'[q] = pulls[q]
           /\ ~Opened(p)
  <1> DEFINE x == [NewPull EXCEPT !.state = "open", !.first = first, !.last = last,
                                  !.unarmed = act = "revert_pr_unarmed", !.patch = patch]
  <1>1. pc = "open" /\ pulls' = [pulls EXCEPT ![p] = x] /\ pulls[p].state = "none"
    BY DEF OpenPull, Create
  <1>2. red \in 1..head /\ base \in 1..red - 1 /\ first \in base + 1..red /\ last \in first..red
    BY <1>1 DEF RInv, BlameInv, Aimed, Steps
  <1>3. head \in Nat
    BY HeadIsACommit DEF RInv
  <1>4. first \in 0..head /\ last \in 0..head /\ 0 \in 0..head
    BY <1>2, <1>3
  <1>5. patch \subseteq Patches(head) /\ {} \subseteq Patches(head)
    BY DEF RInv, CallTypes
  <1>6. NewPull \in PullsWith(head)
    BY <1>4 DEF NewPull, PullsWith, Places
  <1>7. x \in PullsWith(head) /\ x.state = "open" /\ x.first = first /\ x.last = last /\ x.patch = patch
    BY <1>4, <1>5, <1>6 DEF PullsWith
  <1> HIDE DEF x
  <1>8. pulls' \in [Pulls -> PullsWith(head)] /\ pulls'[p] = x /\ \A q \in Pulls : q # p => pulls'[q] = pulls[q]
    BY <1>1, <1>7 DEF RInv, PullTypes
  <1>9. Open' = Open \cup {p} /\ MergedPulls' = MergedPulls
    BY <1>1, <1>7, <1>8 DEF Open, MergedPulls
  <1> QED
    BY <1>1, <1>7, <1>8, <1>9 DEF Opened

LEMMA OpenPullR ==
    ASSUME IInv, RInv, NEW p \in Pulls, OpenPull(p), Remember
    PROVE  RInv'
  <1>1. /\ pulls' \in [Pulls -> PullsWith(head)] /\ MergedPulls' = MergedPulls /\ Open' = Open \cup {p}
        /\ pulls'[p].first = first /\ pulls'[p].last = last
        /\ \A q \in Pulls : q # p => pulls'[q] = pulls[q]
        /\ ~Opened(p)
    BY NewPullIs
  <1>2. /\ UNCHANGED World /\ UNCHANGED pending /\ pc = "open" /\ UNCHANGED <<mode, defined, head, tree, bad>>
    BY DEF OpenPull, World, inputs, trunk
  <1>3. pending' \subseteq 1..head /\ PullTypes'
    BY <1>1, <1>2 DEF RInv, ChosenInv, PullTypes
  <1>4. CASE Fault /\ End("failed")
    <2>1. CallTypes' /\ BlameInv' /\ MendInv'
      BY <1>2, <1>4, EndTypes DEF Outcomes
    <2>2. StandInv'
      BY <1>4, FaultCounts DEF RInv, StandInv
    <2> QED
      BY <1>1, <1>2, <1>3, <1>4, <2>1, <2>2, CallKeepsR
  <1>5. CASE Enter("label") /\ pull' = p /\ UNCHANGED <<red, blame, act, patch, counts>>
    <2>1. /\ pc' = "label" /\ pull' = p /\ faults' = faults
          /\ UNCHANGED <<outcome, red, base, unitBase, first, last, named, act, patch>>
      BY <1>5 DEF Enter, blame, counts
    <2>2. CallTypes'
      BY <1>2, <2>1 DEF RInv, CallTypes, Steps
    <2>3. BlameInv'
      BY <1>2, <2>1 DEF RInv, BlameInv, Aimed, Steps, BadIn
    <2>4. MendInv'
      BY <2>1 DEF MendInv
    <2>5. p \notin Open
      BY <1>1 DEF Open, Opened
    <2>6. \A q \in Open : q \in Pulls /\ q # p /\ pulls'[q] = pulls[q] /\ ~(p < q)
      <3> SUFFICES ASSUME NEW q \in Open PROVE q \in Pulls /\ q # p /\ pulls'[q] = pulls[q] /\ ~(p < q)
        OBVIOUS
      <3>1. q \in Pulls /\ q # p /\ Opened(q)
        BY <2>5 DEF Open, Opened
      <3>2. ~(p < q)
        BY <1>1, <3>1 DEF IInv, InOrder
      <3> QED
        BY <1>1, <3>1, <3>2
    <2>7. StandInv'
      <3> SUFFICES ASSUME faults = 0, "auto-revert" \in defined
                   PROVE  IF mode = "revert_pr_unarmed"
                          THEN \A a, b \in Open' : a < b => pulls'[b].first \notin pulls'[a].first..pulls'[a].last
                          ELSE Open' = {p}
        BY <1>2, <2>1 DEF StandInv, HasPull
      <3>1. CASE mode = "revert_pr_unarmed"
        <4>1. /\ \A a, b \in Open : a < b => pulls[b].first \notin pulls[a].first..pulls[a].last
              /\ \A a \in Open : first \notin pulls[a].first..pulls[a].last
          BY <1>2, <3>1 DEF RInv, StandInv, Names
        <4>2. ASSUME NEW a \in Open', NEW b \in Open', a < b
              PROVE  pulls'[b].first \notin pulls'[a].first..pulls'[a].last
          <5>1. a # p
            <6>1. CASE b = p
              BY <2>5, <4>2, <6>1 DEF Pulls
            <6>2. CASE b # p
              BY <1>1, <2>6, <4>2, <6>2
            <6> QED
              BY <6>1, <6>2
          <5>2. a \in Open /\ pulls'[a] = pulls[a]
            BY <1>1, <2>6, <5>1
          <5>3. CASE b = p
            BY <1>1, <4>1, <5>2, <5>3
          <5>4. CASE b # p
            BY <1>1, <2>6, <4>1, <4>2, <5>2, <5>4
          <5> QED
            BY <5>3, <5>4
        <4> QED
          BY <3>1, <4>2
      <3>2. CASE mode # "revert_pr_unarmed"
        <4>1. Open = {}
          BY <1>2, <3>2 DEF RInv, StandInv, HasPull
        <4> QED
          BY <1>1, <3>2, <4>1
      <3> QED
        BY <3>1, <3>2
    <2> QED
      BY <1>1, <1>2, <1>3, <1>5, <2>2, <2>3, <2>4, <2>7, CallKeepsR
  <1> QED
    BY <1>4, <1>5 DEF OpenPull

\* The labels mark the call's own pull request, unless the request fails.
LEMMA LabelR ==
    ASSUME IInv, RInv, Label, Remember
    PROVE  RInv'
  <1>1. /\ UNCHANGED World /\ UNCHANGED pending /\ pc = "label" /\ (UNCHANGED counts \/ Fault)
        /\ UNCHANGED <<mode, defined, head, tree, bad>>
    BY DEF Label, World, inputs, trunk
  <1>2. pull \in Pulls
    BY <1>1 DEF IInv, PullInv, HasPull
  <1>3. /\ pulls' \in [Pulls -> PullsWith(head)] /\ Open' = Open /\ MergedPulls' = MergedPulls
        /\ \A q \in Pulls : /\ pulls'[q].first = pulls[q].first /\ pulls'[q].last = pulls[q].last
                            /\ q # pull => pulls'[q].labels = pulls[q].labels
        /\ Fault \/ (UNCHANGED counts /\ pulls'[pull].labels = ToSet \cap defined)
    <2>1. CASE UNCHANGED pulls /\ Fault
      BY <2>1 DEF RInv, PullTypes, Open, MergedPulls
    <2>2. CASE pulls' = [pulls EXCEPT ![pull].labels = ToSet \cap defined] /\ UNCHANGED counts
      <3> DEFINE x == [pulls[pull] EXCEPT !.labels = ToSet \cap defined]
      <3>1. pulls[pull] \in PullsWith(head)
        BY <1>2 DEF RInv, PullTypes
      <3>2. /\ x \in PullsWith(head) /\ x.state = pulls[pull].state /\ x.first = pulls[pull].first
            /\ x.last = pulls[pull].last /\ x.labels = ToSet \cap defined
        BY <3>1 DEF PullsWith, ToSet, Labels
      <3>3. pulls' = [pulls EXCEPT ![pull] = x]
        BY <2>2 DEF RInv, PullTypes
      <3> HIDE DEF x
      <3>4. pulls' \in [Pulls -> PullsWith(head)] /\ pulls'[pull] = x /\ \A q \in Pulls : q # pull => pulls'[q] = pulls[q]
        BY <1>2, <3>2, <3>3 DEF RInv, PullTypes
      <3> QED
        BY <2>2, <3>2, <3>4 DEF Open, MergedPulls
    <2> QED
      BY <2>1, <2>2 DEF Label
  <1>4. pending' \subseteq 1..head /\ PullTypes'
    BY <1>1, <1>3 DEF RInv, ChosenInv, PullTypes
  <1>5. CallTypes' /\ BlameInv' /\ MendInv' /\ pc' \in {"arm", "idle"}
    <2>1. CASE GoTo("arm")
      <3>1. pc' = "arm" /\ "arm" \in Steps \ {"idle", "open"} /\ (pc \in Aimed <=> "arm" \in Aimed)
        BY <1>1, <2>1 DEF GoTo, Enter, Steps, Aimed
      <3> QED
        BY <1>1, <2>1, <3>1, GoTypes
    <2>2. CASE End("unarmed")
      <3>1. pc' = "idle"
        BY <2>2 DEF End
      <3> QED
        BY <1>1, <2>2, <3>1, EndTypes DEF Outcomes
    <2> QED
      BY <2>1, <2>2 DEF Label
  <1>6. StandInv'
    <2> SUFFICES ASSUME faults' = 0, "auto-revert" \in defined
                 PROVE  IF mode = "revert_pr_unarmed"
                        THEN \A p, q \in Open : p < q => pulls'[q].first \notin pulls'[p].first..pulls'[p].last
                        ELSE (\A p, q \in Open : p = q) /\ \A p \in Open : "auto-revert" \in pulls'[p].labels
      BY <1>1, <1>3, <1>5 DEF StandInv, HasPull
    <2>1. faults = 0 /\ pulls'[pull].labels = ToSet \cap defined
      BY <1>3, FaultCounts DEF RInv, counts
    <2>2. "auto-revert" \in pulls'[pull].labels
      BY <2>1 DEF ToSet, Labels
    <2>3. Open \subseteq Pulls
      BY DEF Open
    <2>4. CASE mode = "revert_pr_unarmed"
      BY <1>3, <2>1, <2>3, <2>4 DEF RInv, StandInv
    <2>5. CASE mode # "revert_pr_unarmed"
      <3>1. /\ \A p, q \in Open : p = q
            /\ \A p \in Open : "auto-revert" \in pulls[p].labels \/ p = pull
        BY <2>1, <2>5 DEF RInv, StandInv
      <3> QED
        BY <1>3, <2>2, <2>3, <2>5, <3>1
    <2> QED
      BY <2>4, <2>5
  <1> QED
    BY <1>1, <1>3, <1>4, <1>5, <1>6, CallKeepsR

\* The steps of a call that has marked its pull request: they open nothing and mark nothing.
LEMMA HeldR ==
    ASSUME IInv, RInv, Arm \/ CountOthers \/ QueueState \/ Dequeue \/ Jump, Remember
    PROVE  RInv'
  <1>1. /\ UNCHANGED World /\ UNCHANGED pending /\ (UNCHANGED counts \/ Fault) /\ UNCHANGED <<mode, defined>>
        /\ pc \in {"arm", "others", "queue", "dequeue", "jump"}
    BY DEF Arm, CountOthers, QueueState, Dequeue, Jump, World, inputs
  <1>2. pull \in Pulls /\ PullTypes
    BY <1>1 DEF IInv, PullInv, HasPull, RInv
  <1>3. Tended /\ MergedPulls' = MergedPulls
    BY <1>2, RestTends, ArmTends, DequeueTends, JumpTends DEF CountOthers, QueueState, forge
  <1>4. pending' \subseteq 1..head /\ (faults' = 0 => faults = 0)
    BY <1>1, FaultCounts DEF RInv, ChosenInv, counts
  <1>5. CASE End("reverted")
    BY <1>1, <1>3, <1>4, <1>5, EndKeepsR DEF Outcomes
  <1>6. ASSUME NEW step \in {"others", "queue", "dequeue", "jump"}, GoTo(step) PROVE RInv'
    <2>1. step \in Steps \ {"idle", "open"} /\ (pc \in Aimed <=> step \in Aimed) /\ pc' = step /\ pc # "idle"
      BY <1>1, <1>6 DEF Steps, Aimed, GoTo, Enter
    <2>2. StandInv'
      BY <1>1, <1>3, <1>4, <2>1, StandStays DEF RInv, HasPull
    <2> QED
      BY <1>1, <1>3, <1>6, <2>1, <2>2, GoKeepsR
  <1> QED
    BY <1>5, <1>6 DEF Arm, CountOthers, QueueState, Dequeue, Jump

LEMMA InitR == Init => RInv
  <1> SUFFICES ASSUME Init PROVE RInv
    OBVIOUS
  <1> USE DEF Init
  <1>1. \A p \in Pulls : pulls[p] = NewPull
    OBVIOUS
  <1>2. MergedPulls = {} /\ Open = {}
    BY <1>1 DEF MergedPulls, Open, NewPull
  <1>3. Cardinality(MergedPulls) = 0
    BY <1>2, FS_EmptySet
  <1>4. head = 1 /\ 1 \in Commits /\ \A c \in Commits : c \in Nat /\ c >= 1
    BY Bounds DEF Commits
  <1>5. TrunkInv
    <2>1. head \in 1..MaxChanges + Cardinality(MergedPulls)
      BY <1>3, <1>4, Bounds
    <2>2. tree \in [Commits -> [Regions -> 0..head]] /\ bad \subseteq 0..head
      BY <1>4
    <2>3. proof \in [Commits -> Proofs]
      BY DEF Proofs
    <2>4. \A c \in Commits : ~Red(c)
      BY DEF Red, BadIn
    <2>5. \A c \in Commits : (proof[c] = "absent" <=> head < c) /\ proof[c] # "failure"
      BY <1>4
    <2> QED
      BY <2>1, <2>2, <2>3, <2>4, <2>5 DEF TrunkInv
  <1>6. ChosenInv
    BY Bounds, RepairAssumption DEF ChosenInv
  <1>7. PullTypes
    <2>1. NewPull \in PullsWith(head)
      BY <1>4 DEF NewPull, PullsWith, Places
    <2> QED
      BY <2>1 DEF PullTypes
  <1>8. CallTypes
    BY RepairAssumption DEF CallTypes, Steps, Outcomes
  <1>9. BlameInv
    BY <1>4 DEF BlameInv, Aimed
  <1>10. MendInv
    BY DEF MendInv
  <1>11. StandInv
    BY <1>2 DEF StandInv
  <1> QED
    BY <1>5, <1>6, <1>7, <1>8, <1>9, <1>10, <1>11 DEF RInv

LEMMA StutterR == RInv /\ UNCHANGED vars => RInv'
  <1> SUFFICES ASSUME RInv, UNCHANGED vars PROVE RInv'
    OBVIOUS
  <1> USE DEF vars, trunk, forge, inputs, call, blame, plan, counts
  <1>1. Open' = Open /\ MergedPulls' = MergedPulls
    BY DEF Open, MergedPulls
  <1>2. TrunkInv'
    BY <1>1, TrunkRests DEF RInv
  <1>3. ChosenInv' /\ PullTypes' /\ CallTypes'
    BY DEF RInv, ChosenInv, PullTypes, CallTypes
  <1>4. BlameInv'
    BY DEF RInv, BlameInv, BadIn
  <1>5. MendInv'
    BY DEF RInv, MendInv, Blamed, ChangesOne, Changed
  <1>6. StandInv'
    BY <1>1 DEF RInv, StandInv, Names
  <1> QED
    BY <1>2, <1>3, <1>4, <1>5, <1>6 DEF RInv

LEMMA NextR == IInv /\ RInv /\ [Next]_vars => RInv'
  <1> SUFFICES ASSUME IInv, RInv, [Next]_vars PROVE RInv'
    OBVIOUS
  <1>1. CASE (Outside \/ MergeQueue) /\ Remember
    BY <1>1, OutsideR
  <1>2. CASE (\E c \in Commits : Begin(c)) /\ Remember
    BY <1>2, BeginR
  <1>3. CASE Handler /\ Remember
    BY <1>3, SearchR, ReadsR, TraceR, GuardR, StandingR, FetchR, OpenPullR, LabelR, HeldR DEF Handler
  <1>4. CASE Stop /\ Remember
    BY <1>4, StopR
  <1>5. CASE UNCHANGED vars
    BY <1>5, StutterR
  <1> QED
    BY <1>1, <1>2, <1>3, <1>4, <1>5 DEF Next

LEMMA RInvHolds == Spec => [](IInv /\ RInv)
  <1>1. Init => IInv /\ RInv
    BY InitInv, InitR
  <1>2. IInv /\ RInv /\ [Next]_vars => (IInv /\ RInv)'
    BY NextInv, NextR
  <1> QED
    BY <1>1, <1>2, PTL DEF Spec


-----------------------------------------------------------------------------
(* What the runs check.                                                    *)

LEMMA ContentsInTypes ==
    ASSUME TrunkInv
    PROVE  /\ PullsWith(head) \subseteq
                 [state : {"none", "open", "closed", "merged"}, first : Contents, last : Contents,
                  unarmed : BOOLEAN,
                  patch : SUBSET [region : Regions, from : Contents, to : Contents],
                  labels : SUBSET Labels, armed : BOOLEAN, place : Places]
           /\ Patches(head) \subseteq [region : Regions, from : Contents, to : Contents]
           /\ 0..head \subseteq Contents /\ 1..head \subseteq Commits /\ head \in Commits
  <1>1. 0..head \subseteq Contents /\ 1..head \subseteq Commits /\ head \in Commits
    BY HeadIsACommit
  <1> HIDE DEF Contents
  <1>2. Patches(head) \subseteq [region : Regions, from : Contents, to : Contents]
    BY <1>1 DEF Patches
  <1>3. SUBSET Patches(head) \subseteq SUBSET [region : Regions, from : Contents, to : Contents]
    BY <1>2
  <1> DEFINE small == SUBSET Patches(head)
             large == SUBSET [region : Regions, from : Contents, to : Contents]
  <1> HIDE DEF small, large
  <1>4. small \subseteq large
    BY <1>3 DEF small, large
  <1>5. [state : {"none", "open", "closed", "merged"}, first : 0..head, last : 0..head,
         unarmed : BOOLEAN, patch : small, labels : SUBSET Labels, armed : BOOLEAN, place : Places]
        \subseteq
        [state : {"none", "open", "closed", "merged"}, first : Contents, last : Contents,
         unarmed : BOOLEAN, patch : large, labels : SUBSET Labels, armed : BOOLEAN, place : Places]
    BY <1>1, <1>4
  <1> QED
    BY <1>1, <1>2, <1>5 DEF PullsWith, small, large

LEMMA TypesHold == IInv /\ RInv => TypeOK
  <1> SUFFICES ASSUME IInv, RInv PROVE TypeOK
    OBVIOUS
  <1>1. TrunkInv /\ ChosenInv /\ PullTypes /\ CallTypes /\ BlameInv
    BY DEF RInv
  <1>2. /\ 0..head \subseteq Contents /\ 1..head \subseteq Commits /\ head \in Commits
        /\ Patches(head) \subseteq [region : Regions, from : Contents, to : Contents]
    BY <1>1, ContentsInTypes
  <1>3. tree \in [Commits -> [Regions -> Contents]] /\ bad \subseteq Contents /\ proof \in [Commits -> Proofs]
    <2> HIDE DEF Contents
    <2>1. [Regions -> 0..head] \subseteq [Regions -> Contents]
      BY <1>2
    <2> QED
      BY <1>1, <1>2, <2>1 DEF TrunkInv
  <1>4. pulls \in [Pulls -> [state : {"none", "open", "closed", "merged"}, first : Contents, last : Contents,
                             unarmed : BOOLEAN,
                             patch : SUBSET [region : Regions, from : Contents, to : Contents],
                             labels : SUBSET Labels, armed : BOOLEAN, place : Places]]
    BY <1>1, ContentsInTypes DEF PullTypes
  <1>5. recent \subseteq Pulls /\ jumps \subseteq recent
    BY DEF IInv, JumpInv
  <1>6. /\ mode \in Modes /\ revertWindow \in BOOLEAN /\ migrations \in MigrationSets /\ defined \in LabelSets
        /\ shielded \subseteq Commits /\ spared \subseteq Commits /\ pending \subseteq Commits
        /\ faults \in 0..MaxFaults /\ events \in 0..MaxEvents
    BY <1>1, <1>2 DEF ChosenInv
  <1>7. /\ pc \in Steps /\ outcome \in Outcomes /\ act \in {"revert", "revert_pr_unarmed", "notify"}
        /\ unitBase \in BOOLEAN /\ named \in BOOLEAN /\ pull \in Pulls \cup {NoPull}
        /\ patch \subseteq [region : Regions, from : Contents, to : Contents]
    BY <1>1, <1>2 DEF CallTypes
  <1>8. red \in 0..head /\ head \in Nat
    <2>1. head \in Nat
      BY <1>1, HeadIsACommit
    <2> QED
      BY <1>1, <2>1 DEF BlameInv
  <1>9. /\ base \in 0..head /\ first \in 0..head /\ last \in 0..head
        /\ first # 0 => base < first /\ first <= last /\ last <= red
    <2>1. CASE pc \in Aimed
      <3>1. base \in 1..red - 1 /\ first \in base + 1..red /\ last \in first..red
        BY <1>1, <2>1 DEF BlameInv
      <3> QED
        BY <1>8, <3>1
    <2>2. CASE pc \notin Aimed
      BY <1>1, <1>8, <2>2 DEF BlameInv
    <2> QED
      BY <2>1, <2>2
  <1>10. red \in Contents /\ base \in Contents /\ first \in Contents /\ last \in Contents
    BY <1>2, <1>8, <1>9
  <1> QED
    BY <1>2, <1>3, <1>4, <1>5, <1>6, <1>7, <1>9, <1>10 DEF TypeOK

\* Every variable keeps its type; and unless a request failed, and where the label that marks a revert is
\* defined, two reverts are open at once only where reverts wait for people, and not of the same culprit.
THEOREM RevertsAreSound == Spec => []RevertInv
  <1>1. IInv /\ RInv => OneOpenRevert
    <2> SUFFICES ASSUME RInv, faults = 0, "auto-revert" \in defined, NEW p \in Open, NEW q \in Open, p < q
                 PROVE  mode = "revert_pr_unarmed" /\ pulls[q].first \notin pulls[p].first..pulls[p].last
      BY DEF OneOpenRevert
    <2>1. StandInv /\ p # q
      BY DEF RInv, Open, Pulls
    <2> QED
      BY <2>1 DEF StandInv
  <1>2. IInv /\ RInv => RevertInv
    BY <1>1, TypesHold DEF RevertInv
  <1> QED
    BY <1>2, RInvHolds, PTL

LEMMA MendStep ==
    ASSUME IInv, RInv, [Next]_vars, NEW p \in Pulls, pulls[p].state = "none", pulls'[p].state = "open",
           \A c \in pulls'[p].first..pulls'[p].last : ChangesOne(c)
    PROVE  \E x \in pulls'[p].patch : x.from \in bad /\ x.to \notin bad
  <1>1. ~Opened(p) /\ Opened(p)'
    BY DEF Opened
  <1>2. PICK q \in Pulls : OpenPull(q)
    BY <1>1, OnlyTheHandlerOpens
  <1>3. /\ pulls'[q].first = first /\ pulls'[q].last = last /\ pulls'[q].patch = patch
        /\ \A r \in Pulls : r # q => pulls'[r] = pulls[r]
    BY <1>2, NewPullIs
  <1>4. p = q
    BY <1>3
  <1>5. pc = "open"
    BY <1>2 DEF OpenPull
  <1> QED
    BY <1>3, <1>4, <1>5 DEF RInv, MendInv, Blamed

\* Every revert of commits that change one part of the tree each, be it of a named culprit or of a whole
\* window, takes out something broken and puts something sound in its place when it is opened.
THEOREM RevertsMend == Spec => RevertRemovesABreak
  <1>1. IInv /\ RInv /\ [Next]_vars =>
           \A p \in Pulls :
              /\ pulls[p].state = "none" /\ pulls'[p].state = "open"
              /\ \A c \in pulls'[p].first..pulls'[p].last : ChangesOne(c)
              => \E x \in pulls'[p].patch : x.from \in bad /\ x.to \notin bad
    BY MendStep
  <1> QED
    BY <1>1, RInvHolds, PTL DEF Spec, RevertRemovesABreak
=============================================================================
