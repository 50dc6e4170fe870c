--------------------------- MODULE RedMainRepair ---------------------------
(***************************************************************************)
(* What the repair handler does about a red trunk once it knows whom to    *)
(* blame (.github/workflows/red-main.yml, mode repair): it may open one    *)
(* revert, arm it and jump the merge queue.  Each red verify run has one   *)
(* call; the calls run one at a time, but each takes many requests, and    *)
(* meanwhile commits land, reverts merge, conflict or are closed, people   *)
(* shield pull requests, and calls are cut off.  How a call finds the      *)
(* commits it blames is RedMainTrace; here it may end in any way that      *)
(* module's properties allow.                                              *)
(***************************************************************************)
EXTENDS Integers, FiniteSets

CONSTANTS
    Regions,         \* parts of the tree: a commit that is no revert changes one of them
    MigrationSets,   \* the regions that may be migration paths: a set of sets
    MaxChanges,      \* bound on the commits that are no reverts of the handler
    MaxPulls,        \* bound on the handler's pull requests
    Modes,           \* the values of on_red in play
    Freezes,         \* whether a deploy freeze may be on: a set of Booleans
    LabelSets,       \* the labels the repository defines: a set of sets
    WindowInputs,    \* the values of revert-window: a set of Booleans
    Extra,           \* commits fetched beyond the window (depth)
    MaxFaults,       \* bound on failed requests and jobs cut off
    MaxEvents        \* bound on what people do: reruns, shields and decisions

ASSUME RepairAssumption ==
    /\ MigrationSets \subseteq SUBSET Regions
    /\ MaxChanges \in Nat \ {0} /\ MaxPulls \in Nat /\ Extra \in Nat
    /\ Modes \subseteq {"revert", "revert_pr_unarmed", "notify"}
    /\ Freezes \subseteq BOOLEAN /\ WindowInputs \subseteq BOOLEAN
    /\ LabelSets \subseteq SUBSET {"auto-revert", "queue-jump:red-main"}
    /\ MaxFaults \in Nat /\ MaxEvents \in Nat

VARIABLES
    head, tree, bad,          \* the trunk: the content of each region in each commit; the broken contents
    proof,                    \* the verdict of the newest verify run of each commit
    shielded,                 \* commits whose pull request carries a protected label
    pulls,                    \* the handler's pull requests
    recent, jumps,            \* those updated in the last 30 minutes, and those of them that jumped
    mode, revertWindow, migrations, defined, \* what the repository chose
    pending,                  \* red commits whose call waits
    pc, red,                  \* the step of the call and the commit of its run
    base, unitBase,           \* the baseline, and whether it is the traced units' own
    first, last, named,       \* the commits blamed, and whether they are one named culprit
    act,                      \* what the call does: on_red, but for a freeze
    patch, pull,              \* what the revert changes, and its pull request
    outcome,                  \* how the last call ended
    faults, events,           \* counters of the bounds
    spared                    \* history: commits shielded ever since the call began

trunk  == <<head, tree, bad, proof>>
forge  == <<pulls, recent, jumps>>
inputs == <<mode, revertWindow, migrations, defined>>
blame  == <<base, unitBase, first, last, named>>
plan   == <<act, patch, pull>>
counts == <<faults, events>>
call   == <<pc, red, blame, plan, outcome>>
vars   == <<trunk, shielded, forge, inputs, pending, call, counts, spared>>

-----------------------------------------------------------------------------
MaxCommit == MaxChanges + MaxPulls
Commits   == 1..MaxCommit
Contents  == 0..MaxCommit     \* a content is named by the commit that brought it
Pulls     == 1..MaxPulls
NoPull    == 0

Labels    == {"auto-revert", "queue-jump:red-main"}
Proofs    == {"absent", "running", "cancelled", "success", "failure"}
Places    == {"out", "in", "front"}
Outcomes  == {"none", "failed", "green", "in hand", "not confirmed", "no action", "notified", "protected",
              "standing", "hold", "conflict", "unarmed", "reverted"}
Steps == {"idle", "search", "same sha", "trace", "proof", "base proof", "guard", "standing", "fetch", "open",
          "label", "arm", "others", "queue", "dequeue", "jump"}

Completed(c) == proof[c] \in {"success", "failure"}
BadIn(c, r)  == tree[c][r] \in bad
Red(c)       == \E r \in Regions : BadIn(c, r)

Changed(c) == {r \in Regions : tree[c][r] # tree[c - 1][r]}

ChangesOne(c) == \E r \in Regions : Changed(c) = {r}

Newest(c, commits) == c \in commits /\ \A d \in commits : d <= c

NewPull == [state |-> "none", first |-> 0, last |-> 0, unarmed |-> FALSE, patch |-> {}, labels |-> {},
            armed |-> FALSE, place |-> "out"]

-----------------------------------------------------------------------------
(* git revert of the blamed commits on a tree.                             *)

\* Reverting c puts back what it replaced.
Undo(t, c) == [r \in Regions |-> IF r \in Changed(c) THEN tree[c - 1][r] ELSE t[r]]

\* Mutant: a later change of the same lines is overwritten.
Overwrites(t, c) == TRUE

\* It conflicts with a later change of the same lines, and fails when nothing is left to put back.
Applies(t, c) ==
    /\ \A r \in Changed(c) : t[r] \in {tree[c][r], tree[c - 1][r]}
    /\ Undo(t, c) # t

\* The tree once the blamed commits up to k are reverted, oldest first: each puts back what it replaced,
\* so a region is left as the last of them to change it found it.
Reverted(t, k) ==
    [r \in Regions |->
        LET changes == {c \in first..k : r \in Changed(c)}
        IN  IF changes = {} THEN t[r] ELSE tree[(CHOOSE c \in changes : Newest(c, changes)) - 1][r]]

RevertApplies(t) == \A k \in first..last : Applies(Reverted(t, k - 1), k)

Patch(t) == {[region |-> r, from |-> t[r], to |-> Reverted(t, last)[r]] :
                r \in {q \in Regions : Reverted(t, last)[q] # t[q]}}

\* The pull request merges unless the trunk has changed a region otherwise.
Mergeable(p) == \A x \in pulls[p].patch : tree[head][x.region] \in {x.from, x.to}

Merged(p) == [r \in Regions |->
    IF \E x \in pulls[p].patch : x.region = r
    THEN (CHOOSE x \in pulls[p].patch : x.region = r).to ELSE tree[head][r]]

Open == {p \in Pulls : pulls[p].state = "open"}
MergedPulls == {p \in Pulls : pulls[p].state = "merged"}

-----------------------------------------------------------------------------
Init ==
    /\ head = 1
    /\ tree = [c \in Commits |-> [r \in Regions |-> 0]]
    /\ bad = {}
    /\ proof = [c \in Commits |-> IF c = 1 THEN "success" ELSE "absent"]
    /\ shielded = {}
    /\ pulls = [p \in Pulls |-> NewPull]
    /\ recent = {} /\ jumps = {}
    /\ mode \in Modes /\ revertWindow \in WindowInputs /\ migrations \in MigrationSets /\ defined \in LabelSets
    /\ pending = {}
    /\ pc = "idle" /\ red = 0
    /\ base = 0 /\ unitBase = FALSE /\ first = 0 /\ last = 0 /\ named = FALSE
    /\ act = mode /\ patch = {} /\ pull = NoPull
    /\ outcome = "none"
    /\ faults = 0 /\ events = 0
    /\ spared = {}

Grow(t) ==
    /\ head' = head + 1
    /\ tree' = [tree EXCEPT ![head + 1] = t]
    /\ proof' = [proof EXCEPT ![head + 1] = "running"]

\* A person's commit brings a region a new content, sound or broken, or one it had before.
Land ==
    /\ head - Cardinality(MergedPulls) < MaxChanges
    /\ \E r \in Regions : \E c \in {head + 1} \cup {tree[d][r] : d \in 1..head} :
          /\ c # tree[head][r]
          /\ Grow([tree[head] EXCEPT ![r] = c])
          /\ \/ UNCHANGED bad
             \/ c = head + 1 /\ bad' = bad \cup {c}
    /\ UNCHANGED <<shielded, forge, inputs, pending, call, counts>>

\* A failed run on the trunk starts a call; a newer push supersedes a run.
Verify(c) ==
    /\ proof[c] = "running"
    /\ \/ /\ proof' = [proof EXCEPT ![c] = IF Red(c) THEN "failure" ELSE "success"]
          /\ pending' = IF Red(c) THEN pending \cup {c} ELSE pending
       \/ c < head /\ proof' = [proof EXCEPT ![c] = "cancelled"] /\ UNCHANGED pending
    /\ UNCHANGED <<head, tree, bad, shielded, forge, inputs, call, counts>>

Event == events < MaxEvents /\ events' = events + 1 /\ UNCHANGED faults

Rerun(c) ==
    /\ Completed(c)
    /\ Event
    /\ proof' = [proof EXCEPT ![c] = "running"]
    /\ UNCHANGED <<head, tree, bad, shielded, forge, inputs, pending, call>>

\* A person shields a landed change, or takes the shield off.
Shield(c) ==
    /\ Event
    /\ c \in 2..head
    /\ shielded' \in {shielded \cup {c}, shielded \ {c}}
    /\ UNCHANGED <<trunk, forge, inputs, pending, call>>

Touch(p) == recent' = recent \cup {p}

\* A person closes a revert, or merges one that waits for a decision.
Decide(p) ==
    /\ p \in Open
    /\ Event
    /\ \/ pulls' = [pulls EXCEPT ![p] = [@ EXCEPT !.state = "closed", !.armed = FALSE, !.place = "out"]]
       \/ pulls[p].unarmed /\ pulls' = [pulls EXCEPT ![p].armed = TRUE]
    /\ Touch(p)
    /\ UNCHANGED <<trunk, shielded, jumps, inputs, pending, call>>

\* The merge queue takes an armed pull request.
Enqueue(p) ==
    /\ p \in Open /\ pulls[p].armed /\ pulls[p].place = "out"
    /\ Mergeable(p)
    /\ pulls' = [pulls EXCEPT ![p].place = "in"]
    /\ Touch(p)
    /\ UNCHANGED <<trunk, shielded, jumps, inputs, pending, call, counts>>

\* It merges what it holds, the front first, or drops what conflicts by now.
LandPull(p) ==
    /\ p \in Open /\ pulls[p].place # "out"
    /\ pulls[p].place = "front" \/ \A q \in Open : pulls[q].place # "front"
    /\ \/ /\ Mergeable(p)
          /\ Grow(Merged(p))
          /\ pulls' = [pulls EXCEPT ![p] = [@ EXCEPT !.state = "merged", !.armed = FALSE, !.place = "out"]]
       \/ /\ ~Mergeable(p)
          /\ pulls' = [pulls EXCEPT ![p] = [@ EXCEPT !.armed = FALSE, !.place = "out"]]
          /\ UNCHANGED <<head, tree, proof>>
    /\ Touch(p)
    /\ UNCHANGED <<bad, shielded, jumps, inputs, pending, call, counts>>

\* Half an hour has passed since p was updated, and so since it jumped.
Ages(p) ==
    /\ p \in recent
    /\ recent' = recent \ {p}
    /\ jumps' = jumps \ {p}
    /\ UNCHANGED <<trunk, shielded, pulls, inputs, pending, call, counts>>
-----------------------------------------------------------------------------
(* The call.                                                               *)

World == <<trunk, shielded, inputs>>

Enter(step) == pc' = step /\ UNCHANGED outcome
GoTo(step) == Enter(step) /\ UNCHANGED <<red, blame, plan>>

\* What the job held goes with its runner.
End(how) ==
    /\ pc' = "idle" /\ outcome' = how
    /\ red' = 0 /\ base' = 0 /\ unitBase' = FALSE /\ first' = 0 /\ last' = 0 /\ named' = FALSE
    /\ act' = mode /\ patch' = {} /\ pull' = NoPull

Fault == faults < MaxFaults /\ faults' = faults + 1 /\ UNCHANGED events

\* The concurrency group starts one waiting call, which reads the proof of its run first: a run that
\* is green by now is left alone, and one without a proof authorizes no revert.
Begin(c) ==
    /\ pc = "idle"
    /\ c \in pending
    /\ pending' = pending \ {c}
    /\ IF proof[c] = "failure"
       THEN Enter("search") /\ red' = c /\ UNCHANGED <<blame, plan>>
       ELSE End(IF proof[c] = "success" THEN "green" ELSE "failed")
    /\ UNCHANGED <<World, forge, counts>>

\* A step fails, or the job is cut off; the call is run again if a person asks for it.
Stop ==
    /\ pc # "idle"
    /\ Fault
    /\ End("failed")
    /\ pending' \in {pending, pending \cup {red}}
    /\ UNCHANGED <<World, forge>>

InHand == {p \in Open : "auto-revert" \in pulls[p].labels}

\* Mutant: only this attempt's own branch, which is always new, is looked for.
OwnBranchOnly ==
    /\ pc = "search"
    /\ GoTo("same sha")
    /\ UNCHANGED <<World, forge, pending, counts>>

\* "Stop when the work is already in hand"; a search that fails, or lags behind, finds nothing.
Search ==
    /\ pc = "search"
    /\ \/ /\ IF mode # "revert_pr_unarmed" /\ InHand # {} THEN End("in hand") ELSE GoTo("same sha")
          /\ UNCHANGED counts
       \/ Fault /\ GoTo("same sha")
    /\ UNCHANGED <<World, forge, pending>>

\* Only a green proof of the same commit stops the call here.
SameSha ==
    /\ pc = "same sha"
    /\ IF proof[red] = "success" THEN End("green") ELSE GoTo("trace")
    /\ UNCHANGED <<World, forge, pending, counts>>

Before(c) == {d \in 1..c - 1 : Completed(d)}

\* What failed in the red run and in the completed run before it.
Confirmed == {r \in Regions : BadIn(red, r) /\ \E d \in Before(red) : Newest(d, Before(red)) /\ BadIn(d, r)}

\* The newest completed run that one of the confirmed failures is not in, or the newest verified one.
UnitBases == {d \in Before(red) : \E r \in Confirmed : ~BadIn(d, r)}
Baseline(b, own) ==
    IF own THEN Newest(b, UnitBases) ELSE Newest(b, {d \in Before(red) : proof[d] = "success"})

\* A commit that a confirmed failure begins with (RedMainTrace, CulpritIntroducedIt).
Introduced(c) == \E r \in Confirmed : BadIn(c, r) /\ ~BadIn(c - 1, r)

\* Mutant: the verified commit counts as part of the window.
WithBaseline(b) == b

\* The comparison with the baseline lists the commits after it.
WindowStart(b) == b + 1

Blame(b, own) ==
    /\ Enter("proof")
    /\ base' = b /\ unitBase' = own
    /\ \/ \E c \in WindowStart(b)..red : Introduced(c) /\ first' = c /\ last' = c /\ named' = TRUE
       \/ first' = WindowStart(b) /\ last' = red /\ named' = FALSE
    /\ UNCHANGED <<red, plan>>

\* Confirmation and trace, which take up to an hour, as their result.
Trace ==
    /\ pc = "trace"
    /\ \/ Confirmed = {} /\ End("not confirmed") /\ UNCHANGED counts
       \/ Confirmed # {} /\ End("no action") /\ UNCHANGED counts
       \/ /\ Confirmed # {}
          /\ \E b \in Commits, own \in BOOLEAN :
                /\ Baseline(b, own) /\ Blame(b, own)
                /\ IF own THEN UNCHANGED counts ELSE Fault
    /\ UNCHANGED <<World, forge, pending>>

\* Before it acts, the proof of the red commit is read again; one that is missing fails the call.
Proof ==
    /\ pc = "proof"
    /\ IF proof[red] = "success" THEN End("green") ELSE IF proof[red] = "failure" THEN GoTo("base proof") ELSE End("failed")
    /\ UNCHANGED <<World, forge, pending, counts>>

\* A verified baseline must still be one; notify mode and an unwanted window revert nothing.
BaseProof ==
    /\ pc = "base proof"
    /\ IF ~unitBase /\ proof[base] # "success" THEN End("failed")
       ELSE IF mode = "notify" \/ (~named /\ ~revertWindow) THEN End("notified")
       ELSE GoTo("guard")
    /\ UNCHANGED <<World, forge, pending, counts>>

Blamed == first..last

\* Mutant: only the oldest commit's pull request is asked.
OldestOnly == {first}

\* The commits whose pull requests are asked for a protected label.
Asked == Blamed

\* revert-guard.py and hold.py: a shielded commit is left to a person, a freeze disarms the revert.
Guard ==
    /\ pc = "guard"
    /\ IF Asked \cap shielded # {} THEN End("protected")
       ELSE \E frozen \in Freezes :
              /\ act' = IF mode = "revert" /\ frozen THEN "revert_pr_unarmed" ELSE mode
              /\ Enter(IF act' = "revert_pr_unarmed" THEN "standing" ELSE "fetch")
              /\ UNCHANGED <<red, blame, patch, pull>>
    /\ UNCHANGED <<World, forge, pending, counts>>

\* Mutant: only a revert of the same commits stands.
SameCommits(p) == pulls[p].first = first /\ pulls[p].last = last

\* The body of the revert names the oldest blamed commit.
Names(p) == first \in pulls[p].first..pulls[p].last

\* An unarmed revert that names it already gets a comment; a search that fails finds none.
Standing ==
    /\ pc = "standing"
    /\ \/ \E p \in Open : Names(p) /\ Touch(p) /\ End("standing") /\ UNCHANGED counts
       \/ (\A p \in Open : ~Names(p)) /\ GoTo("fetch") /\ UNCHANGED <<recent, counts>>
       \/ Fault /\ GoTo("fetch") /\ UNCHANGED recent
    /\ UNCHANGED <<World, pulls, jumps, pending>>

\* The parent of the oldest blamed commit lies within the depth that is fetched.
Reachable == first - 1 > head - (red - base + Extra)

Migrates == \E c \in Blamed : Changed(c) = {} \/ Changed(c) \cap migrations # {}

\* The trunk is fetched; a migration, or what cannot be read, is held for a person; then git reverts.
Fetch ==
    /\ pc = "fetch"
    /\ IF ~Reachable \/ Migrates THEN End("hold")
       ELSE IF ~RevertApplies(tree[head]) THEN End("conflict")
       ELSE patch' = Patch(tree[head]) /\ Enter("open") /\ UNCHANGED <<red, blame, act, pull>>
    /\ UNCHANGED <<World, forge, pending, counts>>

Create(p) ==
    /\ pulls[p].state = "none" /\ \A q \in Pulls : q < p => pulls[q].state # "none"
    /\ pulls' = [pulls EXCEPT ![p] = [NewPull EXCEPT !.state = "open", !.first = first, !.last = last,
                                        !.unarmed = act = "revert_pr_unarmed", !.patch = patch]]
    /\ Touch(p)

\* A new branch and its pull request; the answer may be lost.
OpenPull(p) ==
    /\ pc = "open"
    /\ Create(p)
    /\ \/ Enter("label") /\ pull' = p /\ UNCHANGED <<red, blame, act, patch, counts>>
       \/ Fault /\ End("failed")
    /\ UNCHANGED <<World, jumps, pending>>

ToSet == IF act = "revert" THEN Labels ELSE {"auto-revert"}

\* The labels that the repository defines; a request that fails is passed over.
Label ==
    /\ pc = "label"
    /\ \/ pulls' = [pulls EXCEPT ![pull].labels = ToSet \cap defined] /\ UNCHANGED counts
       \/ Fault /\ UNCHANGED pulls
    /\ Touch(pull)
    /\ IF act = "revert" THEN GoTo("arm") ELSE End("unarmed")
    /\ UNCHANGED <<World, jumps, pending>>

Arm ==
    /\ pc = "arm"
    /\ \/ pulls[pull].state = "open" /\ pulls' = [pulls EXCEPT ![pull].armed = TRUE] /\ UNCHANGED counts
       \/ pulls[pull].state # "open" /\ UNCHANGED <<pulls, counts>>
       \/ Fault /\ UNCHANGED pulls
    /\ Touch(pull)
    /\ GoTo("others")
    /\ UNCHANGED <<World, jumps, pending>>

\* Mutant: only pull requests that are still open count.
OpenOthers == {p \in recent \ {pull} : pulls[p].labels # {} /\ p \in Open}

\* Other labelled pull requests, open or not, that moved in the last 30 minutes.
Others == {p \in recent \ {pull} : pulls[p].labels # {}}

\* One jump in 30 minutes; what cannot be read counts as one.
CountOthers ==
    /\ pc = "others"
    /\ \/ Others # {} /\ End("reverted") /\ Touch(pull) /\ UNCHANGED counts
       \/ Others = {} /\ GoTo("queue") /\ UNCHANGED <<recent, counts>>
       \/ Fault /\ End("reverted") /\ Touch(pull)
    /\ UNCHANGED <<World, pulls, jumps, pending>>

\* Where the revert is in the queue; a read that fails leaves it to auto-merge.
QueueState ==
    /\ pc = "queue"
    /\ \/ GoTo(IF pulls[pull].place # "out" THEN "dequeue" ELSE "jump") /\ UNCHANGED counts
       \/ Fault /\ End("reverted")
    /\ UNCHANGED <<World, forge, pending>>

\* Mutant: the jump is left to auto-merge once the entry is out.
DequeueOnly ==
    /\ pc = "dequeue"
    /\ pulls' = [pulls EXCEPT ![pull] = [@ EXCEPT !.place = "out", !.armed = FALSE]]
    /\ Touch(pull)
    /\ End("reverted")
    /\ UNCHANGED <<World, jumps, pending, counts>>

\* The entry is taken out to be put in front; that may cost it its auto-merge.
Dequeue ==
    /\ pc = "dequeue"
    /\ \/ /\ pulls[pull].place # "out"
          /\ \E keeps \in BOOLEAN :
                pulls' = [pulls EXCEPT ![pull] = [@ EXCEPT !.place = "out", !.armed = keeps]]
          /\ Touch(pull)
          /\ GoTo("jump")
          /\ UNCHANGED counts
       \/ pulls[pull].place = "out" /\ GoTo("jump") /\ UNCHANGED <<pulls, recent, counts>>
       \/ Fault /\ End("reverted") /\ UNCHANGED <<pulls, recent>>
    /\ UNCHANGED <<World, jumps, pending>>

CanJump == pull \in Open /\ Mergeable(pull)

\* The forge refuses a pull request that is closed or conflicts.
Jump ==
    /\ pc = "jump"
    /\ End("reverted")
    /\ \/ /\ CanJump
          /\ pulls' = [pulls EXCEPT ![pull].place = "front"]
          /\ jumps' = jumps \cup {pull}
          /\ Touch(pull)
          /\ UNCHANGED counts
       \/ ~CanJump /\ UNCHANGED <<forge, counts>>
       \/ Fault /\ UNCHANGED forge
    /\ UNCHANGED <<World, pending>>

-----------------------------------------------------------------------------
MergeQueue == \E p \in Pulls : Enqueue(p) \/ LandPull(p)

Outside ==
    \/ Land
    \/ \E c \in Commits : Verify(c) \/ Rerun(c) \/ Shield(c)
    \/ \E p \in Pulls : Decide(p) \/ Ages(p)

Handler ==
    \/ Search \/ SameSha \/ Trace \/ Proof \/ BaseProof \/ Guard \/ Standing \/ Fetch
    \/ \E p \in Pulls : OpenPull(p)
    \/ Label \/ Arm \/ CountOthers \/ QueueState \/ Dequeue \/ Jump

Remember == spared' = IF pc = "idle" THEN shielded' ELSE spared \cap shielded'

Next ==
    \/ Outside /\ Remember
    \/ MergeQueue /\ Remember
    \/ (\E c \in Commits : Begin(c)) /\ Remember
    \/ Handler /\ Remember
    \/ Stop /\ Remember

Spec == Init /\ [][Next]_vars

\* The runner carries a call on, and the queue works off what it holds.
FairSpec == Spec /\ WF_vars(Handler /\ Remember) /\ WF_vars(MergeQueue /\ Remember)

-----------------------------------------------------------------------------
(* Properties.                                                             *)

\* Every variable stays in its type, and a call blames commits after its baseline, up to its own.
TypeOK ==
    /\ head \in Commits /\ tree \in [Commits -> [Regions -> Contents]] /\ bad \subseteq Contents
    /\ proof \in [Commits -> Proofs] /\ shielded \subseteq Commits
    /\ pulls \in [Pulls -> [state : {"none", "open", "closed", "merged"}, first : Contents, last : Contents,
                            unarmed : BOOLEAN,
                            patch : SUBSET [region : Regions, from : Contents, to : Contents],
                            labels : SUBSET Labels, armed : BOOLEAN, place : Places]]
    /\ recent \subseteq Pulls /\ jumps \subseteq recent
    /\ mode \in Modes /\ revertWindow \in BOOLEAN /\ migrations \in MigrationSets /\ defined \in LabelSets
    /\ pending \subseteq Commits
    /\ pc \in Steps /\ red \in Contents
    /\ base \in Contents /\ unitBase \in BOOLEAN /\ first \in Contents /\ last \in Contents /\ named \in BOOLEAN
    /\ act \in {"revert", "revert_pr_unarmed", "notify"}
    /\ patch \subseteq [region : Regions, from : Contents, to : Contents] /\ pull \in Pulls \cup {NoPull}
    /\ outcome \in Outcomes
    /\ faults \in 0..MaxFaults /\ events \in 0..MaxEvents
    /\ spared \subseteq Commits
    /\ first # 0 => base < first /\ first <= last /\ last <= red

\* Unless a request failed, and where the label that marks a revert is defined, two reverts are open at
\* once only where reverts wait for people, and then not for the same culprit (the idempotence step and
\* the standing-revert check).
OneOpenRevert ==
    faults = 0 /\ "auto-revert" \in defined =>
        \A p, q \in Open : p < q =>
            mode = "revert_pr_unarmed" /\ pulls[q].first \notin pulls[p].first..pulls[p].last

\* Both together.
RevertInv == TypeOK /\ OneOpenRevert

\* A second revert jumps the queue only after the first was left alone for half an hour, unless that
\* one lost its labels: the rule is read off the pull requests, so a new handler cannot forget it.
JumpsApart ==
    \A p, q \in jumps : p < q => pulls[p].labels = {}

\* A revert never contains a commit that was shielded all the while the call ran, and no revert is
\* opened in notify mode, or of a whole window where the repository wants none.
SparedStay ==
    [][\A p \in Pulls : pulls[p].state = "none" /\ pulls'[p].state = "open" =>
          /\ (pulls'[p].first..pulls'[p].last) \cap spared = {}
          /\ mode # "notify"
          /\ named \/ revertWindow]_vars

\* Every revert of commits that change one part of the tree each, when it is opened, takes out something
\* broken and puts something sound in its place.
RevertRemovesABreak ==
    [][\A p \in Pulls :
          /\ pulls[p].state = "none" /\ pulls'[p].state = "open"
          /\ \A c \in pulls'[p].first..pulls'[p].last : ChangesOne(c)
          => \E x \in pulls'[p].patch : x.from \in bad /\ x.to \notin bad]_vars

\* Without a failed request, a revert that is armed does not stay open, unless the trunk moves on so
\* that it conflicts.
RevertLands ==
    \A p \in Pulls :
        pulls[p].state = "open" /\ pulls[p].armed ~> \/ pulls[p].state # "open"
                                                     \/ ~Mergeable(p)
                                                     \/ faults > 0
=============================================================================
