--------------------------- MODULE KeelRepinProofs ---------------------------
(***************************************************************************)
(* Proofs about KeelRepin, for every number of tags, commits and upsets:   *)
(* only proven heads are merged, the newest repin is never closed, and the *)
(* pin never goes back.                                                    *)
(***************************************************************************)
EXTENDS KeelRepin, WellFoundedInduction, SequenceTheorems, TLAPS

-----------------------------------------------------------------------------
(* The inductive invariant.                                                *)

Authors == {Author, BotAuthor, Person}
Results == {"none", "running", "success", "failure", "skipped"}
PullRecords ==
    [num : Nat, state : {"none", "open", "closed", "merged"}, draft : BOOLEAN, from : Nat,
     queued : BOOLEAN, by : {"none", "bot", Person},
     told : SUBSET ({"draft", "red", "stalled", "foreign", "refused"} \X Nat), proven : SUBSET Nat]
CheckTables == [1 .. MaxCommits -> [Checks -> Results]]

TagShape ==
    /\ tagged \in Tags \cup {0} /\ published \subseteq 1 .. tagged /\ pin \in 0 .. tagged
    /\ upsets \in 0 .. MaxUpsets

ForgeShape ==
    /\ branch \in [Tags -> Seq(Authors)] /\ \A t \in Tags : HeadOf(t) <= MaxCommits
    /\ checks \in [Tags -> CheckTables]
    /\ pr \in [Tags -> PullRecords]

\* What is open has a branch, is ahead of what it was built on, and keeps the record
\* of every head that was green; what is not open has no checks left.
OpenInv(t) ==
    /\ Open(t) => Exists(t) /\ t <= tagged /\ pr[t].from < t
    /\ Open(t) => \A h \in 1 .. MaxCommits : Green(checks[t][h]) => h \in pr[t].proven
    /\ ~Open(t) => checks[t] = Unchecked
    /\ pr[t].state # "none" => pr[t].num # 0
    /\ pr[t].queued => Open(t) /\ HeadOf(t) \in pr[t].proven

\* What was merged is behind the pin, and proven when the bot did it.
MergedInv(t) ==
    /\ pr[t].state = "merged" => pin >= t
    /\ pr[t].state = "merged" /\ pr[t].by = "bot" /\ Exists(t) => HeadOf(t) \in pr[t].proven

ClosedInv(t) ==
    pr[t].state = "closed" /\ pr[t].by = "bot" => \E u \in Tags : u > t /\ pr[u].num # 0

ForgeInv == \A t \in Tags : OpenInv(t) /\ MergedInv(t) /\ ClosedInv(t)

JobRecords ==
    [pc : {"idle", "poll", "build", "push", "open", "close"}, tag : 0 .. MaxTag, from : Nat,
     ok : BOOLEAN, older : SUBSET (Tags \X Nat)]
JobShape == job \in JobRecords

\* A run builds ahead of the pin it read, on a tag whose branch nobody else makes.
JobInv ==
    /\ job.pc # "idle" => job.tag \in 1 .. tagged
    /\ job.pc \in {"push", "open"} => job.from < job.tag
    /\ job.pc = "push" => ~Exists(job.tag) /\ pr[job.tag].state # "merged"
    /\ job.pc = "close" => pr[job.tag].num # 0
    /\ \A p \in job.older : p[1] < job.tag

Rows == [tag : Tags, num : Nat, head : 1 .. MaxCommits, draft : BOOLEAN]

SettleShape ==
    /\ settle \in [pc : {"idle", "list", "row", "merge"}, rows : SUBSET Rows, left : SUBSET Rows]
    /\ settle.left \subseteq settle.rows
    /\ settle.pc = "merge" => settle.left # {}

\* A row is of a pull request that was there; a green verdict is kept in its record.
SettleInv ==
    /\ \A r \in settle.rows : r.num # 0 /\ r.num <= pr[r.tag].num
    /\ settle.pc = "merge" /\ Current(Row) => Row.head \in pr[Row.tag].proven

IInv == TagShape /\ ForgeShape /\ ForgeInv /\ JobShape /\ JobInv /\ SettleShape /\ SettleInv

-----------------------------------------------------------------------------
(* Rows and runs of checks.                                                *)

LEMMA NewestRow ==
    ASSUME SettleShape, settle.left # {}, MaxTag \in Nat
    PROVE  Row \in settle.left /\ Row \in settle.rows /\ Row \in Rows /\ Row.tag \in Tags
  <1> DEFINE T == {MaxTag - r.tag : r \in settle.left}
  <1>1. settle.left \subseteq Rows
    BY DEF SettleShape
  <1>2. T \subseteq Nat /\ T # {}
    BY <1>1 DEF Rows, Tags
  <1>3. IsWellFoundedOn({p \in Nat \X Nat : p[1] < p[2]}, Nat)
    BY NatLessThanWellFounded DEF OpToRel
  <1>4. PICK x \in T : \A y \in T : x <= y
    <2> HIDE DEF T
    <2>1. PICK x \in T : \A y \in T : <<y, x>> \notin {p \in Nat \X Nat : p[1] < p[2]}
      BY <1>2, <1>3, WFMin
    <2>2. x \in Nat
      BY <1>2
    <2>3. ASSUME NEW y \in T PROVE x <= y
      <3>1. y \in Nat /\ <<y, x>> \in Nat \X Nat
        BY <1>2, <2>2
      <3>2. ~(y < x)
        BY <2>1, <3>1
      <3> QED
        BY <2>2, <3>1, <3>2
    <2> QED
      BY <2>3
  <1>5. PICK r \in settle.left : x = MaxTag - r.tag
    BY DEF T
  <1>6. \A s \in settle.left : s.tag <= r.tag
    <2> SUFFICES ASSUME NEW s \in settle.left PROVE s.tag <= r.tag
      OBVIOUS
    <2>1. MaxTag - s.tag \in T
      BY DEF T
    <2>2. x <= MaxTag - s.tag
      BY <1>4, <2>1
    <2>3. s.tag \in Nat /\ r.tag \in Nat
      BY <1>1 DEF Rows, Tags
    <2> QED
      BY <1>5, <2>2, <2>3
  <1>7. Row \in settle.left
    BY <1>6 DEF Row
  <1> QED
    BY <1>1, <1>7 DEF SettleShape, Rows

\* A head with a run that is not over, or with none, is not green.
LEMMA UnfinishedIsNotGreen ==
    ASSUME Required # {}, NEW runs, \/ \E n \in Checks : runs[n] = "running"
                                    \/ \A n \in Required : runs[n] \in {"none", "running"}
    PROVE  ~Green(runs)
  BY DEF Green

LEMMA UncheckedIsNotGreen ==
    ASSUME Required # {}, NEW h \in 1 .. MaxCommits
    PROVE  ~Green(Unchecked[h])
  <1>1. \A n \in Required : Unchecked[h][n] = "none"
    BY ConstantsAssumption DEF Unchecked, NoRuns
  <1> QED
    BY <1>1, UnfinishedIsNotGreen

LEMMA UncheckedIsATable == Unchecked \in CheckTables
  BY DEF Unchecked, NoRuns, CheckTables, Results

-----------------------------------------------------------------------------
(* What a step leaves of what others know of the pull requests.            *)

\* A pull request keeps its number until the next one of the branch is opened, and
\* while it is open the heads that were green.
Grows ==
    \A u \in Tags :
        /\ pr[u].num <= pr'[u].num
        /\ Open(u)' /\ pr'[u].num = pr[u].num => Open(u) /\ pr[u].proven \subseteq pr'[u].proven

\* A tag without branch and merge stays so.
Calm == \A u \in Tags : ~Exists(u) /\ pr[u].state # "merged" => ~Exists(u)' /\ pr'[u].state # "merged"

Forge == ForgeShape /\ ForgeInv

LEMMA BoundsAreNaturals == MaxTag \in Nat \ {0} /\ MaxCommits \in Nat \ {0} /\ MaxUpsets \in Nat
  BY ConstantsAssumption

\* A step that changes one tag keeps what the others promise.
LEMMA OneTag ==
    ASSUME TagShape, Forge, NEW t \in Tags, TagShape', ForgeShape', tagged <= tagged', pin <= pin',
           \A u \in Tags \ {t} : branch'[u] = branch[u] /\ checks'[u] = checks[u] /\ pr'[u] = pr[u],
           pr[t].num <= pr'[t].num,
           Open(t)' /\ pr'[t].num = pr[t].num => Open(t) /\ pr[t].proven \subseteq pr'[t].proven,
           OpenInv(t)', MergedInv(t)',
           pr'[t].state = "closed" /\ pr'[t].by = "bot" => \E u \in Tags : u > t /\ pr[u].num # 0
    PROVE  Forge' /\ Grows
  <1>1. Grows
    <2> SUFFICES ASSUME NEW u \in Tags, u # t
                 PROVE /\ pr[u].num <= pr'[u].num
                       /\ Open(u)' => Open(u) /\ pr[u].proven \subseteq pr'[u].proven
      BY DEF Grows
    <2>1. pr'[u] = pr[u] /\ pr[u].num \in Nat
      BY DEF Forge, ForgeShape, PullRecords
    <2> QED
      BY <2>1 DEF Open
  <1>2. \A u \in Tags : pr[u].num \in Nat /\ pr'[u].num \in Nat /\ u \in Nat
    BY DEF Forge, ForgeShape, PullRecords, Tags
  <1>3. \A u \in Tags : pr[u].num # 0 => pr'[u].num # 0
    BY <1>1, <1>2 DEF Grows
  <1>4. \A u \in Tags : ClosedInv(u)'
    <2> SUFFICES ASSUME NEW u \in Tags, pr'[u].state = "closed", pr'[u].by = "bot"
                 PROVE \E w \in Tags : w > u /\ pr'[w].num # 0
      BY DEF ClosedInv
    <2>1. \E w \in Tags : w > u /\ pr[w].num # 0
      BY DEF Forge, ForgeInv, ClosedInv
    <2> QED
      BY <1>3, <2>1
  <1>5. ASSUME NEW u \in Tags, u # t PROVE OpenInv(u)' /\ MergedInv(u)'
    <2>1. branch'[u] = branch[u] /\ checks'[u] = checks[u] /\ pr'[u] = pr[u]
      BY <1>5
    <2>2. OpenInv(u) /\ MergedInv(u)
      BY DEF Forge, ForgeInv
    <2>3. OpenInv(u)'
      <3>1. u \in Nat /\ tagged \in Nat /\ tagged' \in Nat
        BY BoundsAreNaturals DEF TagShape, Tags
      <3> QED
        BY <2>1, <2>2, <3>1 DEF OpenInv, Open, Exists, HeadOf
    <2>4. MergedInv(u)'
      <3>1. u \in Nat /\ pin \in Nat /\ pin' \in Nat
        BY BoundsAreNaturals DEF TagShape, Tags
      <3> QED
        BY <2>1, <2>2, <3>1 DEF MergedInv, Exists, HeadOf
    <2> QED
      BY <2>3, <2>4
  <1> QED
    BY <1>1, <1>4, <1>5 DEF Forge, ForgeInv

\* Nothing of the forge moves.
LEMMA Still ==
    ASSUME TagShape, Forge, TagShape', tagged <= tagged', pin <= pin', UNCHANGED <<branch, checks, pr>>
    PROVE  Forge' /\ Grows /\ Calm
  <1>1. ForgeShape'
    BY DEF Forge, ForgeShape, HeadOf
  <1>2. 1 \in Tags
    BY BoundsAreNaturals DEF Tags
  <1>3. /\ pr[1].num <= pr'[1].num
        /\ Open(1)' => Open(1) /\ pr[1].proven \subseteq pr'[1].proven
    BY <1>2 DEF Forge, ForgeShape, PullRecords, Open
  <1>4. /\ OpenInv(1) /\ MergedInv(1)
        /\ pr[1].state = "closed" /\ pr[1].by = "bot" => \E u \in Tags : u > 1 /\ pr[u].num # 0
    BY <1>2 DEF Forge, ForgeInv, ClosedInv
  <1>5. OpenInv(1)'
    <2>1. tagged \in Nat /\ tagged' \in Nat
      BY BoundsAreNaturals DEF TagShape, Tags
    <2> QED
      BY <1>4, <2>1 DEF OpenInv, Open, Exists, HeadOf
  <1>6. MergedInv(1)'
    <2>1. pin \in Nat /\ pin' \in Nat
      BY BoundsAreNaturals DEF TagShape, Tags
    <2> QED
      BY <1>4, <2>1 DEF MergedInv, Exists, HeadOf
  <1>7. Forge' /\ Grows
    BY <1>1, <1>2, <1>3, <1>4, <1>5, <1>6, OneTag
  <1> QED
    BY <1>7 DEF Calm, Exists

\* A pull request is marked: told about, queued, dropped or made ready.
LEMMA Marked ==
    ASSUME TagShape, Forge, NEW t \in Tags, NEW q \in PullRecords,
           q.num = pr[t].num, q.state = pr[t].state, q.from = pr[t].from, q.by = pr[t].by,
           q.proven = pr[t].proven, q.queued => Open(t) /\ HeadOf(t) \in pr[t].proven,
           pr' = [pr EXCEPT ![t] = q], UNCHANGED <<tagged, published, pin, branch, checks>>, upsets' \in 0 .. MaxUpsets
    PROVE  TagShape' /\ Forge' /\ Grows /\ Calm
  <1>1. TagShape'
    BY DEF TagShape
  <1>2. pr \in [Tags -> PullRecords] /\ pr'[t] = q /\ \A u \in Tags \ {t} : pr'[u] = pr[u]
    BY DEF Forge, ForgeShape
  <1>3. ForgeShape'
    BY DEF Forge, ForgeShape, HeadOf
  <1>4. OpenInv(t) /\ MergedInv(t) /\ ClosedInv(t)
    BY DEF Forge, ForgeInv
  <1>5. OpenInv(t)'
    BY <1>2, <1>4 DEF OpenInv, Open, Exists, HeadOf
  <1>6. MergedInv(t)'
    BY <1>2, <1>4 DEF MergedInv, Exists, HeadOf
  <1>7. pr[t].num \in Nat /\ tagged \in Nat /\ pin \in Nat
    BY <1>2, BoundsAreNaturals DEF PullRecords, TagShape, Tags
  <1>8. /\ pr[t].num <= pr'[t].num
        /\ Open(t)' => Open(t) /\ pr[t].proven \subseteq pr'[t].proven
        /\ pr'[t].state = "closed" /\ pr'[t].by = "bot" => \E u \in Tags : u > t /\ pr[u].num # 0
    BY <1>2, <1>4, <1>7 DEF Open, ClosedInv
  <1>9. Forge' /\ Grows
    BY <1>1, <1>2, <1>3, <1>5, <1>6, <1>7, <1>8, OneTag
  <1>10. Calm
    BY <1>2 DEF Calm, Exists
  <1> QED
    BY <1>1, <1>9, <1>10

\* An open pull request is closed, with its branch or without.
LEMMA ClosedOne ==
    ASSUME TagShape, Forge, NEW t \in Tags, Open(t), NEW who \in {"bot", Person},
           pr' = [pr EXCEPT ![t] = Closed(t, who)], Forget(t),
           branch' = branch \/ branch' = [branch EXCEPT ![t] = <<>>],
           who = "bot" => \E u \in Tags : u > t /\ pr[u].num # 0,
           UNCHANGED <<tagged, published, pin>>, upsets' \in 0 .. MaxUpsets
    PROVE  TagShape' /\ Forge' /\ Grows /\ Calm
  <1>1. TagShape'
    BY DEF TagShape
  <1>2. /\ pr \in [Tags -> PullRecords] /\ pr'[t] = Closed(t, who) /\ pr[t].num \in Nat
        /\ \A u \in Tags \ {t} : pr'[u] = pr[u] /\ checks'[u] = checks[u] /\ branch'[u] = branch[u]
        /\ checks'[t] = Unchecked
        /\ branch \in [Tags -> Seq(Authors)]
    BY DEF Forge, ForgeShape, Forget, PullRecords
  <1>3. OpenInv(t) /\ MergedInv(t) /\ ClosedInv(t)
    BY DEF Forge, ForgeInv
  <1>4. /\ Closed(t, who) \in PullRecords /\ Closed(t, who).num = pr[t].num
        /\ Closed(t, who).state = "closed" /\ Closed(t, who).by = who /\ ~Closed(t, who).queued
    BY <1>2 DEF Closed, NoPull, PullRecords
  <1>5. ForgeShape'
    <2>1. pr' \in [Tags -> PullRecords]
      BY <1>2, <1>4
    <2>2. checks' \in [Tags -> CheckTables]
      BY UncheckedIsATable DEF Forge, ForgeShape, Forget
    <2>3. branch' \in [Tags -> Seq(Authors)] /\ \A u \in Tags : HeadOf(u)' <= MaxCommits
      <3>1. <<>> \in Seq(Authors) /\ Len(<<>>) <= MaxCommits
        BY BoundsAreNaturals
      <3> QED
        BY <3>1 DEF Forge, ForgeShape, HeadOf
    <2> QED
      BY <2>1, <2>2, <2>3 DEF ForgeShape
  <1>6. OpenInv(t)' /\ MergedInv(t)'
    BY <1>2, <1>3, <1>4 DEF OpenInv, MergedInv, Open
  <1>7. tagged \in Nat /\ pin \in Nat
    BY BoundsAreNaturals DEF TagShape, Tags
  <1>8. /\ pr[t].num <= pr'[t].num
        /\ ~Open(t)'
        /\ pr'[t].state = "closed" /\ pr'[t].by = "bot" => \E u \in Tags : u > t /\ pr[u].num # 0
    BY <1>2, <1>4 DEF Open
  <1>9. Forge' /\ Grows
    BY <1>1, <1>2, <1>5, <1>6, <1>7, <1>8, OneTag
  <1>10. Exists(t)
    BY <1>3 DEF OpenInv
  <1>11. Calm
    BY <1>2, <1>10 DEF Calm, Exists
  <1> QED
    BY <1>1, <1>9, <1>11

\* An open pull request without conflict lands.
LEMMA LandedOne ==
    ASSUME TagShape, Forge, NEW t \in Tags, Mergeable(t), NEW who \in {"bot", Person},
           pr' = [pr EXCEPT ![t] = Merged(t, who)], Forget(t), pin' = t,
           who = "bot" => HeadOf(t) \in pr[t].proven,
           UNCHANGED <<tagged, published, branch>>, upsets' \in 0 .. MaxUpsets
    PROVE  TagShape' /\ Forge' /\ Grows /\ Calm /\ pin < t
  <1>1. OpenInv(t) /\ MergedInv(t) /\ ClosedInv(t)
    BY DEF Forge, ForgeInv
  <1>2. Open(t) /\ t <= tagged /\ pin < t /\ Exists(t)
    BY <1>1 DEF OpenInv, Mergeable
  <1>3. t \in Nat /\ tagged \in Nat /\ pin \in Nat
    BY BoundsAreNaturals DEF TagShape, Tags
  <1>4. TagShape'
    BY <1>2, <1>3 DEF TagShape
  <1>5. /\ pr \in [Tags -> PullRecords] /\ pr'[t] = Merged(t, who) /\ pr[t].num \in Nat
        /\ pr[t].proven \in SUBSET Nat
        /\ \A u \in Tags \ {t} : pr'[u] = pr[u] /\ checks'[u] = checks[u] /\ branch'[u] = branch[u]
        /\ checks'[t] = Unchecked
    BY DEF Forge, ForgeShape, Forget, PullRecords
  <1>6. /\ Merged(t, who) \in PullRecords /\ Merged(t, who).num = pr[t].num
        /\ Merged(t, who).state = "merged" /\ Merged(t, who).by = who /\ ~Merged(t, who).queued
        /\ Merged(t, who).proven = pr[t].proven
    BY <1>5 DEF Merged, NoPull, PullRecords
  <1>7. ForgeShape'
    <2>1. pr' \in [Tags -> PullRecords]
      BY <1>5, <1>6
    <2>2. checks' \in [Tags -> CheckTables]
      BY UncheckedIsATable DEF Forge, ForgeShape, Forget
    <2> QED
      BY <2>1, <2>2 DEF Forge, ForgeShape, HeadOf
  <1>8. OpenInv(t)'
    BY <1>1, <1>2, <1>5, <1>6 DEF OpenInv, Open
  <1>9. MergedInv(t)'
    BY <1>3, <1>5, <1>6 DEF MergedInv, Exists, HeadOf
  <1>10. pr[t].num <= pr'[t].num /\ ~Open(t)' /\ pr'[t].state # "closed"
    BY <1>5, <1>6 DEF Open
  <1>11. Forge' /\ Grows
    BY <1>2, <1>3, <1>4, <1>5, <1>7, <1>8, <1>9, <1>10, OneTag
  <1>12. Calm
    BY <1>2, <1>5 DEF Calm, Exists
  <1> QED
    BY <1>2, <1>4, <1>11, <1>12

\* Runs of a head of an open pull request start or end; a green head is recorded.
LEMMA RunsMoved ==
    ASSUME TagShape, Forge, NEW t \in Tags, Open(t), NEW h \in 1 .. MaxCommits, NEW runs \in [Checks -> Results],
           checks' = [checks EXCEPT ![t][h] = runs],
           pr' = IF Green(runs) THEN [pr EXCEPT ![t].proven = @ \cup {h}] ELSE pr,
           UNCHANGED <<tagged, published, pin, branch>>, upsets' \in 0 .. MaxUpsets
    PROVE  TagShape' /\ Forge' /\ Grows /\ Calm
  <1>1. TagShape'
    BY DEF TagShape
  <1>2. /\ pr \in [Tags -> PullRecords] /\ checks \in [Tags -> CheckTables]
        /\ checks'[t] = [checks[t] EXCEPT ![h] = runs]
        /\ \A u \in Tags \ {t} : pr'[u] = pr[u] /\ checks'[u] = checks[u]
    BY DEF Forge, ForgeShape
  <1>3. /\ pr[t] \in PullRecords
        /\ pr'[t] = IF Green(runs) THEN [pr[t] EXCEPT !.proven = @ \cup {h}] ELSE pr[t]
    BY <1>2
  <1>4. /\ pr'[t] \in PullRecords /\ pr'[t].num = pr[t].num /\ pr'[t].state = pr[t].state
        /\ pr'[t].from = pr[t].from /\ pr'[t].by = pr[t].by /\ pr'[t].queued = pr[t].queued
        /\ pr[t].proven \subseteq pr'[t].proven /\ (Green(runs) => h \in pr'[t].proven)
        /\ pr[t].num \in Nat
    BY <1>3 DEF PullRecords
  <1>5. checks'[t] \in CheckTables
    BY <1>2 DEF CheckTables
  <1>6. ForgeShape'
    <2>1. pr' \in [Tags -> PullRecords]
      BY <1>2, <1>4
    <2>2. checks' \in [Tags -> CheckTables]
      BY <1>2, <1>5
    <2> QED
      BY <2>1, <2>2 DEF Forge, ForgeShape, HeadOf
  <1>7. OpenInv(t) /\ MergedInv(t) /\ ClosedInv(t)
    BY DEF Forge, ForgeInv
  <1>8. OpenInv(t)'
    <2>1. Open(t)'
      BY <1>4 DEF Open
    <2>2. ASSUME NEW g \in 1 .. MaxCommits, Green(checks'[t][g]) PROVE g \in pr'[t].proven
      <3>1. CASE g = h
        <4>1. checks'[t][g] = runs
          BY <1>2, <3>1 DEF CheckTables
        <4> QED
          BY <1>4, <2>2, <3>1, <4>1
      <3>2. CASE g # h
        <4>1. checks'[t][g] = checks[t][g]
          BY <1>2, <3>2 DEF CheckTables
        <4> QED
          BY <1>4, <1>7, <2>2, <4>1 DEF OpenInv
      <3> QED
        BY <3>1, <3>2
    <2>3. Exists(t)' /\ t <= tagged' /\ pr'[t].from < t
      BY <1>4, <1>7 DEF OpenInv, Exists
    <2>4. pr'[t].queued => HeadOf(t)' \in pr'[t].proven
      BY <1>4, <1>7 DEF OpenInv, HeadOf
    <2> QED
      BY <1>4, <1>7, <2>1, <2>2, <2>3, <2>4 DEF OpenInv
  <1>9. pr'[t].state = "open"
    BY <1>4 DEF Open
  <1>10. MergedInv(t)'
    BY <1>9 DEF MergedInv
  <1>11. tagged \in Nat /\ pin \in Nat
    BY BoundsAreNaturals DEF TagShape, Tags
  <1>12. pr[t].num <= pr'[t].num
    BY <1>4
  <1>13. Forge' /\ Grows
    BY <1>1, <1>2, <1>4, <1>6, <1>8, <1>9, <1>10, <1>11, <1>12, OneTag
  <1>14. Calm
    BY <1>2, <1>4 DEF Calm, Exists
  <1> QED
    BY <1>1, <1>13, <1>14

\* A job keeps what it knows while others change the forge.
LEMMA JobKept ==
    ASSUME TagShape, Forge, TagShape', Forge', Grows, Calm, JobShape, JobInv,
           tagged <= tagged', UNCHANGED job
    PROVE  JobShape' /\ JobInv'
  <1>1. JobShape'
    BY DEF JobShape
  <1>2. tagged \in Nat /\ tagged' \in Nat /\ tagged \in 0 .. MaxTag /\ MaxTag \in Nat
    BY BoundsAreNaturals DEF TagShape, Tags
  <1>3. job.tag \in Nat
    BY BoundsAreNaturals DEF JobShape, JobRecords
  <1>4. job.pc # "idle" => job.tag \in 1 .. tagged /\ job.tag \in 1 .. tagged' /\ job.tag \in Tags
    BY <1>2, <1>3 DEF JobInv, Tags
  <1>5. job.pc = "push" => ~Exists(job.tag)' /\ pr'[job.tag].state # "merged"
    BY <1>4 DEF JobInv, Calm
  <1>6. job.pc = "close" => pr'[job.tag].num # 0
    <2> SUFFICES ASSUME job.pc = "close" PROVE pr'[job.tag].num # 0
      OBVIOUS
    <2>1. job.tag \in Tags /\ pr[job.tag].num # 0
      BY <1>4 DEF JobInv
    <2>2. pr[job.tag].num \in Nat /\ pr'[job.tag].num \in Nat
      BY <2>1 DEF Forge, ForgeShape, PullRecords
    <2> QED
      BY <2>1, <2>2 DEF Grows
  <1>7. JobInv'
    BY <1>4, <1>5, <1>6 DEF JobInv, Exists
  <1> QED
    BY <1>1, <1>7

\* Settle keeps what it knows of its rows while others change the forge.
LEMMA SettleKept ==
    ASSUME Forge, Forge', Grows, SettleShape, SettleInv, UNCHANGED settle
    PROVE  SettleShape' /\ SettleInv'
  <1>1. SettleShape'
    BY DEF SettleShape
  <1>2. \A r \in settle.rows : r.num # 0 /\ r.num <= pr'[r.tag].num
    <2> SUFFICES ASSUME NEW r \in settle.rows PROVE r.num # 0 /\ r.num <= pr'[r.tag].num
      OBVIOUS
    <2>1. r.tag \in Tags /\ r.num \in Nat
      BY DEF SettleShape, Rows
    <2>2. pr[r.tag].num \in Nat /\ pr'[r.tag].num \in Nat
      BY <2>1 DEF Forge, ForgeShape, PullRecords
    <2>3. r.num # 0 /\ r.num <= pr[r.tag].num /\ pr[r.tag].num <= pr'[r.tag].num
      BY <2>1 DEF SettleInv, Grows
    <2> QED
      BY <2>1, <2>2, <2>3
  <1>3. Row' = Row
    BY DEF Row
  <1>4. ASSUME settle.pc = "merge", pr'[Row.tag].state = "open", pr'[Row.tag].num = Row.num
        PROVE  Row.head \in pr'[Row.tag].proven
    <2>1. Row \in settle.rows /\ Row.tag \in Tags /\ Row \in Rows
      BY <1>4, NewestRow, BoundsAreNaturals DEF SettleShape
    <2>2. Row.num \in Nat /\ pr[Row.tag].num \in Nat /\ pr'[Row.tag].num \in Nat
      BY <2>1 DEF Forge, ForgeShape, PullRecords, Rows
    <2>3. Row.num <= pr[Row.tag].num /\ pr[Row.tag].num <= pr'[Row.tag].num
      BY <2>1 DEF SettleInv, Grows
    <2>4. pr'[Row.tag].num = pr[Row.tag].num
      BY <1>4, <2>2, <2>3
    <2>5. Open(Row.tag) /\ pr[Row.tag].proven \subseteq pr'[Row.tag].proven
      BY <1>4, <2>1, <2>4 DEF Grows, Open
    <2> QED
      BY <1>4, <2>4, <2>5 DEF SettleInv, Current
  <1>5. SettleInv'
    BY <1>2, <1>3, <1>4 DEF SettleInv, Current, Open
  <1> QED
    BY <1>1, <1>5

\* Settle passes to the next row, or ends.
LEMMA SettleMoved ==
    ASSUME Forge, Forge', Grows, SettleShape, SettleInv, settle' \in {Done, NoSettle}
    PROVE  SettleShape' /\ SettleInv'
  <1>1. /\ settle'.pc \in {"idle", "row"} /\ settle'.rows \subseteq settle.rows
        /\ settle'.left \subseteq settle'.rows
        /\ settle' \in [pc : {"idle", "list", "row", "merge"}, rows : SUBSET Rows, left : SUBSET Rows]
    <2>1. /\ NoSettle.pc = "idle" /\ NoSettle.rows = {} /\ NoSettle.left = {}
          /\ NoSettle \in [pc : {"idle", "list", "row", "merge"}, rows : SUBSET Rows, left : SUBSET Rows]
      BY DEF NoSettle
    <2> DEFINE next == [settle EXCEPT !.pc = "row", !.left = @ \ {Row}]
    <2>2. /\ next.pc = "row" /\ next.rows = settle.rows /\ next.left \subseteq settle.rows
          /\ next \in [pc : {"idle", "list", "row", "merge"}, rows : SUBSET Rows, left : SUBSET Rows]
      BY DEF SettleShape
    <2>3. settle' \in {next, NoSettle}
      BY DEF Done
    <2> QED
      BY <2>1, <2>2, <2>3
  <1>2. SettleShape'
    BY <1>1 DEF SettleShape
  <1>3. \A r \in settle.rows : r.num # 0 /\ r.num <= pr'[r.tag].num
    <2> SUFFICES ASSUME NEW r \in settle.rows PROVE r.num # 0 /\ r.num <= pr'[r.tag].num
      OBVIOUS
    <2>1. r.tag \in Tags /\ r.num \in Nat
      BY DEF SettleShape, Rows
    <2>2. pr[r.tag].num \in Nat /\ pr'[r.tag].num \in Nat
      BY <2>1 DEF Forge, ForgeShape, PullRecords
    <2>3. r.num # 0 /\ r.num <= pr[r.tag].num /\ pr[r.tag].num <= pr'[r.tag].num
      BY <2>1 DEF SettleInv, Grows
    <2> QED
      BY <2>1, <2>2, <2>3
  <1> QED
    BY <1>1, <1>2, <1>3 DEF SettleInv

-----------------------------------------------------------------------------
(* The steps of tags, checks, people and the queue.                        *)

\* A step that leaves the jobs alone.
LEMMA OutsideStep ==
    ASSUME IInv, TagShape', Forge', Grows, Calm, tagged <= tagged', UNCHANGED <<job, settle>>
    PROVE  IInv'
  <1>1. TagShape /\ Forge /\ JobShape /\ JobInv /\ SettleShape /\ SettleInv
    BY DEF IInv, Forge
  <1>2. JobShape' /\ JobInv'
    BY <1>1, JobKept
  <1>3. SettleShape' /\ SettleInv'
    BY <1>1, SettleKept
  <1> QED
    BY <1>2, <1>3 DEF IInv, Forge

LEMMA TagsKeepInv ==
    ASSUME IInv, Tag \/ \E t \in Tags : Publish(t)
    PROVE  IInv'
  <1>1. TagShape /\ Forge /\ tagged \in Nat /\ pin \in Nat
    BY BoundsAreNaturals DEF IInv, Forge, TagShape, Tags
  <1>2. CASE Tag
    <2>1. tagged <= tagged' /\ pin <= pin'
      BY <1>1, <1>2 DEF Tag
    <2>2. TagShape'
      BY <1>1, <1>2, BoundsAreNaturals DEF TagShape, Tag, Tags
    <2>3. Forge' /\ Grows /\ Calm
      BY <1>1, <1>2, <2>1, <2>2, Still DEF Tag
    <2> QED
      BY <1>2, <2>1, <2>2, <2>3, OutsideStep DEF Tag
  <1>3. ASSUME NEW t \in Tags, Publish(t) PROVE IInv'
    <2>1. tagged <= tagged' /\ pin <= pin'
      BY <1>1, <1>3 DEF Publish
    <2>2. TagShape'
      BY <1>1, <1>3, BoundsAreNaturals DEF TagShape, Publish, Tags
    <2>3. Forge' /\ Grows /\ Calm
      BY <1>1, <1>3, <2>1, <2>2, Still DEF Publish
    <2> QED
      BY <1>3, <2>1, <2>2, <2>3, OutsideStep DEF Publish
  <1> QED
    BY <1>2, <1>3

\* What is neither open nor has a run that was started is not written to.
LEMMA ChecksKeepInv ==
    ASSUME IInv, Required # {}, NEW t \in Tags, NEW n \in Checks,
           Rerun(t, n) \/ \E h \in 1 .. MaxCommits : CheckEnds(t, h, n)
    PROVE  IInv'
  <1>1. TagShape /\ Forge /\ tagged \in Nat /\ OpenInv(t) /\ checks[t] \in CheckTables /\ HeadOf(t) \in Nat
    BY BoundsAreNaturals DEF IInv, Forge, ForgeShape, ForgeInv, TagShape, Tags, HeadOf
  <1>2. CASE Rerun(t, n)
    <2> DEFINE h == HeadOf(t)
               runs == [checks[t][h] EXCEPT ![n] = "running"]
    <2>1. Open(t) /\ branch[t] # <<>> /\ branch[t] \in Seq(Authors) /\ HeadOf(t) <= MaxCommits
      BY <1>1, <1>2 DEF Rerun, OpenInv, Exists, Forge, ForgeShape
    <2>2. h \in 1 .. MaxCommits
      BY <1>1, <2>1, EmptySeq, BoundsAreNaturals DEF HeadOf
    <2>3. runs \in [Checks -> Results] /\ runs[n] = "running"
      BY <1>1, <2>2 DEF CheckTables, Results
    <2>4. ~Green(runs)
      BY <2>3 DEF Green
    <2>5. /\ checks' = [checks EXCEPT ![t][h] = runs]
          /\ pr' = IF Green(runs) THEN [pr EXCEPT ![t].proven = @ \cup {h}] ELSE pr
      BY <1>2, <2>4 DEF Rerun
    <2>6. upsets' \in 0 .. MaxUpsets
      BY <1>1, <1>2, BoundsAreNaturals DEF TagShape, Rerun, Upset
    <2>7. UNCHANGED <<tagged, published, pin, branch, job, settle>>
      BY <1>2 DEF Rerun, World
    <2>8. TagShape' /\ Forge' /\ Grows /\ Calm
      <3> HIDE DEF h, runs
      <3> QED
        BY <1>1, <2>1, <2>2, <2>3, <2>5, <2>6, <2>7, RunsMoved
    <2> QED
      BY <1>1, <2>7, <2>8, OutsideStep
  <1>3. ASSUME NEW h \in 1 .. MaxCommits, CheckEnds(t, h, n) PROVE IInv'
    <2>1. PICK c \in {"success", "failure", "skipped"} :
             LET runs == [checks[t][h] EXCEPT ![n] = c]
             IN  /\ checks' = [checks EXCEPT ![t][h] = runs]
                 /\ pr' = IF Green(runs) THEN [pr EXCEPT ![t].proven = @ \cup {h}] ELSE pr
      BY <1>3 DEF CheckEnds
    <2> DEFINE runs == [checks[t][h] EXCEPT ![n] = c]
    <2>2. Open(t)
      <3> SUFFICES ASSUME ~Open(t) PROVE FALSE
        OBVIOUS
      <3>1. checks[t] = Unchecked
        BY <1>1 DEF OpenInv
      <3>2. Unchecked[h] = NoRuns
        BY DEF Unchecked
      <3>3. NoRuns[n] = "none"
        BY DEF NoRuns
      <3>4. checks[t][h][n] = "none"
        BY <3>1, <3>2, <3>3
      <3> QED
        BY <1>3, <3>4 DEF CheckEnds
    <2>3. runs \in [Checks -> Results]
      BY <1>1 DEF CheckTables, Results
    <2>4. UNCHANGED <<tagged, published, pin, branch, job, settle>> /\ upsets' \in 0 .. MaxUpsets
      BY <1>1, <1>3 DEF CheckEnds, World, TagShape
    <2>5. /\ checks' = [checks EXCEPT ![t][h] = runs]
          /\ pr' = IF Green(runs) THEN [pr EXCEPT ![t].proven = @ \cup {h}] ELSE pr
      BY <2>1
    <2>6. TagShape' /\ Forge' /\ Grows /\ Calm
      <3> HIDE DEF runs
      <3> QED
        BY <1>1, <2>2, <2>3, <2>4, <2>5, RunsMoved
    <2> QED
      BY <1>1, <2>4, <2>6, OutsideStep
  <1> QED
    BY <1>2, <1>3

\* The new head has checks that run, so no verdict of an older head is its own.
LEMMA PushKeepsInv ==
    ASSUME IInv, Required # {}, NEW t \in Tags, PersonPushes(t)
    PROVE  IInv'
  <1>1. /\ TagShape /\ Forge /\ tagged \in Nat /\ pin \in Nat
        /\ OpenInv(t) /\ MergedInv(t)
        /\ pr[t] \in PullRecords /\ checks[t] \in CheckTables /\ branch[t] \in Seq(Authors)
    BY BoundsAreNaturals DEF IInv, Forge, ForgeShape, ForgeInv, TagShape, Tags
  <1>2. UNCHANGED <<tagged, published, pin, job, settle>> /\ upsets' \in 0 .. MaxUpsets
    BY <1>1, BoundsAreNaturals DEF PersonPushes, World, Upset, TagShape
  <1>3. TagShape'
    BY <1>1, <1>2 DEF TagShape
  <1> DEFINE h == HeadOf(t) + 1
             runs == [m \in Checks |-> "running"]
  <1>4. h \in 1 .. MaxCommits
    BY <1>1, BoundsAreNaturals DEF PersonPushes, HeadOf
  <1>5. runs \in [Checks -> Results] /\ ~Green(runs)
    BY ConstantsAssumption DEF Results, Green
  <1>6. /\ \A u \in Tags \ {t} : branch'[u] = branch[u] /\ checks'[u] = checks[u] /\ pr'[u] = pr[u]
        /\ branch'[t] = Append(branch[t], Person) /\ pr'[t] = [pr[t] EXCEPT !.queued = FALSE]
        /\ checks'[t] = [checks[t] EXCEPT ![h] = runs]
    BY <1>1 DEF PersonPushes, Forge, ForgeShape
  <1>7. /\ pr'[t] \in PullRecords /\ pr'[t].num = pr[t].num /\ pr'[t].state = pr[t].state
        /\ pr'[t].from = pr[t].from /\ pr'[t].by = pr[t].by /\ ~pr'[t].queued
        /\ pr'[t].proven = pr[t].proven /\ pr[t].num \in Nat
    BY <1>1, <1>6 DEF PullRecords
  <1>8. branch'[t] \in Seq(Authors) /\ branch'[t] # <<>> /\ Len(branch'[t]) = h
    BY <1>1, <1>6 DEF HeadOf, Authors
  <1>9. ForgeShape'
    <2>1. pr' \in [Tags -> PullRecords]
      BY <1>7 DEF Forge, ForgeShape, PersonPushes, IInv
    <2>2. checks' \in [Tags -> CheckTables]
      <3>1. checks'[t] \in CheckTables
        BY <1>1, <1>5, <1>6 DEF CheckTables
      <3> QED
        BY <1>1, <3>1 DEF Forge, ForgeShape, PersonPushes
    <2>3. branch' \in [Tags -> Seq(Authors)] /\ \A u \in Tags : HeadOf(u)' <= MaxCommits
      <3>1. \A u \in Tags : Len(branch'[u]) <= MaxCommits
        BY <1>1, <1>4, <1>6, <1>8 DEF Forge, ForgeShape, HeadOf
      <3> QED
        BY <1>1, <1>8, <3>1 DEF Forge, ForgeShape, PersonPushes, HeadOf
    <2> QED
      BY <2>1, <2>2, <2>3 DEF ForgeShape
  <1>10. Open(t) /\ pr'[t].state = "open"
    BY <1>7 DEF PersonPushes, Open
  <1>11. ASSUME NEW g \in 1 .. MaxCommits, Green(checks'[t][g]) PROVE g \in pr'[t].proven
    <2>1. g # h
      BY <1>1, <1>5, <1>6, <1>11 DEF CheckTables
    <2>2. checks'[t][g] = checks[t][g]
      BY <1>1, <1>6, <2>1 DEF CheckTables
    <2> QED
      BY <1>1, <1>7, <1>10, <1>11, <2>2 DEF OpenInv
  <1>12. OpenInv(t)'
    BY <1>1, <1>2, <1>7, <1>8, <1>10, <1>11 DEF OpenInv, Open, Exists
  <1>13. MergedInv(t)'
    BY <1>10 DEF MergedInv
  <1>14. tagged <= tagged' /\ pin <= pin' /\ pr[t].num <= pr'[t].num
    BY <1>1, <1>2, <1>7
  <1>15. Forge' /\ Grows
    BY <1>1, <1>3, <1>6, <1>7, <1>9, <1>10, <1>12, <1>13, <1>14, OneTag
  <1>16. Calm
    <2>1. Exists(t)
      BY <1>1, <1>10 DEF OpenInv
    <2> QED
      BY <1>6, <2>1 DEF Calm, Exists
  <1> QED
    BY <1>2, <1>3, <1>14, <1>15, <1>16, OutsideStep

LEMMA PeopleKeepInv ==
    ASSUME IInv, NEW t \in Tags,
           PersonReadies(t) \/ PersonCloses(t) \/ PersonMerges(t) \/ PersonDeletes(t)
    PROVE  IInv'
  <1>1. /\ TagShape /\ Forge /\ ForgeShape /\ tagged \in Nat /\ pin \in Nat
        /\ OpenInv(t) /\ MergedInv(t) /\ ClosedInv(t) /\ pr[t] \in PullRecords
    BY BoundsAreNaturals DEF IInv, Forge, ForgeShape, ForgeInv, TagShape, Tags
  <1>2. UNCHANGED <<tagged, published, job, settle>> /\ upsets' \in 0 .. MaxUpsets
    BY <1>1, BoundsAreNaturals
    DEF PersonReadies, PersonCloses, PersonMerges, PersonDeletes, World, Upset, TagShape
  <1>3. tagged <= tagged'
    BY <1>1, <1>2
  <1>4. CASE PersonReadies(t)
    <2> DEFINE p == [pr[t] EXCEPT !.draft = FALSE]
    <2>1. pr' = [pr EXCEPT ![t] = p] /\ UNCHANGED <<pin, branch, checks>>
      BY <1>1, <1>4 DEF PersonReadies, ForgeShape
    <2>2. /\ p \in PullRecords /\ p.num = pr[t].num /\ p.state = pr[t].state /\ p.from = pr[t].from
          /\ p.by = pr[t].by /\ p.proven = pr[t].proven /\ p.queued = pr[t].queued
      BY <1>1 DEF PullRecords
    <2>3. p.queued => Open(t) /\ HeadOf(t) \in pr[t].proven
      BY <1>1, <2>2 DEF OpenInv
    <2>4. TagShape' /\ Forge' /\ Grows /\ Calm
      <3> HIDE DEF p
      <3> QED
        BY <1>1, <1>2, <2>1, <2>2, <2>3, Marked
    <2> QED
      BY <1>2, <1>3, <2>4, OutsideStep
  <1>5. CASE PersonCloses(t)
    <2>1. /\ Open(t) /\ pr' = [pr EXCEPT ![t] = Closed(t, Person)] /\ Forget(t)
          /\ UNCHANGED <<pin, branch>>
      BY <1>5 DEF PersonCloses
    <2>2. Person # "bot"
      BY DEF Person
    <2>3. TagShape' /\ Forge' /\ Grows /\ Calm
      BY <1>1, <1>2, <2>1, <2>2, ClosedOne
    <2> QED
      BY <1>2, <1>3, <2>3, OutsideStep
  <1>6. CASE PersonMerges(t)
    <2>1. /\ Mergeable(t) /\ pr' = [pr EXCEPT ![t] = Merged(t, Person)] /\ Forget(t) /\ pin' = t
          /\ UNCHANGED branch
      BY <1>6 DEF PersonMerges
    <2>2. Person # "bot"
      BY DEF Person
    <2>3. TagShape' /\ Forge' /\ Grows /\ Calm
      BY <1>1, <1>2, <2>1, <2>2, LandedOne
    <2> QED
      BY <1>2, <1>3, <2>3, OutsideStep
  <1>7. CASE PersonDeletes(t) /\ Open(t)
    <2>1. /\ pr' = [pr EXCEPT ![t] = Closed(t, Person)] /\ Forget(t)
          /\ branch' = [branch EXCEPT ![t] = <<>>] /\ UNCHANGED pin
      BY <1>7 DEF PersonDeletes
    <2>2. Person # "bot"
      BY DEF Person
    <2>3. TagShape' /\ Forge' /\ Grows /\ Calm
      BY <1>1, <1>2, <1>7, <2>1, <2>2, ClosedOne
    <2> QED
      BY <1>2, <1>3, <2>3, OutsideStep
  <1>8. CASE PersonDeletes(t) /\ ~Open(t)
    <2>1. /\ pr' = pr /\ checks' = [checks EXCEPT ![t] = Unchecked]
          /\ branch' = [branch EXCEPT ![t] = <<>>] /\ pin' = pin
      BY <1>8 DEF PersonDeletes, Forget
    <2>2. TagShape'
      BY <1>1, <1>2, <2>1 DEF TagShape
    <2>3. /\ branch'[t] = <<>> /\ checks'[t] = Unchecked
          /\ \A u \in Tags \ {t} : branch'[u] = branch[u] /\ checks'[u] = checks[u] /\ pr'[u] = pr[u]
      BY <1>1, <2>1 DEF ForgeShape
    <2>4. ForgeShape'
      <3>1. <<>> \in Seq(Authors) /\ Len(<<>>) <= MaxCommits
        BY BoundsAreNaturals
      <3>2. checks' \in [Tags -> CheckTables]
        BY <1>1, <2>1, UncheckedIsATable DEF ForgeShape
      <3>3. \A u \in Tags : Len(branch'[u]) <= MaxCommits
        BY <1>1, <2>3, <3>1 DEF ForgeShape, HeadOf
      <3> QED
        BY <1>1, <2>1, <3>1, <3>2, <3>3 DEF ForgeShape, HeadOf
    <2>5. OpenInv(t)' /\ MergedInv(t)'
      BY <1>1, <1>8, <2>1, <2>3 DEF OpenInv, MergedInv, Open, Exists, HeadOf
    <2>6. /\ pin <= pin' /\ pr[t].num <= pr'[t].num /\ ~Open(t)'
          /\ pr'[t].state = "closed" /\ pr'[t].by = "bot" => \E u \in Tags : u > t /\ pr[u].num # 0
      BY <1>1, <1>8, <2>1 DEF Open, ClosedInv, PullRecords
    <2>7. Forge' /\ Grows
      BY <1>1, <1>3, <2>2, <2>3, <2>4, <2>5, <2>6, OneTag
    <2>8. Calm
      BY <1>8, <2>1, <2>3 DEF Calm, Exists, PersonDeletes
    <2> QED
      BY <1>2, <1>3, <2>2, <2>7, <2>8, OutsideStep
  <1> QED
    BY <1>4, <1>5, <1>6, <1>7, <1>8

LEMMA QueueKeepsInv ==
    ASSUME IInv, NEW t \in Tags, QueueLands(t) \/ QueueDrops(t)
    PROVE  IInv'
  <1>1. /\ TagShape /\ Forge /\ tagged \in Nat /\ OpenInv(t) /\ pr[t] \in PullRecords
        /\ pr \in [Tags -> PullRecords]
    BY BoundsAreNaturals DEF IInv, Forge, ForgeShape, ForgeInv, TagShape, Tags
  <1>2. UNCHANGED <<tagged, published, job, settle>> /\ upsets' \in 0 .. MaxUpsets /\ tagged <= tagged'
    BY <1>1 DEF QueueLands, QueueDrops, World, TagShape
  <1>3. CASE QueueLands(t)
    <2>1. /\ Mergeable(t) /\ pr' = [pr EXCEPT ![t] = Merged(t, "bot")] /\ Forget(t) /\ pin' = t
          /\ UNCHANGED branch /\ HeadOf(t) \in pr[t].proven
      BY <1>1, <1>3 DEF QueueLands, OpenInv
    <2>2. TagShape' /\ Forge' /\ Grows /\ Calm
      BY <1>1, <1>2, <2>1, LandedOne
    <2> QED
      BY <1>2, <2>2, OutsideStep
  <1>4. CASE QueueDrops(t)
    <2> DEFINE p == [pr[t] EXCEPT !.queued = FALSE]
    <2>1. pr' = [pr EXCEPT ![t] = p] /\ UNCHANGED <<pin, branch, checks>>
      BY <1>1, <1>4 DEF QueueDrops
    <2>2. /\ p \in PullRecords /\ p.num = pr[t].num /\ p.state = pr[t].state /\ p.from = pr[t].from
          /\ p.by = pr[t].by /\ p.proven = pr[t].proven /\ ~p.queued
      BY <1>1 DEF PullRecords
    <2>3. TagShape' /\ Forge' /\ Grows /\ Calm
      <3> HIDE DEF p
      <3> QED
        BY <1>1, <1>2, <2>1, <2>2, Marked
    <2> QED
      BY <1>2, <2>3, OutsideStep
  <1> QED
    BY <1>3, <1>4

-----------------------------------------------------------------------------
(* The steps of the poll and repin jobs.                                   *)

\* A step that leaves settle alone and gives the job a state it can be in.
LEMMA InsideStep ==
    ASSUME IInv, TagShape', Forge', Grows, UNCHANGED settle, JobShape', JobInv'
    PROVE  IInv'
  <1>1. Forge /\ SettleShape /\ SettleInv
    BY DEF IInv, Forge
  <1>2. SettleShape' /\ SettleInv'
    BY <1>1, SettleKept
  <1> QED
    BY <1>2 DEF IInv, Forge

LEMMA NoJobIsSafe ==
    ASSUME job' = NoJob
    PROVE  JobShape' /\ JobInv'
  BY BoundsAreNaturals DEF NoJob, JobShape, JobRecords, JobInv

\* A step of the job that changes nothing else.
LEMMA LocalStep ==
    ASSUME IInv, UNCHANGED <<tagged, published, pin, branch, checks, pr, settle>>, upsets' \in 0 .. MaxUpsets,
           JobShape', JobInv'
    PROVE  IInv'
  <1>1. TagShape /\ Forge /\ tagged \in Nat /\ pin \in Nat
    BY BoundsAreNaturals DEF IInv, Forge, TagShape, Tags
  <1>2. TagShape' /\ tagged <= tagged' /\ pin <= pin'
    BY <1>1 DEF TagShape
  <1>3. Forge' /\ Grows
    BY <1>1, <1>2, Still
  <1> QED
    BY <1>2, <1>3, InsideStep

LEMMA StartKeepsInv ==
    ASSUME IInv, NEW t \in Tags, t <= tagged, StartRun(t)
    PROVE  IInv'
  <1>1. TagShape /\ Forge /\ tagged \in Nat /\ pin \in Nat /\ tagged \in 0 .. MaxTag
    BY BoundsAreNaturals DEF IInv, Forge, TagShape, Tags
  <1>2. UNCHANGED <<tagged, published, pin, branch, checks, pr, upsets>>
    BY DEF StartRun, env
  <1>3. TagShape' /\ tagged <= tagged' /\ pin <= pin'
    BY <1>1, <1>2 DEF TagShape
  <1>4. Forge'
    BY <1>1, <1>2, <1>3, Still
  <1>5. /\ job' = [NoJob EXCEPT !.pc = "poll", !.tag = t]
        /\ settle' = [NoSettle EXCEPT !.pc = "list"]
    BY DEF StartRun
  <1>6. JobShape' /\ job'.pc = "poll" /\ job'.tag = t /\ job'.older = {}
    <2>1. NoJob \in JobRecords /\ NoJob.older = {} /\ t \in 0 .. MaxTag
      BY BoundsAreNaturals DEF JobRecords, NoJob, Tags
    <2>2. /\ job' \in JobRecords /\ job'.pc = "poll" /\ job'.tag = t /\ job'.older = NoJob.older
      BY <1>5, <2>1 DEF JobRecords
    <2> QED
      BY <2>1, <2>2 DEF JobShape, JobRecords
  <1>7. JobInv'
    BY <1>1, <1>2, <1>6 DEF JobInv, Tags
  <1>8. SettleShape' /\ SettleInv'
    BY <1>5 DEF SettleShape, SettleInv, NoSettle
  <1> QED
    BY <1>3, <1>4, <1>6, <1>7, <1>8 DEF IInv, Forge

\* What poll and build find holds until the branch is pushed: nobody else makes it.
LEMMA PollKeepsInv ==
    ASSUME IInv, Poll \/ PollUnread \/ Build \/ JobFails
    PROVE  IInv'
  <1>1. TagShape /\ ForgeShape /\ ForgeInv /\ JobShape /\ JobInv /\ job \in JobRecords
        /\ tagged \in Nat /\ pin \in Nat /\ tagged \in 0 .. MaxTag
    BY BoundsAreNaturals DEF IInv, TagShape, Tags, JobShape, JobRecords
  <1>2. /\ UNCHANGED <<tagged, published, pin, branch, checks, pr, settle>> /\ upsets' \in 0 .. MaxUpsets
    <2>1. CASE Poll
      BY <1>1, <2>1 DEF Poll, JobLocal, env, TagShape
    <2>2. CASE Build
      BY <1>1, <2>2 DEF Build, JobLocal, env, TagShape
    <2>3. CASE PollUnread \/ JobFails
      <3>1. Upset /\ UNCHANGED <<pin, branch, checks, pr, settle>> /\ UNCHANGED env
        BY <2>3 DEF PollUnread, JobFails
      <3> QED
        BY <1>1, <3>1, BoundsAreNaturals DEF Upset, env, TagShape
    <2> QED
      BY <2>1, <2>2, <2>3
  <1>3. CASE job' = NoJob
    BY <1>2, <1>3, NoJobIsSafe, LocalStep
  <1>4. CASE job.pc = "poll" /\ job' = [job EXCEPT !.pc = "build"]
    <2>1. /\ job' \in JobRecords /\ job'.pc = "build" /\ job'.tag = job.tag /\ job'.older = job.older
      BY <1>1, <1>4 DEF JobRecords
    <2>2. JobShape' /\ JobInv'
      BY <1>1, <1>2, <1>4, <2>1 DEF JobShape, JobInv, JobRecords
    <2> QED
      BY <1>2, <2>2, LocalStep
  <1>5. ASSUME Build, NEW ok \in BOOLEAN, ~Exists(job.tag), Ahead(job.tag),
               job' = [job EXCEPT !.pc = "push", !.from = pin, !.ok = ok]
        PROVE  IInv'
    <2>1. /\ job' \in JobRecords /\ job'.pc = "push" /\ job'.tag = job.tag /\ job'.older = job.older
          /\ job'.from = pin
      BY <1>1, <1>5 DEF JobRecords
    <2>2. job.tag \in 1 .. tagged /\ job.tag \in Tags
      <3>1. job.pc = "build"
        BY <1>5 DEF Build
      <3>2. job.tag \in 1 .. tagged
        BY <1>1, <3>1 DEF JobInv
      <3> QED
        BY <1>1, <3>2, BoundsAreNaturals DEF Tags
    <2>3. pin < job.tag /\ pr[job.tag].state # "merged"
      BY <1>1, <1>5, <2>2 DEF Ahead, ForgeInv, MergedInv
    <2>4. JobShape'
      BY <2>1 DEF JobShape, JobRecords
    <2>5. JobInv'
      BY <1>1, <1>2, <1>5, <2>1, <2>2, <2>3 DEF JobInv, Exists
    <2> QED
      BY <1>2, <2>4, <2>5, LocalStep
  <1> QED
    BY <1>3, <1>4, <1>5 DEF Poll, PollUnread, Build, JobFails, ToJob

\* The pushed branch is the job's own; the pull request is a new one, ahead of what
\* it was built on.
LEMMA PushBranchKeepsInv ==
    ASSUME IInv, PushBranch
    PROVE  IInv'
  <1>1. /\ TagShape /\ Forge /\ JobShape /\ JobInv /\ job \in JobRecords
        /\ tagged \in Nat /\ pin \in Nat /\ tagged \in 0 .. MaxTag
    BY BoundsAreNaturals DEF IInv, Forge, TagShape, Tags, JobShape, JobRecords
  <1>2. PICK t \in Tags : /\ job.pc = "push" /\ t = job.tag /\ t \in 1 .. tagged /\ ~Exists(t)
                         /\ pr[t].state # "merged"
    <2>1. job.pc = "push"
      BY DEF PushBranch
    <2>2. job.tag \in 1 .. tagged /\ ~Exists(job.tag) /\ pr[job.tag].state # "merged"
      BY <1>1, <2>1 DEF JobInv
    <2>3. job.tag \in Tags
      BY <1>1, <2>2, BoundsAreNaturals DEF Tags
    <2> QED
      BY <2>1, <2>2, <2>3
  <1>3. /\ branch' = [branch EXCEPT ![t] = <<Author>>] /\ job' = [job EXCEPT !.pc = "open"]
        /\ UNCHANGED <<tagged, published, pin, checks, pr, settle, upsets>>
    BY <1>2 DEF PushBranch, ToJob, env
  <1>4. TagShape' /\ tagged <= tagged' /\ pin <= pin'
    BY <1>1, <1>3 DEF TagShape
  <1>5. OpenInv(t) /\ MergedInv(t) /\ ClosedInv(t) /\ ~Open(t)
    BY <1>1, <1>2 DEF Forge, ForgeInv, OpenInv
  <1>6. /\ branch'[t] = <<Author>>
        /\ \A u \in Tags \ {t} : branch'[u] = branch[u] /\ checks'[u] = checks[u] /\ pr'[u] = pr[u]
    BY <1>1, <1>2, <1>3 DEF Forge, ForgeShape
  <1>7. ForgeShape'
    <2>1. <<Author>> \in Seq(Authors) /\ Len(<<Author>>) <= MaxCommits
      BY BoundsAreNaturals DEF Authors
    <2>2. \A u \in Tags : Len(branch'[u]) <= MaxCommits
      BY <1>1, <1>6, <2>1 DEF Forge, ForgeShape, HeadOf
    <2> QED
      BY <1>1, <1>3, <2>1, <2>2 DEF Forge, ForgeShape, HeadOf
  <1>8. OpenInv(t)' /\ MergedInv(t)'
    <2>1. ~Open(t)' /\ pr'[t] = pr[t] /\ checks'[t] = checks[t] /\ pr'[t].state # "merged"
      BY <1>2, <1>3, <1>5 DEF Open
    <2> QED
      BY <1>2, <1>3, <1>5, <2>1 DEF OpenInv, MergedInv, Open
  <1>9. pr[t].num <= pr'[t].num /\ pr'[t] = pr[t] /\ ~Open(t)'
    BY <1>1, <1>2, <1>3, <1>5 DEF Forge, ForgeShape, PullRecords, Open
  <1>10. Forge' /\ Grows
    <2>1. pr'[t].state = "closed" /\ pr'[t].by = "bot" => \E u \in Tags : u > t /\ pr[u].num # 0
      BY <1>5, <1>9 DEF ClosedInv
    <2> QED
      BY <1>1, <1>4, <1>6, <1>7, <1>8, <1>9, <2>1, OneTag
  <1>11. JobShape' /\ JobInv'
    <2>1. /\ job' \in JobRecords /\ job'.pc = "open" /\ job'.tag = job.tag /\ job'.older = job.older
          /\ job'.from = job.from
      BY <1>1, <1>3 DEF JobRecords
    <2> QED
      BY <1>1, <1>2, <1>3, <2>1 DEF JobShape, JobInv, JobRecords
  <1> QED
    BY <1>3, <1>4, <1>10, <1>11, InsideStep

LEMMA OpenPullKeepsInv ==
    ASSUME IInv, Required # {}, OpenPull
    PROVE  IInv'
  <1>1. /\ TagShape /\ Forge /\ JobShape /\ JobInv /\ job \in JobRecords
        /\ tagged \in Nat /\ pin \in Nat /\ tagged \in 0 .. MaxTag
    BY BoundsAreNaturals DEF IInv, Forge, TagShape, Tags, JobShape, JobRecords
  <1>2. PICK t \in Tags : job.pc = "open" /\ t = job.tag /\ t \in 1 .. tagged /\ job.from < t
    <2>1. job.pc = "open"
      BY DEF OpenPull
    <2>2. job.tag \in 1 .. tagged /\ job.from < job.tag
      BY <1>1, <2>1 DEF JobInv
    <2>3. job.tag \in Tags
      BY <1>1, <2>2, BoundsAreNaturals DEF Tags
    <2> QED
      BY <2>1, <2>2, <2>3
  <1>3. UNCHANGED <<tagged, published, pin, branch, checks, settle, upsets>>
    BY DEF OpenPull, env
  <1>4. TagShape' /\ tagged <= tagged' /\ pin <= pin' /\ upsets' \in 0 .. MaxUpsets
    BY <1>1, <1>3 DEF TagShape
  <1>5. CASE ~(Exists(t) /\ ~Open(t))
    <2>1. job' = NoJob /\ pr' = pr
      BY <1>2, <1>5 DEF OpenPull, ToJob
    <2> QED
      BY <1>3, <1>4, <2>1, NoJobIsSafe, LocalStep
  <1>6. CASE Exists(t) /\ ~Open(t)
    <2> DEFINE p == [NoPull EXCEPT !.num = pr[t].num + 1, !.state = "open",
                                   !.draft = ~job.ok, !.from = job.from]
               older == {u \in Tags : Open(u) /\ Older(u, t)}
               pulls == {<<u, pr[u].num>> : u \in older}
    <2>1. /\ pr' = [pr EXCEPT ![t] = p]
          /\ job' = [job EXCEPT !.pc = "close", !.older = pulls]
      BY <1>2, <1>6 DEF OpenPull, ToJob
    <2>2. pr \in [Tags -> PullRecords] /\ pr[t].num \in Nat /\ job.ok \in BOOLEAN /\ job.from \in Nat
      BY <1>1 DEF Forge, ForgeShape, PullRecords, JobRecords
    <2>3. /\ p \in PullRecords /\ p.num = pr[t].num + 1 /\ p.state = "open" /\ ~p.queued
          /\ p.from = job.from /\ p.num # 0
      <3>1. /\ NoPull \in PullRecords /\ ~NoPull.queued
        BY DEF NoPull, PullRecords
      <3>2. PICK m \in Nat : m = pr[t].num + 1 /\ m # 0
        BY <2>2
      <3>3. PICK d \in BOOLEAN : d = ~job.ok
        BY Zenon
      <3>4. p = [NoPull EXCEPT !.num = m, !.state = "open", !.draft = d, !.from = job.from]
        BY <3>2, <3>3, Zenon
      <3> HIDE DEF p
      <3>5. /\ p \in PullRecords /\ p.num = m /\ p.state = "open" /\ ~p.queued /\ p.from = job.from
        BY <2>2, <3>1, <3>4 DEF PullRecords
      <3> QED
        BY <3>2, <3>5
    <2>4. pr'[t] = p /\ \A u \in Tags \ {t} : pr'[u] = pr[u]
      BY <2>1, <2>2
    <2>5. ForgeShape'
      <3>1. pr' \in [Tags -> PullRecords]
        BY <2>1, <2>2, <2>3
      <3> QED
        BY <1>1, <1>3, <3>1 DEF Forge, ForgeShape, HeadOf
    <2>6. checks[t] = Unchecked
      BY <1>1, <1>6 DEF Forge, ForgeInv, OpenInv
    <2>7. \A h \in 1 .. MaxCommits : ~Green(checks'[t][h])
      BY <1>3, <2>6, UncheckedIsNotGreen
    <2>8. OpenInv(t)' /\ MergedInv(t)'
      <3> HIDE DEF p, older, pulls
      <3> QED
        BY <1>1, <1>2, <1>3, <1>6, <2>3, <2>4, <2>7 DEF OpenInv, MergedInv, Open, Exists
    <2>9. pr[t].num <= pr'[t].num /\ pr'[t].num # pr[t].num /\ pr'[t].state # "closed"
      BY <2>2, <2>3, <2>4
    <2>10. Forge' /\ Grows
      <3> HIDE DEF p, older, pulls
      <3> QED
        BY <1>1, <1>3, <1>4, <2>4, <2>5, <2>8, <2>9, OneTag
    <2>11. pulls \in SUBSET (Tags \X Nat) /\ \A q \in pulls : q[1] < t
      BY <2>2 DEF Older, PullRecords
    <2>12. JobShape' /\ JobInv'
      <3> HIDE DEF p, older, pulls
      <3>1. /\ job' \in JobRecords /\ job'.pc = "close" /\ job'.tag = t /\ job'.older = pulls
        BY <1>1, <1>2, <2>1, <2>11 DEF JobRecords
      <3> QED
        BY <1>2, <1>3, <2>3, <2>4, <2>11, <3>1 DEF JobShape, JobRecords, JobInv
    <2> QED
      BY <1>3, <1>4, <2>10, <2>12, InsideStep
  <1> QED
    BY <1>5, <1>6

\* The newer tag whose repin replaces the older ones has a number of its own.
LEMMA CloseOlderKeepsInv ==
    ASSUME IInv, NEW p \in job.older, CloseOlder(p[1], p[2]) \/ CloseOlderFails(p[1], p[2])
    PROVE  IInv'
  <1>1. /\ TagShape /\ Forge /\ JobShape /\ JobInv /\ job \in JobRecords
        /\ tagged \in Nat /\ pin \in Nat /\ tagged \in 0 .. MaxTag
    BY BoundsAreNaturals DEF IInv, Forge, TagShape, Tags, JobShape, JobRecords
  <1>2. PICK u \in Tags : u = p[1] /\ u < job.tag
    BY <1>1 DEF JobRecords, JobInv
  <1>3. job.pc = "close" /\ job' = [job EXCEPT !.older = @ \ {<<u, p[2]>>}]
    BY <1>2 DEF CloseOlder, CloseOlderFails, ToJob
  <1>4. job.tag \in 1 .. tagged /\ job.tag \in Tags /\ pr[job.tag].num # 0
    <2>1. job.tag \in 1 .. tagged /\ pr[job.tag].num # 0
      BY <1>1, <1>3 DEF JobInv
    <2> QED
      BY <1>1, <2>1, BoundsAreNaturals DEF Tags
  <1>5. UNCHANGED <<tagged, published, pin, settle>> /\ upsets' \in 0 .. MaxUpsets
    BY <1>1, BoundsAreNaturals DEF CloseOlder, CloseOlderFails, env, Upset, TagShape
  <1>6. /\ job' \in JobRecords /\ job'.pc = "close" /\ job'.tag = job.tag
        /\ job'.older \subseteq job.older
    BY <1>1, <1>3 DEF JobRecords
  <1>7. CASE CloseOlder(p[1], p[2]) /\ Open(u) /\ pr[u].num = p[2]
    <2>1. /\ pr' = [pr EXCEPT ![u] = Closed(u, "bot")]
          /\ branch' = [branch EXCEPT ![u] = <<>>]
          /\ Forget(u)
      BY <1>2, <1>7 DEF CloseOlder
    <2>2. \E w \in Tags : w > u /\ pr[w].num # 0
      BY <1>2, <1>4 DEF Tags
    <2>3. TagShape' /\ Forge' /\ Grows /\ Calm
      BY <1>1, <1>5, <1>7, <2>1, <2>2, ClosedOne
    <2>4. pr'[job.tag].num # 0
      <3>1. pr[job.tag].num \in Nat /\ pr'[job.tag].num \in Nat
        BY <1>1, <1>4, <2>3 DEF Forge, ForgeShape, PullRecords
      <3> QED
        BY <1>4, <2>3, <3>1 DEF Grows
    <2>5. JobShape' /\ JobInv'
      BY <1>1, <1>4, <1>5, <1>6, <2>4 DEF JobShape, JobRecords, JobInv
    <2> QED
      BY <1>5, <2>3, <2>5, InsideStep
  <1>8. CASE ~(CloseOlder(p[1], p[2]) /\ Open(u) /\ pr[u].num = p[2])
    <2>1. UNCHANGED <<branch, checks, pr>>
      BY <1>2, <1>8 DEF CloseOlder, CloseOlderFails
    <2>2. JobShape' /\ JobInv'
      BY <1>1, <1>4, <1>5, <1>6, <2>1 DEF JobShape, JobRecords, JobInv
    <2> QED
      BY <1>5, <2>1, <2>2, LocalStep
  <1> QED
    BY <1>7, <1>8

LEMMA DispatchKeepsInv ==
    ASSUME IInv, Required # {}, Dispatch
    PROVE  IInv'
  <1>1. /\ TagShape /\ Forge /\ JobInv
        /\ tagged \in Nat /\ pin \in Nat /\ tagged \in 0 .. MaxTag
    BY BoundsAreNaturals DEF IInv, Forge, TagShape, Tags
  <1>2. PICK t \in Tags : job.pc = "close" /\ t = job.tag
    <2>1. job.pc = "close"
      BY DEF Dispatch
    <2>2. job.tag \in 1 .. tagged
      BY <1>1, <2>1 DEF JobInv
    <2>3. job.tag \in Tags
      BY <1>1, <2>2, BoundsAreNaturals DEF Tags
    <2> QED
      BY <2>1, <2>3
  <1>3. UNCHANGED <<tagged, published, pin, branch, pr, settle>> /\ upsets' \in 0 .. MaxUpsets /\ job' = NoJob
    BY <1>1 DEF Dispatch, env, TagShape, ToJob
  <1>4. CASE job.ok /\ Open(t)
    <2> DEFINE h == HeadOf(t)
               runs == [n \in Checks |-> "running"]
    <2>1. branch[t] # <<>> /\ branch[t] \in Seq(Authors) /\ HeadOf(t) <= MaxCommits
      BY <1>1, <1>4 DEF OpenInv, Exists, Forge, ForgeShape, ForgeInv
    <2>2. h \in 1 .. MaxCommits
      BY <2>1, EmptySeq, BoundsAreNaturals DEF HeadOf
    <2>3. runs \in [Checks -> Results] /\ ~Green(runs)
      BY ConstantsAssumption DEF Results, Green
    <2>4. /\ checks' = [checks EXCEPT ![t][h] = runs]
          /\ pr' = IF Green(runs) THEN [pr EXCEPT ![t].proven = @ \cup {h}] ELSE pr
      BY <1>2, <1>3, <1>4, <2>3 DEF Dispatch
    <2>5. TagShape' /\ Forge' /\ Grows
      <3> HIDE DEF h, runs
      <3> QED
        BY <1>1, <1>3, <1>4, <2>2, <2>3, <2>4, RunsMoved
    <2> QED
      BY <1>3, <2>5, NoJobIsSafe, InsideStep
  <1>5. CASE ~(job.ok /\ Open(t))
    <2>1. checks' = checks
      BY <1>2, <1>5 DEF Dispatch
    <2> QED
      BY <1>3, <2>1, NoJobIsSafe, LocalStep
  <1> QED
    BY <1>4, <1>5

-----------------------------------------------------------------------------
(* The steps of settle.                                                    *)

\* A step of settle that is done with its row.
LEMMA RowStep ==
    ASSUME IInv, TagShape', Forge', Grows, Calm, UNCHANGED <<tagged, job>>, settle' \in {Done, NoSettle}
    PROVE  IInv'
  <1>1. TagShape /\ Forge /\ JobShape /\ JobInv /\ SettleShape /\ SettleInv
    BY DEF IInv, Forge
  <1>2. tagged <= tagged'
    BY <1>1, BoundsAreNaturals DEF TagShape, Tags
  <1>3. JobShape' /\ JobInv'
    BY <1>1, <1>2, JobKept
  <1>4. SettleShape' /\ SettleInv'
    BY <1>1, SettleMoved
  <1> QED
    BY <1>3, <1>4 DEF IInv, Forge

\* One that changes nothing of the pull requests.
LEMMA QuietRowStep ==
    ASSUME IInv, UNCHANGED <<tagged, published, pin, branch, checks, pr, job>>, upsets' \in 0 .. MaxUpsets,
           settle' \in {Done, NoSettle}
    PROVE  IInv'
  <1>1. TagShape /\ Forge /\ tagged \in Nat /\ pin \in Nat
    BY BoundsAreNaturals DEF IInv, Forge, TagShape, Tags
  <1>2. TagShape' /\ tagged <= tagged' /\ pin <= pin'
    BY <1>1 DEF TagShape
  <1>3. Forge' /\ Grows /\ Calm
    BY <1>1, <1>2, Still
  <1> QED
    BY <1>2, <1>3, RowStep

LEMMA TellKeeps ==
    ASSUME TagShape, Forge, NEW r \in Rows, NEW kind \in {"draft", "red", "stalled", "foreign", "refused"},
           Tell(r, kind), UNCHANGED <<tagged, published, pin, branch, checks>>, upsets' \in 0 .. MaxUpsets
    PROVE  TagShape' /\ Forge' /\ Grows /\ Calm
  <1>1. tagged \in Nat /\ pin \in Nat /\ r.tag \in Tags /\ r.head \in Nat
    BY BoundsAreNaturals DEF TagShape, Tags, Rows
  <1>2. TagShape' /\ tagged <= tagged' /\ pin <= pin'
    BY <1>1 DEF TagShape
  <1>3. CASE pr' = pr
    BY <1>2, <1>3, Still
  <1>4. CASE pr' = [pr EXCEPT ![r.tag].told = @ \cup {<<kind, r.head>>}]
    <2> DEFINE q == [pr[r.tag] EXCEPT !.told = @ \cup {<<kind, r.head>>}]
    <2>1. pr \in [Tags -> PullRecords] /\ pr[r.tag] \in PullRecords /\ OpenInv(r.tag)
      BY <1>1 DEF Forge, ForgeShape, ForgeInv
    <2>2. /\ q \in PullRecords /\ q.num = pr[r.tag].num /\ q.state = pr[r.tag].state
          /\ q.from = pr[r.tag].from /\ q.by = pr[r.tag].by /\ q.proven = pr[r.tag].proven
          /\ q.queued = pr[r.tag].queued
      BY <1>1, <2>1 DEF PullRecords
    <2>3. q.queued => Open(r.tag) /\ HeadOf(r.tag) \in pr[r.tag].proven
      BY <2>1, <2>2 DEF OpenInv
    <2>4. pr' = [pr EXCEPT ![r.tag] = q]
      BY <1>4, <2>1
    <2> HIDE DEF q
    <2> QED
      BY <1>1, <2>2, <2>3, <2>4, Marked
  <1> QED
    BY <1>3, <1>4 DEF Tell

LEMMA ListKeepsInv ==
    ASSUME IInv, List
    PROVE  IInv'
  <1>1. TagShape /\ Forge /\ JobShape /\ JobInv /\ tagged \in Nat /\ pin \in Nat
    BY BoundsAreNaturals DEF IInv, Forge, TagShape, Tags
  <1>2. UNCHANGED <<tagged, published, pin, branch, checks, pr, job, upsets>>
    BY DEF List, SettleLocal, env
  <1>3. TagShape' /\ tagged <= tagged' /\ pin <= pin'
    BY <1>1, <1>2 DEF TagShape
  <1>4. Forge' /\ Grows /\ Calm
    BY <1>1, <1>2, <1>3, Still
  <1>5. JobShape' /\ JobInv'
    BY <1>1, <1>3, <1>4, <1>2, JobKept
  <1> DEFINE row(t) == [tag |-> t, num |-> pr[t].num, head |-> HeadOf(t), draft |-> pr[t].draft]
             rows == {row(t) : t \in {u \in Tags : Open(u)}}
  <1>6. settle' = [pc |-> "row", rows |-> rows, left |-> rows]
    BY DEF List, ToSettle
  <1>7. ASSUME NEW t \in Tags, Open(t)
        PROVE  row(t) \in Rows /\ row(t).num # 0 /\ row(t).num <= pr[row(t).tag].num
    <2>1. /\ pr[t].num \in Nat /\ pr[t].draft \in BOOLEAN /\ branch[t] \in Seq(Authors)
          /\ HeadOf(t) <= MaxCommits /\ OpenInv(t)
      BY <1>1 DEF Forge, ForgeShape, ForgeInv, PullRecords
    <2>2. pr[t].num # 0 /\ branch[t] # <<>>
      BY <1>7, <2>1 DEF OpenInv, Open, Exists
    <2>3. HeadOf(t) \in 1 .. MaxCommits
      BY <2>1, <2>2, EmptySeq, BoundsAreNaturals DEF HeadOf
    <2> QED
      BY <2>1, <2>2, <2>3 DEF Rows
  <1>8. rows \subseteq Rows /\ \A r \in rows : r.num # 0 /\ r.num <= pr[r.tag].num
    BY <1>7
  <1>9. SettleShape' /\ SettleInv'
    <2> HIDE DEF rows, row
    <2>1. settle'.pc = "row" /\ settle'.rows = rows /\ settle'.left = rows
      BY <1>6
    <2>2. SettleShape'
      BY <1>6, <1>8 DEF SettleShape
    <2>3. SettleInv'
      BY <1>2, <1>8, <2>1 DEF SettleInv
    <2> QED
      BY <2>2, <2>3
  <1> QED
    BY <1>3, <1>4, <1>5, <1>9 DEF IInv, Forge

\* What a row is replaced by is a pull request of a newer tag.
LEMMA SupersededKeepsInv ==
    ASSUME IInv, CloseSuperseded \/ CloseSupersededFails
    PROVE  IInv'
  <1>1. TagShape /\ Forge /\ SettleShape /\ SettleInv
    BY DEF IInv, Forge
  <1>2. settle.left # {} /\ Superseded(Row) /\ settle' = Done
    BY DEF CloseSuperseded, CloseSupersededFails, AtRow, ToSettle
  <1>3. Row \in settle.rows /\ Row \in Rows /\ Row.tag \in Tags
    BY <1>1, <1>2, NewestRow, BoundsAreNaturals
  <1>4. UNCHANGED <<tagged, published, pin, branch, job>> /\ upsets' \in 0 .. MaxUpsets
    BY <1>1, BoundsAreNaturals DEF CloseSuperseded, CloseSupersededFails, env, Upset, TagShape
  <1>5. CASE CloseSuperseded /\ Current(Row)
    <2>1. PICK t \in Tags : t = Row.tag
      BY <1>3
    <2>2. Open(t) /\ pr' = [pr EXCEPT ![t] = Closed(t, "bot")] /\ Forget(t)
      BY <1>5, <2>1 DEF CloseSuperseded, Current
    <2>3. \E w \in Tags : w > t /\ pr[w].num # 0
      <3>1. PICK s \in settle.rows : s.tag > t
        BY <1>2, <2>1 DEF Superseded
      <3>2. s.tag \in Tags /\ s.num \in Nat /\ s.num # 0 /\ s.num <= pr[s.tag].num
        BY <1>1, <3>1 DEF SettleShape, SettleInv, Rows
      <3>3. pr[s.tag].num \in Nat
        BY <1>1, <3>2 DEF Forge, ForgeShape, PullRecords
      <3> QED
        BY <3>1, <3>2, <3>3
    <2>4. TagShape' /\ Forge' /\ Grows /\ Calm
      BY <1>1, <1>4, <2>2, <2>3, ClosedOne
    <2> QED
      BY <1>2, <1>4, <2>4, RowStep
  <1>6. CASE ~(CloseSuperseded /\ Current(Row))
    <2>1. UNCHANGED <<checks, pr>>
      BY <1>6 DEF CloseSuperseded, CloseSupersededFails
    <2> QED
      BY <1>2, <1>4, <2>1, QuietRowStep
  <1> QED
    BY <1>5, <1>6

LEMMA ToldKeepsInv ==
    ASSUME IInv, LeaveDraft \/ JudgeRed \/ JudgePending
    PROVE  IInv'
  <1>1. TagShape /\ Forge /\ SettleShape /\ SettleInv
    BY DEF IInv, Forge
  <1>2. settle.left # {} /\ settle' = Done
    BY DEF LeaveDraft, JudgeRed, JudgePending, Judged, AtRow, ToSettle
  <1>3. Row \in Rows
    BY <1>1, <1>2, NewestRow, BoundsAreNaturals
  <1>4. UNCHANGED <<tagged, published, pin, branch, checks, job>> /\ upsets' \in 0 .. MaxUpsets
    BY <1>1 DEF LeaveDraft, JudgeRed, JudgePending, SettleTold, env, TagShape
  <1>5. CASE pr' = pr
    BY <1>2, <1>4, <1>5, QuietRowStep
  <1>6. ASSUME NEW kind \in {"draft", "red", "stalled", "foreign", "refused"}, Tell(Row, kind) PROVE IInv'
    <2>1. TagShape' /\ Forge' /\ Grows /\ Calm
      <3>1. PICK r \in Rows : r = Row
        BY <1>3
      <3> QED
        BY <1>1, <1>4, <1>6, <3>1, TellKeeps
    <2> QED
      BY <1>2, <1>4, <2>1, RowStep
  <1>7. pr' = pr \/ Tell(Row, "draft") \/ Tell(Row, "red") \/ Tell(Row, "stalled")
    BY DEF LeaveDraft, JudgeRed, JudgePending
  <1> QED
    BY <1>5, <1>6, <1>7

\* A green head of an open pull request is in its record when the verdict falls.
LEMMA GreenKeepsInv ==
    ASSUME IInv, JudgeGreen
    PROVE  IInv'
  <1>1. TagShape /\ Forge /\ SettleShape /\ SettleInv /\ JobShape /\ JobInv /\ tagged \in Nat /\ pin \in Nat
    BY BoundsAreNaturals DEF IInv, Forge, TagShape, Tags
  <1>2. settle.pc = "row" /\ settle.left # {} /\ Green(RunsOf(Row))
    BY DEF JudgeGreen, Judged, AtRow
  <1>3. Row \in Rows /\ Row \in settle.rows /\ Row.tag \in Tags
    BY <1>1, <1>2, NewestRow, BoundsAreNaturals
  <1>4. UNCHANGED <<tagged, published, pin, branch, checks, job, upsets>> /\ upsets' \in 0 .. MaxUpsets
    BY <1>1 DEF JudgeGreen, SettleTold, env, TagShape
  <1>5. CASE Tell(Row, "foreign") /\ settle' = Done
    <2>1. TagShape' /\ Forge' /\ Grows /\ Calm
      <3>1. PICK r \in Rows : r = Row
        BY <1>3
      <3> QED
        BY <1>1, <1>4, <1>5, <3>1, TellKeeps
    <2> QED
      BY <1>4, <1>5, <2>1, RowStep
  <1>6. CASE pr' = pr /\ settle' = [settle EXCEPT !.pc = "merge"]
    <2>1. TagShape' /\ tagged <= tagged' /\ pin <= pin'
      BY <1>1, <1>4 DEF TagShape
    <2>2. Forge' /\ Grows /\ Calm
      BY <1>1, <1>4, <1>6, <2>1, Still
    <2>3. JobShape' /\ JobInv'
      BY <1>1, <1>4, <2>1, <2>2, JobKept
    <2>4. /\ settle'.pc = "merge" /\ settle'.rows = settle.rows /\ settle'.left = settle.left
          /\ SettleShape'
      BY <1>1, <1>2, <1>6 DEF SettleShape
    <2>5. Row' = Row
      BY <2>4 DEF Row
    <2>6. Open(Row.tag) => Row.head \in pr[Row.tag].proven
      <3>1. Row.head \in 1 .. MaxCommits /\ Row.head # 0
        BY <1>3, BoundsAreNaturals DEF Rows
      <3>2. Green(checks[Row.tag][Row.head])
        BY <1>2, <3>1 DEF RunsOf
      <3>3. OpenInv(Row.tag)
        BY <1>1, <1>3 DEF Forge, ForgeInv
      <3> QED
        BY <3>1, <3>2, <3>3 DEF OpenInv
    <2>7. SettleInv'
      <3>1. pr'[Row.tag].state = "open" => Row.head \in pr'[Row.tag].proven
        BY <1>6, <2>6 DEF Open
      <3>2. \A r \in settle'.rows : r.num # 0 /\ r.num <= pr'[r.tag].num
        BY <1>1, <1>6, <2>4 DEF SettleInv
      <3> QED
        BY <2>5, <3>1, <3>2 DEF SettleInv, Current, Open
    <2> QED
      BY <2>1, <2>2, <2>3, <2>4, <2>7 DEF IInv, Forge
  <1> QED
    BY <1>5, <1>6 DEF JudgeGreen, ToSettle

\* The merge call holds the judged head: what it merges or queues is proven.
LEMMA MergeKeepsInv ==
    ASSUME IInv, Merge \/ MergeFails
    PROVE  IInv'
  <1>1. TagShape /\ Forge /\ ForgeShape /\ SettleShape /\ SettleInv
    BY DEF IInv, Forge
  <1>2. settle.pc = "merge" /\ settle.left # {} /\ settle' = Done
    BY <1>1 DEF Merge, MergeFails, ToSettle, SettleShape
  <1>3. Row \in Rows /\ Row \in settle.rows /\ Row.tag \in Tags
    BY <1>1, <1>2, NewestRow, BoundsAreNaturals
  <1>4. UNCHANGED <<tagged, published, branch, job>> /\ upsets' \in 0 .. MaxUpsets
    BY <1>1, BoundsAreNaturals DEF Merge, MergeFails, env, Upset, TagShape
  <1>5. PICK t \in Tags : t = Row.tag
    BY <1>3
  <1>6. Current(Row) /\ SameHead(Row) => HeadOf(t) \in pr[t].proven
    BY <1>1, <1>2, <1>5 DEF SettleInv, SameHead
  <1>7. CASE /\ Current(Row) /\ Mergeable(t) /\ SameHead(Row)
             /\ pr' = [pr EXCEPT ![t] = Merged(t, "bot")] /\ Forget(t) /\ pin' = t
    <2>1. TagShape' /\ Forge' /\ Grows /\ Calm
      BY <1>1, <1>4, <1>6, <1>7, LandedOne
    <2> QED
      BY <1>2, <1>4, <2>1, RowStep
  <1>8. CASE /\ Current(Row) /\ Mergeable(t) /\ SameHead(Row)
             /\ pr' = [pr EXCEPT ![t].queued = TRUE] /\ UNCHANGED <<pin, checks>>
    <2> DEFINE q == [pr[t] EXCEPT !.queued = TRUE]
    <2>1. pr \in [Tags -> PullRecords] /\ pr[t] \in PullRecords
      BY <1>1 DEF ForgeShape
    <2>2. /\ q \in PullRecords /\ q.num = pr[t].num /\ q.state = pr[t].state /\ q.from = pr[t].from
          /\ q.by = pr[t].by /\ q.proven = pr[t].proven
      BY <2>1 DEF PullRecords
    <2>3. pr' = [pr EXCEPT ![t] = q]
      BY <1>8, <2>1
    <2>4. Open(t) /\ HeadOf(t) \in pr[t].proven
      BY <1>6, <1>8 DEF Mergeable
    <2>5. TagShape' /\ Forge' /\ Grows /\ Calm
      <3> HIDE DEF q
      <3> QED
        BY <1>1, <1>4, <1>8, <2>2, <2>3, <2>4, Marked
    <2> QED
      BY <1>2, <1>4, <2>5, RowStep
  <1>9. CASE Tell(Row, "refused") /\ UNCHANGED <<pin, checks>>
    <2>1. TagShape' /\ Forge' /\ Grows /\ Calm
      <3>1. PICK r \in Rows : r = Row
        BY <1>3
      <3> QED
        BY <1>1, <1>4, <1>9, <3>1, TellKeeps
    <2> QED
      BY <1>2, <1>4, <2>1, RowStep
  <1> QED
    BY <1>5, <1>7, <1>8, <1>9 DEF Merge, MergeFails

LEMMA EndKeepsInv ==
    ASSUME IInv, Finish \/ SettleFails
    PROVE  IInv'
  <1>1. TagShape
    BY DEF IInv
  <1>2. UNCHANGED <<tagged, published, pin, branch, checks, pr, job>> /\ upsets' \in 0 .. MaxUpsets
    BY <1>1, BoundsAreNaturals DEF Finish, SettleFails, SettleLocal, env, Upset, TagShape
  <1>3. settle' = NoSettle
    BY DEF Finish, SettleFails, ToSettle
  <1> QED
    BY <1>2, <1>3, QuietRowStep

-----------------------------------------------------------------------------
(* The theorems.                                                           *)

LEMMA InitEstablishesInv ==
    ASSUME Init
    PROVE  IInv
  <1>1. TagShape
    BY BoundsAreNaturals DEF Init, TagShape, Tags
  <1>2. \A t \in Tags : branch[t] = <<>> /\ checks[t] = Unchecked /\ pr[t] = NoPull
    BY DEF Init
  <1>3. NoPull \in PullRecords /\ NoPull.state = "none" /\ ~NoPull.queued
    BY DEF NoPull, PullRecords
  <1>4. ForgeShape
    <2>1. <<>> \in Seq(Authors) /\ Len(<<>>) <= MaxCommits
      BY BoundsAreNaturals
    <2>2. \A t \in Tags : HeadOf(t) <= MaxCommits
      BY <1>2, <2>1 DEF HeadOf
    <2> QED
      BY <1>3, <2>1, <2>2, UncheckedIsATable DEF Init, ForgeShape
  <1>5. ForgeInv
    BY <1>2, <1>3 DEF ForgeInv, OpenInv, MergedInv, ClosedInv, Open
  <1>6. JobShape /\ JobInv
    BY BoundsAreNaturals DEF Init, NoJob, JobShape, JobRecords, JobInv
  <1>7. SettleShape /\ SettleInv
    BY DEF Init, NoSettle, SettleShape, SettleInv
  <1> QED
    BY <1>1, <1>4, <1>5, <1>6, <1>7 DEF IInv

LEMMA NextKeepsInv ==
    ASSUME IInv, Required # {}, [Next]_vars
    PROVE  IInv'
  <1>1. CASE Tag \/ \E t \in Tags : Publish(t)
    BY <1>1, TagsKeepInv
  <1>2. CASE Schedule \/ DispatchRun
    <2>1. tagged \in 0 .. MaxTag /\ MaxTag \in Nat
      BY BoundsAreNaturals DEF IInv, TagShape, Tags
    <2>2. PICK t \in 1 .. tagged : StartRun(t)
      BY <1>2, <2>1 DEF Schedule, DispatchRun
    <2>3. t \in Tags /\ t <= tagged
      BY <2>1 DEF Tags
    <2> QED
      BY <2>2, <2>3, StartKeepsInv
  <1>3. CASE JobStep
    BY <1>3, PollKeepsInv, PushBranchKeepsInv, OpenPullKeepsInv, DispatchKeepsInv, CloseOlderKeepsInv
    DEF JobStep
  <1>4. CASE SettleStep
    BY <1>4, ListKeepsInv, EndKeepsInv, SupersededKeepsInv, ToldKeepsInv, GreenKeepsInv, MergeKeepsInv
    DEF SettleStep
  <1>5. CASE Trouble
    BY <1>5, PollKeepsInv, SupersededKeepsInv, MergeKeepsInv, EndKeepsInv, CloseOlderKeepsInv DEF Trouble
  <1>6. CASE People
    BY <1>6, PushKeepsInv, PeopleKeepInv, ChecksKeepInv DEF People
  <1>7. CASE \E t \in Tags : \/ QueueLands(t) \/ QueueDrops(t)
                             \/ \E h \in 1 .. MaxCommits, n \in Checks : CheckEnds(t, h, n)
    BY <1>7, QueueKeepsInv, ChecksKeepInv
  <1>8. CASE UNCHANGED vars
    BY <1>8 DEF vars, IInv, TagShape, ForgeShape, ForgeInv, OpenInv, MergedInv, ClosedInv, JobShape, JobInv,
                SettleShape, SettleInv, HeadOf, Open, Exists, Current, Row
  <1> QED
    BY <1>1, <1>2, <1>3, <1>4, <1>5, <1>6, <1>7, <1>8 DEF Next

LEMMA InvImpliesRepinInv ==
    ASSUME IInv
    PROVE  RepinInv
  <1>1. TagShape /\ ForgeShape /\ ForgeInv /\ SettleShape
    BY DEF IInv
  <1>2. TypeOK
    <2>1. \A t \in Tags :
             /\ branch[t] \in Seq({Author, BotAuthor, Person}) /\ HeadOf(t) <= MaxCommits
             /\ pr[t].state \in {"none", "open", "closed", "merged"}
      BY <1>1 DEF ForgeShape, Authors, PullRecords
    <2>2. \A t \in Tags : (Open(t) => Exists(t)) /\ (pr[t].queued => Open(t))
      BY <1>1 DEF ForgeInv, OpenInv
    <2> QED
      BY <1>1, <2>1, <2>2 DEF TypeOK, TagShape, SettleShape
  <1>3. MergedIsProven
    BY <1>1 DEF MergedIsProven, ForgeInv, MergedInv
  <1>4. NewestIsNeverClosed
    BY <1>1 DEF NewestIsNeverClosed, ForgeInv, ClosedInv
  <1> QED
    BY <1>2, <1>3, <1>4 DEF RepinInv

\* Only a pull request without conflict moves the pin, and it was built on a pin
\* that is behind its tag.
LEMMA NextMovesThePinAhead ==
    ASSUME IInv, [Next]_vars
    PROVE  pin' >= pin
  <1>1. pin \in Nat /\ ForgeInv
    BY BoundsAreNaturals DEF IInv, TagShape, Tags
  <1>2. ASSUME NEW t \in Tags, Mergeable(t), pin' = t PROVE pin' >= pin
    <2>1. pin < t
      BY <1>1, <1>2 DEF ForgeInv, OpenInv, Mergeable
    <2> QED
      BY <1>1, <1>2, <2>1 DEF Tags
  <1>3. CASE pin' = pin
    BY <1>1, <1>3
  <1>4. ASSUME Merge PROVE pin' >= pin
    <2>1. Row.tag \in Tags
      <3>1. SettleShape /\ settle.left # {}
        BY <1>4 DEF Merge, IInv, SettleShape
      <3> QED
        BY <3>1, NewestRow, BoundsAreNaturals
    <2> QED
      BY <1>2, <1>3, <1>4, <2>1 DEF Merge
  <1>5. ASSUME NEW t \in Tags, PersonMerges(t) \/ QueueLands(t) PROVE pin' >= pin
    BY <1>2, <1>5 DEF PersonMerges, QueueLands
  <1>6. CASE Tag \/ Schedule \/ DispatchRun \/ UNCHANGED vars
    <2>1. pin' = pin
      BY <1>6 DEF Tag, Schedule, DispatchRun, StartRun, vars
    <2> QED
      BY <1>3, <2>1
  <1>7. CASE JobStep
    <2>1. pin' = pin
      BY <1>7 DEF JobStep, Poll, Build, PushBranch, OpenPull, Dispatch, CloseOlder, JobLocal
    <2> QED
      BY <1>3, <2>1
  <1>8. CASE SettleStep
    <2>1. Merge \/ pin' = pin
      BY <1>8 DEF SettleStep, List, Finish, CloseSuperseded, LeaveDraft, JudgeRed, JudgePending, JudgeGreen,
                  SettleLocal, SettleTold
    <2> QED
      BY <1>3, <1>4, <2>1
  <1>9. CASE Trouble
    <2>1. pin' = pin
      BY <1>9 DEF Trouble, PollUnread, JobFails, CloseSupersededFails, MergeFails, SettleFails, CloseOlderFails
    <2> QED
      BY <1>3, <2>1
  <1>10. CASE People
    <2>1. PICK t \in Tags : PersonMerges(t) \/ pin' = pin
      BY <1>10 DEF People, PersonPushes, PersonReadies, PersonCloses, PersonDeletes, Rerun
    <2> QED
      BY <1>3, <1>5, <2>1
  <1>11. CASE \E t \in Tags : \/ Publish(t) \/ QueueLands(t) \/ QueueDrops(t)
                              \/ \E h \in 1 .. MaxCommits, n \in Checks : CheckEnds(t, h, n)
    <2>1. PICK t \in Tags : QueueLands(t) \/ pin' = pin
      BY <1>11 DEF Publish, QueueDrops, CheckEnds
    <2> QED
      BY <1>3, <1>5, <2>1
  <1> QED
    BY <1>6, <1>7, <1>8, <1>9, <1>10, <1>11 DEF Next

\* A bot merges only heads whose required checks all succeeded while none failed,
\* and closes a repin only for a newer one.  Some check has to be required: with
\* none, a head without runs counts as green.
THEOREM RepinIsSound ==
    ASSUME Required # {}
    PROVE  Spec => []RepinInv
  <1>1. Init => IInv
    BY InitEstablishesInv
  <1>2. IInv /\ [Next]_vars => IInv'
    BY NextKeepsInv
  <1>3. IInv => RepinInv
    BY InvImpliesRepinInv
  <1> QED
    BY <1>1, <1>2, <1>3, PTL DEF Spec

\* The pin of a title never goes back, whoever merges: the bot, the queue or a person.
THEOREM PinIsMonotonic ==
    ASSUME Required # {}
    PROVE  Spec => PinNeverGoesBack
  <1>1. Init => IInv
    BY InitEstablishesInv
  <1>2. IInv /\ [Next]_vars => IInv'
    BY NextKeepsInv
  <1>3. IInv /\ [Next]_vars => [pin' >= pin]_pin
    BY NextMovesThePinAhead
  <1> QED
    BY <1>1, <1>2, <1>3, PTL DEF Spec, PinNeverGoesBack
=============================================================================
