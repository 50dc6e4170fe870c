----------------------------- MODULE KeelRepin ------------------------------
(***************************************************************************)
(* A title that builds on Keel moves its pin by itself.  Every run of its  *)
(* workflow polls the newest verified tag, repins to it on a branch of the *)
(* tag's own, opens a pull request and starts CI; beside that, the settle  *)
(* job merges an open repin whose exact head is green, closes the ones a   *)
(* newer tag replaces and tells the owner about a red one.                 *)
(*                                                                         *)
(* Runs follow one another, but the two jobs of a run overlap, and between *)
(* any two of their calls tags and publications appear, checks start, end  *)
(* and are re-run, people push to a branch, close, delete, merge or mark   *)
(* ready, and the merge queue lands or drops.  Any call can fail and a job *)
(* can be lost.                                                            *)
(***************************************************************************)
EXTENDS Integers, Sequences, FiniteSets

CONSTANTS
    MaxTag,      \* bound: verified tags, in the order of their keys
    Checks,      \* names of check runs
    Required,    \* the names that must succeed
    MaxCommits,  \* bound: commits of a repin branch
    MaxUpsets    \* bound: what people do, failed calls and lost jobs

ASSUME ConstantsAssumption ==
    /\ MaxTag \in Nat \ {0}
    /\ Required \subseteq Checks
    /\ MaxCommits \in Nat \ {0} /\ MaxUpsets \in Nat

VARIABLES
    tagged,     \* the newest tag, 0 before the first
    published,  \* the tags whose packages are on crates.io
    pin,        \* the tag the default branch is pinned to, 0 for an older commit
    branch,     \* branch[t]: the commits of the repin branch of tag t, by author; <<>> for no branch
    checks,     \* checks[t][h]: the check runs of the branch's commit h
    pr,         \* pr[t]: the last pull request from the branch
    job,        \* the poll and repin jobs of the current run
    settle,     \* its settle job
    upsets      \* what people did, failed calls and lost jobs so far

vars == <<tagged, published, pin, branch, checks, pr, job, settle, upsets>>
env == <<tagged, published>>

-----------------------------------------------------------------------------
(* Pull requests and checks.                                               *)

Tags == 1 .. MaxTag

\* The author of the commits the repin job makes, and the one settle calls the bot.
Author == "kylet"
BotAuthor == "keel-repin"
Person == "person"

NoPull == [num |-> 0, state |-> "none", draft |-> FALSE, from |-> 0, queued |-> FALSE,
           by |-> "none", told |-> {}, proven |-> {}]
NoRuns == [n \in Checks |-> "none"]
Unchecked == [h \in 1 .. MaxCommits |-> NoRuns]

HeadOf(t) == Len(branch[t])
Exists(t) == branch[t] # <<>>
Open(t) == pr[t].state = "open"

Failed(t, h) == \E n \in Checks : checks[t][h][n] = "failure"
Green(runs) ==
    /\ \A n \in Required : runs[n] = "success"
    /\ \A n \in Checks : runs[n] \notin {"failure", "running"}

\* What is left of a pull request that ends; its checks matter no more.
Closed(t, who) == [NoPull EXCEPT !.num = pr[t].num, !.state = "closed", !.by = who]
Merged(t, who) == [NoPull EXCEPT !.num = pr[t].num, !.state = "merged", !.by = who, !.proven = pr[t].proven]
Forget(t) == checks' = [checks EXCEPT ![t] = Unchecked]
\* Two repins change the same lines: one built on another pin conflicts.
Mergeable(t) == Open(t) /\ pr[t].from = pin

Upset == upsets < MaxUpsets /\ upsets' = upsets + 1

-----------------------------------------------------------------------------
(* Tags, CI, people and the queue.                                         *)

Tag ==
    /\ tagged + 1 \in Tags /\ tagged' = tagged + 1
    /\ UNCHANGED <<published, pin, branch, checks, pr, job, settle, upsets>>

Publish(t) ==
    /\ t <= tagged /\ t \notin published
    /\ published' = published \cup {t}
    /\ UNCHANGED <<tagged, pin, branch, checks, pr, job, settle, upsets>>

World == UNCHANGED <<tagged, published, job, settle>>

\* A run of a check that was started ends; a head whose runs are green is proven.
CheckEnds(t, h, n) ==
    /\ checks[t][h][n] = "running"
    /\ \E c \in {"success", "failure", "skipped"} :
          LET runs == [checks[t][h] EXCEPT ![n] = c]
          IN  /\ checks' = [checks EXCEPT ![t][h] = runs]
              /\ pr' = IF Green(runs) THEN [pr EXCEPT ![t].proven = @ \cup {h}] ELSE pr
    /\ UNCHANGED <<pin, branch, upsets>> /\ World

\* A re-run of a check on the head of an open repin.
Rerun(t, n) ==
    /\ Upset /\ Open(t) /\ checks[t][HeadOf(t)][n] \notin {"none", "running"}
    /\ checks' = [checks EXCEPT ![t][HeadOf(t)][n] = "running"]
    /\ UNCHANGED <<pin, branch, pr>> /\ World

\* A person fixes the branch: its checks run on the new head, and a queued one
\* leaves the queue.
PersonPushes(t) ==
    /\ Upset /\ Open(t) /\ HeadOf(t) < MaxCommits
    /\ branch' = [branch EXCEPT ![t] = Append(@, Person)]
    /\ checks' = [checks EXCEPT ![t][HeadOf(t) + 1] = [n \in Checks |-> "running"]]
    /\ pr' = [pr EXCEPT ![t].queued = FALSE]
    /\ UNCHANGED pin /\ World

PersonReadies(t) ==
    /\ Upset /\ Open(t) /\ pr[t].draft
    /\ pr' = [pr EXCEPT ![t].draft = FALSE]
    /\ UNCHANGED <<pin, branch, checks>> /\ World

PersonCloses(t) ==
    /\ Upset /\ Open(t)
    /\ pr' = [pr EXCEPT ![t] = Closed(t, Person)] /\ Forget(t)
    /\ UNCHANGED <<pin, branch>> /\ World

PersonMerges(t) ==
    /\ Upset /\ Mergeable(t)
    /\ pr' = [pr EXCEPT ![t] = Merged(t, Person)] /\ Forget(t) /\ pin' = t
    /\ UNCHANGED branch /\ World

\* Deleting the branch of an open pull request closes it.
PersonDeletes(t) ==
    /\ Upset /\ Exists(t) /\ pr[t].state # "none"
    /\ branch' = [branch EXCEPT ![t] = <<>>]
    /\ Forget(t)
    /\ pr' = IF Open(t) THEN [pr EXCEPT ![t] = Closed(t, Person)] ELSE pr
    /\ UNCHANGED pin /\ World

QueueLands(t) ==
    /\ pr[t].queued /\ Mergeable(t)
    /\ pr' = [pr EXCEPT ![t] = Merged(t, "bot")] /\ Forget(t) /\ pin' = t
    /\ UNCHANGED <<branch, upsets>> /\ World

QueueDrops(t) ==
    /\ pr[t].queued
    /\ pr' = [pr EXCEPT ![t].queued = FALSE]
    /\ UNCHANGED <<pin, branch, checks, upsets>> /\ World

-----------------------------------------------------------------------------
(* A run: poll, then repin; settle beside both.                            *)

NoJob == [pc |-> "idle", tag |-> 0, from |-> 0, ok |-> FALSE, older |-> {}]
NoSettle == [pc |-> "idle", rows |-> {}, left |-> {}]

StartRun(t) ==
    /\ job.pc = "idle" /\ settle.pc = "idle"
    /\ job' = [NoJob EXCEPT !.pc = "poll", !.tag = t]
    /\ settle' = [NoSettle EXCEPT !.pc = "list"]
    /\ UNCHANGED <<pin, branch, checks, pr, upsets>> /\ UNCHANGED env

\* The schedule names no tag, a dispatch may name any.
Schedule == tagged > 0 /\ StartRun(tagged)
DispatchRun == \E t \in 1 .. tagged - 1 : StartRun(t)

ToJob(r) == job' = r
JobLocal == UNCHANGED <<pin, branch, checks, pr, settle, upsets>> /\ UNCHANGED env

\* Mutant: any open repin stops the submission of another.
AnyPullExists(t) == \E u \in Tags : Open(u)
PullExists(t) == pr[t].state \in {"open", "merged"}
\* Mutant: a target that differs from the pin will do.
Differs(t) == t # pin
\* The tag is ahead of the pin, by ancestry or by the version of the facade.
Ahead(t) == t > pin

Poll ==
    LET t == job.tag
    IN  /\ job.pc = "poll"
        /\ ToJob(IF ~PullExists(t) /\ ~Exists(t) /\ t \in published /\ Ahead(t)
                 THEN [job EXCEPT !.pc = "build"] ELSE NoJob)
        /\ JobLocal

\* The job checks the default branch out again.  A branch is left as it is; a
\* broken migration, lock or build still has something to show.
Build ==
    LET t == job.tag
    IN  /\ job.pc = "build"
        /\ \E ok \in BOOLEAN :
              ToJob(IF ~Exists(t) /\ Ahead(t)
                    THEN [job EXCEPT !.pc = "push", !.from = pin, !.ok = ok] ELSE NoJob)
        /\ JobLocal

\* A push that is no fast-forward is rejected.
PushBranch ==
    LET t == job.tag
    IN  /\ job.pc = "push"
        /\ IF Exists(t)
           THEN ToJob(NoJob) /\ UNCHANGED branch
           ELSE ToJob([job EXCEPT !.pc = "open"]) /\ branch' = [branch EXCEPT ![t] = <<Author>>]
        /\ UNCHANGED <<pin, checks, pr, settle, upsets>> /\ UNCHANGED env

\* Mutant: every other open repin is superseded.
Other(u, t) == u # t
\* An older tag never closes a newer one.
Older(u, t) == u < t

\* Opened, the repin replaces the older ones that are open.
OpenPull ==
    LET t == job.tag
        older == {u \in Tags : Open(u) /\ Older(u, t)}
    IN  /\ job.pc = "open"
        /\ IF Exists(t) /\ ~Open(t)
           THEN /\ pr' = [pr EXCEPT ![t] = [NoPull EXCEPT !.num = pr[t].num + 1, !.state = "open",
                                                        !.draft = ~job.ok, !.from = job.from]]
                /\ ToJob([job EXCEPT !.pc = "close", !.older = {<<u, pr[u].num>> : u \in older}])
           ELSE ToJob(NoJob) /\ UNCHANGED pr
        /\ UNCHANGED <<pin, branch, checks, settle, upsets>> /\ UNCHANGED env

\* Mutant: only the branch of a superseded repin is deleted.
CloseOlderByBranch(u, n) ==
    /\ job.pc = "close" /\ <<u, n>> \in job.older
    /\ ToJob([job EXCEPT !.older = @ \ {<<u, n>>}])
    /\ branch' = [branch EXCEPT ![u] = <<>>]
    /\ UNCHANGED <<pin, checks, pr, settle, upsets>> /\ UNCHANGED env

\* A superseded repin goes with its branch; a close that fails is passed over.
CloseOlder(u, n) ==
    /\ job.pc = "close" /\ <<u, n>> \in job.older
    /\ ToJob([job EXCEPT !.older = @ \ {<<u, n>>}])
    /\ IF Open(u) /\ pr[u].num = n
       THEN /\ pr' = [pr EXCEPT ![u] = Closed(u, "bot")]
            /\ branch' = [branch EXCEPT ![u] = <<>>]
            /\ Forget(u)
       ELSE UNCHANGED <<pr, branch, checks>>
    /\ UNCHANGED <<pin, settle, upsets>> /\ UNCHANGED env

CloseOlderFails(u, n) ==
    /\ job.pc = "close" /\ <<u, n>> \in job.older
    /\ ToJob([job EXCEPT !.older = @ \ {<<u, n>>}])
    /\ Upset /\ UNCHANGED <<pin, branch, checks, pr, settle>> /\ UNCHANGED env

\* CI is started on whatever the branch holds, not for a draft of a broken build.
Dispatch ==
    LET t == job.tag
    IN  /\ job.pc = "close" /\ job.older = {}
        /\ ToJob(NoJob)
        /\ checks' = IF job.ok /\ Open(t)
                     THEN [checks EXCEPT ![t][HeadOf(t)] = [n \in Checks |-> "running"]] ELSE checks
        /\ UNCHANGED <<pin, branch, pr, settle, upsets>> /\ UNCHANGED env

\* The list of pull requests is unread: it counts as none.
PollUnread ==
    /\ job.pc = "poll"
    /\ ToJob(IF ~Exists(job.tag) /\ job.tag \in published /\ Ahead(job.tag)
             THEN [job EXCEPT !.pc = "build"] ELSE NoJob)
    /\ Upset /\ UNCHANGED <<pin, branch, checks, pr, settle>> /\ UNCHANGED env

\* Any other call fails, or the job is lost between two of them.
JobFails ==
    /\ job.pc # "idle"
    /\ ToJob(NoJob)
    /\ Upset /\ UNCHANGED <<pin, branch, checks, pr, settle>> /\ UNCHANGED env

-----------------------------------------------------------------------------
(* Settle.                                                                 *)

ToSettle(r) == settle' = r
SettleLocal == UNCHANGED <<pin, branch, checks, pr, job, upsets>> /\ UNCHANGED env

List ==
    /\ settle.pc = "list"
    /\ LET rows == {[tag |-> t, num |-> pr[t].num, head |-> HeadOf(t), draft |-> pr[t].draft] :
                      t \in {u \in Tags : Open(u)}}
       IN  ToSettle([pc |-> "row", rows |-> rows, left |-> rows])
    /\ SettleLocal

\* The newest tag is settled first.
Row == CHOOSE r \in settle.left : \A s \in settle.left : s.tag <= r.tag
Superseded(r) == \E s \in settle.rows : s.tag > r.tag
Done == IF settle.pc = "row" /\ settle.left = {} THEN NoSettle
        ELSE [settle EXCEPT !.pc = "row", !.left = @ \ {Row}]
AtRow == settle.pc = "row" /\ settle.left # {}
Current(r) == Open(r.tag) /\ pr[r.tag].num = r.num

\* Mutant: one comment on a pull request is enough.
ToldAnything(r, kind) == pr[r.tag].told # {}
AlreadyTold(r, kind) == <<kind, r.head>> \in pr[r.tag].told
\* One comment for each head and kind of reason.
Tell(r, kind) ==
    pr' = IF ~Current(r) \/ AlreadyTold(r, kind) THEN pr
          ELSE [pr EXCEPT ![r.tag].told = @ \cup {<<kind, r.head>>}]
SettleTold == UNCHANGED <<pin, branch, checks, job, upsets>> /\ UNCHANGED env

Finish ==
    /\ settle.pc = "row" /\ settle.left = {}
    /\ ToSettle(NoSettle) /\ SettleLocal

CloseSuperseded ==
    /\ AtRow /\ Superseded(Row)
    /\ IF Current(Row)
       THEN pr' = [pr EXCEPT ![Row.tag] = Closed(Row.tag, "bot")] /\ Forget(Row.tag)
       ELSE UNCHANGED <<pr, checks>>
    /\ ToSettle(Done)
    /\ UNCHANGED <<pin, branch, job, upsets>> /\ UNCHANGED env

CloseSupersededFails ==
    /\ AtRow /\ Superseded(Row)
    /\ ToSettle(Done)
    /\ Upset /\ UNCHANGED <<pin, branch, checks, pr, job>> /\ UNCHANGED env

LeaveDraft ==
    /\ AtRow /\ ~Superseded(Row) /\ Row.draft
    /\ Tell(Row, "draft") /\ ToSettle(Done) /\ SettleTold

Judged == AtRow /\ ~Superseded(Row) /\ ~Row.draft
RunsOf(r) == IF r.head = 0 THEN NoRuns ELSE checks[r.tag][r.head]

JudgeRed ==
    /\ Judged /\ \E n \in Checks : RunsOf(Row)[n] = "failure"
    /\ Tell(Row, "red") /\ ToSettle(Done) /\ SettleTold

\* A pending head waits: in silence, told as stalled, or red after the longest wait.
JudgePending ==
    /\ Judged /\ ~Green(RunsOf(Row)) /\ \A n \in Checks : RunsOf(Row)[n] # "failure"
    /\ \/ UNCHANGED pr
       \/ \E n \in Checks : RunsOf(Row)[n] = "running" /\ Tell(Row, "stalled")
       \/ Tell(Row, "red")
    /\ ToSettle(Done) /\ SettleTold

\* Commits that are not the bot's, after its first one.
Foreign(t) ==
    \E i, j \in 1 .. HeadOf(t) : i < j /\ branch[t][i] = BotAuthor /\ branch[t][j] # BotAuthor

JudgeGreen ==
    /\ Judged /\ Green(RunsOf(Row))
    /\ IF HeadOf(Row.tag) >= Row.head /\ Foreign(Row.tag)
       THEN Tell(Row, "foreign") /\ ToSettle(Done)
       ELSE UNCHANGED pr /\ ToSettle([settle EXCEPT !.pc = "merge"])
    /\ SettleTold

\* Mutant: the merge takes the head of the moment.
AnyHead(r) == TRUE
\* Mutant: the merge call is pinned to the commit the repin job made.
FirstHead(r) == HeadOf(r.tag) = 1
\* The merge call is pinned to the judged head.
SameHead(r) == HeadOf(r.tag) = r.head

\* The merge lands at once, or in a repository with a merge queue is queued.
Merge ==
    LET t == Row.tag
        accepted == Current(Row) /\ Mergeable(t) /\ SameHead(Row) /\ ~pr[t].draft
    IN  /\ settle.pc = "merge"
        /\ \/ /\ accepted
              /\ pr' = [pr EXCEPT ![t] = Merged(t, "bot")] /\ Forget(t) /\ pin' = t
           \/ /\ accepted
              /\ pr' = [pr EXCEPT ![t].queued = TRUE] /\ UNCHANGED <<pin, checks>>
           \/ /\ ~accepted
              /\ Tell(Row, "refused") /\ UNCHANGED <<pin, checks>>
        /\ ToSettle(Done)
        /\ UNCHANGED <<branch, job, upsets>> /\ UNCHANGED env

\* The merge is refused for another reason.
MergeFails ==
    /\ settle.pc = "merge"
    /\ Tell(Row, "refused") /\ ToSettle(Done)
    /\ Upset /\ UNCHANGED <<pin, branch, checks, job>> /\ UNCHANGED env

SettleFails ==
    /\ settle.pc # "idle"
    /\ ToSettle(NoSettle)
    /\ Upset /\ UNCHANGED <<pin, branch, checks, pr, job>> /\ UNCHANGED env

-----------------------------------------------------------------------------
Init ==
    /\ tagged = 0 /\ published = {} /\ pin = 0
    /\ branch = [t \in Tags |-> <<>>]
    /\ checks = [t \in Tags |-> Unchecked]
    /\ pr = [t \in Tags |-> NoPull]
    /\ job = NoJob /\ settle = NoSettle
    /\ upsets = 0

JobStep ==
    \/ Poll \/ Build \/ PushBranch \/ OpenPull \/ Dispatch
    \/ \E p \in job.older : CloseOlder(p[1], p[2])
SettleStep ==
    \/ List \/ Finish \/ CloseSuperseded \/ LeaveDraft \/ JudgeRed \/ JudgePending \/ JudgeGreen
    \/ Merge
Trouble ==
    \/ PollUnread \/ JobFails \/ CloseSupersededFails \/ MergeFails \/ SettleFails
    \/ \E p \in job.older : CloseOlderFails(p[1], p[2])
People ==
    \E t \in Tags :
        \/ PersonPushes(t) \/ PersonReadies(t) \/ PersonCloses(t) \/ PersonMerges(t) \/ PersonDeletes(t)
        \/ \E n \in Checks : Rerun(t, n)

Next ==
    \/ Tag \/ Schedule \/ DispatchRun \/ JobStep \/ SettleStep \/ Trouble \/ People
    \/ \E t \in Tags : \/ Publish(t) \/ QueueLands(t) \/ QueueDrops(t)
                       \/ \E h \in 1 .. MaxCommits, n \in Checks : CheckEnds(t, h, n)

\* The schedule goes on, and a run that was started is run to its end.
Fairness == SF_vars(Schedule) /\ WF_vars(JobStep) /\ WF_vars(SettleStep)

Spec == Init /\ [][Next]_vars /\ Fairness

-----------------------------------------------------------------------------
(* Properties.                                                             *)

\* Every commit, pull request and row is one there is, and only what has a branch
\* is open.
TypeOK ==
    /\ tagged \in Tags \cup {0} /\ published \subseteq 1 .. tagged /\ pin \in 0 .. tagged
    /\ upsets \in 0 .. MaxUpsets
    /\ \A t \in Tags :
          /\ branch[t] \in Seq({Author, BotAuthor, Person}) /\ HeadOf(t) <= MaxCommits
          /\ pr[t].state \in {"none", "open", "closed", "merged"}
          /\ Open(t) => Exists(t)
          /\ pr[t].queued => Open(t)
    /\ settle.left \subseteq settle.rows

\* What the bot merges, itself or through the queue, is a commit whose required
\* checks all succeeded at one moment while none failed: a push after the verdict
\* is never merged on it.
MergedIsProven ==
    \A t \in Tags : pr[t].state = "merged" /\ pr[t].by = "bot" /\ Exists(t)
        => HeadOf(t) \in pr[t].proven

\* The pin never goes back: not when an older tag is dispatched, built late or
\* left open beside a newer one.
PinNeverGoesBack == [][pin' >= pin]_pin

\* The bot closes a repin only for a newer tag that has one itself.
NewestIsNeverClosed ==
    \A t \in Tags : pr[t].state = "closed" /\ pr[t].by = "bot"
        => \E u \in Tags : u > t /\ pr[u].num # 0

\* What becomes of a repin at the bot's hand, types included.
RepinInv == TypeOK /\ MergedIsProven /\ NewestIsNeverClosed

Newest(t) == \A u \in Tags : u > t => ~Open(u)

\* A published newest tag ahead of the pin gets its branch, whatever became of
\* the runs and repins before it.
NewestIsOffered ==
    \A t \in Tags : (tagged = t /\ t \in published /\ t > pin)
        ~> (Exists(t) \/ pr[t].num # 0 \/ pin >= t \/ tagged > t)

Ready(t) ==
    /\ Open(t) /\ Newest(t) /\ ~pr[t].draft /\ ~pr[t].queued /\ pr[t].from = pin
    /\ Green(checks[t][HeadOf(t)])

\* A newest repin that stays green and free of conflict is merged or queued.
GreenIsMerged == \A t \in Tags : []<>~Ready(t)

\* The owner hears of a newest repin that stays red on its head, also when that
\* head was told about for another reason before.
RedIsTold ==
    \A t \in Tags : []<>(\/ ~Open(t) \/ ~Newest(t) \/ pr[t].draft \/ ~Failed(t, HeadOf(t))
                         \/ <<"red", HeadOf(t)>> \in pr[t].told)

\* "A commit from anyone else is a person's push to the branch, and it hands the
\* merge back to a person" (docs/keel-repin.md): a repin that carries a person's commit is never merged by the bot.
StrangersAreLeft ==
    \A t \in Tags : pr[t].state = "merged" /\ pr[t].by = "bot" =>
        \A i \in 1 .. HeadOf(t) : branch[t][i] # Person
=============================================================================
