---------------------------- MODULE CiOkPolling -----------------------------
(***************************************************************************)
(* The aggregate check of a repository whose checks live in several        *)
(* workflows: one job that polls the check runs of the commit, fails at    *)
(* once on a bad one and passes when two polls in a row see the same       *)
(* complete result.                                                        *)
(*                                                                         *)
(* A poll is not one read: it lists the check suites, then the check runs, *)
(* and, when these alone could mislead it, the workflow runs.  Between the *)
(* reads workflows are triggered, rejected, opened, cancelled and          *)
(* re-triggered, jobs register once the jobs they need have ended, and     *)
(* checks conclude.  Reads fail, or meet a spent budget.                   *)
(*                                                                         *)
(* The names of the specification are apart from MainRedGate's: a merge    *)
(* group waits for both checks, and the proofs about them share a module.  *)
(***************************************************************************)
EXTENDS Naturals, Sequences, FiniteSets

CONSTANTS
    Flows,       \* the workflows of the repository
    EventOf,     \* the event each runs on
    Jobs,        \* the names of its jobs, each of which needs the one before it
    EventNames,  \* what the aggregate itself may run for
    Readables,   \* whether its token may read workflow runs
    AllowNone,   \* whether a pull request passes when no other check ran
    Required,    \* names that must have succeeded
    MaxSuites,   \* bound: runs of workflows on the commit
    MaxPolls,    \* the polls that fit before the deadline
    MaxMissed    \* bound: reads that fail or meet a spent budget

ASSUME ConstantsAssumption ==
    /\ \A f \in Flows : Jobs[f] \in Seq(STRING) \ {<<>>}
    /\ Readables \subseteq BOOLEAN /\ AllowNone \in BOOLEAN
    /\ MaxSuites \in Nat /\ MaxPolls \in Nat \ {0} /\ MaxMissed \in Nat

VARIABLES
    suites,  \* the check suites, in the order of their creation
    checks,  \* the check runs, in the order of their start
    config,  \* the event the gate runs for and whether it reads workflow runs
    phase,   \* "sleep", "suites", "runs", "events" or "done"
    left,    \* the polls that still fit before the deadline
    seen,    \* what the poll has read
    last,    \* the last complete result, by the number of checks of each name
    stable,  \* how often in a row it was read
    answer,  \* "none", "pass", "fail", "spent" or "timeout"
    missed,  \* reads missed so far
    late,    \* the suites whose next job was due when the check runs were last read
    began,   \* history: the suites and checks there were when the poll began
    obliged  \* history: what the first of the equal results answers for: the suites,
             \* how many checks it was drawn from and the suites left out as replaced

world == <<suites, checks, late>>
gate == <<phase, left, seen, last, stable, answer, began, obliged>>
pollVars == <<world, gate, config, missed>>

-----------------------------------------------------------------------------
(* Suites and checks.                                                      *)

Names == UNION {{Jobs[f][i] : i \in DOMAIN Jobs[f]} : f \in Flows}
Gating(f) == EventOf[f] \in {"pull_request", "pull_request_target", "merge_group"}

ChecksOf(s) == {c \in DOMAIN checks : checks[c].suite = s}
Running(s) == \E c \in ChecksOf(s) : checks[c].result = "running"
Bad(check) == check.result \in {"failure", "cancelled"}

Empty(s) == ChecksOf(s) = {}
AllJobs(s) == Cardinality(ChecksOf(s)) = Len(Jobs[suites[s].flow])
Completed(s) == suites[s].state = "cut" \/ (AllJobs(s) /\ ~Running(s))
\* The next job registers when the ones it needs have ended.
Due(s) == suites[s].state = "open" /\ ~AllJobs(s) /\ ~Running(s)
NextJob(s) == Jobs[suites[s].flow][Cardinality(ChecksOf(s)) + 1]

SupersededBy(s, newest) == \E n \in s + 1 .. newest : suites[n].flow = suites[s].flow
Superseded(s) == SupersededBy(s, Len(suites))

-----------------------------------------------------------------------------
(* The forge.                                                              *)

Trigger(f) ==
    /\ Len(suites) < MaxSuites
    /\ \E state \in {"queued", "cut"} : suites' = Append(suites, [flow |-> f, state |-> state])
    /\ UNCHANGED <<checks, late>>

Open(s) ==
    /\ suites[s].state = "queued"
    /\ suites' = [suites EXCEPT ![s].state = "open"]
    /\ UNCHANGED <<checks, late>>

\* A job whose needs did not succeed is skipped; its own condition may skip it.
Register(s) ==
    /\ Due(s)
    /\ \E result \in {"running", "skipped"} :
          /\ (\E c \in ChecksOf(s) : Bad(checks[c])) => result = "skipped"
          /\ checks' = Append(checks, [suite |-> s, name |-> NextJob(s), result |-> result])
    /\ late' = late \ {s}
    /\ UNCHANGED suites

Conclude(c) ==
    /\ checks[c].result = "running"
    /\ \E result \in {"success", "failure"} : checks' = [checks EXCEPT ![c].result = result]
    /\ UNCHANGED <<suites, late>>

\* A newer run of the workflow or a person cancels a run, with the job that is due.
Cancel(s) ==
    /\ ~Completed(s)
    /\ suites' = [suites EXCEPT ![s].state = "cut"]
    /\ LET ended == [c \in DOMAIN checks |->
                        IF checks[c].suite = s /\ checks[c].result = "running"
                        THEN [checks[c] EXCEPT !.result = "cancelled"] ELSE checks[c]]
       IN checks' = IF Due(s)
                    THEN Append(ended, [suite |-> s, name |-> NextJob(s), result |-> "cancelled"])
                    ELSE ended
    /\ late' = late \ {s}

World ==
    /\ phase # "done"
    /\ \/ \E f \in Flows : Trigger(f)
       \/ \E s \in DOMAIN suites : Open(s) \/ Register(s) \/ Cancel(s)
       \/ \E c \in DOMAIN checks : Conclude(c)
    /\ UNCHANGED <<gate, config, missed>>

-----------------------------------------------------------------------------
(* What a poll makes of what it read.                                      *)

NothingSeen == [waiting |-> {}, unstarted |-> {}, runs |-> <<>>]
NotBegun == [suites |-> 0, checks |-> 0, obliged |-> {}]
NotObliged == [suites |-> {}, checks |-> 0, replaced |-> {}]
NoResult == [n \in Names |-> 0]

\* Mutant: whatever its result, a check yields to a newer one of its name.
NewestOfEachName(runs, dropped) ==
    LET kept == {c \in DOMAIN runs : runs[c].suite \notin dropped}
    IN {c \in kept : \A d \in kept : runs[d].name = runs[c].name => d <= c}
\* An older cancelled run yields to a newer one of its name; a superseded suite does not count.
Relevant(runs, dropped) ==
    LET kept == {c \in DOMAIN runs : runs[c].suite \notin dropped}
    IN {c \in kept : runs[c].result = "cancelled" =>
                        \A d \in kept : runs[d].name = runs[c].name => d <= c}

\* Mutant: the workflow runs are read for empty suites only.
NeedsEventsWhenEmpty(runs) == seen.waiting \cup seen.unstarted # {}
\* Only the workflow runs tell a run that was replaced from another workflow's
\* job, and what an empty suite is about.
NeedsEvents(runs) ==
    \/ seen.waiting \cup seen.unstarted # {}
    \/ \E c, d \in DOMAIN runs : c # d /\ runs[c].name = runs[d].name /\ Bad(runs[c])

\* Mutant: a suite that never started counts whatever event it is of.
NeverStarted(s, known, dropped) == s \notin dropped
\* An empty suite that ended never started; a rejected push counts for a pull request.
NotStarted(s, known, dropped) ==
    \/ ~known
    \/ /\ s \notin dropped
       /\ Gating(suites[s].flow)
    \/ /\ s \notin dropped
       /\ EventOf[suites[s].flow] = "push"
       /\ config.event = "pull_request"

\* Mutant: a suite without checks is not waited for.
PendingChecksOnly(runs, known, dropped) ==
    \E c \in Relevant(runs, dropped) : runs[c].result = "running"
Pending(runs, known, dropped) ==
    \/ \E c \in Relevant(runs, dropped) : runs[c].result = "running"
    \/ /\ known
       /\ \E s \in seen.waiting \ dropped : Gating(suites[s].flow)

\* Two checks of one required name: which of them decides is the order of the list.
Verdicts(runs, known, dropped) ==
    LET relevant == Relevant(runs, dropped)
        Of(n) == {c \in relevant : runs[c].name = n}
        broken == \/ \E c \in relevant : Bad(runs[c])
                  \/ \E s \in seen.unstarted : NotStarted(s, known, dropped)
        skipped == \E n \in Required : \E c \in Of(n) : runs[c].result = "skipped"
        missing == \E n \in Required : Of(n) = {}
        ran == \A n \in Required : \E c \in Of(n) : runs[c].result = "success"
        none == relevant = {} /\ ~(AllowNone /\ config.event = "pull_request")
    IN IF broken THEN {"fail"}
       ELSE IF Pending(runs, known, dropped) THEN IF skipped THEN {"fail"} ELSE {"none"}
       ELSE {v \in {"fail", "pass"} : IF v = "fail" THEN skipped \/ missing \/ none ELSE ran /\ ~none}

Result(runs, dropped) ==
    [n \in Names |-> Cardinality({c \in Relevant(runs, dropped) : runs[c].name = n})]

\* Mutant: one complete result is enough, as if every check had registered.
OneResultPasses(result, answersFor) ==
    /\ stable' = 1 /\ last' = result /\ obliged' = answersFor
    /\ phase' = "done" /\ answer' = "pass"
\* The same complete result twice in a row passes.
CountResult(result, answersFor) ==
    LET again == stable > 0 /\ result = last
    IN /\ stable' = (IF again THEN stable + 1 ELSE 1) /\ last' = result
       /\ obliged' = IF again THEN obliged ELSE answersFor
       /\ IF stable' >= 2 THEN phase' = "done" /\ answer' = "pass"
                          ELSE phase' = "sleep" /\ UNCHANGED answer

Evaluate(runs, known, dropped) ==
    /\ seen' = NothingSeen
    /\ \E v \in Verdicts(runs, known, dropped) :
          \/ /\ v = "fail" /\ phase' = "done" /\ answer' = "fail"
             /\ UNCHANGED <<last, stable, obliged>>
          \/ /\ v = "none" /\ phase' = "sleep" /\ stable' = 0 /\ last' = NoResult
             /\ obliged' = NotObliged /\ UNCHANGED answer
          \/ /\ v = "pass"
             /\ CountResult(Result(runs, dropped),
                            [suites |-> began.obliged, checks |-> Len(runs), replaced |-> dropped])
    /\ began' = IF phase' = "done" THEN began ELSE NotBegun
    /\ UNCHANGED left

-----------------------------------------------------------------------------
(* The poll.                                                               *)

\* Mutant: the deadline counts from the last poll.
WakeAnew ==
    /\ phase = "sleep" /\ left > 0
    /\ phase' = "suites"
    /\ UNCHANGED <<world, config, missed, left, seen, last, stable, answer, began, obliged>>
Wake ==
    /\ phase = "sleep" /\ left > 0
    /\ left' = left - 1 /\ phase' = "suites"
    /\ UNCHANGED <<world, config, missed, seen, last, stable, answer, began, obliged>>

TimeOut ==
    /\ phase = "sleep" /\ left = 0
    /\ phase' = "done" /\ answer' = "timeout"
    /\ UNCHANGED <<world, config, missed, left, seen, last, stable, began, obliged>>

ReadSuites ==
    /\ phase = "suites" /\ phase' = "runs"
    /\ LET empty == {s \in DOMAIN suites : Empty(s)}
       IN seen' = [NothingSeen EXCEPT !.waiting = {s \in empty : ~Completed(s)},
                                      !.unstarted = {s \in empty : Completed(s)}]
    /\ began' = [suites |-> Len(suites), checks |-> Len(checks),
                 obliged |-> {s \in DOMAIN suites :
                                ~Empty(s) \/ (config.readable /\ Gating(suites[s].flow))}]
    /\ UNCHANGED <<world, config, missed, left, last, stable, answer, obliged>>

\* A job that was due when one poll read the check runs has registered before
\* the next one reads them: the forge takes less than the time between polls.
ReadRuns ==
    /\ phase = "runs"
    /\ \A s \in late : ~Due(s)
    /\ late' = {s \in DOMAIN suites : Due(s)}
    /\ \/ /\ NeedsEvents(checks)
          /\ phase' = "events" /\ seen' = [seen EXCEPT !.runs = checks]
          /\ UNCHANGED <<left, last, stable, answer, began, obliged>>
       \/ ~NeedsEvents(checks) /\ Evaluate(checks, FALSE, {})
    /\ UNCHANGED <<suites, checks, config, missed>>

ReadEvents ==
    /\ phase = "events"
    /\ LET dropped == {s \in DOMAIN suites : config.readable /\ Superseded(s)}
       IN Evaluate(seen.runs, config.readable, dropped)
    /\ UNCHANGED <<world, config, missed>>

Reading == phase \in {"suites", "runs", "events"}
Fault == Reading /\ missed < MaxMissed /\ missed' = missed + 1

\* A read that fails says nothing: the gate polls again, and the last result stands.
PollFails ==
    /\ Fault /\ phase' = "sleep" /\ seen' = NothingSeen /\ began' = NotBegun
    /\ UNCHANGED <<world, config, left, last, stable, answer, obliged>>

\* The budget is spent until some time before the deadline, or past it.
BudgetSpent ==
    /\ Fault /\ seen' = NothingSeen /\ began' = NotBegun
    /\ \/ phase' = "sleep" /\ left' \in 0 .. left /\ UNCHANGED answer
       \/ phase' = "done" /\ answer' = "spent" /\ UNCHANGED left
    /\ UNCHANGED <<world, config, last, stable, obliged>>

Poll == Wake \/ TimeOut \/ ReadSuites \/ ReadRuns \/ ReadEvents

-----------------------------------------------------------------------------

PollInit ==
    /\ suites = <<>> /\ checks = <<>> /\ late = {}
    /\ config \in [event : EventNames, readable : Readables]
    /\ phase = "sleep" /\ left = MaxPolls /\ seen = NothingSeen
    /\ last = NoResult /\ stable = 0 /\ answer = "none" /\ missed = 0
    /\ began = NotBegun /\ obliged = NotObliged

PollNext == World \/ Poll \/ PollFails \/ BudgetSpent

\* The gate's process runs on, and the forge registers the jobs that are due.
PollSpec ==
    /\ PollInit /\ [][PollNext]_pollVars
    /\ WF_pollVars(Poll)
    /\ \A s \in 1 .. MaxSuites :
          WF_pollVars(s \in DOMAIN suites /\ phase # "done" /\ Register(s) /\ UNCHANGED <<gate, config, missed>>)
-----------------------------------------------------------------------------
(* What the gate promises.                                                 *)

PollTypeOK ==
    /\ suites \in Seq([flow : Flows, state : {"queued", "open", "cut"}]) /\ Len(suites) <= MaxSuites
    /\ \A c \in DOMAIN checks :
          checks[c] \in [suite : DOMAIN suites, name : Names,
                         result : {"running", "success", "skipped", "failure", "cancelled"}]
    /\ config \in [event : EventNames, readable : Readables]
    /\ phase \in {"sleep", "suites", "runs", "events", "done"} /\ left \in 0 .. MaxPolls
    /\ stable \in 0 .. 2 /\ missed \in 0 .. MaxMissed
    /\ answer \in {"none", "pass", "fail", "spent", "timeout"} /\ (answer = "none" <=> phase # "done")
    /\ late \subseteq DOMAIN suites /\ obliged.suites \subseteq DOMAIN suites

\* Equal numbers can hide a job that registered between two polls: a check the first
\* result counted has its name, and the workflow runs show that one's run as replaced.
Disguised(s) ==
    /\ config.readable
    /\ \E c \in 1 .. obliged.checks, d \in ChecksOf(s) :
          /\ d > obliged.checks /\ checks[d].name = checks[c].name /\ checks[c].result # "cancelled"
          /\ checks[c].suite \notin obliged.replaced /\ Superseded(checks[c].suite)
\* The workflows a pass answers for.
Judged == {s \in obliged.suites : ~Superseded(s) /\ ~Disguised(s)}

\* When the gate passes, every workflow it answers for has run to its end, the jobs
\* that registered between two polls and the queued workflows included.  Without
\* workflow runs it answers for those that have a check.
PassIsComplete ==
    answer = "pass" => \A s \in Judged : Completed(s) /\ ~Empty(s)

\* When the gate passes, no check of a workflow it answers for is bad, but a cancelled
\* one that a newer check of its name stands beside; and every required name has succeeded.
PassIsClean ==
    answer = "pass" =>
        /\ \A s \in Judged : \A c \in ChecksOf(s) :
              Bad(checks[c]) =>
                  /\ checks[c].result = "cancelled"
                  /\ \E d \in c + 1 .. Len(checks) : checks[d].name = checks[c].name
        /\ \A n \in Required : \E c \in DOMAIN checks : checks[c].name = n /\ checks[c].result = "success"

\* A pass is complete and clean, types included.
OkInv == PollTypeOK /\ PassIsComplete /\ PassIsClean

\* The gate fails a commit only for a cause that stands: a bad check whose job no
\* newer run of its workflow had started again before the poll, a workflow that did
\* not start and was not replaced before it, a required name that no check bore or
\* that was skipped, or nothing to judge.  (Without workflow runs only a cancelled
\* check is known to be replaced.)
FailIsGenuine ==
    LET StartedAgain(c) ==
            \E d \in c + 1 .. began.checks :
                /\ checks[d].suite > checks[c].suite /\ checks[d].name = checks[c].name
                /\ suites[checks[d].suite].flow = suites[checks[c].suite].flow
        Told == {c \in 1 .. began.checks : ~(config.readable /\ Superseded(checks[c].suite))}
    IN answer = "fail" =>
        \/ \E c \in DOMAIN checks :
              /\ Bad(checks[c])
              /\ StartedAgain(c) => ~config.readable /\ checks[c].result # "cancelled"
        \/ \E s \in DOMAIN suites :
              /\ Empty(s) /\ Completed(s)
              /\ config.readable =>
                    /\ ~SupersededBy(s, began.suites)
                    /\ ~Gating(suites[s].flow) =>
                          EventOf[suites[s].flow] = "push" /\ config.event = "pull_request"
        \/ \E n \in Required :
              \/ \A c \in Told : checks[c].name # n
              \/ \E c \in DOMAIN checks : checks[c].name = n /\ checks[c].result = "skipped"
        \/ Told = {} /\ ~(AllowNone /\ config.event = "pull_request")

\* Whatever checks never end and whatever reads fail, the gate answers.
GateEnds == <>(phase = "done")
=============================================================================
