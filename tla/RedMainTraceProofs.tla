------------------------- MODULE RedMainTraceProofs -------------------------
(***************************************************************************)
(* Proofs about RedMainTrace, for every trunk, set of jobs and tests and   *)
(* every bound: what is blamed broke what failed, the window is wide and   *)
(* narrow enough, and one odd run reverts nothing.                         *)
(***************************************************************************)
EXTENDS RedMainTrace, FiniteSetTheorems, WellFoundedInduction, TLAPS

-----------------------------------------------------------------------------
(* The inductive invariant.                                                *)

\* A commit that is not there yet has no run.
FutureIsEmpty ==
    \A r \in Commits : r > head => result[r] = "absent" /\ ran[r] = {} /\ failing[r] = {}

\* While nothing flakes, a run shows what its jobs find, and a verified commit is sound.
TrueHistory ==
    Deterministic => \A r \in 1..head :
        /\ failing[r] = AsItIs(r, ran[r])
        /\ result[r] = "success" => \A j \in Jobs : Sound(r, j)

AllSound == \A c \in 1..head, j \in Jobs : Sound(c, j)

\* On a sound trunk every failed run is an odd one, and two of them are two.
OddHistory ==
    AllSound => \A r \in Commits : failing[r] # {} =>
        /\ flakes + outages >= 1
        /\ \A s \in Commits : s # r /\ failing[s] # {} => flakes + outages >= 2

WorldInv ==
    /\ TrunkType /\ HistoryType /\ CountType
    /\ FutureIsEmpty /\ TrueHistory /\ OddHistory

Aimed   == {"candidates", "dispatch", "poll", "infra", "judge"}
Based   == {"list", "walk"} \cup Aimed
Tracing == {"find base"} \cup Based
Probing == {"dispatch", "poll", "infra", "judge", "done"}

\* What the call knows at each of its steps.
CallShape ==
    /\ OriginType /\ WindowType /\ ProbeType
    /\ mode \in TraceModes /\ laneInput \in LaneInputs
    /\ pc \in Steps /\ verdict \in Verdicts /\ culprit \in 0..MaxCommit
    /\ pc # "done" => verdict = "none"
    /\ pc # "idle" => red \in 1..head
    /\ pc \in {"idle", "units"} => confirmed = {}
    /\ pc = "idle" => units = {} /\ walk = {}
    /\ pc = "read previous" => prev \in 1..red - 1
    /\ pc \in Tracing => confirmed # {}
    /\ pc \in Based => base \in 1..red - 1
    /\ pc \in Aimed => targets # {} /\ JobsOf(targets) \subseteq lanes
    /\ pc \notin Aimed \cup {"done"} => targets = {}
    /\ pc \notin Probing => /\ waiting = {}
                            /\ \A c \in Commits : found[c] = "none" /\ foundUnits[c] = {} /\ unread[c] = 0
    /\ pc = "dispatch" => next \in base + 1..red
    /\ pc \in {"dispatch", "poll"} => \A c \in Commits : unread[c] < ReadTries
    /\ walk \subseteq 1..red - 1
    /\ \A c \in Commits : found[c] = "failure" => foundUnits[c] # {}
    /\ \A c \in Commits : found[c] # "none" => c \in 1..head
    /\ verdict \in {"window", "culprit"} => confirmed # {}
    /\ verdict = "culprit" => culprit \in Commits /\ foundUnits[culprit] # {}

\* What a candidate's run found of the traced units: as the code is, or nothing
\* because their jobs are sound.
TrueFinding(c) ==
    /\ found[c] = "success" => \A u \in targets : ~Fails(u, c)
    /\ found[c] = "failure" =>
          \E some \in SUBSET Jobs : /\ foundUnits[c] = AsItIs(c, some)
                                    /\ \A u \in targets : u.job \in some \/ Sound(c, u.job)

\* While nothing flakes, the units fail on the red commit, and what is traced
\* does not fail on the baseline.
TrueCall ==
    Deterministic =>
        /\ \A u \in units : Fails(u, red)
        /\ pc \in {"list", "walk"} => \A j \in Jobs : Sound(base, j)
        /\ pc \in Aimed => \A u \in targets : ~Fails(u, base)
        /\ InTheOpen => \A c \in Commits : TrueFinding(c)

\* On a sound trunk a confirmation takes two odd runs and a failed candidate a third.
OddCall ==
    AllSound =>
        /\ units # {} =>
              /\ flakes + outages >= 1
              /\ \A s \in Commits : s # red /\ failing[s] # {} => flakes + outages >= 2
        /\ confirmed # {} =>
              /\ flakes + outages >= 2
              /\ \A c \in Commits : foundUnits[c] # {} => flakes + outages >= 3

\* A run that stood since the listing and clears a unit is still to be read.
StandingIsListed ==
    /\ pc \in {"walk", "candidates"} => \A r \in standing : Completed(r)
    /\ standing \subseteq Commits
    /\ pc = "walk" /\ faults = 0 =>
          \A r \in standing :
              (\E u \in confirmed : Clears(u, r)) /\ red - r <= WalkRuns => r \in walk

IInv ==
    /\ WorldInv /\ CallShape /\ TrueCall /\ OddCall /\ StandingIsListed
    /\ NarrowestWindow /\ WindowHoldsTheBreak
    /\ CulpritIntroducedIt

-----------------------------------------------------------------------------
(* Units and evidence.                                                     *)

\* The bounds are natural numbers.
LEMMA BoundsAreNaturals ==
    /\ MaxCommit \in Nat \ {0} /\ MaxCandidates \in Nat /\ MaxRevertCommits \in Nat
    /\ WalkRuns \in Nat \ {0} /\ ReadTries \in Nat \ {0}
    /\ MaxReruns \in Nat /\ MaxFlakes \in Nat /\ MaxOutages \in Nat /\ MaxFaults \in Nat
  BY TraceAssumption

\* A unit is a test or a way in which a job can fail before its tests.
LEMMA UnitFields ==
    ASSUME NEW u \in Unit
    PROVE  /\ u.job \in Jobs
           /\ \/ u.kind = "test" /\ u.name \in Tests /\ u = Test(u.name, u.job)
              \/ u.kind = "lane" /\ u.name \in Ways \cup {Infra, Tested} /\ u = Lane(u.name, u.job)
  BY DEF Unit, Test, Lane

\* What a job shows on a commit are units of that job.
LEMMA ShownAreUnits ==
    ASSUME TrunkType, NEW c \in Commits, NEW j \in Jobs
    PROVE  \A u \in Shown(c, j) : u \in Unit /\ u.job = j
  <1>1. build[c][j] \in Ways \cup {Builds} /\ broken[c][j] \subseteq Tests
    BY DEF TrunkType
  <1> QED
    BY <1>1 DEF Shown, Unit, Test, Lane

\* What a run shows when nothing is odd is what its jobs show.
LEMMA AsItIsShows ==
    ASSUME TrunkType, NEW c \in Commits, NEW some \in SUBSET Jobs
    PROVE  /\ AsItIs(c, some) \subseteq Unit
           /\ \A u \in AsItIs(c, some) : u.job \in some /\ u \in Shown(c, u.job)
           /\ \A j \in some : Shown(c, j) \subseteq AsItIs(c, some)
           /\ \A j \in some : OfJob(AsItIs(c, some), j) = Shown(c, j)
  <1>1. \A u : u \in AsItIs(c, some) <=> \E j \in some : u \in Shown(c, j)
    BY DEF AsItIs
  <1>2. \A j \in some : \A u \in Shown(c, j) : u \in Unit /\ u.job = j
    BY ShownAreUnits
  <1>3. \A u \in AsItIs(c, some) : u \in Unit /\ u.job \in some /\ u \in Shown(c, u.job)
    BY <1>1, <1>2
  <1>4. \A j \in some : OfJob(AsItIs(c, some), j) = Shown(c, j)
    BY <1>1, <1>2 DEF OfJob
  <1> QED
    BY <1>1, <1>3, <1>4

\* A job shows nothing exactly when it is sound.
LEMMA SoundShowsNothing ==
    ASSUME NEW c, NEW j
    PROVE  Shown(c, j) = {} <=> Sound(c, j)
  BY DEF Shown, Sound, Test, Lane

\* A sound job fails no unit.
LEMMA SoundDoesNotFail ==
    ASSUME NEW c, NEW u \in Unit, Sound(c, u.job)
    PROVE  ~Fails(u, c)
  BY UnitFields, TraceAssumption DEF Sound, Fails, Builds, Tested

\* What a job shows does fail on the commit.
LEMMA ShownFails ==
    ASSUME TrunkType, NEW c \in Commits, NEW j \in Jobs, NEW u \in Shown(c, j)
    PROVE  Fails(u, c)
  <1>1. build[c][j] \in Ways \cup {Builds}
    BY DEF TrunkType
  <1>2. CASE build[c][j] = Builds
    BY <1>2 DEF Shown, Fails, Test
  <1>3. CASE build[c][j] # Builds
    <2>1. build[c][j] # Tested
      BY <1>1, <1>3, TraceAssumption
    <2>2. u.kind = "lane" /\ u.name = build[c][j] /\ u.job = j
      BY <1>3 DEF Shown, Lane
    <2> QED
      BY <2>1, <2>2 DEF Fails
  <1> QED
    BY <1>2, <1>3

\* A unit that fails on a commit is shown there, or its job shows another failure
\* that is no test beside it, or, of a job as a whole, any failure.
LEMMA FailureIsShown ==
    ASSUME TrunkType, NEW c \in Commits, NEW u \in Unit, Fails(u, c)
    PROVE  \/ u \in Shown(c, u.job)
           \/ \E v \in Shown(c, u.job) : v.kind = "lane" \/ u.kind = "lane"
  <1>1. u.job \in Jobs /\ build[c][u.job] \in Ways \cup {Builds}
    BY UnitFields DEF TrunkType
  <1>2. CASE u.kind = "test" /\ build[c][u.job] = Builds
    BY <1>2, UnitFields DEF Fails, Shown
  <1>3. CASE u.kind = "test" /\ build[c][u.job] # Builds
    BY <1>3 DEF Shown, Lane
  <1>4. CASE u.kind = "lane"
    <2>1. ~Sound(c, u.job)
      BY SoundDoesNotFail
    <2>2. Shown(c, u.job) # {}
      BY <2>1, SoundShowsNothing
    <2> QED
      BY <1>4, <2>2
  <1> QED
    BY <1>2, <1>3, <1>4, UnitFields

\* A run that clears a unit as the code is shows that it does not fail.
LEMMA ClearsTruly ==
    ASSUME TrunkType, NEW r \in Commits, ran[r] \in SUBSET Jobs, failing[r] = AsItIs(r, ran[r]),
           NEW u \in Unit, Clears(u, r) \/ ClearsByJob(u, r)
    PROVE  ~Fails(u, r)
  <1>1. u.job \in ran[r]
    BY DEF Clears, ClearsByJob
  <1>2. OfJob(failing[r], u.job) = Shown(r, u.job)
    BY <1>1, AsItIsShows
  <1>3. CASE OfJob(failing[r], u.job) = {}
    BY <1>2, <1>3, SoundShowsNothing, SoundDoesNotFail
  <1>4. CASE /\ u.kind = "test" /\ u \notin failing[r]
             /\ \A v \in OfJob(failing[r], u.job) : v.kind = "test"
    <2>1. u \notin Shown(r, u.job)
      BY <1>1, <1>4, AsItIsShows
    <2> QED
      BY <1>2, <1>4, <2>1, FailureIsShown
  <1> QED
    BY <1>3, <1>4 DEF Clears, ClearsByJob

\* Reports that are lost rename rows, add none where there were none, and take
\* none away but tests for the row that stands for their job.
LEMMA UnreportedRows ==
    ASSUME NEW rows \in SUBSET Unit, NEW lost \in SUBSET Jobs
    PROVE  /\ Unreported(rows, lost) \subseteq Unit
           /\ Unreported(rows, lost) # {} => rows # {}
           /\ \A v \in Unreported(rows, lost) :
                 v \in rows \/ (v = Lane(Tested, v.job) /\ \E u \in rows : u.kind = "test" /\ u.job = v.job)
           /\ \A u \in rows :
                 \/ u \in Unreported(rows, lost)
                 \/ \E v \in Unreported(rows, lost) : v.kind = "lane" /\ v.job = u.job
  <1> DEFINE named == lost \cap JobsOf({u \in rows : u.kind = "test"})
  <1>1. \A j \in named : j \in Jobs /\ \E u \in rows : u.kind = "test" /\ u.job = j
    BY DEF JobsOf
  <1>2. \A j \in named : Lane(Tested, j) \in Unit /\ Lane(Tested, j).kind = "lane" /\ Lane(Tested, j).job = j
    BY <1>1 DEF Lane, Unit
  <1>3. \A v : v \in Unreported(rows, lost) <=>
                  \/ v \in rows /\ (v.kind = "lane" \/ v.job \notin lost)
                  \/ \E j \in named : v = Lane(Tested, j)
    BY DEF Unreported
  <1>4. ASSUME NEW u \in rows, u \notin Unreported(rows, lost)
        PROVE  \E v \in Unreported(rows, lost) : v.kind = "lane" /\ v.job = u.job
    <2>1. u.kind = "test" /\ u.job \in lost
      BY <1>3, <1>4, UnitFields
    <2>2. u.job \in named
      BY <2>1 DEF JobsOf
    <2> HIDE DEF named
    <2>3. PICK v : v = Lane(Tested, u.job)
      OBVIOUS
    <2>4. v \in Unreported(rows, lost)
      BY <1>3, <2>2, <2>3
    <2> QED
      BY <1>2, <2>2, <2>3, <2>4
  <1> HIDE DEF named
  <1>5. Unreported(rows, lost) \subseteq Unit
    BY <1>2, <1>3
  <1>6. Unreported(rows, lost) # {} => rows # {}
    BY <1>1, <1>3
  <1>7. ASSUME NEW v \in Unreported(rows, lost)
        PROVE  v \in rows \/ (v = Lane(Tested, v.job) /\ \E u \in rows : u.kind = "test" /\ u.job = v.job)
    BY <1>1, <1>2, <1>3
  <1> QED
    BY <1>4, <1>5, <1>6, <1>7

\* What is left of true rows when reports are lost still fails.
LEMMA UnreportedFails ==
    ASSUME TrunkType, NEW c \in Commits, NEW some \in SUBSET Jobs, NEW lost \in SUBSET Jobs,
           NEW v \in Unreported(AsItIs(c, some), lost)
    PROVE  Fails(v, c)
  <1>1. AsItIs(c, some) \in SUBSET Unit
    BY AsItIsShows
  <1>2. CASE v \in AsItIs(c, some)
    BY <1>2, AsItIsShows, ShownFails
  <1>3. CASE v = Lane(Tested, v.job) /\ \E u \in AsItIs(c, some) : u.kind = "test" /\ u.job = v.job
    <2>1. PICK u \in AsItIs(c, some) : u.kind = "test" /\ u.job = v.job
      BY <1>3
    <2>2. u \in Shown(c, v.job)
      BY <2>1, AsItIsShows
    <2>3. build[c][v.job] = Builds /\ broken[c][v.job] # {}
      BY <2>1, <2>2 DEF Shown, Lane
    <2>4. v.kind = "lane" /\ v.name = Tested
      BY <1>3 DEF Lane
    <2> QED
      BY <2>3, <2>4 DEF Fails
  <1> QED
    BY <1>1, <1>2, <1>3, UnreportedRows

\* A read of a run's rows gives units: all of them, or renamed ones for a fault.
LEMMA ReportedRows ==
    ASSUME NEW rows \in SUBSET Unit, NEW seen, Reported(rows, seen)
    PROVE  /\ seen \subseteq Unit
           /\ seen # {} => rows # {}
           /\ seen = rows \/ \E lost \in SUBSET Jobs : seen = Unreported(rows, lost)
  BY UnreportedRows DEF Reported

\* Whatever a run shows, odd or not, are units.
LEMMA EvidenceIsTyped ==
    ASSUME TrunkType, NEW c \in Commits, NEW some \in SUBSET Jobs, NEW rows \in Evidence(c, some)
    PROVE  rows \subseteq Unit
  <1>1. AsItIs(c, some) \subseteq Unit
    BY AsItIsShows
  <1>2. \A j \in some : \A odd \in Flakes(j) : odd \subseteq Unit
    BY DEF Flakes, Unit, Test, Lane
  <1>3. \A j \in some : {Lane(Infra, j)} \subseteq Unit
    BY DEF Unit, Lane
  <1>4. CASE rows = AsItIs(c, some)
    BY <1>1, <1>4
  <1>5. CASE rows \in Flaked(c, some)
    <2>1. PICK j \in some : \E odd \in Flakes(j) : rows = Instead(c, some, j, odd)
      BY <1>5 DEF Flaked
    <2>2. PICK odd \in Flakes(j) : rows = Instead(c, some, j, odd)
      BY <2>1
    <2> QED
      BY <1>1, <1>2, <2>2 DEF Instead
  <1>6. CASE rows \in CutOff(c, some)
    <2>1. PICK j \in some : rows = Instead(c, some, j, {Lane(Infra, j)})
      BY <1>6 DEF CutOff
    <2> QED
      BY <1>1, <1>3, <2>1 DEF Instead
  <1> QED
    BY <1>4, <1>5, <1>6 DEF Evidence

\* The counters of what is odd.
OddCounts == flakes \in Nat /\ outages \in Nat /\ flakes' \in Nat /\ outages' \in Nat

\* The counters are within their bounds.
LEMMA CountersAreNaturals ==
    ASSUME CountType
    PROVE  flakes \in Nat /\ outages \in Nat /\ faults \in Nat /\ reruns \in Nat
  BY BoundsAreNaturals DEF CountType

\* What a run shows is as the code is, or something odd is counted.
LEMMA Observed ==
    ASSUME CountType, NEW c, NEW some, NEW rows, Observe(c, some, rows)
    PROVE  /\ OddCounts
           /\ flakes' \in 0..MaxFlakes /\ outages' \in 0..MaxOutages
           /\ flakes <= flakes' /\ outages <= outages'
           /\ rows = AsItIs(c, some) \/ flakes' + outages' >= flakes + outages + 1
           /\ Deterministic' => Deterministic /\ rows = AsItIs(c, some)
  <1>1. flakes \in Nat /\ outages \in Nat
    BY CountersAreNaturals
  <1>2. CASE rows = AsItIs(c, some) /\ UNCHANGED <<flakes, outages>>
    BY <1>1, <1>2 DEF OddCounts, CountType, Deterministic
  <1>3. CASE flakes < MaxFlakes /\ flakes' = flakes + 1 /\ UNCHANGED outages
    BY <1>1, <1>3, BoundsAreNaturals DEF OddCounts, CountType, Deterministic
  <1>4. CASE outages < MaxOutages /\ outages' = outages + 1 /\ UNCHANGED flakes
    BY <1>1, <1>4, BoundsAreNaturals DEF OddCounts, CountType, Deterministic
  <1> QED
    BY <1>2, <1>3, <1>4 DEF Observe

\* On a sound trunk a run that shows something is an odd one.
LEMMA SoundRunIsClean ==
    ASSUME NEW c \in 1..head, AllSound, NEW some \in SUBSET Jobs
    PROVE  AsItIs(c, some) = {}
  <1>1. \A j \in some : Shown(c, j) = {}
    BY SoundShowsNothing DEF AllSound
  <1> QED
    BY <1>1 DEF AsItIs

-----------------------------------------------------------------------------
(* The trunk and its runs.                                                 *)

\* What a step leaves of the trunk, the runs and the counters.
Grown ==
    /\ head \in Nat /\ head' \in Nat /\ head <= head'
    /\ \A c \in 1..head : build'[c] = build[c] /\ broken'[c] = broken[c]
    /\ OddCounts /\ flakes <= flakes' /\ outages <= outages'
    /\ faults \in Nat /\ faults' \in Nat /\ faults <= faults'
    /\ AllSound' => \A r \in Commits : failing'[r] # {} /\ failing[r] = {}
                                         => flakes' + outages' >= flakes + outages + 1
    /\ \A r \in Commits : Completed(r) /\ Completed(r)' => ran'[r] = ran[r] /\ failing'[r] = failing[r]

\* What is true of a commit is true of it as long as it is not rewritten.
LEMMA SameTruth ==
    ASSUME NEW c, build'[c] = build[c], broken'[c] = broken[c]
    PROVE  /\ \A j : Shown(c, j)' = Shown(c, j) /\ (Sound(c, j)' <=> Sound(c, j))
           /\ \A u : Fails(u, c)' <=> Fails(u, c)
           /\ \A some : AsItIs(c, some)' = AsItIs(c, some)
  <1>1. \A j : Shown(c, j)' = Shown(c, j) /\ (Sound(c, j)' <=> Sound(c, j))
    BY DEF Shown, Sound
  <1>2. \A u : Fails(u, c)' <=> Fails(u, c)
    BY DEF Fails
  <1>3. \A some : AsItIs(c, some)' = AsItIs(c, some)
    BY <1>1 DEF AsItIs
  <1> QED
    BY <1>1, <1>2, <1>3

\* A trunk that is sound now was sound before.
LEMMA WasSound ==
    ASSUME head \in Nat, head' \in Nat, head <= head', AllSound',
           \A c \in 1..head : build'[c] = build[c] /\ broken'[c] = broken[c]
    PROVE  AllSound
  <1> SUFFICES ASSUME NEW c \in 1..head, NEW j \in Jobs PROVE Sound(c, j)
    BY DEF AllSound
  <1>1. c \in 1..head'
    OBVIOUS
  <1>2. Sound(c, j)'
    BY <1>1 DEF AllSound
  <1> QED
    BY <1>2, SameTruth

\* Nothing odd has happened yet if nothing odd has happened in the end.
LEMMA WasDeterministic ==
    ASSUME OddCounts, flakes <= flakes', outages <= outages', Deterministic'
    PROVE  Deterministic
  BY DEF OddCounts, Deterministic

\* What is odd is never uncounted.
LEMMA SumGrows ==
    ASSUME NEW a \in Nat, NEW b \in Nat, NEW c \in Nat, NEW d \in Nat, a <= c, b <= d
    PROVE  /\ a + b >= 1 => c + d >= 1
           /\ a + b >= 2 => c + d >= 2
           /\ a + b >= 3 => c + d >= 3
  OBVIOUS

\* So of the counters of the model.
LEMMA OddGrows ==
    ASSUME OddCounts, flakes <= flakes', outages <= outages'
    PROVE  /\ flakes + outages >= 1 => flakes' + outages' >= 1
           /\ flakes + outages >= 2 => flakes' + outages' >= 2
           /\ flakes + outages >= 3 => flakes' + outages' >= 3
  BY SumGrows DEF OddCounts

\* One more odd run is one more.
LEMMA SumSteps ==
    ASSUME NEW a \in Nat, NEW b \in Nat, NEW c \in Nat, NEW d \in Nat, c + d >= a + b + 1
    PROVE  /\ c + d >= 1
           /\ a + b >= 1 => c + d >= 2
           /\ a + b >= 2 => c + d >= 3
  OBVIOUS

\* So of the counters of the model.
LEMMA OddSteps ==
    ASSUME OddCounts, flakes' + outages' >= flakes + outages + 1
    PROVE  /\ flakes' + outages' >= 1
           /\ flakes + outages >= 1 => flakes' + outages' >= 2
           /\ flakes + outages >= 2 => flakes' + outages' >= 3
  BY SumSteps DEF OddCounts

\* One run's rows show what is there, in the new state too.
LEMMA RowsStayTrue ==
    ASSUME NEW r, build'[r] = build[r], broken'[r] = broken[r],
           failing'[r] = AsItIs(r, ran'[r])
    PROVE  (failing[r] = AsItIs(r, ran[r]))'
  <1>1. \A j : Shown(r, j)' = Shown(r, j)
    BY SameTruth
  <1> QED
    BY <1>1 DEF AsItIs

\* A step of the call leaves the trunk and the runs alone.
LEMMA WorldStays ==
    ASSUME WorldInv, UNCHANGED <<head, build, broken, result, ran, failing>>,
           CountType', flakes <= flakes', outages <= outages', faults <= faults'
    PROVE  WorldInv' /\ Grown
  <1>1. /\ flakes \in Nat /\ outages \in Nat /\ faults \in Nat
        /\ flakes' \in Nat /\ outages' \in Nat /\ faults' \in Nat
    BY BoundsAreNaturals DEF WorldInv, CountType
  <1>2. head \in Nat
    BY BoundsAreNaturals DEF WorldInv, TrunkType, Commits
  <1>3. TrunkType' /\ HistoryType' /\ FutureIsEmpty'
    BY DEF WorldInv, TrunkType, HistoryType, FutureIsEmpty
  <1>4. Grown
    BY <1>1, <1>2 DEF Grown, OddCounts
  <1>5. TrueHistory'
    <2> SUFFICES ASSUME Deterministic', NEW r \in 1..head
                 PROVE  /\ (failing[r] = AsItIs(r, ran[r]))'
                        /\ result[r] = "success" => \A j \in Jobs : Sound(r, j)'
      BY DEF TrueHistory
    <2>1. Deterministic
      BY <1>4, WasDeterministic DEF Grown
    <2>2. failing[r] = AsItIs(r, ran[r]) /\ (result[r] = "success" => \A j \in Jobs : Sound(r, j))
      BY <2>1 DEF WorldInv, TrueHistory
    <2>3. (failing[r] = AsItIs(r, ran[r]))'
      BY <2>2, RowsStayTrue
    <2> QED
      BY <2>2, <2>3, SameTruth
  <1>6. OddHistory'
    <2>1. AllSound' => AllSound
      BY <1>2, WasSound
    <2>2. /\ flakes + outages >= 1 => flakes' + outages' >= 1
          /\ flakes + outages >= 2 => flakes' + outages' >= 2
      BY <1>4, OddGrows DEF Grown
    <2> QED
      BY <2>1, <2>2 DEF WorldInv, OddHistory
  <1> QED
    BY <1>3, <1>4, <1>5, <1>6 DEF WorldInv

\* A commit lands.
LEMMA LandKeeps ==
    ASSUME WorldInv, Land
    PROVE  WorldInv' /\ Grown
  <1>1. /\ flakes \in Nat /\ outages \in Nat /\ faults \in Nat /\ UNCHANGED <<reruns, flakes, outages, faults>>
    BY CountersAreNaturals DEF WorldInv, Land
  <1>2. head \in Nat /\ head \in Commits /\ head' = head + 1 /\ head' \in Commits
    BY BoundsAreNaturals DEF WorldInv, TrunkType, Commits, Land
  <1>3. /\ build' \in [Commits -> [Jobs -> Ways \cup {Builds}]] /\ broken' \in [Commits -> [Jobs -> SUBSET Tests]]
        /\ \A c \in Commits : c # head + 1 => build'[c] = build[c] /\ broken'[c] = broken[c]
    <2>1. /\ build \in [Commits -> [Jobs -> Ways \cup {Builds}]] /\ broken \in [Commits -> [Jobs -> SUBSET Tests]]
      BY DEF WorldInv, TrunkType
    <2>2. build[head] \in [Jobs -> Ways \cup {Builds}] /\ broken[head] \in [Jobs -> SUBSET Tests]
      BY <1>2, <2>1
    <2>3. PICK j \in Jobs :
              \/ /\ \E b \in Ways \cup {Builds} : build' = [build EXCEPT ![head + 1] = [build[head] EXCEPT ![j] = b]]
                 /\ broken' = [broken EXCEPT ![head + 1] = broken[head]]
              \/ /\ \E t \in Tests : \E bad \in {broken[head][j] \cup {t}, broken[head][j] \ {t}} :
                       broken' = [broken EXCEPT ![head + 1] = [broken[head] EXCEPT ![j] = bad]]
                 /\ build' = [build EXCEPT ![head + 1] = build[head]]
      BY DEF Land
    <2>4. CASE /\ \E b \in Ways \cup {Builds} : build' = [build EXCEPT ![head + 1] = [build[head] EXCEPT ![j] = b]]
               /\ broken' = [broken EXCEPT ![head + 1] = broken[head]]
      <3>1. PICK b \in Ways \cup {Builds} : build' = [build EXCEPT ![head + 1] = [build[head] EXCEPT ![j] = b]]
        BY <2>4
      <3>2. PICK x : x = [build[head] EXCEPT ![j] = b]
        OBVIOUS
      <3>3. x \in [Jobs -> Ways \cup {Builds}]
        BY <2>2, <3>2
      <3> QED
        BY <2>1, <2>2, <2>4, <3>1, <3>2, <3>3
    <2>5. CASE /\ \E t \in Tests : \E bad \in {broken[head][j] \cup {t}, broken[head][j] \ {t}} :
                       broken' = [broken EXCEPT ![head + 1] = [broken[head] EXCEPT ![j] = bad]]
               /\ build' = [build EXCEPT ![head + 1] = build[head]]
      <3>1. PICK t \in Tests : \E bad \in {broken[head][j] \cup {t}, broken[head][j] \ {t}} :
                       broken' = [broken EXCEPT ![head + 1] = [broken[head] EXCEPT ![j] = bad]]
        BY <2>5
      <3>2. PICK bad \in {broken[head][j] \cup {t}, broken[head][j] \ {t}} :
                       broken' = [broken EXCEPT ![head + 1] = [broken[head] EXCEPT ![j] = bad]]
        BY <3>1
      <3>3. PICK x : x = [broken[head] EXCEPT ![j] = bad]
        OBVIOUS
      <3>4. bad \in SUBSET Tests
        BY <2>2, <3>2
      <3>5. x \in [Jobs -> SUBSET Tests]
        BY <2>2, <3>3, <3>4
      <3> QED
        BY <2>1, <2>2, <2>5, <3>2, <3>3, <3>5
    <2> QED
      BY <2>3, <2>4, <2>5
  <1>4. /\ result' = [result EXCEPT ![head + 1] = "running"] /\ UNCHANGED <<ran, failing>>
    BY DEF Land
  <1>5. \A c \in 1..head : c \in Commits /\ c # head + 1
    BY <1>2, BoundsAreNaturals DEF Commits
  <1>6. /\ result' \in [Commits -> Results]
        /\ \A r \in Commits : r # head + 1 => result'[r] = result[r]
        /\ result'[head + 1] = "running"
    BY <1>2, <1>4 DEF WorldInv, HistoryType, Results
  <1>7. TrunkType' /\ HistoryType' /\ CountType'
    BY <1>1, <1>2, <1>3, <1>4, <1>6 DEF WorldInv, TrunkType, HistoryType, CountType
  <1>8. FutureIsEmpty'
    <2>1. \A r \in Commits : r > head + 1 => r > head /\ r # head + 1
      BY <1>2, BoundsAreNaturals DEF Commits
    <2> QED
      BY <1>2, <1>4, <1>6, <2>1 DEF WorldInv, FutureIsEmpty
  <1>9. Grown
    <2>1. \A r \in Commits : Completed(r) /\ Completed(r)' => ran'[r] = ran[r] /\ failing'[r] = failing[r]
      BY <1>4
    <2>2. head <= head'
      BY <1>2
    <2> QED
      BY <1>1, <1>2, <1>3, <1>4, <1>5, <2>1, <2>2 DEF Grown, OddCounts
  <1>10. TrueHistory'
    <2> SUFFICES ASSUME Deterministic', NEW r \in 1..head'
                 PROVE  /\ (failing[r] = AsItIs(r, ran[r]))'
                        /\ result'[r] = "success" => \A j \in Jobs : Sound(r, j)'
      BY DEF TrueHistory
    <2>1. Deterministic
      BY <1>1 DEF Deterministic
    <2>2. CASE r \in 1..head
      <3>1. failing[r] = AsItIs(r, ran[r]) /\ (result[r] = "success" => \A j \in Jobs : Sound(r, j))
        BY <2>1, <2>2 DEF WorldInv, TrueHistory
      <3>2. build'[r] = build[r] /\ broken'[r] = broken[r] /\ result'[r] = result[r]
        BY <1>3, <1>5, <1>6, <2>2
      <3>3. (failing[r] = AsItIs(r, ran[r]))'
        BY <1>4, <3>1, <3>2, RowsStayTrue
      <3> QED
        BY <3>1, <3>2, <3>3, SameTruth
    <2>3. CASE r = head + 1
      <3>1. failing[r] = {} /\ ran[r] = {}
        BY <1>2, <2>3 DEF WorldInv, FutureIsEmpty
      <3>2. (failing[r] = AsItIs(r, ran[r]))'
        BY <1>4, <3>1 DEF AsItIs
      <3> QED
        BY <1>6, <2>3, <3>2
    <2> QED
      BY <1>2, <2>2, <2>3
  <1>11. OddHistory'
    <2>1. AllSound' => AllSound
      BY <1>9, WasSound DEF Grown
    <2> QED
      BY <1>1, <1>4, <2>1 DEF WorldInv, OddHistory
  <1> QED
    BY <1>7, <1>8, <1>9, <1>10, <1>11 DEF WorldInv

\* A running run has a commit.
LEMMA RunHasItsCommit ==
    ASSUME WorldInv, NEW r \in Commits, result[r] # "absent"
    PROVE  r \in 1..head
  <1>1. head \in Nat /\ r \in Nat /\ r >= 1
    BY BoundsAreNaturals DEF WorldInv, TrunkType, Commits
  <1>2. ~(r > head)
    BY DEF WorldInv, FutureIsEmpty
  <1> QED
    BY <1>1, <1>2

\* A run that succeeds while nothing flakes shows that every job is sound, the
\* skipped ones because a verified commit has them as they are.
LEMMA SuccessIsSound ==
    ASSUME WorldInv, Deterministic, NEW r \in 1..head, NEW some \in SUBSET Jobs,
           AsItIs(r, some) = {}, \A j \in Jobs \ some : MaySkip(r, j)
    PROVE  \A j \in Jobs : Sound(r, j)
  <1> SUFFICES ASSUME NEW j \in Jobs PROVE Sound(r, j)
    OBVIOUS
  <1>1. r \in Commits /\ head \in Nat
    BY BoundsAreNaturals DEF WorldInv, TrunkType, Commits
  <1>2. CASE j \in some
    <2>1. Shown(r, j) = {}
      BY <1>2 DEF AsItIs
    <2> QED
      BY <2>1, SoundShowsNothing
  <1>3. CASE j \notin some
    <2>1. PICK b \in Commits : b < r /\ Verified(b) /\ build[b][j] = build[r][j] /\ broken[b][j] = broken[r][j]
      BY <1>3 DEF MaySkip
    <2>2. b \in 1..head
      BY <2>1, RunHasItsCommit DEF Verified
    <2>3. Sound(b, j)
      BY <2>1, <2>2 DEF WorldInv, TrueHistory, Verified
    <2> QED
      BY <2>1, <2>3 DEF Sound
  <1> QED
    BY <1>2, <1>3

\* A run ends.
LEMMA FinishKeeps ==
    ASSUME WorldInv, NEW r \in Commits, Finish(r)
    PROVE  WorldInv' /\ Grown
  <1>1. PICK some \in SUBSET Jobs : \E rows \in Evidence(r, some) :
          /\ rows = {} => \A j \in Jobs \ some : MaySkip(r, j)
          /\ Observe(r, some, rows)
          /\ ran' = [ran EXCEPT ![r] = some]
          /\ failing' = [failing EXCEPT ![r] = rows]
          /\ result' = [result EXCEPT ![r] = IF rows = {} THEN "success" ELSE "failure"]
    BY DEF Finish
  <1>2. PICK rows \in Evidence(r, some) :
          /\ rows = {} => \A j \in Jobs \ some : MaySkip(r, j)
          /\ Observe(r, some, rows)
          /\ ran' = [ran EXCEPT ![r] = some]
          /\ failing' = [failing EXCEPT ![r] = rows]
          /\ result' = [result EXCEPT ![r] = IF rows = {} THEN "success" ELSE "failure"]
    BY <1>1
  <1>3. /\ result[r] = "running" /\ UNCHANGED <<head, build, broken>> /\ UNCHANGED <<reruns, faults>>
    BY DEF Finish, trunk
  <1>4. r \in 1..head /\ head \in Nat
    BY <1>3, RunHasItsCommit, BoundsAreNaturals DEF WorldInv, TrunkType, Commits
  <1>5. TrunkType /\ HistoryType /\ CountType
    BY DEF WorldInv
  <1>6. rows \subseteq Unit
    BY <1>5, EvidenceIsTyped
  <1>7. /\ OddCounts
        /\ flakes' \in 0..MaxFlakes /\ outages' \in 0..MaxOutages
        /\ flakes <= flakes' /\ outages <= outages'
        /\ rows = AsItIs(r, some) \/ flakes' + outages' >= flakes + outages + 1
        /\ Deterministic' => Deterministic /\ rows = AsItIs(r, some)
    BY <1>2, <1>5, Observed
  <1>8. /\ ran' \in [Commits -> SUBSET Jobs] /\ ran'[r] = some
        /\ failing' \in [Commits -> SUBSET Unit] /\ failing'[r] = rows
        /\ result' \in [Commits -> Results]
        /\ result'[r] = IF rows = {} THEN "success" ELSE "failure"
        /\ \A s \in Commits : s # r => ran'[s] = ran[s] /\ failing'[s] = failing[s] /\ result'[s] = result[s]
    BY <1>2, <1>5, <1>6 DEF HistoryType, Results
  <1>9. TrunkType' /\ HistoryType' /\ CountType'
    BY <1>3, <1>5, <1>7, <1>8 DEF TrunkType, HistoryType, CountType
  <1>10. FutureIsEmpty'
    BY <1>3, <1>4, <1>8 DEF WorldInv, FutureIsEmpty
  <1>11. AllSound' => AllSound
    BY <1>3, <1>4, WasSound
  <1>12. AllSound => AsItIs(r, some) = {}
    BY <1>4, SoundRunIsClean
  <1>13. Grown
    <2>1. AllSound' => \A s \in Commits : failing'[s] # {} /\ failing[s] = {}
                                           => flakes' + outages' >= flakes + outages + 1
      BY <1>7, <1>8, <1>11, <1>12
    <2>2. \A s \in Commits : Completed(s) /\ Completed(s)' => ran'[s] = ran[s] /\ failing'[s] = failing[s]
      BY <1>3, <1>8 DEF Completed
    <2>3. faults \in Nat /\ faults <= faults'
      BY <1>3, <1>5, CountersAreNaturals
    <2> QED
      BY <1>3, <1>4, <1>7, <2>1, <2>2, <2>3 DEF Grown
  <1>14. TrueHistory'
    <2> SUFFICES ASSUME Deterministic', NEW s \in 1..head
                 PROVE  /\ (failing[s] = AsItIs(s, ran[s]))'
                        /\ result'[s] = "success" => \A j \in Jobs : Sound(s, j)'
      BY <1>3 DEF TrueHistory
    <2>1. s \in Commits
      BY BoundsAreNaturals, <1>4 DEF WorldInv, TrunkType, Commits
    <2>2. Deterministic /\ rows = AsItIs(r, some)
      BY <1>7
    <2>3. failing[s] = AsItIs(s, ran[s]) /\ (result[s] = "success" => \A j \in Jobs : Sound(s, j))
      BY <2>2 DEF WorldInv, TrueHistory
    <2>4. failing'[s] = AsItIs(s, ran'[s])
      BY <1>8, <2>1, <2>2, <2>3
    <2>5. result'[s] = "success" => \A j \in Jobs : Sound(s, j)
      <3>1. CASE s = r
        BY <1>2, <1>4, <1>8, <2>2, <3>1, SuccessIsSound
      <3>2. CASE s # r
        BY <1>8, <2>1, <2>3, <3>2
      <3> QED
        BY <3>1, <3>2
    <2>6. (failing[s] = AsItIs(s, ran[s]))'
      BY <1>3, <2>4, RowsStayTrue
    <2> QED
      BY <1>3, <2>5, <2>6, SameTruth
  <1>15. OddHistory'
    <2> SUFFICES ASSUME AllSound', NEW s \in Commits, failing'[s] # {}
                 PROVE  /\ flakes' + outages' >= 1
                        /\ \A t \in Commits : t # s /\ failing'[t] # {} => flakes' + outages' >= 2
      BY DEF OddHistory
    <2>1. \A q \in Commits : failing[q] # {} =>
            /\ flakes + outages >= 1
            /\ \A t \in Commits : t # q /\ failing[t] # {} => flakes + outages >= 2
      BY <1>11 DEF WorldInv, OddHistory
    <2>2. rows # {} => flakes' + outages' >= flakes + outages + 1
      BY <1>7, <1>11, <1>12
    <2>3. CASE rows = {}
      BY <1>7, <1>8, <2>1, <2>3, OddGrows
    <2>4. CASE rows # {}
      <3>1. flakes' + outages' >= 1 /\ (flakes + outages >= 1 => flakes' + outages' >= 2)
        BY <1>7, <2>2, <2>4, OddSteps
      <3>2. \A t \in Commits : t # s => t # r \/ s # r
        OBVIOUS
      <3>3. \A t \in Commits : t # r /\ failing'[t] # {} => flakes' + outages' >= 2
        BY <1>8, <2>1, <3>1
      <3> QED
        BY <3>1, <3>2, <3>3
    <2> QED
      BY <2>3, <2>4
  <1> QED
    BY <1>9, <1>10, <1>13, <1>14, <1>15 DEF WorldInv

\* A run is superseded or run again.
LEMMA ResultKeeps ==
    ASSUME WorldInv, NEW r \in Commits, Supersede(r) \/ Rerun(r)
    PROVE  WorldInv' /\ Grown
  <1>1. PICK v \in {"cancelled", "running"} : result' = [result EXCEPT ![r] = v]
    BY DEF Supersede, Rerun
  <1>2. /\ UNCHANGED <<head, build, broken>> /\ UNCHANGED <<ran, failing, flakes, outages, faults>>
        /\ result[r] # "absent"
    BY DEF Supersede, Rerun, trunk, Completed
  <1>3. r \in 1..head /\ head \in Nat
    BY <1>2, RunHasItsCommit, BoundsAreNaturals DEF WorldInv, TrunkType, Commits
  <1>4. TrunkType /\ HistoryType /\ CountType
    BY DEF WorldInv
  <1>5. flakes \in Nat /\ outages \in Nat /\ faults \in Nat
    BY <1>4, CountersAreNaturals
  <1>6. /\ result' \in [Commits -> Results] /\ result'[r] = v
        /\ \A s \in Commits : s # r => result'[s] = result[s]
    BY <1>1, <1>4 DEF HistoryType, Results
  <1>7. reruns' \in 0..MaxReruns
    <2>1. CASE Supersede(r)
      BY <1>4, <2>1 DEF Supersede, CountType
    <2>2. CASE Rerun(r)
      BY <1>4, <2>2, BoundsAreNaturals DEF Rerun, CountType
    <2> QED
      BY <2>1, <2>2
  <1>8. TrunkType' /\ HistoryType' /\ CountType'
    BY <1>2, <1>4, <1>6, <1>7 DEF TrunkType, HistoryType, CountType
  <1>9. FutureIsEmpty'
    BY <1>2, <1>3, <1>6 DEF WorldInv, FutureIsEmpty
  <1>10. Grown
    BY <1>2, <1>3, <1>5 DEF Grown, OddCounts
  <1>11. TrueHistory'
    <2> SUFFICES ASSUME Deterministic', NEW s \in 1..head
                 PROVE  /\ (failing[s] = AsItIs(s, ran[s]))'
                        /\ result'[s] = "success" => \A j \in Jobs : Sound(s, j)'
      BY <1>2 DEF TrueHistory
    <2>1. s \in Commits
      BY BoundsAreNaturals, <1>3 DEF WorldInv, TrunkType, Commits
    <2>2. Deterministic
      BY <1>2 DEF Deterministic
    <2>3. failing[s] = AsItIs(s, ran[s]) /\ (result[s] = "success" => \A j \in Jobs : Sound(s, j))
      BY <2>2 DEF WorldInv, TrueHistory
    <2>4. (failing[s] = AsItIs(s, ran[s]))'
      BY <1>2, <2>3, RowsStayTrue
    <2>5. result'[s] = "success" => result[s] = "success"
      BY <1>6, <2>1
    <2> QED
      BY <1>2, <2>3, <2>4, <2>5, SameTruth
  <1>12. OddHistory'
    <2>1. AllSound' => AllSound
      BY <1>2, <1>3, WasSound
    <2> QED
      BY <1>2, <2>1 DEF WorldInv, OddHistory
  <1> QED
    BY <1>8, <1>9, <1>10, <1>11, <1>12 DEF WorldInv

-----------------------------------------------------------------------------
(* What the steps of the call share.                                       *)

\* The trunk and the runs are left alone.
Still == UNCHANGED <<head, build, broken, result, ran, failing>>

\* Nothing that is true of the trunk and the runs changes then.
LEMMA StillTheSame ==
    ASSUME Still
    PROVE  /\ AllSound' <=> AllSound
           /\ \A u, c : Fails(u, c)' <=> Fails(u, c)
           /\ \A c, j : Sound(c, j)' <=> Sound(c, j)
           /\ \A c, some : AsItIs(c, some)' = AsItIs(c, some)
           /\ \A r : Completed(r)' <=> Completed(r)
           /\ \A u, r : Clears(u, r)' <=> Clears(u, r)
  <1>1. \A c : build'[c] = build[c] /\ broken'[c] = broken[c]
    BY DEF Still
  <1>2. \A c, j : Sound(c, j)' <=> Sound(c, j)
    BY <1>1 DEF Sound
  <1>3. AllSound' <=> AllSound
    BY <1>2 DEF AllSound, Still
  <1>4. \A u, c : Fails(u, c)' <=> Fails(u, c)
    BY <1>1, SameTruth
  <1>5. \A c, some : AsItIs(c, some)' = AsItIs(c, some)
    BY <1>1, SameTruth
  <1>6. \A r : Completed(r)' <=> Completed(r)
    BY DEF Completed, Still
  <1>7. \A u, r : Clears(u, r)' <=> Clears(u, r)
    BY <1>6 DEF Clears, Still
  <1> QED
    BY <1>2, <1>3, <1>4, <1>5, <1>6, <1>7

\* Such a step counts nothing, or one fault.
LEMMA WorldIsKept ==
    ASSUME WorldInv, Still, UNCHANGED Bounds \/ Fault
    PROVE  WorldInv' /\ Grown
  <1>1. /\ flakes \in Nat /\ outages \in Nat /\ faults \in Nat /\ CountType
    BY CountersAreNaturals DEF WorldInv
  <1>2. CountType' /\ flakes <= flakes' /\ outages <= outages' /\ faults <= faults'
    BY <1>1, BoundsAreNaturals DEF Bounds, Fault, CountType
  <1> QED
    BY <1>2, WorldStays DEF Still

\* The way to the traced jobs is as open as it was.
LEMMA StillInTheOpen ==
    ASSUME Still, UNCHANGED <<targets, base, red>>
    PROVE  InTheOpen' <=> InTheOpen
  <1>1. \A c, j : Sound(c, j)' <=> Sound(c, j)
    BY StillTheSame
  <1> QED
    BY <1>1 DEF InTheOpen, Candidate

\* What has to be shown of a step of the call.
CallInv ==
    /\ CallShape /\ TrueCall /\ OddCall /\ StandingIsListed
    /\ NarrowestWindow /\ WindowHoldsTheBreak
    /\ CulpritIntroducedIt

\* A step that names nothing and does not walk.
LEMMA NothingIsSaid ==
    ASSUME Remember, pc' \notin {"walk", "candidates"}, verdict' \notin {"window", "culprit"}
    PROVE  /\ StandingIsListed' /\ NarrowestWindow' /\ WindowHoldsTheBreak' /\ CulpritIntroducedIt'
  <1>1. standing' = {}
    BY DEF Remember
  <1> QED
    BY <1>1 DEF StandingIsListed, NarrowestWindow, WindowHoldsTheBreak, CulpritIntroducedIt

\* A step that finds nothing new of the units: what was true of them still is.
LEMMA FindingsStand ==
    ASSUME WorldInv, TrueCall, OddCall, Still, Grown,
           UNCHANGED <<red, units, confirmed, targets, base, found, foundUnits>>,
           pc' \in {"list", "walk"} => pc \in {"list", "walk"}, pc' \in Aimed => pc \in Aimed
    PROVE  TrueCall' /\ OddCall'
  <1>1. Deterministic' => Deterministic
    BY WasDeterministic DEF Grown
  <1>2. TrueCall'
    <2> SUFFICES ASSUME Deterministic'
                 PROVE  /\ \A u \in units : Fails(u, red)'
                        /\ pc' \in {"list", "walk"} => \A j \in Jobs : Sound(base, j)'
                        /\ pc' \in Aimed => \A u \in targets : ~Fails(u, base)'
                        /\ InTheOpen' => \A c \in Commits : TrueFinding(c)'
      BY DEF TrueCall
    <2>1. /\ \A u \in units : Fails(u, red)
          /\ pc \in {"list", "walk"} => \A j \in Jobs : Sound(base, j)
          /\ pc \in Aimed => \A u \in targets : ~Fails(u, base)
          /\ InTheOpen => \A c \in Commits : TrueFinding(c)
      BY <1>1 DEF TrueCall
    <2>2. \A u : Fails(u, red)' <=> Fails(u, red)
      BY SameTruth DEF Still
    <2>3. /\ \A u : Fails(u, base)' <=> Fails(u, base)
          /\ \A j : Sound(base, j)' <=> Sound(base, j)
          /\ InTheOpen' => InTheOpen
      BY SameTruth, StillInTheOpen DEF Still
    <2>4. \A c \in Commits : TrueFinding(c) => TrueFinding(c)'
      <3> SUFFICES ASSUME NEW c \in Commits, TrueFinding(c) PROVE TrueFinding(c)'
        OBVIOUS
      <3>1. /\ \A u : Fails(u, c)' <=> Fails(u, c)
            /\ \A some : AsItIs(c, some)' = AsItIs(c, some)
            /\ \A j : Sound(c, j)' <=> Sound(c, j)
        BY StillTheSame
      <3> QED
        BY <3>1 DEF TrueFinding
    <2> QED
      BY <2>1, <2>2, <2>3, <2>4
  <1>3. OddCall'
    <2>1. AllSound' <=> AllSound
      BY StillTheSame
    <2>2. /\ flakes + outages >= 1 => flakes' + outages' >= 1
          /\ flakes + outages >= 2 => flakes' + outages' >= 2
          /\ flakes + outages >= 3 => flakes' + outages' >= 3
      BY OddGrows DEF Grown
    <2>3. UNCHANGED failing
      BY DEF Still
    <2> QED
      BY <2>1, <2>2, <2>3 DEF OddCall
  <1> QED
    BY <1>2, <1>3

\* The call ends and names nothing, whatever it counted of failed reads.
LEMMA EndCounts ==
    ASSUME WorldInv, CallInv, Still, Grown, Remember, pc \notin {"idle", "done"}, pc' = "done",
           verdict' \in Verdicts \ {"window", "culprit"}, unread' \in [Commits -> 0..ReadTries],
           UNCHANGED <<culprit, mode, laneInput, red, units, prev, confirmed, walk, targets, lanes, base,
                       next, waiting, found, foundUnits>>
    PROVE  CallInv'
  <1>1. TrueCall' /\ OddCall'
    BY FindingsStand DEF CallInv, Aimed
  <1>2. StandingIsListed' /\ NarrowestWindow' /\ WindowHoldsTheBreak' /\ CulpritIntroducedIt'
    BY NothingIsSaid
  <1>3. UNCHANGED head
    BY DEF Still
  <1>4. CallShape'
    BY <1>3 DEF CallInv, CallShape, OriginType, WindowType, ProbeType, Candidate, Steps, Verdicts,
                JobsOf, Aimed, Based, Tracing, Probing
  <1> QED
    BY <1>1, <1>2, <1>4 DEF CallInv

\* The call ends and names nothing.
LEMMA EndKeeps ==
    ASSUME WorldInv, CallInv, Still, Grown, Remember, pc \notin {"idle", "done"}, pc' = "done",
           verdict' \in Verdicts \ {"window", "culprit"},
           UNCHANGED <<culprit, mode, laneInput, red, units, prev, confirmed, walk, targets, lanes, base,
                       next, waiting, unread, found, foundUnits>>
    PROVE  CallInv'
  <1>1. unread' \in [Commits -> 0..ReadTries]
    BY DEF CallInv, CallShape, ProbeType
  <1> QED
    BY <1>1, EndCounts

\* Numbers up to one of the trunk's are commits.
LEMMA UpTo ==
    ASSUME NEW m \in Nat, NEW h \in 1..m, NEW r \in 1..h
    PROVE  r \in 1..m /\ r \in 0..m /\ \A b \in 1..r - 1 : b \in 1..m /\ b \in 0..m /\ b \in 1..h
  OBVIOUS

\* The run handled has a commit, and so has every run before it.
LEMMA RedIsACommit ==
    ASSUME WorldInv, CallShape, pc # "idle"
    PROVE  /\ head \in Nat /\ head \in Commits /\ red \in 1..head /\ red \in Commits
           /\ \A b \in 1..red - 1 : b \in Commits /\ b \in 0..MaxCommit /\ b \in 1..head
  <1>1. red \in 1..head
    BY DEF CallShape
  <1>2. head \in 1..MaxCommit /\ MaxCommit \in Nat
    BY BoundsAreNaturals DEF WorldInv, TrunkType, Commits
  <1>3. head \in Nat
    BY <1>2
  <1> QED
    BY <1>1, <1>2, <1>3, UpTo DEF Commits

\* The end of a step, unfolded.
LEMMA EndIs ==
    ASSUME NEW v, End(v), v \in {"stopped", "infra", "not confirmed", "no action", "passed"}
    PROVE  pc' = "done" /\ verdict' = v /\ verdict' \in Verdicts \ {"window", "culprit"} /\ UNCHANGED culprit
  BY DEF End, Verdicts

\* The call takes a red run.
LEMMA TakeKeeps ==
    ASSUME WorldInv, CallInv, Remember, NEW r \in Commits, Take(r)
    PROVE  WorldInv' /\ CallInv'
  <1>1. /\ Still /\ UNCHANGED Bounds
        /\ pc = "idle" /\ pc' = "units" /\ red' = r /\ UNCHANGED <<verdict, culprit>>
        /\ UNCHANGED <<mode, laneInput, units, prev, confirmed, walk, targets, lanes, base,
                       next, waiting, unread, found, foundUnits>>
    BY DEF Take, Still, World, trunk, history, inputs, window, probes, GoTo, outcome
  <1>2. WorldInv' /\ Grown
    BY <1>1, WorldIsKept
  <1>3. r \in 1..head /\ UNCHANGED head
    BY <1>1, RunHasItsCommit DEF Take, Still
  <1>4. CallShape /\ TrueCall
    BY DEF CallInv
  <1>5. units = {} /\ confirmed = {} /\ targets = {} /\ verdict = "none"
    BY <1>1, <1>4 DEF CallShape, Aimed
  <1>6. \A c \in Commits : found[c] = "none"
    BY <1>1, <1>4 DEF CallShape, Probing
  <1>7. StandingIsListed' /\ NarrowestWindow' /\ WindowHoldsTheBreak' /\ CulpritIntroducedIt'
    BY <1>1, <1>5, NothingIsSaid
  <1>8. head \in Nat /\ head \in Commits
    BY BoundsAreNaturals DEF WorldInv, TrunkType, Commits
  <1>9. walk = {} /\ waiting = {}
    BY <1>1, <1>4 DEF CallShape, Probing
  <1>10. CallShape'
    BY <1>1, <1>3, <1>4, <1>5, <1>8, <1>9 DEF CallShape, OriginType, WindowType, ProbeType, Candidate, Steps, Commits,
                Aimed, Based, Tracing, Probing
  <1>11. TrueCall' /\ OddCall'
    BY <1>1, <1>5, <1>6 DEF TrueCall, OddCall, TrueFinding, Aimed
  <1> QED
    BY <1>2, <1>7, <1>10, <1>11 DEF CallInv

\* Either way out of a read that may fail, the call has the rows or goes on without them.
LEMMA ReadUnitsKeeps ==
    ASSUME WorldInv, CallInv, Remember, ReadUnits
    PROVE  WorldInv' /\ CallInv'
  <1>1. /\ Still /\ pc = "units" /\ pc' \in {"classify", "classify unread"} /\ UNCHANGED <<verdict, culprit>>
        /\ UNCHANGED <<mode, laneInput, red, prev, confirmed, walk, targets, lanes, base,
                       next, waiting, unread, found, foundUnits>>
    BY DEF ReadUnits, Still, World, trunk, history, inputs, window, probes, GoTo, outcome
  <1>2. UNCHANGED Bounds \/ Fault
    BY DEF ReadUnits, Reported, Bounds
  <1>3. WorldInv' /\ Grown
    BY <1>1, <1>2, WorldIsKept
  <1>4. CallShape /\ TrueCall /\ OddCall
    BY DEF CallInv
  <1>5. red \in 1..head /\ red \in Commits /\ head \in Nat /\ head \in Commits /\ UNCHANGED head
    BY <1>1, <1>4, RedIsACommit DEF Still
  <1>6. confirmed = {} /\ targets = {} /\ verdict = "none"
    BY <1>1, <1>4 DEF CallShape, Aimed
  <1>7. failing[red] \in SUBSET Unit
    BY <1>5 DEF WorldInv, HistoryType
  <1>8. units' = units \/ Reported(failing[red], units')
    BY DEF ReadUnits
  <1>9. \/ units' = units
        \/ /\ units' \subseteq Unit
           /\ units' # {} => failing[red] # {}
           /\ units' = failing[red] \/ \E lost \in SUBSET Jobs : units' = Unreported(failing[red], lost)
    BY <1>7, <1>8, ReportedRows
  <1>10. StandingIsListed' /\ NarrowestWindow' /\ WindowHoldsTheBreak' /\ CulpritIntroducedIt'
    BY <1>1, <1>6, NothingIsSaid
  <1>11. CallShape'
    BY <1>1, <1>4, <1>5, <1>6, <1>9 DEF CallShape, OriginType, WindowType, ProbeType, Candidate, Steps,
                Aimed, Based, Tracing, Probing
  <1>12. \A c \in Commits : found[c] = "none" /\ foundUnits[c] = {}
    BY <1>1, <1>4 DEF CallShape, Probing
  <1>13. TrueCall'
    <2> SUFFICES ASSUME Deterministic' PROVE \A u \in units' : Fails(u, red)'
      BY <1>1, <1>6, <1>12 DEF TrueCall, TrueFinding, Aimed
    <2>1. Deterministic
      BY <1>3, WasDeterministic DEF Grown
    <2>2. failing[red] = AsItIs(red, ran[red]) /\ ran[red] \in SUBSET Jobs /\ TrunkType
      BY <1>5, <2>1 DEF WorldInv, TrueHistory, HistoryType
    <2>3. \A u \in units : Fails(u, red)
      BY <1>4, <2>1 DEF TrueCall
    <2>4. \A u \in failing[red] : Fails(u, red)
      BY <1>5, <2>2, AsItIsShows, ShownFails
    <2>5. \A lost \in SUBSET Jobs : \A u \in Unreported(failing[red], lost) : Fails(u, red)
      BY <1>5, <2>2, UnreportedFails
    <2>6. \A u \in units' : Fails(u, red)
      BY <1>9, <2>3, <2>4, <2>5
    <2> QED
      BY <1>1, <2>6, StillTheSame
  <1>14. OddCall'
    <2> SUFFICES ASSUME AllSound', units' # {}
                 PROVE  /\ flakes' + outages' >= 1
                        /\ \A s \in Commits : s # red /\ failing[s] # {} => flakes' + outages' >= 2
      BY <1>1, <1>6 DEF OddCall, Still
    <2>1. AllSound
      BY <1>1, StillTheSame
    <2>2. /\ flakes + outages >= 1
          /\ \A s \in Commits : s # red /\ failing[s] # {} => flakes + outages >= 2
      <3>1. CASE units' = units
        BY <1>4, <2>1, <3>1 DEF OddCall
      <3>2. CASE units' # units
        <4>1. failing[red] # {}
          BY <1>9, <3>2
        <4> QED
          BY <1>5, <2>1, <4>1 DEF WorldInv, OddHistory
      <3> QED
        BY <3>1, <3>2
    <2> QED
      BY <1>3, <2>2, OddGrows DEF Grown
  <1> QED
    BY <1>3, <1>10, <1>11, <1>13, <1>14 DEF CallInv

\* The classification goes on to the run before, or ends the call.
LEMMA ClassifyKeeps ==
    ASSUME WorldInv, CallInv, Remember, Classify
    PROVE  WorldInv' /\ CallInv'
  <1>1. /\ Still /\ UNCHANGED Bounds /\ pc \in {"classify", "classify unread"}
        /\ UNCHANGED <<mode, laneInput, red, units, prev, confirmed, walk, targets, lanes, base,
                       next, waiting, unread, found, foundUnits>>
    BY DEF Classify, Still, World, trunk, history, inputs, origin, window, probes
  <1>2. WorldInv' /\ Grown
    BY <1>1, WorldIsKept
  <1>3. CASE End("stopped") \/ End("infra")
    BY <1>1, <1>2, <1>3, EndIs, EndKeeps
  <1>4. CASE GoTo("find previous")
    <2>1. pc' = "find previous" /\ UNCHANGED <<verdict, culprit>>
      BY <1>4 DEF GoTo, outcome
    <2>2. TrueCall' /\ OddCall'
      BY <1>1, <1>2, <2>1, FindingsStand DEF CallInv, Aimed
    <2>3. CallShape /\ UNCHANGED head /\ verdict' = "none"
      BY <1>1, <2>1 DEF CallInv, CallShape, Still
    <2>4. StandingIsListed' /\ NarrowestWindow' /\ WindowHoldsTheBreak' /\ CulpritIntroducedIt'
      BY <2>1, <2>3, NothingIsSaid
    <2>5. CallShape'
      BY <1>1, <2>1, <2>3 DEF CallShape, OriginType, WindowType, ProbeType, Candidate, Steps,
                JobsOf, Aimed, Based, Tracing, Probing
    <2> QED
      BY <1>2, <2>2, <2>4, <2>5 DEF CallInv
  <1> QED
    BY <1>3, <1>4 DEF Classify

\* The run before is found, or there is none and the failure is not confirmed.
LEMMA FindPreviousKeeps ==
    ASSUME WorldInv, CallInv, Remember, FindPrevious
    PROVE  WorldInv' /\ CallInv'
  <1>1. /\ Still /\ UNCHANGED Bounds /\ pc = "find previous"
        /\ UNCHANGED <<mode, laneInput, red, units, confirmed, walk, targets, lanes, base,
                       next, waiting, unread, found, foundUnits>>
    BY DEF FindPrevious, Still, World, trunk, history, inputs, window, probes
  <1>2. WorldInv' /\ Grown
    BY <1>1, WorldIsKept
  <1>3. CASE End("not confirmed") /\ UNCHANGED prev
    BY <1>1, <1>2, <1>3, EndIs, EndKeeps
  <1>4. CASE (\E r \in Earlier : Newest(r, Earlier) /\ prev' = r) /\ GoTo("read previous")
    <2>1. pc' = "read previous" /\ UNCHANGED <<verdict, culprit>>
      BY <1>4 DEF GoTo, outcome
    <2>2. TrueCall' /\ OddCall'
      BY <1>1, <1>2, <2>1, FindingsStand DEF CallInv, Aimed
    <2>3. CallShape /\ UNCHANGED head /\ verdict' = "none"
      BY <1>1, <2>1 DEF CallInv, CallShape, Still
    <2>4. StandingIsListed' /\ NarrowestWindow' /\ WindowHoldsTheBreak' /\ CulpritIntroducedIt'
      BY <2>1, <2>3, NothingIsSaid
    <2>5. prev' \in 1..red - 1 /\ prev' \in 0..MaxCommit
      <3>1. prev' \in 1..red - 1
        BY <1>4 DEF Earlier
      <3> QED
        BY <1>1, <2>3, <3>1, RedIsACommit
    <2>6. CallShape'
      BY <1>1, <2>1, <2>3, <2>5 DEF CallShape, OriginType, WindowType, ProbeType, Candidate, Steps,
                JobsOf, Aimed, Based, Tracing, Probing
    <2> QED
      BY <1>2, <2>2, <2>4, <2>6 DEF CallInv
  <1> QED
    BY <1>3, <1>4 DEF FindPrevious

\* The rows of the run before confirm some units, or end the call.
LEMMA ReadPreviousKeeps ==
    ASSUME WorldInv, CallInv, Remember, ReadPrevious
    PROVE  WorldInv' /\ CallInv'
  <1>1. /\ Still /\ pc = "read previous"
        /\ UNCHANGED <<mode, laneInput, red, units, prev, walk, targets, lanes, base,
                       next, waiting, unread, found, foundUnits>>
    BY DEF ReadPrevious, Still, World, trunk, history, inputs, window, probes
  <1>2. CallShape /\ TrueCall /\ OddCall
    BY DEF CallInv
  <1>3. CASE UNCHANGED <<confirmed, Bounds>> /\ End("stopped")
    <2>1. WorldInv' /\ Grown
      BY <1>1, <1>3, WorldIsKept
    <2> QED
      BY <1>1, <1>3, <2>1, EndIs, EndKeeps
  <1>4. CASE Completed(prev)
    <2>1. PICK lost \in SUBSET Jobs : LET rows == Unreported(failing[prev], lost) IN
              /\ Reported(failing[prev], rows)
              /\ IF result[prev] = "success" \/ SameUnits(rows) = {}
                 THEN UNCHANGED confirmed /\ End("not confirmed")
                 ELSE confirmed' = SameUnits(rows) /\ GoTo("find base")
      BY <1>4 DEF ReadPrevious
    <2>2. PICK rows : rows = Unreported(failing[prev], lost)
      OBVIOUS
    <2>3. /\ Reported(failing[prev], rows)
          /\ \/ UNCHANGED confirmed /\ End("not confirmed")
             \/ SameUnits(rows) # {} /\ confirmed' = SameUnits(rows) /\ GoTo("find base")
      BY <2>1, <2>2
    <2>4. UNCHANGED Bounds \/ Fault
      BY <2>3 DEF Reported
    <2>5. WorldInv' /\ Grown
      BY <1>1, <2>4, WorldIsKept
    <2>6. CASE UNCHANGED confirmed /\ End("not confirmed")
      BY <1>1, <2>5, <2>6, EndIs, EndKeeps
    <2>7. CASE SameUnits(rows) # {} /\ confirmed' = SameUnits(rows) /\ GoTo("find base")
      <3>1. pc' = "find base" /\ UNCHANGED <<verdict, culprit>> /\ UNCHANGED head /\ verdict' = "none"
        BY <1>1, <1>2, <2>7 DEF GoTo, outcome, CallShape, Still
      <3>2. targets = {} /\ \A c \in Commits : found[c] = "none" /\ foundUnits[c] = {}
        BY <1>1, <1>2 DEF CallShape, Aimed, Probing
      <3>3. StandingIsListed' /\ NarrowestWindow' /\ WindowHoldsTheBreak' /\ CulpritIntroducedIt'
        BY <3>1, NothingIsSaid
      <3>4. confirmed' \subseteq units /\ confirmed' # {} /\ confirmed' \subseteq rows
        BY <2>7 DEF SameUnits
      <3>5. CallShape'
        BY <1>1, <1>2, <3>1, <3>2, <3>4 DEF CallShape, OriginType, WindowType, ProbeType, Candidate, Steps,
                  JobsOf, Aimed, Based, Tracing, Probing
      <3>6. TrueCall'
        <4> SUFFICES ASSUME Deterministic' PROVE \A u \in units : Fails(u, red)'
          BY <1>1, <3>1, <3>2 DEF TrueCall, TrueFinding, Aimed
        <4>1. Deterministic
          BY <2>5, WasDeterministic DEF Grown
        <4> QED
          BY <1>1, <1>2, <4>1, StillTheSame DEF TrueCall
      <3>7. OddCall'
        <4>1. prev \in 1..red - 1 /\ prev \in Commits /\ red \in Commits /\ prev # red
          <5>1. prev \in 1..red - 1
            BY <1>1, <1>2 DEF CallShape
          <5>2. prev \in Commits /\ red \in Commits
            BY <1>1, <1>2, <5>1, RedIsACommit
          <5> QED
            BY <5>1, <5>2, BoundsAreNaturals DEF Commits
        <4>2. failing[prev] # {}
          <5>1. failing[prev] \in SUBSET Unit
            BY <4>1 DEF WorldInv, HistoryType
          <5> QED
            BY <2>3, <3>4, <5>1, ReportedRows
        <4> SUFFICES ASSUME AllSound'
                     PROVE  /\ flakes' + outages' >= 2
                            /\ flakes' + outages' >= 1
                            /\ \A s \in Commits : s # red /\ failing[s] # {} => flakes' + outages' >= 2
          BY <1>1, <3>2 DEF OddCall, Still
        <4>3. AllSound /\ units # {}
          BY <1>1, <3>4, StillTheSame
        <4>4. flakes + outages >= 1 /\ flakes + outages >= 2
          BY <1>2, <4>1, <4>2, <4>3 DEF OddCall
        <4> QED
          BY <2>5, <4>4, OddGrows DEF Grown
      <3> QED
        BY <2>5, <3>3, <3>5, <3>6, <3>7 DEF CallInv
    <2> QED
      BY <2>3, <2>6, <2>7
  <1> QED
    BY <1>3, <1>4 DEF ReadPrevious

\* The newest verified ancestor is sound.
LEMMA FindBaseKeeps ==
    ASSUME WorldInv, CallInv, Remember, FindBase
    PROVE  WorldInv' /\ CallInv'
  <1>1. /\ Still /\ UNCHANGED Bounds /\ pc = "find base"
        /\ UNCHANGED <<mode, laneInput, red, units, prev, confirmed, walk, targets, lanes,
                       next, waiting, unread, found, foundUnits>>
    BY DEF FindBase, Still, World, trunk, history, inputs, origin, probes
  <1>2. WorldInv' /\ Grown
    BY <1>1, WorldIsKept
  <1>3. CASE End("stopped") /\ UNCHANGED base
    BY <1>1, <1>2, <1>3, EndIs, EndKeeps
  <1>4. CASE (\E b \in 1..red - 1 : Verified(b) /\ base' = b) /\ GoTo("list")
    <2>1. pc' = "list" /\ UNCHANGED <<verdict, culprit>>
      BY <1>4 DEF GoTo, outcome
    <2>2. CallShape /\ TrueCall /\ OddCall /\ UNCHANGED head /\ verdict' = "none"
      BY <1>1, <2>1 DEF CallInv, CallShape, Still
    <2>3. targets = {} /\ \A c \in Commits : found[c] = "none" /\ foundUnits[c] = {}
      BY <1>1, <2>2 DEF CallShape, Aimed, Probing
    <2>4. StandingIsListed' /\ NarrowestWindow' /\ WindowHoldsTheBreak' /\ CulpritIntroducedIt'
      BY <2>1, <2>2, NothingIsSaid
    <2>5. PICK b \in 1..red - 1 : Verified(b) /\ base' = b
      BY <1>4
    <2>6. b \in 1..head /\ b \in 0..MaxCommit
      BY <1>1, <2>2, <2>5, RedIsACommit
    <2>7. waiting = {} /\ confirmed # {}
      BY <1>1, <2>2 DEF CallShape, Probing, Tracing
    <2>8. CallShape'
      BY <1>1, <2>1, <2>2, <2>3, <2>5, <2>6, <2>7 DEF CallShape, OriginType, WindowType, ProbeType, Candidate, Steps,
                JobsOf, Aimed, Based, Tracing, Probing
    <2>9. TrueCall'
      <3> SUFFICES ASSUME Deterministic' PROVE (\A u \in units : Fails(u, red)') /\ \A j \in Jobs : Sound(b, j)'
        BY <1>1, <2>1, <2>3, <2>5 DEF TrueCall, TrueFinding, Aimed, Sound
      <3>1. Deterministic
        BY <1>2, WasDeterministic DEF Grown
      <3>2. \A j \in Jobs : Sound(b, j)
        BY <2>5, <2>6, <3>1 DEF WorldInv, TrueHistory, Verified
      <3> QED
        BY <1>1, <2>2, <3>1, <3>2, StillTheSame DEF TrueCall
    <2>10. OddCall'
      <3>1. AllSound' <=> AllSound
        BY <1>1, StillTheSame
      <3> QED
        BY <1>1, <2>2, <3>1 DEF OddCall, Still, Bounds
    <2> QED
      BY <1>2, <2>4, <2>8, <2>9, <2>10 DEF CallInv
  <1> QED
    BY <1>3, <1>4 DEF FindBase

\* At most so many runs are newer than one and older than the red one.
LEMMA FewAreNewer ==
    ASSUME NEW n \in Nat, NEW r \in 1..n - 1, NEW settled \in SUBSET (1..n - 1)
    PROVE  /\ Cardinality({s \in settled : s > r}) \in Nat
           /\ Cardinality({s \in settled : s > r}) < n - r
  <1>1. {s \in settled : s > r} \subseteq r + 1..n - 1
    <2> SUFFICES ASSUME NEW s \in settled, s > r PROVE s \in r + 1..n - 1
      OBVIOUS
    <2>1. s \in 1..n - 1 /\ r \in Nat
      OBVIOUS
    <2> QED
      BY <2>1
  <1>2. r + 1 \in Int /\ n - 1 \in Int /\ (n - 1) - (r + 1) + 1 = n - 1 - r /\ ~(r + 1 > n) /\ n - 1 - r \in Nat
    OBVIOUS
  <1>3. IsFiniteSet(r + 1..n - 1) /\ Cardinality(r + 1..n - 1) <= n - 1 - r
    <2>1. PICK a \in Int, b \in Int : a = r + 1 /\ b = n - 1
      BY <1>2
    <2>2. IsFiniteSet(a..b) /\ Cardinality(a..b) = IF a > b THEN 0 ELSE b - a + 1
      BY FS_Interval
    <2>3. a > b => n - 1 - r = 0
      BY <1>2, <2>1
    <2> QED
      BY <1>2, <2>1, <2>2, <2>3
  <1>4. /\ Cardinality({s \in settled : s > r}) <= Cardinality(r + 1..n - 1)
        /\ IsFiniteSet({s \in settled : s > r})
    BY <1>1, <1>3, FS_Subset
  <1>5. Cardinality({s \in settled : s > r}) \in Nat /\ Cardinality(r + 1..n - 1) \in Nat
    BY <1>3, <1>4, FS_CardinalityType
  <1> QED
    BY <1>3, <1>4, <1>5

\* A step that names nothing.
LEMMA NobodyIsNamed ==
    ASSUME verdict' \notin {"window", "culprit"}
    PROVE  WindowHoldsTheBreak' /\ CulpritIntroducedIt'
  BY DEF WindowHoldsTheBreak, CulpritIntroducedIt

\* The listing holds every completed run that the walk may read.
LEMMA ListKeeps ==
    ASSUME WorldInv, CallInv, Remember, List
    PROVE  WorldInv' /\ CallInv'
  <1>1. /\ Still /\ UNCHANGED Bounds /\ pc = "list" /\ pc' = "walk" /\ UNCHANGED <<verdict, culprit>>
        /\ UNCHANGED <<mode, laneInput, red, units, prev, confirmed, targets, lanes, base,
                       next, waiting, unread, found, foundUnits>>
    BY DEF List, Still, World, trunk, history, inputs, origin, probes, GoTo, outcome
  <1>2. WorldInv' /\ Grown
    BY <1>1, WorldIsKept
  <1>3. CallShape /\ UNCHANGED head /\ verdict' = "none"
    BY <1>1 DEF CallInv, CallShape, Still
  <1>4. TrueCall' /\ OddCall'
    BY <1>1, <1>2, FindingsStand DEF CallInv, Aimed
  <1>5. PICK settled : settled = {r \in 1..red - 1 : Completed(r) \/ result[r] = "cancelled"}
    OBVIOUS
  <1>6. walk' = {r \in settled : Cardinality({s \in settled : s > r}) < WalkRuns}
    BY <1>5 DEF List
  <1>7. red \in Nat /\ \A b \in 1..red - 1 : b \in Commits
    BY <1>1, <1>3, RedIsACommit, BoundsAreNaturals DEF Commits
  <1>8. walk' \subseteq 1..red - 1 /\ walk' \subseteq Commits
    BY <1>5, <1>6, <1>7
  <1>9. CallShape'
    BY <1>1, <1>3, <1>8 DEF CallShape, OriginType, WindowType, ProbeType, Candidate, Steps,
              JobsOf, Aimed, Based, Tracing, Probing
  <1>10. standing' = {r \in 1..red - 1 : Completed(r)}
    BY <1>1 DEF Remember
  <1>11. StandingIsListed'
    <2>1. \A r \in standing' : Completed(r)'
      BY <1>1, <1>10, StillTheSame
    <2>2. standing' \subseteq Commits
      BY <1>7, <1>10
    <2>3. ASSUME NEW r \in standing', red - r <= WalkRuns
          PROVE  r \in walk'
      <3>1. r \in 1..red - 1 /\ r \in settled /\ settled \in SUBSET (1..red - 1)
        BY <1>5, <1>10
      <3>2. Cardinality({s \in settled : s > r}) \in Nat /\ Cardinality({s \in settled : s > r}) < red - r
        BY <1>7, <3>1, FewAreNewer
      <3>4. Cardinality({s \in settled : s > r}) < WalkRuns
        BY <1>7, <2>3, <3>1, <3>2, BoundsAreNaturals
      <3> QED
        BY <1>6, <3>1, <3>4
    <2> QED
      BY <1>1, <2>1, <2>2, <2>3 DEF StandingIsListed
  <1>12. NarrowestWindow'
    BY <1>1 DEF NarrowestWindow
  <1> QED
    BY <1>2, <1>3, <1>4, <1>9, <1>11, <1>12, NobodyIsNamed DEF CallInv

\* A baseline is taken: what is traced does not fail there, and no run that
\* stood through the walk is a newer one.
LEMMA AimKeeps ==
    ASSUME WorldInv, CallInv, Still, Grown, Remember, pc \in {"list", "walk"}, pc' = "candidates",
           UNCHANGED <<verdict, culprit, mode, laneInput, red, units, prev, confirmed, walk,
                       next, waiting, unread, found, foundUnits>>,
           base' \in 1..red - 1, targets' \in SUBSET confirmed, targets' # {},
           lanes' \in SUBSET Jobs, JobsOf(targets') \subseteq lanes',
           Deterministic => \A u \in targets' : ~Fails(u, base'),
           faults' = 0 => \A r \in standing :
               (\E u \in confirmed : Clears(u, r)) /\ red - r <= WalkRuns => base' >= r
    PROVE  CallInv'
  <1>1. CallShape /\ UNCHANGED head /\ verdict' = "none"
    BY DEF CallInv, CallShape, Still
  <1>2. \A c \in Commits : found[c] = "none" /\ foundUnits[c] = {} /\ unread[c] = 0
    BY <1>1 DEF CallShape, Probing
  <1>3. waiting = {} /\ base' \in 0..MaxCommit
    BY <1>1, RedIsACommit DEF CallShape, Probing
  <1>4. CallShape'
    <2>1. targets' \subseteq confirmed'
      OBVIOUS
    <2>2. JobsOf(targets)' = JobsOf(targets')
      BY DEF JobsOf
    <2> QED
      BY <1>1, <1>2, <1>3, <2>1, <2>2 DEF CallShape, OriginType, WindowType, ProbeType, Candidate, Steps,
              Aimed, Based, Tracing, Probing
  <1>5. TrueCall'
    <2> SUFFICES ASSUME Deterministic'
                 PROVE  (\A u \in units : Fails(u, red)') /\ \A u \in targets' : ~Fails(u, base)'
      BY <1>2 DEF TrueCall, TrueFinding, Aimed
    <2>1. Deterministic
      BY WasDeterministic DEF Grown
    <2>2. PICK b : b = base'
      OBVIOUS
    <2>3. \A u \in targets' : ~Fails(u, b)
      BY <2>1, <2>2
    <2>4. \A u : Fails(u, base)' <=> Fails(u, base')
      BY DEF Fails, Still
    <2> QED
      BY <2>1, <2>2, <2>3, <2>4, StillTheSame DEF CallInv, TrueCall
  <1>6. OddCall'
    <2>1. AllSound' <=> AllSound
      BY StillTheSame
    <2>2. /\ flakes + outages >= 1 => flakes' + outages' >= 1
          /\ flakes + outages >= 2 => flakes' + outages' >= 2
          /\ flakes + outages >= 3 => flakes' + outages' >= 3
      BY OddGrows DEF Grown
    <2>3. UNCHANGED failing
      BY DEF Still
    <2> QED
      BY <2>1, <2>2, <2>3 DEF CallInv, OddCall
  <1>7. standing' = {r \in standing : Completed(r)'}
    BY DEF Remember
  <1>8. StandingIsListed'
    BY <1>7 DEF CallInv, StandingIsListed
  <1>9. NarrowestWindow'
    BY <1>7, StillTheSame DEF NarrowestWindow
  <1> QED
    BY <1>1, <1>4, <1>5, <1>6, <1>8, <1>9, NobodyIsNamed DEF CallInv

\* No run clears a unit on its own: the verified baseline stays.
LEMMA KeepVerifiedKeeps ==
    ASSUME WorldInv, CallInv, Still, Grown, Remember, pc \in {"list", "walk"}, KeepVerified,
           UNCHANGED <<mode, laneInput, red, units, prev, confirmed, walk,
                       next, waiting, unread, found, foundUnits>>,
           faults' = 0 => pc = "walk" /\ faults = 0 /\ walk = {}
    PROVE  CallInv'
  <1>1. /\ pc' = "candidates" /\ UNCHANGED <<verdict, culprit>> /\ UNCHANGED base
        /\ targets' = confirmed /\ lanes' = JobsOf(units)
    BY DEF KeepVerified, GoTo, outcome
  <1>2. CallShape /\ TrueCall /\ StandingIsListed
    BY DEF CallInv
  <1>3. /\ base \in 1..red - 1 /\ confirmed # {} /\ confirmed \subseteq units /\ units \subseteq Unit
    BY <1>2 DEF CallShape, OriginType, Tracing, Based
  <1>4. lanes' \in SUBSET Jobs /\ JobsOf(targets') \subseteq lanes'
    BY <1>1, <1>3, UnitFields DEF JobsOf
  <1>5. Deterministic => \A u \in targets' : ~Fails(u, base')
    <2> SUFFICES ASSUME Deterministic, NEW u \in confirmed PROVE ~Fails(u, base)
      BY <1>1
    <2>1. u \in Unit /\ u.job \in Jobs
      BY <1>3, UnitFields
    <2>2. Sound(base, u.job)
      BY <1>2, <2>1 DEF TrueCall
    <2> QED
      BY <2>1, <2>2, SoundDoesNotFail
  <1>6. faults' = 0 => \A r \in standing :
               (\E u \in confirmed : Clears(u, r)) /\ red - r <= WalkRuns => base' >= r
    BY <1>2 DEF StandingIsListed
  <1>7. base' \in 1..red - 1 /\ targets' \in SUBSET confirmed /\ targets' # {}
    BY <1>1, <1>3
  <1> QED
    BY <1>1, <1>4, <1>5, <1>6, <1>7, AimKeeps

\* The newest run of the walk is the baseline of the units it clears, or is passed over.
LEMMA WeighKeeps ==
    ASSUME WorldInv, CallInv, Still, Grown, Remember, pc \in {"list", "walk"},
           NEW r \in walk, Newest(r, walk), NEW cleared \in SUBSET confirmed, Weigh(r, cleared),
           \A u \in cleared : Clears(u, r) \/ ClearsByJob(u, r),
           UNCHANGED <<mode, laneInput, red, units, prev, confirmed, next, waiting, unread, found, foundUnits>>,
           faults' = 0 => pc = "walk" /\ faults = 0 /\ cleared = Cleared(r)
    PROVE  CallInv'
  <1>1. CallShape /\ TrueCall /\ StandingIsListed
    BY DEF CallInv
  <1>2. r \in 1..red - 1 /\ r \in Commits /\ r \in 1..head
    BY <1>1, RedIsACommit DEF CallShape
  <1>3. CASE cleared = {}
    <2>1. walk' = walk \ {r} /\ UNCHANGED <<pc, targets, lanes, base, verdict, culprit>>
      BY <1>3 DEF Weigh, outcome
    <2>2. TrueCall' /\ OddCall'
      BY <2>1, FindingsStand DEF CallInv, Aimed
    <2>3. UNCHANGED head /\ verdict' = "none"
      BY <1>1, <2>1 DEF CallShape, Still
    <2>4. CallShape'
      BY <1>1, <2>1, <2>3 DEF CallShape, OriginType, WindowType, ProbeType, Candidate, Steps,
              JobsOf, Aimed, Based, Tracing, Probing
    <2>5. standing' = {} \/ (pc = "walk" /\ standing' = {s \in standing : Completed(s)'})
      BY <2>1 DEF Remember
    <2>6. StandingIsListed'
      <3>1. CASE standing' = {}
        BY <3>1 DEF StandingIsListed
      <3>2. CASE pc = "walk" /\ standing' = {s \in standing : Completed(s)'}
        <4>1. ASSUME faults' = 0, NEW s \in standing', NEW u \in confirmed, Clears(u, s), red - s <= WalkRuns
              PROVE  s \in walk'
          <5>1. s \in walk
            BY <1>1, <3>2, <4>1 DEF StandingIsListed
          <5>2. s # r
            BY <1>3, <4>1 DEF Cleared
          <5> QED
            BY <2>1, <5>1, <5>2
        <4>2. \A s \in standing' : Completed(s)'
          BY <3>2
        <4>3. standing' \subseteq Commits
          BY <1>1, <3>2 DEF StandingIsListed
        <4>4. \A u, s : Clears(u, s)' <=> Clears(u, s)
          BY StillTheSame
        <4>5. ASSUME faults' = 0, NEW s \in standing', \E u \in confirmed' : Clears(u, s)', red' - s <= WalkRuns
              PROVE  s \in walk'
          BY <4>1, <4>4, <4>5
        <4> QED
          BY <4>2, <4>3, <4>5 DEF StandingIsListed
      <3> QED
        BY <2>5, <3>1, <3>2
    <2>7. NarrowestWindow'
      BY <2>1 DEF NarrowestWindow
    <2> QED
      BY <2>2, <2>3, <2>4, <2>6, <2>7, NobodyIsNamed DEF CallInv
  <1>4. CASE cleared # {}
    <2>1. /\ base' = r /\ targets' = cleared /\ lanes' = JobsOf(cleared) /\ UNCHANGED walk
          /\ pc' = "candidates" /\ UNCHANGED <<verdict, culprit>>
      BY <1>4 DEF Weigh, GoTo, outcome
    <2>2. cleared \subseteq Unit
      BY <1>1 DEF CallShape, OriginType
    <2>3. lanes' \in SUBSET Jobs /\ JobsOf(targets') \subseteq lanes'
      BY <2>1, <2>2, UnitFields DEF JobsOf
    <2>4. Deterministic => \A u \in targets' : ~Fails(u, base')
      <3> SUFFICES ASSUME Deterministic, NEW u \in cleared PROVE ~Fails(u, r)
        BY <2>1
      <3>1. failing[r] = AsItIs(r, ran[r]) /\ ran[r] \in SUBSET Jobs /\ TrunkType
        BY <1>2 DEF WorldInv, TrueHistory, HistoryType
      <3>2. Clears(u, r) \/ ClearsByJob(u, r)
        OBVIOUS
      <3>3. u \in Unit
        BY <2>2
      <3> QED
        BY <1>2, <3>1, <3>2, <3>3, ClearsTruly
    <2>5. faults' = 0 => \A s \in standing :
               (\E u \in confirmed : Clears(u, s)) /\ red - s <= WalkRuns => base' >= s
      <3> SUFFICES ASSUME faults' = 0, NEW s \in standing, \E u \in confirmed : Clears(u, s), red - s <= WalkRuns
                   PROVE  r >= s
        BY <2>1
      <3>1. s \in walk
        BY <1>1 DEF StandingIsListed
      <3>2. s <= r
        BY <3>1 DEF Newest
      <3>3. s \in 1..red - 1
        BY <1>1, <3>1 DEF CallShape
      <3> QED
        BY <1>2, <3>2, <3>3
    <2>6. base' \in 1..red - 1 /\ targets' \in SUBSET confirmed /\ targets' # {}
      BY <1>2, <1>4, <2>1
    <2> QED
      BY <2>1, <2>3, <2>4, <2>5, <2>6, AimKeeps
  <1> QED
    BY <1>3, <1>4

\* The walk reads one run.
LEMMA WalkKeeps ==
    ASSUME WorldInv, CallInv, Remember, Walk
    PROVE  WorldInv' /\ CallInv'
  <1>1. /\ Still /\ UNCHANGED Bounds /\ UNCHANGED faults /\ pc = "walk"
        /\ UNCHANGED <<mode, laneInput, red, units, prev, confirmed, next, waiting, unread, found, foundUnits>>
    BY DEF Walk, Still, World, Bounds, trunk, history, inputs, origin, probes
  <1>2. WorldInv' /\ Grown
    BY <1>1, WorldIsKept
  <1>3. CASE walk = {}
    BY <1>1, <1>2, <1>3, KeepVerifiedKeeps DEF Walk
  <1>4. CASE walk # {}
    <2>1. PICK r \in walk : Newest(r, walk) /\ Weigh(r, Cleared(r))
      BY <1>4 DEF Walk
    <2>2. Cleared(r) \in SUBSET confirmed /\ \A u \in Cleared(r) : Clears(u, r)
      BY DEF Cleared
    <2> QED
      BY <1>1, <1>2, <2>1, <2>2, WeighKeeps
  <1> QED
    BY <1>3, <1>4

\* What cannot be read clears nothing.
LEMMA WalkFailsKeeps ==
    ASSUME WorldInv, CallInv, Remember, WalkFails
    PROVE  WorldInv' /\ CallInv'
  <1>1. /\ Still /\ Fault /\ pc \in {"list", "walk"}
        /\ UNCHANGED <<mode, laneInput, red, units, prev, confirmed, next, waiting, unread, found, foundUnits>>
    BY DEF WalkFails, Still, World, trunk, history, inputs, origin, probes
  <1>2. WorldInv' /\ Grown
    BY <1>1, WorldIsKept
  <1>3. faults' # 0
    BY <1>1, CountersAreNaturals DEF Fault, WorldInv
  <1>4. CASE UNCHANGED walk /\ KeepVerified
    BY <1>1, <1>2, <1>3, <1>4, KeepVerifiedKeeps
  <1>5. CASE \E r \in walk : Newest(r, walk) /\
             \E cleared \in {{}, {u \in confirmed : ClearsByJob(u, r)}} : Weigh(r, cleared)
    <2>1. PICK r \in walk : Newest(r, walk) /\
             \E cleared \in {{}, {u \in confirmed : ClearsByJob(u, r)}} : Weigh(r, cleared)
      BY <1>5
    <2>2. PICK cleared \in {{}, {u \in confirmed : ClearsByJob(u, r)}} : Weigh(r, cleared)
      BY <2>1
    <2>3. cleared \in SUBSET confirmed /\ \A u \in cleared : Clears(u, r) \/ ClearsByJob(u, r)
      BY <2>2
    <2> QED
      BY <1>1, <1>2, <1>3, <2>1, <2>2, <2>3, WeighKeeps
  <1> QED
    BY <1>4, <1>5 DEF WalkFails

\* A set of numbers that is not empty has a least one.
LEMMA FirstOfSome ==
    ASSUME NEW S \in SUBSET Nat, S # {}
    PROVE  \E x \in S : \A y \in S : x <= y
  <1>1. IsWellFoundedOn({p \in Nat \X Nat : p[1] < p[2]}, Nat)
    BY NatLessThanWellFounded DEF OpToRel
  <1>2. PICK x \in S : \A y \in S : <<y, x>> \notin {p \in Nat \X Nat : p[1] < p[2]}
    BY <1>1, WFMin
  <1>3. ASSUME NEW y \in S PROVE x <= y
    <2>1. <<y, x>> \notin {p \in Nat \X Nat : p[1] < p[2]} /\ x \in Nat /\ y \in Nat
      BY <1>2
    <2> QED
      BY <2>1
  <1> QED
    BY <1>3

\* What fails on the red commit and not on the baseline was broken between them.
LEMMA SomeoneBrokeIt ==
    ASSUME NEW u, NEW b \in Nat, NEW r \in Nat, b < r, Fails(u, r), ~Fails(u, b)
    PROVE  \E c \in b + 1..r : Fails(u, c) /\ ~Fails(u, c - 1)
  <1> DEFINE S == {c \in b + 1..r : Fails(u, c)}
  <1>1. S \in SUBSET Nat /\ r \in S
    OBVIOUS
  <1> HIDE DEF S
  <1>2. PICK c \in S : \A d \in S : c <= d
    BY <1>1, FirstOfSome
  <1>3. c \in b + 1..r /\ Fails(u, c)
    BY <1>2 DEF S
  <1>4. CASE c = b + 1
    <2>1. c - 1 = b
      BY <1>4
    <2> QED
      BY <1>3, <2>1
  <1>5. CASE c # b + 1
    <2>1. c - 1 \in b + 1..r /\ ~(c <= c - 1)
      BY <1>3, <1>5
    <2>2. c - 1 \notin S
      BY <1>2, <2>1
    <2>3. ~Fails(u, c - 1)
      BY <2>1, <2>2 DEF S
    <2> QED
      BY <1>3, <2>3
  <1> QED
    BY <1>4, <1>5

\* The window that a call gives up on holds the commit that broke a confirmed unit.
LEMMA WindowKeeps ==
    ASSUME WorldInv, CallInv, Still, Grown, Remember, pc \in {"candidates", "judge"},
           pc' = "done", verdict' = "window",
           UNCHANGED <<culprit, mode, laneInput, red, units, prev, confirmed, walk, targets, lanes, base,
                       next, waiting, unread, found, foundUnits>>
    PROVE  CallInv'
  <1>1. CallShape /\ TrueCall /\ UNCHANGED head
    BY DEF CallInv, Still
  <1>2. TrueCall' /\ OddCall'
    BY FindingsStand DEF CallInv, Aimed
  <1>3. standing' = {}
    BY DEF Remember
  <1>4. StandingIsListed' /\ NarrowestWindow' /\ CulpritIntroducedIt'
    BY <1>3 DEF StandingIsListed, NarrowestWindow, CulpritIntroducedIt
  <1>5. confirmed # {} /\ targets # {} /\ base \in 1..red - 1 /\ targets \subseteq confirmed
    BY <1>1 DEF CallShape, Tracing, Based, Aimed, WindowType
  <1>6. CallShape'
    BY <1>1, <1>5 DEF CallShape, OriginType, WindowType, ProbeType, Candidate, Steps, Verdicts,
              JobsOf, Aimed, Based, Tracing, Probing
  <1>7. WindowHoldsTheBreak'
    <2> SUFFICES ASSUME Deterministic'
                 PROVE  \E u \in confirmed, c \in base + 1..red : Fails(u, c)' /\ ~Fails(u, c - 1)'
      BY DEF WindowHoldsTheBreak, Candidate
    <2>1. Deterministic
      BY WasDeterministic DEF Grown
    <2>2. PICK u \in targets : TRUE
      BY <1>5
    <2>3. u \in confirmed /\ u \in units
      BY <1>1, <1>5, <2>2 DEF CallShape, OriginType
    <2>4. Fails(u, red) /\ ~Fails(u, base)
      BY <1>1, <2>1, <2>2, <2>3 DEF TrueCall, Aimed
    <2>5. base \in Nat /\ red \in Nat /\ base < red
      <3>1. red \in Commits
        BY <1>1, RedIsACommit
      <3> QED
        BY <1>5, <3>1, BoundsAreNaturals DEF Commits
    <2>6. PICK c \in base + 1..red : Fails(u, c) /\ ~Fails(u, c - 1)
      BY <2>4, <2>5, SomeoneBrokeIt
    <2>7. Fails(u, c)' /\ ~Fails(u, c - 1)'
      BY <2>6, StillTheSame
    <2> QED
      BY <2>3, <2>6, <2>7
  <1> QED
    BY <1>2, <1>4, <1>6, <1>7 DEF CallInv

\* A step of the candidates' runs that changes no finding.
LEMMA ProbingKeeps ==
    ASSUME WorldInv, CallInv, Still, Grown, Remember, pc \in {"candidates", "dispatch", "poll", "infra"},
           pc' \in {"dispatch", "poll", "infra", "judge"},
           UNCHANGED <<verdict, culprit, mode, laneInput, red, units, prev, confirmed, walk, targets, lanes, base,
                       found, foundUnits>>,
           waiting' \subseteq Candidate, next' \in 0..MaxCommit + 1, unread' \in [Commits -> 0..ReadTries],
           pc' = "dispatch" => next' \in base + 1..red,
           pc' \in {"dispatch", "poll"} => \A c \in Commits : unread'[c] < ReadTries
    PROVE  CallInv'
  <1>1. CallShape /\ UNCHANGED head /\ verdict' = "none"
    BY DEF CallInv, CallShape, Still
  <1>2. TrueCall' /\ OddCall'
    BY FindingsStand DEF CallInv, Aimed
  <1>3. StandingIsListed' /\ NarrowestWindow' /\ WindowHoldsTheBreak' /\ CulpritIntroducedIt'
    BY <1>1, NothingIsSaid
  <1>4. CallShape'
    BY <1>1 DEF CallShape, OriginType, WindowType, ProbeType, Candidate, Steps, Verdicts,
              JobsOf, Aimed, Based, Tracing, Probing
  <1> QED
    BY <1>2, <1>3, <1>4 DEF CallInv

\* Too many commits are not reverted, many are as one, few are verified.
LEMMA CandidatesKeeps ==
    ASSUME WorldInv, CallInv, Remember, Candidates
    PROVE  WorldInv' /\ CallInv'
  <1>1. /\ Still /\ UNCHANGED Bounds /\ pc = "candidates"
        /\ UNCHANGED <<mode, laneInput, red, units, prev, confirmed, walk, targets, lanes, base,
                       waiting, unread, found, foundUnits>>
    BY DEF Candidates, Still, World, trunk, history, inputs, origin, window
  <1>2. WorldInv' /\ Grown
    BY <1>1, WorldIsKept
  <1>3. CASE UNCHANGED next /\ End("no action")
    BY <1>1, <1>2, <1>3, EndIs, EndKeeps
  <1>4. CASE UNCHANGED next /\ End("window")
    BY <1>1, <1>2, <1>4, WindowKeeps DEF End
  <1>5. CASE next' = FirstCandidate /\ GoTo("dispatch")
    <2>1. /\ pc' = "dispatch" /\ UNCHANGED <<verdict, culprit>> /\ next' = base + 1
      BY <1>5 DEF GoTo, outcome, FirstCandidate
    <2>2. CallShape
      BY DEF CallInv
    <2>3. base \in 1..red - 1 /\ red \in 1..MaxCommit
      BY <1>1, <2>2, RedIsACommit DEF CallShape, Based, Aimed, Commits
    <2>4. next' \in base + 1..red /\ next' \in 0..MaxCommit + 1
      <3>1. MaxCommit \in Nat /\ red \in Nat /\ base \in Nat
        BY <2>3, BoundsAreNaturals
      <3> QED
        BY <2>1, <2>3, <3>1
    <2>5. /\ waiting' \subseteq Candidate /\ unread' \in [Commits -> 0..ReadTries]
          /\ \A c \in Commits : unread'[c] < ReadTries
      BY <1>1, <2>2, BoundsAreNaturals DEF CallShape, ProbeType, Probing
    <2> QED
      BY <1>1, <1>2, <2>1, <2>4, <2>5, ProbingKeeps
  <1> QED
    BY <1>3, <1>4, <1>5 DEF Candidates

\* One more candidate runs.
LEMMA DispatchKeeps ==
    ASSUME WorldInv, CallInv, Remember, Dispatch
    PROVE  WorldInv' /\ CallInv'
  <1>1. /\ Still /\ UNCHANGED Bounds /\ pc = "dispatch" /\ UNCHANGED <<verdict, culprit>>
        /\ UNCHANGED <<mode, laneInput, red, units, prev, confirmed, walk, targets, lanes, base,
                       unread, found, foundUnits>>
        /\ waiting' = waiting \cup {next} /\ next' = next + 1
        /\ pc' = IF next = red THEN "poll" ELSE "dispatch"
    BY DEF Dispatch, Still, World, trunk, history, inputs, origin, window, GoTo, outcome
  <1>2. WorldInv' /\ Grown
    BY <1>1, WorldIsKept
  <1>3. CallShape
    BY DEF CallInv
  <1>4. base \in 1..red - 1 /\ red \in 1..MaxCommit /\ next \in base + 1..red
    BY <1>1, <1>3, RedIsACommit DEF CallShape, Based, Aimed, Commits
  <1>5. MaxCommit \in Nat /\ red \in Nat /\ base \in Nat /\ next \in Nat
    BY <1>4, BoundsAreNaturals
  <1>6. /\ next' \in 0..MaxCommit + 1
        /\ pc' = "dispatch" => next' \in base + 1..red
    BY <1>1, <1>4, <1>5
  <1>7. /\ waiting' \subseteq Candidate /\ unread' \in [Commits -> 0..ReadTries]
        /\ \A c \in Commits : unread'[c] < ReadTries
    BY <1>1, <1>3, <1>4 DEF CallShape, ProbeType, Candidate
  <1> QED
    BY <1>1, <1>2, <1>6, <1>7, ProbingKeeps

\* What cannot be dispatched ends the call.
LEMMA DispatchFailsKeeps ==
    ASSUME WorldInv, CallInv, Remember, DispatchFails \/ ReadFails
    PROVE  WorldInv' /\ CallInv'
  <1>1. /\ Still /\ Fault /\ pc \notin {"idle", "done"} /\ (End("no action") \/ End("stopped"))
        /\ UNCHANGED <<mode, laneInput, red, units, prev, confirmed, walk, targets, lanes, base,
                       next, waiting, unread, found, foundUnits>>
    BY DEF DispatchFails, ReadFails, Still, World, trunk, history, inputs, origin, window, probes
  <1>2. WorldInv' /\ Grown
    BY <1>1, WorldIsKept
  <1> QED
    BY <1>1, <1>2, EndIs, EndKeeps

\* A status read finds a run under way, or fails.
LEMMA StatusKeeps ==
    ASSUME WorldInv, CallInv, Remember, NEW c \in Commits, StillRunning(c) \/ PollFails(c)
    PROVE  WorldInv' /\ CallInv'
  <1>1. /\ Still /\ UNCHANGED Bounds /\ pc = "poll"
        /\ UNCHANGED <<mode, laneInput, red, units, prev, confirmed, walk, targets, lanes, base,
                       next, waiting, found, foundUnits>>
    BY DEF StillRunning, PollFails, Still, World, trunk, history, inputs, origin, window
  <1>2. WorldInv' /\ Grown
    BY <1>1, WorldIsKept
  <1>3. CallShape /\ unread \in [Commits -> 0..ReadTries] /\ \A d \in Commits : unread[d] < ReadTries
    BY <1>1 DEF CallInv, CallShape, ProbeType
  <1>4. waiting' \subseteq Candidate /\ next' \in 0..MaxCommit + 1
    BY <1>1, <1>3 DEF CallShape, ProbeType
  <1>5. ReadTries \in Nat /\ unread[c] \in Nat /\ unread[c] < ReadTries /\ 0 < ReadTries
    BY <1>3, BoundsAreNaturals
  <1>6. CASE StillRunning(c)
    <2>1. /\ unread' = [unread EXCEPT ![c] = 0] /\ pc' = "poll" /\ UNCHANGED <<verdict, culprit>>
      BY <1>1, <1>6 DEF StillRunning, outcome
    <2>2. unread' \in [Commits -> 0..ReadTries] /\ \A d \in Commits : unread'[d] < ReadTries
      BY <1>3, <1>5, <2>1
    <2> QED
      BY <1>1, <1>2, <1>4, <2>1, <2>2, ProbingKeeps
  <1>7. CASE PollFails(c)
    <2>1. /\ unread' = [unread EXCEPT ![c] = unread[c] + 1]
          /\ unread'[c] = ReadTries => End("stopped")
          /\ unread'[c] # ReadTries => UNCHANGED <<pc, verdict, culprit>>
      BY <1>7 DEF PollFails, outcome
    <2>2. unread'[c] = unread[c] + 1 /\ unread[c] + 1 \in 0..ReadTries /\ \A d \in Commits \ {c} : unread'[d] = unread[d]
      BY <1>3, <1>5, <2>1
    <2>3. unread' \in [Commits -> 0..ReadTries]
      BY <1>3, <2>1, <2>2
    <2>4. CASE unread'[c] = ReadTries
      BY <1>1, <1>2, <2>1, <2>3, <2>4, EndIs, EndCounts
    <2>5. CASE unread'[c] # ReadTries
      <3>1. unread[c] + 1 < ReadTries
        BY <1>5, <2>2, <2>5
      <3>2. \A d \in Commits : unread'[d] < ReadTries
        BY <1>3, <2>2, <3>1
      <3> QED
        BY <1>1, <1>2, <1>4, <2>1, <2>3, <2>5, <3>2, ProbingKeeps
    <2> QED
      BY <2>4, <2>5
  <1> QED
    BY <1>6, <1>7

\* Failures of infrastructure end the trace.
LEMMA ClassifyCandidatesKeeps ==
    ASSUME WorldInv, CallInv, Remember, ClassifyCandidates
    PROVE  WorldInv' /\ CallInv'
  <1>1. /\ Still /\ UNCHANGED Bounds /\ pc = "infra"
        /\ UNCHANGED <<mode, laneInput, red, units, prev, confirmed, walk, targets, lanes, base,
                       next, waiting, unread, found, foundUnits>>
    BY DEF ClassifyCandidates, Still, World, trunk, history, inputs, origin, window, probes
  <1>2. WorldInv' /\ Grown
    BY <1>1, WorldIsKept
  <1>3. CASE End("no action")
    BY <1>1, <1>2, <1>3, EndIs, EndKeeps
  <1>4. CASE GoTo("judge")
    <2>1. pc' = "judge" /\ UNCHANGED <<verdict, culprit>>
      BY <1>4 DEF GoTo, outcome
    <2>2. waiting' \subseteq Candidate /\ next' \in 0..MaxCommit + 1 /\ unread' \in [Commits -> 0..ReadTries]
      BY <1>1 DEF CallInv, CallShape, ProbeType
    <2> QED
      BY <1>1, <1>2, <2>1, <2>2, ProbingKeeps
  <1> QED
    BY <1>3, <1>4 DEF ClassifyCandidates

\* A step that concludes candidates, and truly so.
LEMMA FoundKeeps ==
    ASSUME WorldInv, CallInv, Still, Grown, Remember, pc = "poll", pc' \in {"poll", "infra"},
           UNCHANGED <<verdict, culprit, mode, laneInput, red, units, prev, confirmed, walk, targets, lanes, base, next>>,
           waiting' \subseteq waiting, unread' \in [Commits -> 0..ReadTries],
           \A c \in Commits : unread'[c] < ReadTries,
           found' \in [Commits -> Conclusions], foundUnits' \in [Commits -> SUBSET Unit],
           \A c \in Commits : found'[c] = "failure" => foundUnits'[c] # {},
           \A c \in Commits : found'[c] # "none" => c \in 1..head,
           Deterministic' => (InTheOpen' => \A c \in Commits : TrueFinding(c)'),
           AllSound /\ confirmed # {} => \A c \in Commits : foundUnits'[c] # {} => flakes' + outages' >= 3
    PROVE  CallInv'
  <1>1. CallShape /\ TrueCall /\ OddCall /\ UNCHANGED head /\ verdict' = "none"
    BY DEF CallInv, CallShape, Still
  <1>2. StandingIsListed' /\ NarrowestWindow' /\ WindowHoldsTheBreak' /\ CulpritIntroducedIt'
    BY <1>1, NothingIsSaid
  <1>3. CallShape'
    <2>1. waiting \subseteq Candidate
      BY <1>1 DEF CallShape, ProbeType
    <2>2. waiting' \subseteq Candidate'
      BY <2>1 DEF Candidate
    <2> QED
      BY <1>1, <2>2 DEF CallShape, OriginType, WindowType, ProbeType, Steps, Verdicts,
              JobsOf, Aimed, Based, Tracing, Probing
  <1>4. TrueCall'
    <2> SUFFICES ASSUME Deterministic'
                 PROVE  /\ \A u \in units : Fails(u, red)'
                        /\ \A u \in targets : ~Fails(u, base)'
      BY DEF TrueCall
    <2>1. Deterministic
      BY WasDeterministic DEF Grown
    <2>2. /\ \A u \in units : Fails(u, red)
          /\ \A u \in targets : ~Fails(u, base)
      BY <1>1, <2>1 DEF TrueCall, Aimed
    <2>3. \A u : /\ Fails(u, red)' <=> Fails(u, red)
                 /\ Fails(u, base)' <=> Fails(u, base)
      BY SameTruth DEF Still
    <2> QED
      BY <2>2, <2>3
  <1>5. OddCall'
    <2>1. AllSound' <=> AllSound
      BY StillTheSame
    <2>2. /\ flakes + outages >= 1 => flakes' + outages' >= 1
          /\ flakes + outages >= 2 => flakes' + outages' >= 2
          /\ flakes + outages >= 3 => flakes' + outages' >= 3
      BY OddGrows DEF Grown
    <2>3. UNCHANGED failing
      BY DEF Still
    <2> QED
      BY <1>1, <2>1, <2>2, <2>3 DEF OddCall
  <1> QED
    BY <1>2, <1>3, <1>4, <1>5 DEF CallInv

\* A candidate has landed.
LEMMA ProbedIsLanded ==
    ASSUME WorldInv, CallShape, pc \in Aimed
    PROVE  waiting \subseteq 1..head /\ waiting \subseteq Commits
  <1>1. waiting \subseteq Candidate /\ base \in 1..red - 1 /\ red \in 1..head
    BY DEF CallShape, ProbeType, Based, Aimed
  <1>2. head \in 1..MaxCommit /\ MaxCommit \in Nat
    BY BoundsAreNaturals DEF WorldInv, TrunkType, Commits
  <1>3. base \in Nat /\ red \in Nat /\ head \in Nat
    BY <1>1, <1>2
  <1>4. \A c \in base + 1..red : c \in 1..head /\ c \in 1..MaxCommit
    BY <1>1, <1>2, <1>3
  <1> QED
    BY <1>1, <1>4 DEF Candidate, Commits

\* What has not concluded by the deadline is a timeout.
LEMMA DeadlineKeeps ==
    ASSUME WorldInv, CallInv, Remember, Deadline
    PROVE  WorldInv' /\ CallInv'
  <1>1. /\ Still /\ UNCHANGED Bounds /\ pc = "poll" /\ pc' = "infra" /\ UNCHANGED <<verdict, culprit>>
        /\ UNCHANGED <<mode, laneInput, red, units, prev, confirmed, walk, targets, lanes, base,
                       next, unread, foundUnits>>
        /\ found' = [c \in Commits |-> IF c \in waiting THEN "timeout" ELSE found[c]] /\ waiting' = {}
    BY DEF Deadline, Still, World, trunk, history, inputs, origin, window, GoTo, outcome
  <1>2. WorldInv' /\ Grown
    BY <1>1, WorldIsKept
  <1>3. CallShape /\ TrueCall /\ OddCall
    BY DEF CallInv
  <1>4. /\ found \in [Commits -> Conclusions] /\ foundUnits' \in [Commits -> SUBSET Unit]
        /\ unread' \in [Commits -> 0..ReadTries]
        /\ \A c \in Commits : unread'[c] < ReadTries
        /\ \A c \in Commits : found[c] = "failure" => foundUnits[c] # {}
    BY <1>1, <1>3 DEF CallShape, ProbeType
  <1>5. /\ found' \in [Commits -> Conclusions] /\ waiting' \subseteq waiting
        /\ \A c \in Commits : found'[c] = "timeout" \/ found'[c] = found[c]
    BY <1>1, <1>4 DEF Conclusions
  <1>6. \A c \in Commits : found'[c] = "failure" => foundUnits'[c] # {}
    BY <1>1, <1>4, <1>5
  <1>7. Deterministic' => (InTheOpen' => \A c \in Commits : TrueFinding(c)')
    <2> SUFFICES ASSUME Deterministic', InTheOpen', NEW c \in Commits PROVE TrueFinding(c)'
      OBVIOUS
    <2>1. TrueFinding(c)
      BY <1>1, <1>2, <1>3, WasDeterministic, StillInTheOpen DEF Grown, TrueCall
    <2>2. /\ \A u : Fails(u, c)' <=> Fails(u, c)
          /\ \A some : AsItIs(c, some)' = AsItIs(c, some)
          /\ \A j : Sound(c, j)' <=> Sound(c, j)
      BY <1>1, StillTheSame
    <2> QED
      BY <1>1, <1>5, <2>1, <2>2 DEF TrueFinding
  <1>8. AllSound /\ confirmed # {} => \A c \in Commits : foundUnits'[c] # {} => flakes' + outages' >= 3
    BY <1>1, <1>2, <1>3, OddGrows DEF Grown, OddCall
  <1>9. pc' \in {"poll", "infra"}
    BY <1>1
  <1>10. \A c \in Commits : found'[c] # "none" => c \in 1..head
    <2>1. waiting \subseteq 1..head
      BY <1>1, <1>2, <1>3, ProbedIsLanded DEF Aimed
    <2> QED
      BY <1>1, <1>3, <2>1 DEF CallShape
  <1> QED
    BY <1>1, <1>2, <1>4, <1>5, <1>6, <1>7, <1>8, <1>9, <1>10, FoundKeeps

\* A job that a run of a commit may leave out is sound while nothing flakes.
LEMMA SkippedIsSound ==
    ASSUME WorldInv, Deterministic, NEW c \in Commits, NEW j \in Jobs, MaySkip(c, j)
    PROVE  Sound(c, j)
  <1>1. PICK b \in Commits : b < c /\ Verified(b) /\ build[b][j] = build[c][j] /\ broken[b][j] = broken[c][j]
    BY DEF MaySkip
  <1>2. b \in 1..head
    BY <1>1, RunHasItsCommit DEF Verified
  <1>3. Sound(b, j)
    BY <1>1, <1>2 DEF WorldInv, TrueHistory, Verified
  <1> QED
    BY <1>1, <1>3 DEF Sound

\* Where nothing stands in the way of the traced jobs, a candidate's run covers
\* every one of them that may fail.
LEMMA TracedJobsRun ==
    ASSUME WorldInv, CallShape, pc \in Aimed, Deterministic, InTheOpen,
           NEW c \in Candidate, c \in Commits,
           NEW chosen \in SUBSET Jobs, NEW some \in SUBSET Jobs, NEW rows, rows = AsItIs(c, some),
           Selects(c, chosen), Runs(chosen, some, rows)
    PROVE  \A u \in targets : u.job \in some \/ Sound(c, u.job)
  <1> SUFFICES ASSUME NEW u \in targets PROVE u.job \in some \/ Sound(c, u.job)
    OBVIOUS
  <1>1. u \in Unit /\ u.job \in Jobs /\ u.job \in lanes
    <2>1. u \in Unit
      BY DEF CallShape, OriginType, WindowType
    <2>2. u.job \in lanes
      BY DEF CallShape, JobsOf
    <2> QED
      BY <2>1, <2>2, UnitFields
  <1>2. \A k \in Needs[u.job] \cap chosen : k \in some /\ OfJob(rows, k) = {}
    <2> SUFFICES ASSUME NEW k \in Needs[u.job] \cap chosen PROVE k \in some /\ OfJob(rows, k) = {}
      OBVIOUS
    <2>1. Needs[k] = {} /\ Sound(c, k)
      BY DEF InTheOpen
    <2>2. k \in some
      BY <2>1 DEF Runs
    <2>3. OfJob(AsItIs(c, some), k) = Shown(c, k)
      BY <2>2, AsItIsShows DEF WorldInv
    <2> QED
      BY <2>1, <2>2, <2>3, SoundShowsNothing
  <1>3. u.job \in chosen => u.job \in some
    BY <1>2 DEF Runs
  <1>4. CASE laneInput
    BY <1>1, <1>3, <1>4 DEF Selects
  <1>5. CASE ~laneInput
    <2>1. u.job \in chosen \/ MaySkip(c, u.job)
      BY <1>1, <1>5 DEF Selects
    <2> QED
      BY <1>1, <1>3, <2>1, SkippedIsSound
  <1> QED
    BY <1>4, <1>5

\* A finding on candidate c does not touch the others.
LEMMA OneFinding ==
    ASSUME WorldInv, CallInv, Still, Grown, Remember, pc = "poll", NEW c \in waiting, Concluded(c),
           UNCHANGED <<mode, laneInput, red, units, prev, confirmed, walk, targets, lanes, base, next>>,
           unread' = [unread EXCEPT ![c] = 0],
           NEW v \in Conclusions, found' = [found EXCEPT ![c] = v],
           NEW rows \in SUBSET Unit, foundUnits' = [foundUnits EXCEPT ![c] = rows],
           v = "failure" => rows # {},
           Deterministic' => (InTheOpen' => TrueFinding(c)'),
           AllSound /\ confirmed # {} /\ rows # {} => flakes' + outages' >= 3
    PROVE  CallInv'
  <1>1. CallShape /\ TrueCall /\ OddCall
    BY DEF CallInv
  <1>2. c \in 1..head /\ c \in Commits
    BY <1>1, ProbedIsLanded DEF Aimed
  <1>3. /\ found \in [Commits -> Conclusions] /\ foundUnits \in [Commits -> SUBSET Unit]
        /\ unread \in [Commits -> 0..ReadTries]
        /\ \A d \in Commits : unread[d] < ReadTries
        /\ \A d \in Commits : found[d] = "failure" => foundUnits[d] # {}
    BY <1>1 DEF CallShape, ProbeType
  <1>4. 0 \in 0..ReadTries /\ 0 < ReadTries
    BY BoundsAreNaturals
  <1>5. /\ unread' \in [Commits -> 0..ReadTries] /\ \A d \in Commits : unread'[d] < ReadTries
        /\ found' \in [Commits -> Conclusions] /\ foundUnits' \in [Commits -> SUBSET Unit]
        /\ found'[c] = v /\ foundUnits'[c] = rows
        /\ \A d \in Commits \ {c} : found'[d] = found[d] /\ foundUnits'[d] = foundUnits[d]
    BY <1>2, <1>3, <1>4
  <1>6. /\ waiting' \subseteq waiting /\ pc' \in {"poll", "infra"} /\ UNCHANGED <<verdict, culprit>>
    BY DEF Concluded, GoTo, outcome
  <1>7. \A d \in Commits : found'[d] = "failure" => foundUnits'[d] # {}
    BY <1>3, <1>5
  <1>8. Deterministic' => (InTheOpen' => \A d \in Commits : TrueFinding(d)')
    <2> SUFFICES ASSUME Deterministic', InTheOpen', NEW d \in Commits \ {c}
                 PROVE  TrueFinding(d)'
      OBVIOUS
    <2>1. TrueFinding(d)
      BY <1>1, WasDeterministic, StillInTheOpen DEF Grown, TrueCall
    <2>2. /\ \A u : Fails(u, d)' <=> Fails(u, d)
          /\ \A some : AsItIs(d, some)' = AsItIs(d, some)
          /\ \A j : Sound(d, j)' <=> Sound(d, j)
      BY StillTheSame
    <2> QED
      BY <1>5, <2>1, <2>2 DEF TrueFinding
  <1>9. AllSound /\ confirmed # {} => \A d \in Commits : foundUnits'[d] # {} => flakes' + outages' >= 3
    <2> SUFFICES ASSUME AllSound, confirmed # {}, NEW d \in Commits, foundUnits'[d] # {}
                 PROVE  flakes' + outages' >= 3
      OBVIOUS
    <2>1. CASE d = c
      BY <1>5, <2>1
    <2>2. CASE d # c
      <3>1. flakes + outages >= 3
        BY <1>1, <1>5, <2>2 DEF OddCall
      <3> QED
        BY <3>1, OddGrows DEF Grown
    <2> QED
      BY <2>1, <2>2
  <1>10. \A d \in Commits : found'[d] # "none" => d \in 1..head
    BY <1>1, <1>2, <1>5 DEF CallShape
  <1> QED
    BY <1>5, <1>6, <1>7, <1>8, <1>9, <1>10, FoundKeeps

\* A candidate's run concludes.
LEMMA PollKeeps ==
    ASSUME WorldInv, CallInv, Remember, NEW c \in Commits, Poll(c)
    PROVE  WorldInv' /\ CallInv'
  <1>1. /\ Still /\ pc = "poll" /\ c \in waiting /\ Concluded(c) /\ UNCHANGED <<reruns, faults>>
        /\ UNCHANGED <<mode, laneInput, red, units, prev, confirmed, walk, targets, lanes, base, next>>
        /\ unread' = [unread EXCEPT ![c] = 0]
    BY DEF Poll, Still, World, trunk, history, inputs, origin, window
  <1>2. CallShape /\ TrueCall /\ OddCall
    BY DEF CallInv
  <1>3. TrunkType /\ CountType
    BY DEF WorldInv
  <1>4. CASE /\ found' = [found EXCEPT ![c] = "inconclusive"]
             /\ UNCHANGED <<foundUnits, flakes, outages>>
    <2>1. UNCHANGED Bounds
      BY <1>1, <1>4 DEF Bounds
    <2>2. WorldInv' /\ Grown
      BY <1>1, <2>1, WorldIsKept
    <2>3. foundUnits \in [Commits -> SUBSET Unit] /\ found \in [Commits -> Conclusions]
      BY <1>2 DEF CallShape, ProbeType
    <2>4. PICK rows \in SUBSET Unit : rows = foundUnits[c]
      BY <2>3
    <2>5. foundUnits' = [foundUnits EXCEPT ![c] = rows]
      BY <1>4, <2>3, <2>4
    <2>6. TrueFinding(c)'
      BY <1>4, <2>3 DEF TrueFinding
    <2>7. AllSound /\ confirmed # {} /\ rows # {} => flakes' + outages' >= 3
      BY <1>2, <1>4, <2>4 DEF OddCall
    <2>8. PICK v \in Conclusions : v = "inconclusive"
      BY DEF Conclusions
    <2> QED
      BY <1>1, <1>4, <2>2, <2>5, <2>6, <2>7, <2>8, OneFinding
  <1>5. CASE \E chosen, some \in SUBSET Jobs : Selects(c, chosen) /\ \E rows \in Evidence(c, some) :
             /\ Runs(chosen, some, rows)
             /\ Observe(c, some, rows)
             /\ found' = [found EXCEPT ![c] = IF rows = {} THEN "success" ELSE "failure"]
             /\ foundUnits' = [foundUnits EXCEPT ![c] = rows]
    <2>1. PICK chosen \in SUBSET Jobs, some \in SUBSET Jobs :
             Selects(c, chosen) /\ \E rows \in Evidence(c, some) :
               /\ Runs(chosen, some, rows)
               /\ Observe(c, some, rows)
               /\ found' = [found EXCEPT ![c] = IF rows = {} THEN "success" ELSE "failure"]
               /\ foundUnits' = [foundUnits EXCEPT ![c] = rows]
      BY <1>5
    <2>2. PICK rows \in Evidence(c, some) :
               /\ Runs(chosen, some, rows)
               /\ Observe(c, some, rows)
               /\ found' = [found EXCEPT ![c] = IF rows = {} THEN "success" ELSE "failure"]
               /\ foundUnits' = [foundUnits EXCEPT ![c] = rows]
      BY <2>1
    <2>3. /\ OddCounts
          /\ flakes' \in 0..MaxFlakes /\ outages' \in 0..MaxOutages
          /\ flakes <= flakes' /\ outages <= outages'
          /\ rows = AsItIs(c, some) \/ flakes' + outages' >= flakes + outages + 1
          /\ Deterministic' => Deterministic /\ rows = AsItIs(c, some)
      BY <1>3, <2>2, Observed
    <2>4. CountType' /\ faults <= faults'
      BY <1>1, <1>3, <2>3, CountersAreNaturals DEF CountType
    <2>5. WorldInv' /\ Grown
      BY <1>1, <2>3, <2>4, WorldStays DEF Still
    <2>6. rows \in SUBSET Unit
      BY <1>3, EvidenceIsTyped
    <2>7. PICK v \in Conclusions : v = IF rows = {} THEN "success" ELSE "failure"
      BY DEF Conclusions
    <2>8. found' = [found EXCEPT ![c] = v] /\ foundUnits' = [foundUnits EXCEPT ![c] = rows]
      BY <2>2, <2>7
    <2>9. found'[c] = v /\ foundUnits'[c] = rows
      BY <1>2, <2>8 DEF CallShape, ProbeType
    <2>10. Deterministic' => (InTheOpen' => TrueFinding(c)')
      <3> SUFFICES ASSUME Deterministic', InTheOpen' PROVE TrueFinding(c)'
        OBVIOUS
      <3>1. Deterministic /\ rows = AsItIs(c, some)
        BY <2>3
      <3>2. \A u \in targets : u.job \in some \/ Sound(c, u.job)
        <4>1. InTheOpen
          BY <1>1, StillInTheOpen
        <4>2. c \in Candidate
          BY <1>1, <1>2 DEF CallShape, ProbeType
        <4> QED
          BY <1>1, <1>2, <2>1, <2>2, <3>1, <4>1, <4>2, TracedJobsRun DEF Aimed
      <3>3. ASSUME rows = {}, NEW u \in targets PROVE ~Fails(u, c)
        <4>1. u \in Unit
          BY <1>2 DEF CallShape, OriginType, WindowType
        <4>2. u.job \in some => Shown(c, u.job) = {}
          BY <3>1, <3>3 DEF AsItIs
        <4> QED
          BY <3>2, <4>1, <4>2, SoundShowsNothing, SoundDoesNotFail
      <3>4. /\ \A u : Fails(u, c)' <=> Fails(u, c)
            /\ \A s : AsItIs(c, s)' = AsItIs(c, s)
            /\ \A j : Sound(c, j)' <=> Sound(c, j)
        BY <1>1, StillTheSame
      <3>5. found'[c] = "success" => \A u \in targets' : ~Fails(u, c)'
        BY <1>1, <2>7, <2>9, <3>3, <3>4
      <3>6. \E s \in SUBSET Jobs : /\ foundUnits'[c] = AsItIs(c, s)'
                                   /\ \A u \in targets' : u.job \in s \/ Sound(c, u.job)'
        <4>1. foundUnits'[c] = AsItIs(c, some)'
          BY <2>9, <3>1, <3>4
        <4> QED
          BY <1>1, <3>2, <3>4, <4>1
      <3> QED
        BY <3>5, <3>6 DEF TrueFinding
    <2>11. AllSound /\ confirmed # {} /\ rows # {} => flakes' + outages' >= 3
      <3> SUFFICES ASSUME AllSound, confirmed # {}, rows # {} PROVE flakes' + outages' >= 3
        OBVIOUS
      <3>1. c \in 1..head
        BY <1>1, <1>2, ProbedIsLanded DEF Aimed
      <3>2. AsItIs(c, some) = {}
        BY <3>1, SoundRunIsClean
      <3>3. flakes + outages >= 2
        BY <1>2 DEF OddCall
      <3> QED
        BY <2>3, <3>2, <3>3, OddSteps
    <2>12. v = "failure" => rows # {}
      BY <2>7
    <2> QED
      BY <1>1, <2>5, <2>6, <2>7, <2>8, <2>10, <2>11, <2>12, OneFinding
  <1> QED
    BY <1>4, <1>5 DEF Poll

\* The traced units alone decide a candidate, and decide it as the code is,
\* whatever reports of its run are lost.
LEMMA JudgedTruly ==
    ASSUME TrunkType, targets \subseteq Unit, NEW c \in Commits, NEW some \in SUBSET Jobs,
           \A u \in targets : u.job \in some \/ Sound(c, u.job),
           NEW rows, rows = AsItIs(c, some) \/ \E lost \in SUBSET Jobs : rows = Unreported(AsItIs(c, some), lost)
    PROVE  /\ Judged(rows) = "failure" => \E u \in targets : Fails(u, c)
           /\ Judged(rows) = "success" => \A u \in targets : ~Fails(u, c)
  <1>1. AsItIs(c, some) \in SUBSET Unit
    BY AsItIsShows
  <1>2. \A w \in AsItIs(c, some) : w \in rows \/ \E v \in rows : v.kind = "lane" /\ v.job = w.job
    <2>1. CASE rows = AsItIs(c, some)
      BY <2>1
    <2>2. CASE \E lost \in SUBSET Jobs : rows = Unreported(AsItIs(c, some), lost)
      BY <1>1, <2>2, UnreportedRows
    <2> QED
      BY <2>1, <2>2
  <1>3. \A v \in rows : Fails(v, c)
    <2>1. CASE rows = AsItIs(c, some)
      BY <2>1, AsItIsShows, ShownFails
    <2>2. CASE \E lost \in SUBSET Jobs : rows = Unreported(AsItIs(c, some), lost)
      BY <2>2, UnreportedFails
    <2> QED
      BY <2>1, <2>2
  <1>4. ASSUME Judged(rows) = "failure" PROVE \E u \in targets : Fails(u, c)
    BY <1>3, <1>4 DEF Judged
  <1>5. ASSUME Judged(rows) = "success", NEW u \in targets, Fails(u, c) PROVE FALSE
    <2>1. rows \cap targets = {} /\ ~Hidden(rows)
      BY <1>5 DEF Judged
    <2>2. u \in Unit /\ u.job \in some
      BY <1>5, SoundDoesNotFail
    <2>3. PICK w \in Shown(c, u.job) : w = u \/ w.kind = "lane" \/ u.kind = "lane"
      BY <1>5, <2>2, FailureIsShown
    <2>4. w \in AsItIs(c, some) /\ w.job = u.job
      BY <2>2, <2>3, AsItIsShows, ShownAreUnits
    <2>5. w \notin rows
      <3>1. ASSUME w \in rows PROVE FALSE
        <4>1. w # u
          BY <2>1, <3>1
        <4>2. u.kind = "lane" \/ w.kind = "lane"
          BY <2>3, <4>1
        <4>3. u.kind = "test" => w.kind = "lane"
          BY <4>2
        <4>4. Hidden(rows)
          BY <2>4, <3>1, <4>3 DEF Hidden
        <4> QED
          BY <2>1, <4>4
      <3> QED
        BY <3>1
    <2>6. PICK v \in rows : v.kind = "lane" /\ v.job = u.job
      BY <1>2, <2>4, <2>5
    <2>7. Hidden(rows)
      BY <2>6 DEF Hidden
    <2> QED
      BY <2>1, <2>7
  <1> QED
    BY <1>4, <1>5

\* The judgment names the oldest candidate that is not a success, and that one
\* broke what it fails of: the commit before it is a success or the baseline.
LEMMA BlameKeeps ==
    ASSUME WorldInv, CallInv, Still, Grown, Remember, pc = "judge", NEW judged, Blame(judged),
           UNCHANGED <<mode, laneInput, red, units, prev, confirmed, walk, targets, lanes, base,
                       next, waiting, unread, found, foundUnits>>,
           \A c \in Candidate : judged[c] = "failure" => foundUnits[c] # {},
           Deterministic => (InTheOpen => \A c \in Candidate :
               /\ judged[c] = "failure" => \E u \in targets : Fails(u, c)
               /\ judged[c] = "success" => \A u \in targets : ~Fails(u, c))
    PROVE  CallInv'
  <1>1. CallShape /\ TrueCall /\ UNCHANGED head
    BY DEF CallInv, Still
  <1>2. PICK bad : bad = {c \in Candidate : judged[c] # "success"}
    OBVIOUS
  <1>3. CASE End("passed")
    BY <1>3, EndIs, EndKeeps
  <1>4. CASE End("window")
    BY <1>4, WindowKeeps DEF End
  <1>5. CASE \E c \in bad : Oldest(c, bad) /\ judged[c] = "failure" /\ Name(c)
    <2>1. PICK c \in bad : Oldest(c, bad) /\ judged[c] = "failure" /\ Name(c)
      BY <1>5
    <2>2. pc' = "done" /\ verdict' = "culprit" /\ culprit' = c
      BY <2>1 DEF Name
    <2>3. base \in 1..red - 1 /\ red \in 1..MaxCommit /\ confirmed # {} /\ targets \subseteq confirmed /\ targets \subseteq Unit
      BY <1>1, RedIsACommit DEF CallShape, OriginType, WindowType, Tracing, Based, Aimed, Commits
    <2>4. base \in Nat /\ red \in Nat /\ MaxCommit \in Nat
      BY <2>3, BoundsAreNaturals
    <2>5. c \in base + 1..red
      BY <1>2, <2>1 DEF Candidate
    <2>6. c \in Commits /\ c \in 0..MaxCommit /\ (c = base + 1 => c - 1 = base) /\ (c # base + 1 => c - 1 \in base + 1..red)
      BY <2>3, <2>4, <2>5 DEF Commits
    <2>7. foundUnits[c] # {}
      BY <2>1, <2>5 DEF Candidate
    <2>8. CallShape'
      BY <1>1, <2>2, <2>3, <2>6, <2>7 DEF CallShape, OriginType, WindowType, ProbeType, Candidate, Steps, Verdicts,
              JobsOf, Aimed, Based, Tracing, Probing
    <2>9. TrueCall' /\ OddCall'
      BY <2>2, FindingsStand DEF CallInv, Aimed
    <2>10. standing' = {}
      BY <2>2 DEF Remember
    <2>11. StandingIsListed' /\ NarrowestWindow' /\ WindowHoldsTheBreak'
      BY <2>2, <2>10 DEF StandingIsListed, NarrowestWindow, WindowHoldsTheBreak
    <2>12. CulpritIntroducedIt'
      <3> SUFFICES ASSUME InTheOpen', Deterministic'
                   PROVE  \E u \in confirmed : Fails(u, culprit)' /\ ~Fails(u, culprit - 1)'
        BY DEF CulpritIntroducedIt
      <3>1. Deterministic /\ InTheOpen
        BY WasDeterministic, StillInTheOpen DEF Grown
      <3>2. PICK u \in targets : Fails(u, c)
        BY <2>1, <2>5, <3>1 DEF Candidate
      <3>3. ~Fails(u, c - 1)
        <4>1. CASE c = base + 1
          <5>1. c - 1 = base
            BY <2>6, <4>1
          <5>2. ~Fails(u, base)
            BY <1>1, <3>1, <3>2 DEF TrueCall, Aimed
          <5> QED
            BY <5>1, <5>2
        <4>2. CASE c # base + 1
          <5>1. c - 1 \in Candidate
            BY <2>6, <4>2 DEF Candidate
          <5>2. c - 1 \notin bad
            <6>1. ~(c <= c - 1)
              BY <2>4, <2>5
            <6> QED
              BY <2>1, <6>1 DEF Oldest
          <5>3. judged[c - 1] = "success"
            BY <1>2, <5>1, <5>2
          <5> QED
            BY <3>1, <3>2, <5>1, <5>3
        <4> QED
          BY <4>1, <4>2
      <3>4. /\ Fails(u, culprit)' <=> Fails(u, culprit')
            /\ Fails(u, culprit - 1)' <=> Fails(u, culprit' - 1)
        BY DEF Fails, Still
      <3>5. u \in confirmed'
        BY <2>3, <3>2
      <3> QED
        BY <2>2, <3>2, <3>3, <3>4, <3>5
    <2> QED
      BY <2>8, <2>9, <2>11, <2>12 DEF CallInv
  <1> QED
    BY <1>2, <1>3, <1>4, <1>5 DEF Blame

\* What a candidate that failed is judged on: its rows, or what is left of them.
LEMMA RowsJudgedTruly ==
    ASSUME WorldInv, CallInv, pc = "judge", Deterministic, InTheOpen,
           NEW c \in Commits, found[c] = "failure", NEW rows,
           rows = foundUnits[c] \/ \E lost \in SUBSET Jobs : rows = Unreported(foundUnits[c], lost)
    PROVE  /\ Judged(rows) = "failure" => \E u \in targets : Fails(u, c)
           /\ Judged(rows) = "success" => \A u \in targets : ~Fails(u, c)
  <1>1. PICK some \in SUBSET Jobs : /\ foundUnits[c] = AsItIs(c, some)
                                    /\ \A u \in targets : u.job \in some \/ Sound(c, u.job)
    BY DEF CallInv, TrueCall, TrueFinding
  <1>2. TrunkType /\ targets \subseteq Unit
    BY DEF WorldInv, CallInv, CallShape, OriginType, WindowType
  <1>3. rows = AsItIs(c, some) \/ \E lost \in SUBSET Jobs : rows = Unreported(AsItIs(c, some), lost)
    BY <1>1
  <1> QED
    BY <1>1, <1>2, <1>3, JudgedTruly

\* The candidates are judged.
LEMMA JudgeKeeps ==
    ASSUME WorldInv, CallInv, Remember, Judge
    PROVE  WorldInv' /\ CallInv'
  <1>1. /\ Still /\ pc = "judge"
        /\ UNCHANGED <<mode, laneInput, red, units, prev, confirmed, walk, targets, lanes, base,
                       next, waiting, unread, found, foundUnits>>
    BY DEF Judge, Still, World, trunk, history, inputs, origin, window, probes
  <1>2. CallShape
    BY DEF CallInv
  <1>3. Candidate \subseteq Commits
    <2>1. base \in 1..red - 1 /\ red \in 1..MaxCommit
      BY <1>1, <1>2, RedIsACommit DEF CallShape, Based, Aimed, Commits
    <2> QED
      BY <2>1, BoundsAreNaturals DEF Candidate, Commits
  <1>4. Deterministic => \A c \in Commits : InTheOpen =>
            (found[c] = "success" => \A u \in targets : ~Fails(u, c))
    BY DEF CallInv, TrueCall, TrueFinding
  <1>5. \A c \in Commits : found[c] = "failure" => foundUnits[c] # {}
    BY <1>2 DEF CallShape
  <1>6. CASE /\ Blame([c \in Commits |-> IF found[c] = "failure" THEN Judged(foundUnits[c]) ELSE found[c]])
             /\ UNCHANGED Bounds
    <2>1. PICK judged : judged = [c \in Commits |-> IF found[c] = "failure" THEN Judged(foundUnits[c]) ELSE found[c]]
      OBVIOUS
    <2>2. Blame(judged)
      BY <1>6, <2>1
    <2>3. WorldInv' /\ Grown
      BY <1>1, <1>6, WorldIsKept
    <2>4. \A c \in Candidate : judged[c] = "failure" => foundUnits[c] # {}
      BY <1>3, <1>5, <2>1
    <2>5. ASSUME Deterministic, InTheOpen, NEW c \in Candidate
          PROVE  /\ judged[c] = "failure" => \E u \in targets : Fails(u, c)
                 /\ judged[c] = "success" => \A u \in targets : ~Fails(u, c)
      <3>1. CASE found[c] = "failure"
        <4>1. c \in Commits /\ judged[c] = Judged(foundUnits[c])
          BY <1>3, <2>1, <3>1
        <4>2. PICK rows : rows = foundUnits[c]
          OBVIOUS
        <4>3. /\ Judged(rows) = "failure" => \E u \in targets : Fails(u, c)
              /\ Judged(rows) = "success" => \A u \in targets : ~Fails(u, c)
          BY <1>1, <2>5, <3>1, <4>1, <4>2, RowsJudgedTruly
        <4> QED
          BY <4>1, <4>2, <4>3
      <3>2. CASE found[c] # "failure"
        BY <1>3, <1>4, <2>1, <2>5, <3>2
      <3> QED
        BY <3>1, <3>2
    <2> QED
      BY <1>1, <2>2, <2>3, <2>4, <2>5, BlameKeeps
  <1>7. CASE Fault /\ Misread
    <2>1. PICK c \in FailedCandidates, as \in Conclusions :
            /\ \/ as = "inconclusive"
               \/ \E lost \in SUBSET Jobs : as = Judged(Unreported(foundUnits[c], lost))
            /\ Blame([d \in Commits |->
                  IF d = c THEN as ELSE IF found[d] = "failure" THEN Judged(foundUnits[d]) ELSE found[d]])
      BY <1>7 DEF Misread
    <2>2. PICK judged : judged = [d \in Commits |->
                  IF d = c THEN as ELSE IF found[d] = "failure" THEN Judged(foundUnits[d]) ELSE found[d]]
      OBVIOUS
    <2>3. Blame(judged)
      BY <2>1, <2>2
    <2>4. WorldInv' /\ Grown
      BY <1>1, <1>7, WorldIsKept
    <2>5. c \in Commits /\ found[c] = "failure"
      BY <2>1 DEF FailedCandidates
    <2>6. \A d \in Candidate : judged[d] = "failure" => foundUnits[d] # {}
      BY <1>3, <1>5, <2>2, <2>5
    <2>7. ASSUME Deterministic, InTheOpen, NEW d \in Candidate
          PROVE  /\ judged[d] = "failure" => \E u \in targets : Fails(u, d)
                 /\ judged[d] = "success" => \A u \in targets : ~Fails(u, d)
      <3>1. CASE d = c
        <4>1. judged[d] = as
          BY <1>3, <2>2, <3>1
        <4>2. CASE as = "inconclusive"
          BY <4>1, <4>2
        <4>3. CASE \E lost \in SUBSET Jobs : as = Judged(Unreported(foundUnits[c], lost))
          <5>1. PICK lost \in SUBSET Jobs : as = Judged(Unreported(foundUnits[c], lost))
            BY <4>3
          <5>2. PICK rows : rows = Unreported(foundUnits[c], lost)
            OBVIOUS
          <5>3. rows = foundUnits[c] \/ \E some \in SUBSET Jobs : rows = Unreported(foundUnits[c], some)
            BY <5>2
          <5>4. /\ Judged(rows) = "failure" => \E u \in targets : Fails(u, c)
                /\ Judged(rows) = "success" => \A u \in targets : ~Fails(u, c)
            BY <1>1, <2>5, <2>7, <5>3, RowsJudgedTruly
          <5> QED
            BY <3>1, <4>1, <5>1, <5>2, <5>4
        <4> QED
          BY <2>1, <4>2, <4>3
      <3>2. CASE d # c /\ found[d] = "failure"
        <4>1. d \in Commits /\ judged[d] = Judged(foundUnits[d])
          BY <1>3, <2>2, <3>2
        <4>2. PICK rows : rows = foundUnits[d]
          OBVIOUS
        <4>3. /\ Judged(rows) = "failure" => \E u \in targets : Fails(u, d)
              /\ Judged(rows) = "success" => \A u \in targets : ~Fails(u, d)
          BY <1>1, <2>7, <3>2, <4>1, <4>2, RowsJudgedTruly
        <4> QED
          BY <4>1, <4>2, <4>3
      <3>3. CASE d # c /\ found[d] # "failure"
        BY <1>3, <1>4, <2>2, <2>7, <3>3
      <3> QED
        BY <3>1, <3>2, <3>3
    <2> QED
      BY <1>1, <2>3, <2>4, <2>6, <2>7, BlameKeeps
  <1> QED
    BY <1>6, <1>7 DEF Judge

-----------------------------------------------------------------------------
(* Commits land and runs end while the call goes on.                       *)

\* The call itself does not move.
CallUnmoved ==
    UNCHANGED <<pc, verdict, culprit, mode, laneInput, red, units, prev, confirmed, walk, targets, lanes, base,
                next, waiting, unread, found, foundUnits>>

\* A run that still stands clears what it cleared.
LEMMA StandingClears ==
    ASSUME Grown, NEW r \in Commits, Completed(r), Completed(r)', NEW u, Clears(u, r)'
    PROVE  Clears(u, r)
  <1>1. ran'[r] = ran[r] /\ failing'[r] = failing[r]
    BY DEF Grown
  <1> QED
    BY <1>1 DEF Clears, OfJob

\* What the call knows stays true.
LEMMA CallStays ==
    ASSUME WorldInv, CallInv, Remember, Grown, pc # "done", CallUnmoved
    PROVE  CallInv'
  <1>1. CallShape /\ TrueCall /\ OddCall /\ StandingIsListed /\ NarrowestWindow /\ verdict' = "none"
    BY DEF CallInv, CallShape, CallUnmoved
  <1>2. head \in Nat /\ head' \in Nat /\ head <= head'
    BY DEF Grown
  <1>3. WindowHoldsTheBreak' /\ CulpritIntroducedIt'
    BY <1>1, NobodyIsNamed
  <1>4. \A c \in 1..head : c \in 1..head'
    BY <1>2
  <1>5. CallShape'
    BY <1>1, <1>4 DEF CallUnmoved, CallShape, OriginType, WindowType, ProbeType, Candidate, Steps, Verdicts,
              JobsOf, Aimed, Based, Tracing, Probing
  <1>6. \A c \in 1..head : /\ \A u : Fails(u, c)' <=> Fails(u, c)
                           /\ \A some : AsItIs(c, some)' = AsItIs(c, some)
                           /\ \A j : Sound(c, j)' <=> Sound(c, j)
    BY SameTruth DEF Grown
  <1>7. TrueCall'
    <2> SUFFICES ASSUME Deterministic'
                 PROVE  /\ \A u \in units : Fails(u, red)'
                        /\ pc \in {"list", "walk"} => \A j \in Jobs : Sound(base, j)'
                        /\ pc \in Aimed => \A u \in targets : ~Fails(u, base)'
                        /\ InTheOpen' => \A c \in Commits : TrueFinding(c)'
      BY DEF TrueCall, CallUnmoved
    <2>1. Deterministic
      BY WasDeterministic DEF Grown
    <2>2. ASSUME NEW u \in units PROVE Fails(u, red)'
      <3>1. red \in 1..head
        BY <1>1 DEF CallShape
      <3>2. Fails(u, red)
        BY <1>1, <2>1 DEF TrueCall
      <3>3. build'[red] = build[red] /\ broken'[red] = broken[red]
        BY <3>1 DEF Grown
      <3> QED
        BY <3>2, <3>3 DEF Fails, CallUnmoved
    <2>3. pc \in Based => base \in 1..head
      <3>1. pc \in Based => base \in 1..red - 1 /\ red \in 1..head
        BY <1>1 DEF CallShape, Based, Aimed
      <3> QED
        BY <1>2, <3>1
    <2>4. ASSUME pc \in Based
          PROVE  build'[base'] = build[base] /\ broken'[base'] = broken[base]
      BY <2>3, <2>4 DEF Grown, CallUnmoved
    <2>5. pc \in {"list", "walk"} => \A j \in Jobs : Sound(base, j)'
      BY <1>1, <2>1, <2>4 DEF TrueCall, Based, Sound
    <2>6. pc \in Aimed => \A u \in targets : ~Fails(u, base)'
      BY <1>1, <2>1, <2>4 DEF TrueCall, Based, Fails
    <2>7. ASSUME InTheOpen', NEW c \in Commits PROVE TrueFinding(c)'
      <3>1. TrueFinding(c)
        <4>1. targets # {} => Candidate \subseteq 1..head
          <5>1. targets # {} => pc \in Aimed
            BY <1>1 DEF CallShape
          <5>2. targets # {} => base \in 1..red - 1 /\ red \in 1..head
            BY <1>1, <5>1 DEF CallShape, Based, Aimed
          <5> QED
            BY <1>2, <5>2 DEF Candidate
        <4>2. InTheOpen
          BY <1>6, <2>7, <4>1 DEF InTheOpen, Candidate, CallUnmoved
        <4> QED
          BY <1>1, <2>1, <4>2 DEF TrueCall
      <3>2. CASE found[c] = "none"
        BY <3>2 DEF TrueFinding, CallUnmoved
      <3>3. CASE found[c] # "none"
        <4>1. c \in 1..head
          BY <1>1, <3>3 DEF CallShape
        <4> QED
          BY <1>6, <3>1, <4>1 DEF TrueFinding, CallUnmoved
      <3> QED
        BY <3>2, <3>3
    <2> QED
      BY <2>2, <2>5, <2>6, <2>7
  <1>8. OddCall'
    <2> SUFFICES ASSUME AllSound'
                 PROVE  /\ units # {} =>
                              /\ flakes' + outages' >= 1
                              /\ \A s \in Commits : s # red /\ failing'[s] # {} => flakes' + outages' >= 2
                        /\ confirmed # {} =>
                              /\ flakes' + outages' >= 2
                              /\ \A c \in Commits : foundUnits[c] # {} => flakes' + outages' >= 3
      BY DEF OddCall, CallUnmoved
    <2>1. AllSound
      BY <1>2, WasSound DEF Grown
    <2>2. /\ flakes + outages >= 1 => flakes' + outages' >= 1
          /\ flakes + outages >= 2 => flakes' + outages' >= 2
          /\ flakes + outages >= 3 => flakes' + outages' >= 3
      BY OddGrows DEF Grown
    <2>3. ASSUME units # {}, NEW s \in Commits, s # red, failing'[s] # {} PROVE flakes' + outages' >= 2
      <3>1. CASE failing[s] # {}
        BY <1>1, <2>1, <2>2, <2>3, <3>1 DEF OddCall
      <3>2. CASE failing[s] = {}
        <4>1. flakes' + outages' >= flakes + outages + 1
          BY <2>3, <3>2 DEF Grown
        <4>2. flakes + outages >= 1
          BY <1>1, <2>1, <2>3 DEF OddCall
        <4>3. OddCounts
          BY DEF Grown
        <4> QED
          BY <4>1, <4>2, <4>3, OddSteps
      <3> QED
        BY <3>1, <3>2
    <2> QED
      BY <1>1, <2>1, <2>2, <2>3 DEF OddCall
  <1>9. \/ standing' = {}
        \/ pc \in {"walk", "candidates"} /\ standing' = {r \in standing : Completed(r)'}
    BY DEF Remember, CallUnmoved
  <1>10. \A r \in standing' : /\ r \in standing /\ r \in Commits /\ Completed(r)'
                              /\ \A u : Clears(u, r)' => Clears(u, r)
    <2> SUFFICES ASSUME NEW r \in standing'
                 PROVE  r \in standing /\ r \in Commits /\ Completed(r)' /\ \A u : Clears(u, r)' => Clears(u, r)
      OBVIOUS
    <2>1. r \in standing /\ Completed(r)' /\ pc \in {"walk", "candidates"}
      BY <1>9
    <2>2. r \in Commits /\ Completed(r)
      BY <1>1, <2>1 DEF StandingIsListed
    <2> QED
      BY <2>1, <2>2, StandingClears
  <1>11. faults' = 0 => faults = 0
    BY DEF Grown
  <1>12. StandingIsListed'
    <2>1. standing' \subseteq Commits /\ \A r \in standing' : Completed(r)'
      BY <1>10
    <2>2. ASSUME pc = "walk", faults' = 0, NEW r \in standing', \E u \in confirmed : Clears(u, r)', red - r <= WalkRuns
          PROVE  r \in walk
      BY <1>1, <1>10, <1>11, <2>2 DEF StandingIsListed
    <2> QED
      BY <2>1, <2>2 DEF StandingIsListed, CallUnmoved
  <1>13. NarrowestWindow'
    <2>1. ASSUME pc = "candidates", faults' = 0, NEW r \in standing', \E u \in confirmed : Clears(u, r)', red - r <= WalkRuns
          PROVE  base >= r
      BY <1>1, <1>10, <1>11, <2>1 DEF NarrowestWindow
    <2> QED
      BY <2>1 DEF NarrowestWindow, CallUnmoved
  <1> QED
    BY <1>3, <1>5, <1>7, <1>8, <1>12, <1>13 DEF CallInv

\* A step of the trunk or of its runs.
LEMMA ForgeKeeps ==
    ASSUME WorldInv, CallInv, Remember, Forge
    PROVE  WorldInv' /\ CallInv'
  <1>1. pc # "done" /\ CallUnmoved
    BY DEF Forge, Land, Supersede, Finish, Rerun, call, CallUnmoved, inputs, origin, window, probes, outcome
  <1>2. WorldInv' /\ Grown
    BY LandKeeps, FinishKeeps, ResultKeeps DEF Forge
  <1> QED
    BY <1>1, <1>2, CallStays

-----------------------------------------------------------------------------
(* The theorems.                                                           *)

\* Everything holds of a call that has not begun on a trunk of one sound commit.
LEMMA InitHolds ==
    ASSUME Init
    PROVE  WorldInv /\ CallInv
  <1>1. MaxCommit \in Nat \ {0} /\ 1 \in Commits /\ head = 1
    BY BoundsAreNaturals DEF Init, Commits
  <1>2. TrunkType /\ HistoryType /\ CountType
    BY <1>1, BoundsAreNaturals DEF Init, TrunkType, HistoryType, CountType, Results
  <1>3. FutureIsEmpty
    BY <1>1 DEF Init, FutureIsEmpty
  <1>4. \A j \in Jobs : Sound(1, j)
    BY <1>1 DEF Init, Sound
  <1>5. AsItIs(1, Jobs) = {}
    BY <1>4, SoundShowsNothing DEF AsItIs
  <1>6. TrueHistory
    BY <1>1, <1>4, <1>5 DEF Init, TrueHistory
  <1>7. OddHistory
    BY DEF Init, OddHistory
  <1>8. CallShape
    BY <1>1, BoundsAreNaturals DEF Init, CallShape, OriginType, WindowType, ProbeType, Candidate, Steps, Verdicts,
              JobsOf, Aimed, Based, Tracing, Probing, NoRun, NoBase, Conclusions
  <1>9. TrueCall /\ OddCall
    BY DEF Init, TrueCall, OddCall, TrueFinding, Aimed
  <1>10. StandingIsListed /\ NarrowestWindow /\ WindowHoldsTheBreak /\ CulpritIntroducedIt
    BY DEF Init, StandingIsListed, NarrowestWindow, WindowHoldsTheBreak, CulpritIntroducedIt
  <1> QED
    BY <1>2, <1>3, <1>6, <1>7, <1>8, <1>9, <1>10 DEF WorldInv, CallInv

\* A step in which nothing moves keeps everything.
LEMMA StutterKeeps ==
    ASSUME WorldInv, CallInv, UNCHANGED vars
    PROVE  WorldInv' /\ CallInv'
  <1>1. /\ UNCHANGED <<head, build, broken, result, ran, failing, reruns, flakes, outages, faults, standing>>
        /\ UNCHANGED <<pc, verdict, culprit, mode, laneInput, red, units, prev, confirmed, walk, targets, lanes, base,
                       next, waiting, unread, found, foundUnits>>
    BY DEF vars, trunk, history, inputs, origin, window, probes, outcome
  <1>2. Still /\ UNCHANGED Bounds
    BY <1>1 DEF Still, Bounds
  <1>3. WorldInv' /\ Grown
    BY <1>2, WorldIsKept
  <1>4. CallShape'
    BY <1>1 DEF CallInv, CallShape, OriginType, WindowType, ProbeType, Candidate, Steps, Verdicts,
              JobsOf, Aimed, Based, Tracing, Probing
  <1>5. TrueCall' /\ OddCall'
    BY <1>1, <1>2, <1>3, FindingsStand DEF CallInv
  <1>6. StandingIsListed' /\ NarrowestWindow'
    BY <1>1, <1>2, StillTheSame DEF CallInv, StandingIsListed, NarrowestWindow
  <1>7. WindowHoldsTheBreak' /\ CulpritIntroducedIt'
    <2>1. \A u : /\ Fails(u, culprit)' <=> Fails(u, culprit)
                 /\ Fails(u, culprit - 1)' <=> Fails(u, culprit - 1)
      BY <1>1 DEF Fails
    <2>2. \A u, c : Fails(u, c)' <=> Fails(u, c)
      BY <1>2, StillTheSame
    <2> QED
      BY <1>1, <1>2, <2>1, <2>2, StillInTheOpen
         DEF CallInv, WindowHoldsTheBreak, CulpritIntroducedIt, Deterministic, Candidate
  <1> QED
    BY <1>3, <1>4, <1>5, <1>6, <1>7 DEF CallInv

\* Every step keeps the inductive invariant.
LEMMA NextKeeps ==
    ASSUME WorldInv, CallInv, [Next]_vars
    PROVE  WorldInv' /\ CallInv'
  <1>1. CASE Forge /\ Remember
    BY <1>1, ForgeKeeps
  <1>2. CASE (\E r \in Commits : Take(r)) /\ Remember
    BY <1>2, TakeKeeps
  <1>3. CASE Handler /\ Remember
    BY <1>3, ReadUnitsKeeps, ClassifyKeeps, FindPreviousKeeps, ReadPreviousKeeps, FindBaseKeeps, ListKeeps,
       WalkKeeps, CandidatesKeeps, DispatchKeeps, DeadlineKeeps, ClassifyCandidatesKeeps, JudgeKeeps DEF Handler
  <1>4. CASE Polls /\ Remember
    BY <1>4, PollKeeps, StatusKeeps DEF Polls
  <1>5. CASE Failure /\ Remember
    BY <1>5, WalkFailsKeeps, DispatchFailsKeeps, StatusKeeps DEF Failure
  <1>6. CASE UNCHANGED vars
    BY <1>6, StutterKeeps
  <1> QED
    BY <1>1, <1>2, <1>3, <1>4, <1>5, <1>6 DEF Next

\* The inductive invariant, whatever the trunk does and however its runs end.
THEOREM TraceInvariant == Spec => []IInv
  <1>1. Init => WorldInv /\ CallInv
    BY InitHolds
  <1>2. (WorldInv /\ CallInv) /\ [Next]_vars => (WorldInv /\ CallInv)'
    BY NextKeeps
  <1>3. WorldInv /\ CallInv => IInv
    BY DEF CallInv, IInv
  <1> QED
    BY <1>1, <1>2, <1>3, PTL DEF Spec

\* The window of a call is typed, holds the commit that broke a confirmed unit
\* when it is reverted as one, and begins at no older run than one that stood
\* through the walk and clears a unit (window.py find_window).
THEOREM WindowIsRight == Spec => []WindowInv
  <1>1. IInv => WindowInv
    BY DEF IInv, WorldInv, CallShape, StandingIsListed, WindowInv, TypeOK
  <1> QED
    BY <1>1, TraceInvariant, PTL

\* Where nothing flakes or stands in the way of the traced jobs, the commit that
\* culprit.py names is the one that broke a unit which failed on both runs.  Jobs
\* may be left out, cut short and cancelled, and reports be lost.
THEOREM CulpritIsGuilty == Spec => []CulpritIntroducedIt
  <1>1. IInv => CulpritIntroducedIt
    BY DEF IInv
  <1> QED
    BY <1>1, TraceInvariant, PTL

\* On a sound trunk one odd run reverts nothing, and two name no commit.
THEOREM OddRunsAreForgiven == Spec => []OneOddRunRevertsNothing
  <1>1. IInv => OneOddRunRevertsNothing
    <2> SUFFICES ASSUME IInv, AllSound
                 PROVE  /\ flakes + outages <= 1 => ~Reverts
                        /\ flakes + outages <= 2 => verdict # "culprit"
      BY DEF OneOddRunRevertsNothing, AllSound
    <2>1. flakes \in Nat /\ outages \in Nat
      BY CountersAreNaturals DEF IInv, WorldInv
    <2>2. verdict \in {"window", "culprit"} => flakes + outages >= 2
      BY DEF IInv, CallShape, OddCall
    <2>3. verdict = "culprit" => flakes + outages >= 3
      BY DEF IInv, CallShape, OddCall
    <2> QED
      BY <2>1, <2>2, <2>3 DEF Reverts
  <1> QED
    BY <1>1, TraceInvariant, PTL
=============================================================================
