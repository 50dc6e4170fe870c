------------------------------ MODULE RunStore ------------------------------
(***************************************************************************)
(* The run-store action hands a bundle from the producer jobs of a run to  *)
(* its readers through the entries of a build cache.  One key of one run   *)
(* is modelled: the attempts that put it, at the same time or one after    *)
(* another, and the readers that get it.  A bundle is cut into parts, each *)
(* an entry of its own; the root entry, a manifest that names the parts,   *)
(* is written last.                                                        *)
(*                                                                         *)
(* An entry is immutable when it is retained or written from a protected   *)
(* event; any other entry is replaced.  A retained entry lives to its      *)
(* deadline, a cache entry may be evicted at any moment.  Any request can  *)
(* meet an outage, be refused, or store its entry and lose the answer; the *)
(* job can be cancelled between any two requests.                          *)
(***************************************************************************)
EXTENDS Naturals, Sequences, FiniteSets

CONSTANTS
    Attempts,    \* the attempts to put the key
    Readers,     \* the jobs that get it
    Builds,      \* what an attempt can have built
    Base,        \* the build other builds can share leading parts with
    Common,      \* Common[b]: how many leading parts build b shares with Base
    MaxParts,    \* the parts a bundle is cut into at most
    PartCounts,  \* how many parts a bundle can have, 0 when it is not cut
    Days,        \* the retention an attempt can ask for
    Scenarios,   \* the event, the size and the attempts a run can have
    MaxTime,     \* bound: the last day of the clock
    Shared,      \* the generation in the names of entries no attempt owns
    NoBuild      \* no bundle

ASSUME ConstantsAssumption ==
    /\ Base \in Builds
    /\ Common \in [Builds -> Nat] /\ MaxTime \in Nat
    /\ MaxParts \in Nat /\ PartCounts \subseteq 0 .. MaxParts /\ Days \subseteq Nat \ {0}
    /\ Scenarios \subseteq [scope : {"protected", "dev"}, parts : PartCounts,
                           job : [Attempts -> [policy : {"retained", "cache"},
                                               build : Builds, days : Days]]]
    /\ Shared \notin Attempts
    /\ NoBuild \notin Builds

VARIABLES
    scope,  \* "protected" or "dev", by the event of the run
    parts,  \* the parts of a bundle
    job,    \* job[a]: the policy, build and days of attempt a
    now,    \* the day
    store,  \* store[s]: the entry under the name s
    put,    \* put[a]: how far attempt a is
    get     \* get[r]: how far reader r is

vars == <<scope, parts, job, now, store, put, get>>

-----------------------------------------------------------------------------
(* Entries and their names.                                                *)

Policies == {"retained", "cache"}
Gens == Attempts \cup {Shared}

\* A name is the namespace of the policy, a generation and an index: the root
\* has index 0.  Retained parts carry the generation of their attempt.
Slots == Policies \X Gens \X (0 .. MaxParts)
Root(p) == <<p, Shared, 0>>
\* Mutant: retained parts are named like those of the cache.
SharedGeneration(a) == Shared
Generation(a) == IF job[a].policy = "retained" THEN a ELSE Shared
Piece(p, g, i) == <<p, g, i>>

\* The bytes of part i of build b: a difference leaves the parts before it equal.
Body(b, i) == IF i <= Common[b] THEN Base ELSE b

Entries == [body : Builds \cup {NoBuild}, gen : Gens, days : Nat, until : Nat]
NoEntry == [body |-> NoBuild, gen |-> Shared, days |-> 0, until |-> 0]
Live(s) == store[s].until > now

\* What a reader of the namespace would assemble at this moment.
Readable(p) ==
    LET root == store[Root(p)]
    IN  /\ Live(Root(p))
        /\ \A i \in 1 .. parts :
              /\ Live(Piece(p, root.gen, i))
              /\ store[Piece(p, root.gen, i)].body = Body(root.body, i)

-----------------------------------------------------------------------------
(* put.                                                                    *)

Retained(a) == job[a].policy = "retained"
Immutable(a) == Retained(a) \/ scope = "protected"
IsPart(a) == put[a].at <= parts
Target(a) == IF IsPart(a)
             THEN Piece(job[a].policy, Generation(a), put[a].at)
             ELSE Root(job[a].policy)

Active == {"check", "put", "compare", "readback", "existing", "verify"}
Acknowledged == {"done", "kept"}
Attempt(pc) == [pc |-> pc, at |-> 1, earliest |-> 0, told |-> 0, seen |-> NoEntry]
Move(a, pc) == put' = [put EXCEPT ![a].pc = pc]
\* The attempt ends, with the deadline it tells its job, 0 for none.
End(a, pc, told) == put' = [put EXCEPT ![a] = [Attempt(pc) EXCEPT !.told = told]]
OnlyPut == UNCHANGED <<scope, parts, job, now, store, get>>

\* The attempt has its token and its packed bundle.  A root is looked for
\* before the parts of a bundle are touched, and before any retained put.
Begin(a) ==
    /\ put[a].pc = "idle"
    /\ Move(a, IF parts > 0 \/ Retained(a) THEN "check" ELSE "put")
    /\ OnlyPut

CheckRoot(a) ==
    /\ put[a].pc = "check"
    /\ IF Live(Root(job[a].policy)) /\ Immutable(a)
       THEN IF Retained(a) THEN Move(a, "existing") ELSE End(a, "kept", 0)
       ELSE Move(a, "put")
    /\ OnlyPut

\* Parts live a day longer than the root asks for.  A cache entry may go at any
\* moment, so its seven days are no bound of its own.
RequestedDays(a) == IF IsPart(a) THEN job[a].days + 1 ELSE job[a].days

\* Mutant: the deadline of the parts is not sent with the root.
NoCeiling(a) == TRUE
\* The gateway refuses a root that would live past the parts seen by the put.
WithinCeiling(a) ==
    ~Retained(a) \/ IsPart(a) \/ parts = 0
        \/ now + RequestedDays(a) <= put[a].earliest

\* Mutant: the manifest names its parts by what was built.
PayloadByBuild(a) ==
    [body |-> IF IsPart(a) THEN Body(job[a].build, put[a].at) ELSE job[a].build,
     gen |-> job[a].build,
     days |-> IF Retained(a) THEN RequestedDays(a) ELSE 0,
     until |-> IF Retained(a) THEN now + RequestedDays(a) ELSE MaxTime + 1]
Payload(a) ==
    [body |-> IF IsPart(a) THEN Body(job[a].build, put[a].at) ELSE job[a].build,
     gen |-> Generation(a),
     days |-> IF Retained(a) THEN RequestedDays(a) ELSE 0,
     until |-> IF Retained(a) THEN now + RequestedDays(a) ELSE MaxTime + 1]

Exists(a) == Live(Target(a)) /\ Immutable(a)

\* After its entry is stored the put goes on to read it back; or the answer is
\* lost and the same request is sent again; or no attempt at it is answered.
Answered(a) == Move(a, "readback") \/ Move(a, "put") \/ End(a, "failed", 0)

Store(a) ==
    /\ put[a].pc = "put" /\ ~Exists(a) /\ WithinCeiling(a)
    /\ store' = [store EXCEPT ![Target(a)] = Payload(a)]
    /\ Answered(a)
    /\ UNCHANGED <<scope, parts, job, now, get>>

\* 409: an immutable entry keeps its first bytes.
Conflict(a) ==
    /\ put[a].pc = "put" /\ Exists(a)
    /\ Move(a, IF IsPart(a) THEN "compare"
               ELSE IF Retained(a) THEN "existing" ELSE "readback")
    /\ OnlyPut

\* A part of an earlier attempt counts as this attempt's only if its bytes are.
Compare(a) ==
    /\ put[a].pc = "compare"
    /\ IF ~Live(Target(a)) THEN End(a, "failed", 0)
       ELSE IF store[Target(a)].body = Payload(a).body THEN Move(a, "readback")
       ELSE End(a, "collided", 0)
    /\ OnlyPut

Confirmed(a) ==
    /\ Live(Target(a))
    /\ Retained(a) => store[Target(a)].days >= job[a].days

\* The accepted entry is read back; the retention of a part bounds the root's.
ReadBack(a) ==
    LET until == store[Target(a)].until
    IN  /\ put[a].pc = "readback"
        /\ \/ /\ ~Confirmed(a)
              /\ End(a, "failed", 0)
           \/ /\ Confirmed(a) /\ IsPart(a)
              /\ put' = [put EXCEPT ![a].pc = "put", ![a].at = @ + 1,
                            ![a].earliest = IF @ = 0 \/ until < @ THEN until ELSE @]
           \/ /\ Confirmed(a) /\ ~IsPart(a)
              /\ IF Retained(a) /\ parts > 0 /\ until > put[a].earliest
                 THEN End(a, "failed", 0)
                 ELSE End(a, "done", IF Retained(a) THEN until ELSE 0)
        /\ OnlyPut

\* Mutant: the put tells the deadline it asked for, not the one it found.
ExistingRenewed(a) ==
    LET root == store[Root("retained")]
    IN  /\ put[a].pc = "existing"
        /\ IF ~Live(Root("retained")) THEN End(a, "failed", 0)
           ELSE IF parts = 0 THEN End(a, "kept", now + job[a].days)
           ELSE put' = [put EXCEPT ![a] = [Attempt("verify") EXCEPT !.seen = root]]
        /\ OnlyPut

\* A retained root found in place is acknowledged only if it lives as long as
\* this attempt asks for ...
ExistingRoot(a) ==
    LET root == store[Root("retained")]
    IN  /\ put[a].pc = "existing"
        /\ IF Live(Root("retained")) /\ root.days >= job[a].days
           THEN IF parts = 0
                THEN End(a, "kept", root.until)
                ELSE put' = [put EXCEPT ![a] = [Attempt("verify") EXCEPT !.seen = root]]
           ELSE End(a, "failed", 0)
        /\ OnlyPut

\* ... and every part of it is there, lives as long, and is what it names.
ExistingPart(a) ==
    LET part == Piece("retained", put[a].seen.gen, put[a].at)
        good == /\ Live(part)
                /\ store[part].until >= put[a].seen.until
                /\ store[part].body = Body(put[a].seen.body, put[a].at)
    IN  /\ put[a].pc = "verify"
        /\ IF ~good THEN End(a, "failed", 0)
           ELSE IF put[a].at = parts THEN End(a, "kept", put[a].seen.until)
           ELSE put' = [put EXCEPT ![a].at = @ + 1]
        /\ OnlyPut

\* 503 on a request that tells an outage from a refusal.
PutUnavailable(a) ==
    /\ put[a].pc \in {"check", "put", "readback"}
    /\ End(a, "unavailable", 0)
    /\ OnlyPut

\* Any other refusal, a dropped write, no answer, or the job is cancelled.
PutFails(a) ==
    /\ put[a].pc \in Active \cup {"idle"}
    /\ End(a, "failed", 0)
    /\ OnlyPut

-----------------------------------------------------------------------------
(* get.                                                                    *)

\* Mutant: the reader asks the cache only.
ReaderOfCache(pc, due) ==
    [pc |-> pc, ns |-> "cache", root |-> NoEntry, got |-> <<>>, due |-> due]
Reader(pc, due) ==
    [pc |-> pc, ns |-> "retained", root |-> NoEntry, got |-> <<>>, due |-> due]
OnlyGet == UNCHANGED <<scope, parts, job, now, store, put>>

\* Monitor: the deadlines that retained puts were told when the reader begins.
Promised == {put[a].told : a \in {b \in Attempts : Retained(b) /\ put[b].pc \in Acknowledged}}

Ask(r) ==
    /\ get[r].pc = "idle"
    /\ get' = [get EXCEPT ![r] = Reader("root", Promised)]
    /\ OnlyGet

\* Retained entries first, then the cache; 404 on both is the only miss.
GetRoot(r) ==
    LET root == Root(get[r].ns)
    IN  /\ get[r].pc = "root"
        /\ get' = [get EXCEPT ![r] =
             IF Live(root)
             THEN [@ EXCEPT !.pc = IF parts = 0 THEN "found" ELSE "parts", !.root = store[root]]
             ELSE IF @.ns = "retained" THEN [@ EXCEPT !.ns = "cache"]
             ELSE Reader("miss", @.due)]
        /\ OnlyGet

\* Mutant: the joined bundle is not compared with the manifest.
JoinsUnchecked(root, bodies) == Len(bodies) = parts
\* The size and digest of the manifest hold for the joined parts.
Joins(root, bodies) ==
    \A i \in 1 .. parts : bodies[i] = Body(root.body, i)

GetPart(r) ==
    LET part == Piece(get[r].ns, get[r].root.gen, Len(get[r].got) + 1)
        got == Append(get[r].got, store[part].body)
    IN  /\ get[r].pc = "parts"
        /\ get' = [get EXCEPT ![r] =
             IF ~Live(part) \/ (Len(got) = parts /\ ~Joins(@.root, got))
             THEN Reader("torn", @.due)
             ELSE [@ EXCEPT !.got = got, !.pc = IF Len(got) = parts THEN "found" ELSE "parts"]]
        /\ OnlyGet

\* 503 is told apart from a miss; every other status fails the step.
GetFails(r) ==
    /\ get[r].pc \in {"idle", "root", "parts"}
    /\ \E pc \in {"unavailable", "failed"} : get' = [get EXCEPT ![r] = Reader(pc, {})]
    /\ OnlyGet

-----------------------------------------------------------------------------
(* The store.                                                              *)

Evict(s) ==
    /\ s[1] = "cache" /\ Live(s)
    /\ store' = [store EXCEPT ![s] = NoEntry]
    /\ UNCHANGED <<scope, parts, job, now, put, get>>

Tick ==
    /\ now < MaxTime
    /\ now' = now + 1
    /\ UNCHANGED <<scope, parts, job, store, put, get>>

Init ==
    /\ \E c \in Scenarios : scope = c.scope /\ parts = c.parts /\ job = c.job
    /\ now = 0
    /\ store = [s \in Slots |-> NoEntry]
    /\ put = [a \in Attempts |-> Attempt("idle")]
    /\ get = [r \in Readers |-> Reader("idle", {})]

PutStep(a) ==
    \/ Begin(a) \/ CheckRoot(a) \/ Store(a) \/ Conflict(a) \/ Compare(a) \/ ReadBack(a)
    \/ ExistingRoot(a) \/ ExistingPart(a) \/ PutUnavailable(a) \/ PutFails(a)
GetStep(r) == Ask(r) \/ GetRoot(r) \/ GetPart(r) \/ GetFails(r)

Next ==
    \/ \E a \in Attempts : PutStep(a)
    \/ \E r \in Readers : GetStep(r)
    \/ \E s \in Slots : Evict(s)
    \/ Tick

Spec == Init /\ [][Next]_vars

-----------------------------------------------------------------------------
(* Properties.                                                             *)

TypeOK ==
    /\ scope \in {"protected", "dev"} /\ parts \in PartCounts /\ now \in Nat
    /\ job \in [Attempts -> [policy : Policies, build : Builds, days : Days]]
    /\ store \in [Slots -> Entries]
    /\ put \in [Attempts -> [pc : Active \cup Acknowledged
                                  \cup {"idle", "collided", "failed", "unavailable"},
                             at : Nat, earliest : Nat, told : Nat, seen : Entries]]
    /\ get \in [Readers -> [pc : {"idle", "root", "parts", "found", "miss", "torn",
                                  "failed", "unavailable"},
                            ns : Policies, root : Entries,
                            got : Seq(Builds \cup {NoBuild}), due : SUBSET Nat]]

\* A reader unpacks the bundle one attempt built, never parts of two: not when
\* a mutable key is replaced part by part while it reads, and not after an
\* attempt died between its parts.
NeverAMixture ==
    \A r \in Readers : get[r].pc = "found" /\ parts > 0 =>
        \E a \in Attempts :
            /\ job[a].policy = get[r].ns
            /\ \A i \in 1 .. parts : get[r].got[i] = Body(job[a].build, i)

\* A retained put that is acknowledged, as its own or as an earlier attempt's,
\* can be read until the deadline it was told, whatever other attempts do.
AcknowledgedIsReadable ==
    \A a \in Attempts :
        Retained(a) /\ put[a].pc \in Acknowledged /\ now < put[a].told
            => Readable("retained")

\* A reader that begins after a retained put was acknowledged is not told,
\* before the deadline, that the entry is missing or incomplete.
PromiseIsKept ==
    \A r \in Readers : get[r].pc \in {"miss", "torn"} => \A d \in get[r].due : now >= d

\* What is left of a retained attempt never stands in the way of another: only
\* attempts that share part names can meet a part of other bytes.
RetriesNeverCollide == \A a \in Attempts : put[a].pc = "collided" => ~Retained(a)

\* What the store holds and hands out, as its parts, types included.
StoreInv ==
    TypeOK /\ NeverAMixture /\ RetriesNeverCollide /\ AcknowledgedIsReadable /\ PromiseIsKept

\* To its readers the retained entries are one bundle that is published in
\* one step and stays what it is until its deadline.
Promise == INSTANCE Handover WITH
    held <- IF Readable("retained") THEN store[Root("retained")].body ELSE NoBuild,
    until <- IF Readable("retained") THEN store[Root("retained")].until ELSE 0
ImplementsHandover == Promise!Spec
=============================================================================
