--------------------------- MODULE RunStoreProofs ---------------------------
(***************************************************************************)
(* Proofs about RunStore, for every number of attempts, readers, parts and *)
(* days: what the store hands out, and that to its readers the retained    *)
(* entries implement Handover.                                             *)
(***************************************************************************)
EXTENDS RunStore, SequenceTheorems, TLAPS

-----------------------------------------------------------------------------
(* The inductive invariant.                                                *)

RetainedRoot == store[Root("retained")]
RetainedPart(g, i) == store[Piece("retained", g, i)]

\* An attempt that is putting its entries has come so far in them.
InOrder(p) ==
    /\ p.pc \in {"idle", "check"} => p.at = 1
    /\ p.pc \in {"put", "readback"} => p.at \in 1 .. parts + 1
    /\ p.pc \in {"compare", "verify"} => p.at \in 1 .. parts

\* The earliest deadline an attempt has noted bounds those of its earlier parts.
PartsOutlive(a, p) ==
    Retained(a) /\ p.pc \in {"put", "compare", "readback"} /\ p.at > 1 =>
        /\ p.earliest > 0
        /\ \A i \in 1 .. p.at - 1 : RetainedPart(a, i).until >= p.earliest

\* A deadline told, or about to be told, is that of the root.
TellsDeadline(a, p) ==
    /\ Retained(a) /\ p.pc \in Acknowledged /\ now < p.told => RetainedRoot.until = p.told
    /\ p.pc = "verify" /\ now < p.seen.until => RetainedRoot.until = p.seen.until

AttemptOK(a, p) ==
    /\ InOrder(p) /\ PartsOutlive(a, p) /\ TellsDeadline(a, p)
    /\ p.pc = "collided" => ~Retained(a)

\* Retained parts are written by the attempt whose generation they carry.
PartsAreOwn ==
    \A a \in Attempts : Retained(a) =>
        \A i \in 1 .. parts :
            RetainedPart(a, i).until > 0 => RetainedPart(a, i).body = Body(job[a].build, i)

\* A root of either namespace names what an attempt of its policy built.
Built(entry, p) ==
    \E a \in Attempts :
        /\ job[a].policy = p
        /\ job[a].build = entry.body
        /\ p = "retained" => entry.gen = a
RootsAreBuilt == \A p \in Policies : store[Root(p)].until > 0 => Built(store[Root(p)], p)

\* The parts a retained root names live as long as it does.
RootIsComplete ==
    RetainedRoot.until > now =>
        \A i \in 1 .. parts : RetainedPart(RetainedRoot.gen, i).until >= RetainedRoot.until

\* What a reader has assembled so far.
Assembles(q) ==
    /\ q.pc = "root" => q.got = <<>>
    /\ q.pc = "parts" => Len(q.got) < parts
    /\ q.pc \in {"parts", "found"} => Built(q.root, q.ns)
    /\ q.pc = "parts" /\ q.ns = "retained" =>
          \A i \in 1 .. Len(q.got) : q.got[i] = Body(q.root.body, i)
    /\ q.pc = "found" => \A i \in 1 .. parts : q.got[i] = Body(q.root.body, i)

\* Before a promised deadline a reader goes on with the root it was promised.
HoldsOn(q) ==
    \A d \in q.due : now < d =>
        /\ q.pc \notin {"miss", "torn"}
        /\ q.pc \in {"root", "parts"} => q.ns = "retained" /\ RetainedRoot.until = d
        /\ q.pc = "parts" => RetainedRoot.gen = q.root.gen

ReaderOK(q) == Assembles(q) /\ HoldsOn(q)

IInv ==
    /\ TypeOK
    /\ PartsAreOwn /\ RootsAreBuilt /\ RootIsComplete
    /\ \A a \in Attempts : AttemptOK(a, put[a])
    /\ \A r \in Readers : ReaderOK(get[r])

-----------------------------------------------------------------------------
(* Entries, names and the records of attempts and readers.                  *)

PutRecs == [pc : Active \cup Acknowledged \cup {"idle", "collided", "failed", "unavailable"},
            at : Nat, earliest : Nat, told : Nat, seen : Entries]
GetRecs == [pc : {"idle", "root", "parts", "found", "miss", "torn", "failed", "unavailable"},
            ns : Policies, root : Entries, got : Seq(Builds \cup {NoBuild}), due : SUBSET Nat]

LEMMA PartsBounded ==
    ASSUME TypeOK
    PROVE  parts \in Nat /\ parts <= MaxParts /\ parts \in 0 .. MaxParts
  BY ConstantsAssumption DEF TypeOK

LEMMA SlotType ==
    ASSUME NEW p \in Policies, NEW g \in Gens, NEW i \in 0 .. MaxParts
    PROVE  Piece(p, g, i) \in Slots
  BY DEF Piece, Slots

LEMMA RootType ==
    ASSUME NEW p \in Policies
    PROVE  Root(p) \in Slots /\ Root(p) = Piece(p, Shared, 0)
  BY ConstantsAssumption DEF Root, Piece, Slots, Gens

LEMMA PiecesDiffer ==
    ASSUME NEW p, NEW q, NEW g, NEW h, NEW i, NEW j
    PROVE  Piece(p, g, i) = Piece(q, h, j) <=> p = q /\ g = h /\ i = j
  BY DEF Piece

LEMMA RetainedRootType ==
    ASSUME TypeOK
    PROVE  /\ RetainedRoot \in Entries
           /\ RetainedRoot.until \in Nat /\ RetainedRoot.days \in Nat /\ RetainedRoot.gen \in Gens
  BY RootType DEF TypeOK, RetainedRoot, Entries, Policies

LEMMA RetainedPartType ==
    ASSUME TypeOK, NEW g \in Gens, NEW i \in 1 .. parts
    PROVE  /\ Piece("retained", g, i) \in Slots
           /\ RetainedPart(g, i) \in Entries
           /\ RetainedPart(g, i).until \in Nat
  <1>1. i \in 0 .. MaxParts
    BY PartsBounded, ConstantsAssumption
  <1>2. Piece("retained", g, i) \in Slots
    BY <1>1, SlotType DEF Policies
  <1> QED
    BY <1>2 DEF TypeOK, RetainedPart, Entries

LEMMA NoEntryType == NoEntry \in Entries
  BY DEF NoEntry, Entries, Gens

LEMMA AttemptType ==
    ASSUME NEW pc \in Active \cup Acknowledged \cup {"idle", "collided", "failed", "unavailable"}
    PROVE  Attempt(pc) \in PutRecs
  BY NoEntryType DEF Attempt, PutRecs

LEMMA ReaderType ==
    ASSUME NEW pc \in {"idle", "root", "parts", "found", "miss", "torn", "failed", "unavailable"},
           NEW due \in SUBSET Nat
    PROVE  /\ Reader(pc, due) \in GetRecs
           /\ Reader(pc, due).pc = pc /\ Reader(pc, due).due = due
           /\ Reader(pc, due).ns = "retained" /\ Reader(pc, due).got = <<>>
  BY NoEntryType, EmptySeq DEF Reader, GetRecs, Policies

LEMMA JobType ==
    ASSUME TypeOK, NEW a \in Attempts
    PROVE  /\ job[a] \in [policy : Policies, build : Builds, days : Days]
           /\ job[a].policy \in Policies /\ job[a].build \in Builds
           /\ job[a].days \in Nat /\ job[a].days > 0
           /\ Generation(a) \in Gens
  <1>1. job[a] \in [policy : Policies, build : Builds, days : Days]
    BY DEF TypeOK
  <1>2. Generation(a) \in Gens
    BY DEF Generation, Gens
  <1>3. \A d \in Days : d \in Nat /\ d > 0
    BY ConstantsAssumption
  <1> QED
    BY <1>1, <1>2, <1>3

LEMMA BodyType ==
    ASSUME NEW b \in Builds, NEW i
    PROVE  Body(b, i) \in Builds
  BY ConstantsAssumption DEF Body

LEMMA NowType == TypeOK => now \in Nat
  BY DEF TypeOK

\* The slot an attempt is at, and what it writes there.
LEMMA TargetType ==
    ASSUME TypeOK, NEW a \in Attempts, put[a].at \in 1 .. parts + 1
    PROVE  Target(a) \in Slots
  <1>1. CASE IsPart(a)
    <2>1. put[a].at \in 0 .. MaxParts
      BY <1>1, PartsBounded, ConstantsAssumption DEF IsPart
    <2> QED
      BY <1>1, <2>1, JobType, SlotType DEF Target
  <1>2. CASE ~IsPart(a)
    BY <1>2, JobType, RootType DEF Target
  <1> QED
    BY <1>1, <1>2

LEMMA PayloadType ==
    ASSUME TypeOK, NEW a \in Attempts
    PROVE  Payload(a) \in Entries
  <1>1. RequestedDays(a) \in Nat
    BY JobType DEF RequestedDays
  <1>2. (IF IsPart(a) THEN Body(job[a].build, put[a].at) ELSE job[a].build) \in Builds
    BY JobType, BodyType
  <1>3. (IF Retained(a) THEN now + RequestedDays(a) ELSE MaxTime + 1) \in Nat
    BY <1>1, NowType, ConstantsAssumption
  <1> QED
    BY <1>1, <1>2, <1>3, JobType DEF Payload, Entries

-----------------------------------------------------------------------------
(* What a step may do to the store: a live retained root stays, a retained  *)
(* part is only ever replaced by one that lives longer.                     *)

RootStays == RetainedRoot.until > now => RetainedRoot' = RetainedRoot
PartsGrow == \A a \in Attempts : \A i \in 1 .. parts :
                Retained(a) => RetainedPart(a, i)'.until >= RetainedPart(a, i).until

LEMMA AttemptKept ==
    ASSUME IInv, NEW a \in Attempts, NEW p \in PutRecs, AttemptOK(a, p),
           UNCHANGED <<parts, job>>, now' \in Nat, now' >= now,
           store' \in [Slots -> Entries], RootStays, PartsGrow
    PROVE  AttemptOK(a, p)'
  <1>1. InOrder(p)'
    BY DEF AttemptOK, InOrder
  <1>2. (p.pc = "collided" => ~Retained(a))'
    BY DEF AttemptOK, Retained
  <1>3. TellsDeadline(a, p)'
    <2>1. RetainedRoot.until \in Nat /\ now \in Nat /\ p.told \in Nat /\ p.seen.until \in Nat
      BY RetainedRootType, NowType DEF IInv, PutRecs, Entries
    <2>2. ASSUME Retained(a), p.pc \in Acknowledged, now' < p.told PROVE RetainedRoot'.until = p.told
      BY <2>1, <2>2 DEF AttemptOK, TellsDeadline, RootStays
    <2>3. ASSUME p.pc = "verify", now' < p.seen.until PROVE RetainedRoot'.until = p.seen.until
      BY <2>1, <2>3 DEF AttemptOK, TellsDeadline, RootStays
    <2>4. Retained(a)' <=> Retained(a)
      BY DEF Retained
    <2> QED
      BY <2>2, <2>3, <2>4 DEF TellsDeadline
  <1>4. PartsOutlive(a, p)'
    <2> SUFFICES ASSUME Retained(a), p.pc \in {"put", "compare", "readback"}, p.at > 1
                 PROVE  /\ p.earliest > 0
                        /\ \A i \in 1 .. p.at - 1 : RetainedPart(a, i)'.until >= p.earliest
      BY DEF PartsOutlive, Retained
    <2>1. p.earliest > 0 /\ \A i \in 1 .. p.at - 1 : RetainedPart(a, i).until >= p.earliest
      BY DEF AttemptOK, PartsOutlive
    <2>2. p.at \in 1 .. parts + 1 /\ parts \in Nat /\ p.earliest \in Nat
      BY PartsBounded DEF AttemptOK, InOrder, IInv, PutRecs
    <2>3. ASSUME NEW i \in 1 .. p.at - 1 PROVE RetainedPart(a, i)'.until >= p.earliest
      <3>1. i \in 1 .. parts
        BY <2>2
      <3>2. RetainedPart(a, i)'.until >= RetainedPart(a, i).until
        BY <3>1 DEF PartsGrow
      <3>3. RetainedPart(a, i).until \in Nat
        BY <3>1, RetainedPartType DEF IInv, Gens
      <3>4. RetainedPart(a, i)'.until \in Nat
        <4>1. Piece("retained", a, i) \in Slots
          BY <3>1, RetainedPartType DEF IInv, Gens
        <4>2. store'[Piece("retained", a, i)].until \in Nat
          BY <4>1 DEF Entries
        <4> QED
          BY <4>2 DEF RetainedPart, Piece
      <3> QED
        BY <2>1, <2>2, <3>2, <3>3, <3>4
    <2> QED
      BY <2>1, <2>3
  <1> QED
    BY <1>1, <1>2, <1>3, <1>4 DEF AttemptOK

LEMMA ReaderKept ==
    ASSUME IInv, NEW q \in GetRecs, ReaderOK(q),
           UNCHANGED <<parts, job>>, now' \in Nat, now' >= now, RootStays
    PROVE  ReaderOK(q)'
  <1>1. Assembles(q)'
    BY DEF ReaderOK, Assembles, Built
  <1>2. HoldsOn(q)'
    <2> SUFFICES ASSUME NEW d \in q.due, now' < d
                 PROVE  /\ q.pc \notin {"miss", "torn"}
                        /\ q.pc \in {"root", "parts"} => q.ns = "retained" /\ RetainedRoot'.until = d
                        /\ q.pc = "parts" => RetainedRoot'.gen = q.root.gen
      BY DEF HoldsOn
    <2>1. d \in Nat /\ now \in Nat
      BY NowType DEF IInv, GetRecs
    <2>2. now < d
      BY <2>1
    <2>3. /\ q.pc \notin {"miss", "torn"}
          /\ q.pc \in {"root", "parts"} => q.ns = "retained" /\ RetainedRoot.until = d
          /\ q.pc = "parts" => RetainedRoot.gen = q.root.gen
      BY <2>2 DEF ReaderOK, HoldsOn
    <2>4. q.pc \in {"root", "parts"} => RetainedRoot' = RetainedRoot
      BY <2>2, <2>3 DEF RootStays
    <2> QED
      BY <2>3, <2>4
  <1> QED
    BY <1>1, <1>2 DEF ReaderOK

LEMMA Records ==
    ASSUME TypeOK
    PROVE  /\ put \in [Attempts -> PutRecs]
           /\ get \in [Readers -> GetRecs]
  BY DEF TypeOK, PutRecs, GetRecs

\* A step of one attempt, whether it writes an entry or not.
LEMMA AttemptMoves ==
    ASSUME IInv, NEW a \in Attempts, NEW p \in PutRecs,
           put' = [put EXCEPT ![a] = p], AttemptOK(a, p)',
           UNCHANGED <<scope, parts, job, now, get>>,
           store' \in [Slots -> Entries], RootStays, PartsGrow,
           PartsAreOwn', RootsAreBuilt', RootIsComplete'
    PROVE  IInv'
  <1>1. put \in [Attempts -> PutRecs] /\ get \in [Readers -> GetRecs] /\ now \in Nat
    BY Records, NowType DEF IInv
  <1>2. TypeOK'
    <2>1. put' \in [Attempts -> PutRecs]
      BY <1>1
    <2> QED
      BY <2>1 DEF IInv, TypeOK, PutRecs
  <1>3. ASSUME NEW b \in Attempts PROVE AttemptOK(b, put[b])'
    <2>1. CASE b = a
      <3>1. put'[b] = p
        BY <2>1, <1>1
      <3> QED
        BY <2>1, <3>1 DEF AttemptOK, InOrder, PartsOutlive, TellsDeadline
    <2>2. CASE b # a
      <3>1. PICK q \in PutRecs : q = put[b]
        BY <1>1
      <3>2. put'[b] = q
        BY <2>2, <3>1, <1>1
      <3>3. AttemptOK(b, q)
        BY <3>1 DEF IInv
      <3>4. now' \in Nat /\ now' >= now
        BY <1>1
      <3>5. AttemptOK(b, q)'
        BY <3>3, <3>4, AttemptKept
      <3> QED
        BY <3>2, <3>5 DEF AttemptOK, InOrder, PartsOutlive, TellsDeadline
    <2> QED
      BY <2>1, <2>2
  <1>4. ASSUME NEW r \in Readers PROVE ReaderOK(get[r])'
    <2>1. PICK q \in GetRecs : q = get[r]
      BY <1>1
    <2>2. ReaderOK(q)
      BY <2>1 DEF IInv
    <2>3. now' \in Nat /\ now' >= now
      BY <1>1
    <2>4. ReaderOK(q)'
      BY <2>2, <2>3, ReaderKept
    <2>5. get'[r] = q
      BY <2>1
    <2> QED
      BY <2>4, <2>5 DEF ReaderOK, Assembles, HoldsOn
  <1> QED
    BY <1>2, <1>3, <1>4 DEF IInv

\* A step of one attempt that writes nothing.
LEMMA AttemptMovesOnly ==
    ASSUME IInv, NEW a \in Attempts, NEW p \in PutRecs,
           put' = [put EXCEPT ![a] = p], AttemptOK(a, p), OnlyPut
    PROVE  IInv'
  <1>1. UNCHANGED <<scope, parts, job, now, store, get>>
    BY DEF OnlyPut
  <1>2. store' \in [Slots -> Entries] /\ now' \in Nat /\ now' >= now
    BY <1>1 DEF IInv, TypeOK
  <1>3. RootStays
    BY <1>1 DEF RootStays, RetainedRoot
  <1>4. PartsGrow
    <2> SUFFICES ASSUME NEW b \in Attempts, NEW i \in 1 .. parts
                 PROVE  RetainedPart(b, i)'.until >= RetainedPart(b, i).until
      BY DEF PartsGrow
    <2>1. RetainedPart(b, i).until \in Nat
      BY RetainedPartType DEF IInv, Gens
    <2>2. RetainedPart(b, i)' = RetainedPart(b, i)
      BY <1>1 DEF RetainedPart, Piece
    <2> QED
      BY <2>1, <2>2
  <1>5. PartsAreOwn' /\ RootsAreBuilt' /\ RootIsComplete'
    BY <1>1 DEF IInv, PartsAreOwn, RootsAreBuilt, RootIsComplete, RetainedPart, RetainedRoot,
           Retained, Built, Piece, Root, Body
  <1>6. AttemptOK(a, p)'
    BY <1>1, <1>2, <1>3, <1>4, AttemptKept
  <1> QED
    BY <1>1, <1>2, <1>3, <1>4, <1>5, <1>6, AttemptMoves

\* The end of an attempt.
Ends == Acknowledged \cup {"collided", "failed", "unavailable"}

LEMMA EndRecord ==
    ASSUME NEW pc \in Ends, NEW told \in Nat
    PROVE  /\ [Attempt(pc) EXCEPT !.told = told] \in PutRecs
           /\ [Attempt(pc) EXCEPT !.told = told].pc = pc
           /\ [Attempt(pc) EXCEPT !.told = told].told = told
           /\ [Attempt(pc) EXCEPT !.told = told].at = 1
  BY NoEntryType DEF Ends, Attempt, PutRecs, Acknowledged

LEMMA EndOK ==
    ASSUME NEW a \in Attempts, NEW pc \in Ends, NEW told \in Nat, NEW p \in PutRecs,
           p.pc = pc, p.told = told, p.at = 1,
           Retained(a) /\ pc \in Acknowledged /\ now < told => RetainedRoot.until = told,
           pc = "collided" => ~Retained(a)
    PROVE  AttemptOK(a, p)
  BY DEF Ends, AttemptOK, InOrder, PartsOutlive, TellsDeadline, Acknowledged

LEMMA EndStep ==
    ASSUME IInv, NEW a \in Attempts, NEW pc \in Ends, NEW told \in Nat, End(a, pc, told), OnlyPut,
           Retained(a) /\ pc \in Acknowledged /\ now < told => RetainedRoot.until = told,
           pc = "collided" => ~Retained(a)
    PROVE  IInv'
  <1>1. PICK p \in PutRecs : p = [Attempt(pc) EXCEPT !.told = told]
    BY EndRecord
  <1>2. p.pc = pc /\ p.told = told /\ p.at = 1
    BY <1>1, EndRecord
  <1>3. AttemptOK(a, p)
    BY <1>2, EndOK
  <1>4. put' = [put EXCEPT ![a] = p]
    BY <1>1 DEF End
  <1> QED
    BY <1>3, <1>4, AttemptMovesOnly

LEMMA FailStep ==
    ASSUME IInv, NEW a \in Attempts, NEW pc \in {"failed", "unavailable"}, End(a, pc, 0), OnlyPut
    PROVE  IInv'
  BY EndStep DEF Ends, Acknowledged

\* A move of an attempt that keeps its place.
Movable == {"check", "put", "compare", "readback", "existing"}

LEMMA MovedRecord ==
    ASSUME IInv, NEW a \in Attempts, NEW pc \in Movable
    PROVE  /\ [put[a] EXCEPT !.pc = pc] \in PutRecs
           /\ [put[a] EXCEPT !.pc = pc].pc = pc
           /\ [put[a] EXCEPT !.pc = pc].at = put[a].at
           /\ [put[a] EXCEPT !.pc = pc].earliest = put[a].earliest
  <1>1. put[a] \in PutRecs
    BY Records DEF IInv
  <1> QED
    BY <1>1 DEF Movable, PutRecs, Active

LEMMA MovedOK ==
    ASSUME IInv, NEW a \in Attempts, NEW pc \in Movable, NEW p \in PutRecs,
           p.pc = pc, p.at = put[a].at, p.earliest = put[a].earliest,
           pc = "check" => put[a].at = 1,
           pc \in {"put", "readback"} => put[a].at \in 1 .. parts + 1,
           pc = "compare" => put[a].at \in 1 .. parts,
           put[a].at = 1 \/ put[a].pc \in {"put", "compare", "readback"}
    PROVE  AttemptOK(a, p)
  <1>1. PICK q \in PutRecs : q = put[a]
    BY Records DEF IInv
  <1>2. AttemptOK(a, q)
    BY <1>1 DEF IInv
  <1>3. InOrder(p)
    BY DEF InOrder, Movable
  <1>4. PartsOutlive(a, p)
    BY <1>1, <1>2 DEF AttemptOK, PartsOutlive
  <1> QED
    BY <1>3, <1>4 DEF AttemptOK, TellsDeadline, Movable, Acknowledged

LEMMA MoveStep ==
    ASSUME IInv, NEW a \in Attempts, NEW pc \in Movable, Move(a, pc), OnlyPut,
           pc = "check" => put[a].at = 1,
           pc \in {"put", "readback"} => put[a].at \in 1 .. parts + 1,
           pc = "compare" => put[a].at \in 1 .. parts,
           put[a].at = 1 \/ put[a].pc \in {"put", "compare", "readback"}
    PROVE  IInv'
  <1>1. PICK p \in PutRecs : p = [put[a] EXCEPT !.pc = pc]
    BY MovedRecord
  <1>2. p.pc = pc /\ p.at = put[a].at /\ p.earliest = put[a].earliest
    BY <1>1, MovedRecord
  <1>3. AttemptOK(a, p)
    BY <1>2, MovedOK
  <1>4. put' = [put EXCEPT ![a] = p]
    BY <1>1 DEF Move
  <1> QED
    BY <1>3, <1>4, AttemptMovesOnly

-----------------------------------------------------------------------------
(* put, request by request.                                                *)

LEMMA OrderOf ==
    ASSUME IInv, NEW a \in Attempts
    PROVE  /\ put[a].pc \in {"idle", "check"} => put[a].at = 1
           /\ put[a].pc \in {"put", "readback"} => put[a].at \in 1 .. parts + 1
           /\ put[a].pc \in {"compare", "verify"} => put[a].at \in 1 .. parts
  BY DEF IInv, AttemptOK, InOrder

LEMMA FirstPlace == IInv => 1 \in 1 .. parts + 1
  BY PartsBounded DEF IInv

LEMMA BeginStep ==
    ASSUME IInv, NEW a \in Attempts, Begin(a)
    PROVE  IInv'
  <1>1. put[a].at = 1
    BY OrderOf DEF Begin
  <1>2. CASE parts > 0 \/ Retained(a)
    BY <1>1, <1>2, MoveStep DEF Begin, Movable
  <1>3. CASE ~(parts > 0 \/ Retained(a))
    BY <1>1, <1>3, FirstPlace, MoveStep DEF Begin, Movable
  <1> QED
    BY <1>2, <1>3

LEMMA CheckRootStep ==
    ASSUME IInv, NEW a \in Attempts, CheckRoot(a)
    PROVE  IInv'
  <1>1. put[a].at = 1
    BY OrderOf DEF CheckRoot
  <1>2. CASE ~(Live(Root(job[a].policy)) /\ Immutable(a))
    BY <1>1, <1>2, FirstPlace, MoveStep DEF CheckRoot, Movable
  <1>3. CASE Live(Root(job[a].policy)) /\ Immutable(a) /\ Retained(a)
    BY <1>1, <1>3, MoveStep DEF CheckRoot, Movable
  <1>4. CASE Live(Root(job[a].policy)) /\ Immutable(a) /\ ~Retained(a)
    BY <1>4, EndStep DEF CheckRoot, Ends, Acknowledged
  <1> QED
    BY <1>2, <1>3, <1>4

LEMMA ConflictStep ==
    ASSUME IInv, NEW a \in Attempts, Conflict(a)
    PROVE  IInv'
  <1>1. put[a].at \in 1 .. parts + 1 /\ put[a].pc = "put"
    BY OrderOf DEF Conflict
  <1>2. CASE IsPart(a)
    <2>1. put[a].at \in 1 .. parts
      BY <1>1, <1>2, PartsBounded DEF IsPart, IInv
    <2> QED
      BY <1>1, <1>2, <2>1, MoveStep DEF Conflict, Movable
  <1>3. CASE ~IsPart(a) /\ Retained(a)
    BY <1>1, <1>3, MoveStep DEF Conflict, Movable
  <1>4. CASE ~IsPart(a) /\ ~Retained(a)
    BY <1>1, <1>4, MoveStep DEF Conflict, Movable
  <1> QED
    BY <1>2, <1>3, <1>4

\* A retained attempt finds under its own name only what it wrote itself.
LEMMA OwnPart ==
    ASSUME IInv, NEW a \in Attempts, Retained(a), put[a].at \in 1 .. parts, Live(Target(a))
    PROVE  /\ Target(a) = Piece("retained", a, put[a].at)
           /\ store[Target(a)].body = Payload(a).body
  <1>1. put[a].at \in Nat /\ IsPart(a)
    BY PartsBounded DEF IsPart, IInv
  <1>2. Target(a) = Piece("retained", a, put[a].at)
    BY <1>1 DEF Target, Generation, Retained
  <1>3. store[Target(a)] = RetainedPart(a, put[a].at)
    BY <1>2 DEF RetainedPart
  <1>4. RetainedPart(a, put[a].at).until > 0
    BY <1>3, NowType, RetainedPartType DEF Live, IInv, Gens
  <1>5. RetainedPart(a, put[a].at).body = Body(job[a].build, put[a].at)
    BY <1>4 DEF IInv, PartsAreOwn
  <1> QED
    BY <1>1, <1>2, <1>3, <1>5 DEF Payload

LEMMA CompareStep ==
    ASSUME IInv, NEW a \in Attempts, Compare(a)
    PROVE  IInv'
  <1>1. put[a].at \in 1 .. parts /\ put[a].pc = "compare"
    BY OrderOf DEF Compare
  <1>2. CASE ~Live(Target(a))
    BY <1>2, FailStep DEF Compare
  <1>3. CASE Live(Target(a)) /\ store[Target(a)].body = Payload(a).body
    <2>1. put[a].at \in 1 .. parts + 1
      BY <1>1, PartsBounded DEF IInv
    <2> QED
      BY <1>1, <1>3, <2>1, MoveStep DEF Compare, Movable
  <1>4. CASE Live(Target(a)) /\ store[Target(a)].body # Payload(a).body
    <2>1. ~Retained(a)
      BY <1>1, <1>4, OwnPart
    <2> QED
      BY <1>4, <2>1, EndStep DEF Compare, Ends, Acknowledged
  <1> QED
    BY <1>2, <1>3, <1>4

\* The next part, with the earliest deadline so far.
LEMMA NextPartOK ==
    ASSUME IInv, NEW a \in Attempts, put[a].pc = "readback", IsPart(a), Live(Target(a)),
           NEW until \in Nat, until = store[Target(a)].until,
           NEW p \in PutRecs, p.pc = "put", p.at = put[a].at + 1,
           p.earliest = IF put[a].earliest = 0 \/ until < put[a].earliest THEN until ELSE put[a].earliest
    PROVE  AttemptOK(a, p)
  <1>1. PICK q \in PutRecs : q = put[a]
    BY Records DEF IInv
  <1>2. q.at \in 1 .. parts /\ q.at \in Nat /\ parts \in Nat /\ q.earliest \in Nat
    BY <1>1, OrderOf, PartsBounded DEF IsPart, IInv, PutRecs
  <1>3. InOrder(p)
    BY <1>1, <1>2 DEF InOrder
  <1>4. PartsOutlive(a, p)
    <2> SUFFICES ASSUME Retained(a)
                 PROVE  /\ p.earliest > 0
                        /\ \A i \in 1 .. p.at - 1 : RetainedPart(a, i).until >= p.earliest
      BY DEF PartsOutlive
    <2>1. Target(a) = Piece("retained", a, q.at) /\ until > 0
      BY <1>1, <1>2, OwnPart, NowType DEF Live, IInv
    <2>2. RetainedPart(a, q.at).until = until
      BY <2>1 DEF RetainedPart
    <2>3. q.at > 1 => q.earliest > 0 /\ \A i \in 1 .. q.at - 1 : RetainedPart(a, i).until >= q.earliest
      BY <1>1 DEF IInv, AttemptOK, PartsOutlive
    <2>4. p.earliest = IF q.earliest = 0 \/ until < q.earliest THEN until ELSE q.earliest
      BY <1>1
    <2>5. p.earliest > 0 /\ p.earliest <= until
      BY <1>2, <2>1, <2>4
    <2>6. ASSUME NEW i \in 1 .. p.at - 1 PROVE RetainedPart(a, i).until >= p.earliest
      <3>1. i \in 1 .. parts /\ (i = q.at \/ i \in 1 .. q.at - 1)
        BY <1>1, <1>2
      <3>2. RetainedPart(a, i).until \in Nat
        BY <3>1, RetainedPartType DEF IInv, Gens
      <3>3. CASE i = q.at
        BY <3>3, <2>2, <2>5
      <3>4. CASE i \in 1 .. q.at - 1
        <4>1. q.earliest > 0 /\ RetainedPart(a, i).until >= q.earliest
          BY <3>4, <1>2, <2>3
        <4>2. p.earliest <= q.earliest
          BY <1>2, <2>4, <4>1
        <4> QED
          BY <1>2, <3>2, <4>1, <4>2, <2>5, <2>4
      <3> QED
        BY <3>1, <3>3, <3>4
    <2> QED
      BY <2>5, <2>6
  <1> QED
    BY <1>3, <1>4 DEF AttemptOK, TellsDeadline, Acknowledged

LEMMA ReadBackStep ==
    ASSUME IInv, NEW a \in Attempts, ReadBack(a)
    PROVE  IInv'
  <1>1. put[a].at \in 1 .. parts + 1 /\ put[a].pc = "readback" /\ OnlyPut
    BY OrderOf DEF ReadBack
  <1>2. PICK until \in Nat : until = store[Target(a)].until
    <2>1. store[Target(a)] \in Entries
      BY <1>1, TargetType DEF IInv, TypeOK
    <2> QED
      BY <2>1 DEF Entries
  <1>3. CASE ~Confirmed(a)
    BY <1>1, <1>3, FailStep DEF ReadBack
  <1>4. CASE Confirmed(a) /\ IsPart(a)
    <2>1. PICK q \in PutRecs : q = put[a]
      BY Records DEF IInv
    <2>2. PICK e \in Nat : e = IF q.earliest = 0 \/ until < q.earliest THEN until ELSE q.earliest
      BY DEF PutRecs
    <2>3. PICK n \in Nat : n = q.at + 1
      BY DEF PutRecs
    <2> DEFINE p == [q EXCEPT !.pc = "put", !.at = n, !.earliest = e]
    <2>4. p \in PutRecs /\ p.pc = "put" /\ p.at = n /\ p.earliest = e
      BY DEF PutRecs, Active
    <2>5. put' = [put EXCEPT ![a] = p]
      <3>1. put' = [put EXCEPT ![a].pc = "put", ![a].at = @ + 1,
                       ![a].earliest = IF @ = 0 \/ until < @ THEN until ELSE @]
        BY <1>1, <1>2, <1>4 DEF ReadBack
      <3>2. put \in [Attempts -> PutRecs]
        BY Records DEF IInv
      <3> QED
        BY <3>1, <3>2, <2>1, <2>2, <2>3 DEF PutRecs
    <2> HIDE DEF p
    <2>6. AttemptOK(a, p)
      BY <1>1, <1>2, <1>4, <2>1, <2>2, <2>3, <2>4, NextPartOK DEF Confirmed
    <2> QED
      BY <1>1, <2>4, <2>5, <2>6, AttemptMovesOnly
  <1>5. CASE Confirmed(a) /\ ~IsPart(a) /\ Retained(a) /\ parts > 0 /\ until > put[a].earliest
    BY <1>1, <1>2, <1>5, FailStep DEF ReadBack
  <1>6. CASE Confirmed(a) /\ ~IsPart(a) /\ ~(Retained(a) /\ parts > 0 /\ until > put[a].earliest)
    <2>1. PICK told \in Nat : told = IF Retained(a) THEN until ELSE 0
      OBVIOUS
    <2>2. End(a, "done", told)
      BY <1>1, <1>2, <1>6, <2>1 DEF ReadBack
    <2>3. Retained(a) => RetainedRoot.until = told
      BY <1>2, <1>6, <2>1 DEF Target, Retained, RetainedRoot
    <2> QED
      BY <1>1, <2>2, <2>3, EndStep DEF Ends, Acknowledged
  <1> QED
    BY <1>3, <1>4, <1>5, <1>6

LEMMA ExistingRootStep ==
    ASSUME IInv, NEW a \in Attempts, ExistingRoot(a)
    PROVE  IInv'
  <1>1. OnlyPut
    BY DEF ExistingRoot
  <1>2. PICK root \in Entries : root = RetainedRoot
    BY RetainedRootType DEF IInv
  <1>3. CASE ~(Live(Root("retained")) /\ root.days >= job[a].days)
    BY <1>1, <1>2, <1>3, FailStep DEF ExistingRoot, RetainedRoot
  <1>4. CASE Live(Root("retained")) /\ root.days >= job[a].days /\ parts = 0
    <2>1. End(a, "kept", root.until)
      BY <1>2, <1>4 DEF ExistingRoot, RetainedRoot
    <2>2. root.until \in Nat
      BY DEF Entries
    <2> QED
      BY <1>1, <1>2, <2>1, <2>2, EndStep DEF Ends, Acknowledged
  <1>5. CASE Live(Root("retained")) /\ root.days >= job[a].days /\ parts # 0
    <2> DEFINE p == [Attempt("verify") EXCEPT !.seen = root]
    <2>1. put' = [put EXCEPT ![a] = p]
      BY <1>2, <1>5 DEF ExistingRoot, RetainedRoot
    <2>2. p \in PutRecs /\ p.pc = "verify" /\ p.at = 1 /\ p.seen = root
      BY AttemptType DEF Attempt, PutRecs, Active
    <2>3. 1 \in 1 .. parts
      BY <1>5, PartsBounded DEF IInv
    <2> HIDE DEF p
    <2>4. AttemptOK(a, p)
      BY <1>2, <2>2, <2>3 DEF AttemptOK, InOrder, PartsOutlive, TellsDeadline, Acknowledged
    <2> QED
      BY <1>1, <2>1, <2>2, <2>4, AttemptMovesOnly
  <1> QED
    BY <1>3, <1>4, <1>5

LEMMA ExistingPartStep ==
    ASSUME IInv, NEW a \in Attempts, ExistingPart(a)
    PROVE  IInv'
  <1>1. put[a].pc = "verify" /\ put[a].at \in 1 .. parts /\ OnlyPut
    BY OrderOf DEF ExistingPart
  <1>2. PICK q \in PutRecs : q = put[a]
    BY Records DEF IInv
  <1>3. now < q.seen.until => RetainedRoot.until = q.seen.until
    BY <1>1, <1>2 DEF IInv, AttemptOK, TellsDeadline
  <1>4. q.seen.until \in Nat /\ q.at \in Nat
    BY DEF PutRecs, Entries
  <1>5. CASE End(a, "failed", 0)
    BY <1>1, <1>5, FailStep
  <1>6. CASE End(a, "kept", q.seen.until)
    BY <1>1, <1>3, <1>4, <1>6, EndStep DEF Ends, Acknowledged
  <1>7. CASE put' = [put EXCEPT ![a].at = @ + 1] /\ q.at # parts
    <2>1. PICK n \in Nat : n = q.at + 1
      BY <1>4
    <2> DEFINE p == [q EXCEPT !.at = n]
    <2>2. put' = [put EXCEPT ![a] = p]
      BY <1>2, <1>7, <2>1, Records DEF IInv, PutRecs
    <2>3. p \in PutRecs /\ p.pc = "verify" /\ p.at = n /\ p.seen = q.seen
      BY <1>1, <1>2 DEF PutRecs
    <2>4. n \in 1 .. parts
      BY <1>1, <1>2, <1>7, <2>1, PartsBounded DEF IInv
    <2> HIDE DEF p
    <2>5. AttemptOK(a, p)
      BY <1>3, <2>3, <2>4 DEF AttemptOK, InOrder, PartsOutlive, TellsDeadline, Acknowledged
    <2> QED
      BY <1>1, <2>2, <2>3, <2>5, AttemptMovesOnly
  <1> QED
    BY <1>2, <1>5, <1>6, <1>7 DEF ExistingPart

LEMMA PutEndsStep ==
    ASSUME IInv, NEW a \in Attempts, PutUnavailable(a) \/ PutFails(a)
    PROVE  IInv'
  BY FailStep DEF PutUnavailable, PutFails

-----------------------------------------------------------------------------
(* An entry is written.                                                    *)

\* The attempt after its entry was stored: it reads it back, asks again, or
\* has no answer.
LEMMA AnsweredRecord ==
    ASSUME IInv, NEW a \in Attempts, put[a].pc = "put", Answered(a)
    PROVE  \E p \in PutRecs : /\ put' = [put EXCEPT ![a] = p]
                              /\ AttemptOK(a, p)
  <1>1. put[a].at \in 1 .. parts + 1
    BY OrderOf
  <1>2. ASSUME NEW pc \in {"readback", "put"}, Move(a, pc)
        PROVE  \E p \in PutRecs : put' = [put EXCEPT ![a] = p] /\ AttemptOK(a, p)
    <2>1. pc \in Movable
      BY DEF Movable
    <2>2. PICK p \in PutRecs : p = [put[a] EXCEPT !.pc = pc]
      BY <2>1, MovedRecord
    <2>3. p.pc = pc /\ p.at = put[a].at /\ p.earliest = put[a].earliest
      BY <2>1, <2>2, MovedRecord
    <2>4. AttemptOK(a, p)
      BY <1>1, <2>1, <2>3, MovedOK
    <2> QED
      BY <1>2, <2>2, <2>4 DEF Move
  <1>3. ASSUME End(a, "failed", 0)
        PROVE  \E p \in PutRecs : put' = [put EXCEPT ![a] = p] /\ AttemptOK(a, p)
    <2>1. "failed" \in Ends /\ 0 \in Nat
      BY DEF Ends
    <2>2. PICK p \in PutRecs : p = [Attempt("failed") EXCEPT !.told = 0]
      BY <2>1, EndRecord
    <2>3. p.pc = "failed" /\ p.told = 0 /\ p.at = 1
      BY <2>1, <2>2, EndRecord
    <2>4. AttemptOK(a, p)
      BY <2>1, <2>3, EndOK DEF Acknowledged
    <2> QED
      BY <1>3, <2>2, <2>4 DEF End
  <1> QED
    BY <1>2, <1>3 DEF Answered

\* What is left to show of a write.
LEMMA StoreMoves ==
    ASSUME IInv, NEW a \in Attempts, Store(a), store' \in [Slots -> Entries],
           RootStays, PartsGrow, PartsAreOwn', RootsAreBuilt', RootIsComplete'
    PROVE  IInv'
  <1>1. PICK p \in PutRecs : put' = [put EXCEPT ![a] = p] /\ AttemptOK(a, p)
    BY AnsweredRecord DEF Store
  <1>2. UNCHANGED <<scope, parts, job, now, get>>
    BY DEF Store
  <1>3. now' \in Nat /\ now' >= now
    BY <1>2, NowType DEF IInv
  <1>4. AttemptOK(a, p)'
    BY <1>1, <1>2, <1>3, AttemptKept
  <1> QED
    BY <1>1, <1>2, <1>4, AttemptMoves

LEMMA Written ==
    ASSUME IInv, NEW a \in Attempts, Store(a)
    PROVE  /\ Target(a) \in Slots /\ Payload(a) \in Entries
           /\ store' \in [Slots -> Entries]
           /\ store'[Target(a)] = Payload(a)
           /\ \A s \in Slots : s # Target(a) => store'[s] = store[s]
  <1>1. Target(a) \in Slots /\ Payload(a) \in Entries
    BY OrderOf, TargetType, PayloadType DEF Store, IInv
  <1>2. PICK t \in Slots : t = Target(a)
    BY <1>1
  <1>3. PICK e \in Entries : e = Payload(a)
    BY <1>1
  <1>4. store' = [store EXCEPT ![t] = e]
    BY <1>2, <1>3 DEF Store
  <1>5. store \in [Slots -> Entries]
    BY DEF IInv, TypeOK
  <1> QED
    BY <1>2, <1>3, <1>4, <1>5

\* A step that leaves the retained entries alone.
LEMMA RetainedSame ==
    ASSUME IInv, UNCHANGED <<parts, job, now>>,
           \A g \in Gens, i \in 0 .. MaxParts :
               store'[Piece("retained", g, i)] = store[Piece("retained", g, i)]
    PROVE  /\ RootStays /\ PartsGrow /\ PartsAreOwn' /\ RootIsComplete'
           /\ RetainedRoot' = RetainedRoot
  <1>1. RetainedRoot' = RetainedRoot
    <2>1. Shared \in Gens /\ 0 \in 0 .. MaxParts
      BY ConstantsAssumption DEF Gens
    <2> QED
      BY <2>1 DEF RetainedRoot, Root, Piece
  <1>2. ASSUME NEW g \in Gens, NEW i \in 1 .. parts PROVE RetainedPart(g, i)' = RetainedPart(g, i)
    <2>1. i \in 0 .. MaxParts
      BY PartsBounded, ConstantsAssumption DEF IInv
    <2> QED
      BY <2>1 DEF RetainedPart, Piece
  <1>3. PartsGrow
    <2> SUFFICES ASSUME NEW b \in Attempts, NEW i \in 1 .. parts
                 PROVE  RetainedPart(b, i)'.until >= RetainedPart(b, i).until
      BY DEF PartsGrow
    <2>1. b \in Gens
      BY DEF Gens
    <2>2. RetainedPart(b, i).until \in Nat
      BY <2>1, RetainedPartType DEF IInv
    <2> QED
      BY <1>2, <2>1, <2>2
  <1>4. PartsAreOwn'
    <2> SUFFICES ASSUME NEW b \in Attempts, Retained(b), NEW i \in 1 .. parts,
                        RetainedPart(b, i)'.until > 0
                 PROVE  RetainedPart(b, i)'.body = Body(job[b].build, i)
      BY DEF PartsAreOwn, Retained, Body
    <2>1. RetainedPart(b, i)' = RetainedPart(b, i)
      BY <1>2 DEF Gens
    <2> QED
      BY <2>1 DEF IInv, PartsAreOwn
  <1>5. RootIsComplete'
    <2>1. RetainedRoot.gen \in Gens
      BY RetainedRootType DEF IInv
    <2>2. PICK g \in Gens : g = RetainedRoot.gen
      BY <2>1
    <2> SUFFICES ASSUME RetainedRoot.until > now, NEW i \in 1 .. parts
                 PROVE  RetainedPart(g, i)'.until >= RetainedRoot.until
      BY <1>1, <2>2 DEF RootIsComplete, RetainedPart, Piece
    <2> QED
      BY <1>2, <2>2 DEF IInv, RootIsComplete
  <1> QED
    BY <1>1, <1>3, <1>4, <1>5 DEF RootStays

LEMMA StoreCache ==
    ASSUME IInv, NEW a \in Attempts, Store(a), ~Retained(a)
    PROVE  IInv'
  <1>1. job[a].policy = "cache" /\ UNCHANGED <<scope, parts, job, now, get>>
    BY JobType DEF Store, Retained, IInv, Policies
  <1>2. PICK t \in Slots : t = Target(a)
    BY Written
  <1>3. t = Root("cache") \/ \E i : t = Piece("cache", Shared, i) /\ i = put[a].at
    BY <1>1, <1>2 DEF Target, Generation
  <1>4. \A g \in Gens, i \in 0 .. MaxParts :
            store'[Piece("retained", g, i)] = store[Piece("retained", g, i)]
    <2> SUFFICES ASSUME NEW g \in Gens, NEW i \in 0 .. MaxParts
                 PROVE  store'[Piece("retained", g, i)] = store[Piece("retained", g, i)]
      OBVIOUS
    <2>1. Piece("retained", g, i) \in Slots
      BY SlotType DEF Policies
    <2>2. Piece("retained", g, i) # t
      BY <1>3 DEF Piece, Root
    <2> QED
      BY <1>2, <2>1, <2>2, Written
  <1>5. RootStays /\ PartsGrow /\ PartsAreOwn' /\ RootIsComplete' /\ RetainedRoot' = RetainedRoot
    BY <1>1, <1>4, RetainedSame
  <1>6. RootsAreBuilt'
    <2>1. ASSUME NEW p \in Policies, Root(p) # t, store'[Root(p)].until > 0
          PROVE  Built(store'[Root(p)], p)
      <3>1. store'[Root(p)] = store[Root(p)]
        BY <1>2, <2>1, RootType, Written
      <3> QED
        BY <2>1, <3>1 DEF IInv, RootsAreBuilt
    <2>2. ASSUME t = Root("cache") PROVE Built(store'[Root("cache")], "cache")
      <3>1. ~IsPart(a)
        <4>1. put[a].at \in 1 .. parts + 1
          BY OrderOf DEF Store
        <4>2. ASSUME IsPart(a) PROVE FALSE
          <5>1. t = Piece("cache", Shared, put[a].at)
            BY <1>1, <1>2, <4>2 DEF Target, Generation
          <5>2. put[a].at # 0
            BY <4>1, PartsBounded DEF IInv
          <5> QED
            BY <2>2, <5>1, <5>2 DEF Piece, Root
        <4> QED
          BY <4>2
      <3>2. store'[Root("cache")] = Payload(a)
        BY <1>2, <2>2, Written
      <3>3. Payload(a).body = job[a].build
        BY <3>1 DEF Payload
      <3> QED
        BY <1>1, <3>2, <3>3 DEF Built
    <2>3. ASSUME NEW p \in Policies, Root(p) = t PROVE p = "cache"
      BY <1>3, <2>3 DEF Root, Piece
    <2>4. ASSUME NEW p \in Policies, store'[Root(p)].until > 0 PROVE Built(store'[Root(p)], p)
      BY <2>1, <2>2, <2>3, <2>4
    <2> QED
      BY <1>1, <2>4 DEF RootsAreBuilt, Root, Built
  <1> QED
    BY <1>5, <1>6, Written, StoreMoves

\* A retained part is written where no live entry is, to live past this day.
LEMMA PartWritten ==
    ASSUME IInv, NEW a \in Attempts, Store(a), Retained(a), IsPart(a)
    PROVE  /\ put[a].at \in 1 .. parts
           /\ Target(a) = Piece("retained", a, put[a].at)
           /\ store[Target(a)].until <= now
           /\ Payload(a).until > now
           /\ Payload(a).body = Body(job[a].build, put[a].at)
  <1>1. put[a].at \in 1 .. parts
    BY OrderOf, PartsBounded DEF Store, IsPart, IInv
  <1>2. Target(a) = Piece("retained", a, put[a].at)
    BY DEF Target, Generation, Retained
  <1>3. store[Target(a)].until <= now
    <2>1. ~Live(Target(a))
      BY DEF Store, Exists, Immutable
    <2>2. store[Target(a)].until \in Nat /\ now \in Nat
      BY <1>1, <1>2, RetainedPartType, NowType DEF IInv, Gens, RetainedPart
    <2> QED
      BY <2>1, <2>2 DEF Live
  <1>4. Payload(a).until > now
    <2>1. Payload(a).until = now + (job[a].days + 1)
      BY DEF Payload, RequestedDays
    <2>2. job[a].days \in Nat /\ now \in Nat
      BY JobType, NowType DEF IInv
    <2> QED
      BY <2>1, <2>2
  <1> QED
    BY <1>1, <1>2, <1>3, <1>4 DEF Payload

LEMMA PartWrittenSame ==
    ASSUME IInv, NEW a \in Attempts, Store(a), Retained(a), IsPart(a)
    PROVE  /\ \A p \in Policies : store'[Root(p)] = store[Root(p)]
           /\ RetainedRoot' = RetainedRoot
           /\ \A g \in Gens, i \in 1 .. parts :
                 RetainedPart(g, i)' = RetainedPart(g, i)
                 \/ (/\ g = a /\ i = put[a].at /\ RetainedPart(g, i).until <= now
                     /\ RetainedPart(g, i)' = Payload(a))
  <1>1. PICK k \in 1 .. parts : k = put[a].at /\ Target(a) = Piece("retained", a, k)
    BY PartWritten
  <1>2. ASSUME NEW p \in Policies PROVE store'[Root(p)] = store[Root(p)]
    <2>1. Root(p) # Target(a)
      BY <1>1, PartsBounded DEF Root, Piece, IInv
    <2> QED
      BY <2>1, RootType, Written
  <1>3. RetainedRoot' = RetainedRoot
    BY <1>2 DEF RetainedRoot, Policies, Root
  <1>4. ASSUME NEW g \in Gens, NEW i \in 1 .. parts
        PROVE  RetainedPart(g, i)' = RetainedPart(g, i)
               \/ (/\ g = a /\ i = put[a].at /\ RetainedPart(g, i).until <= now
                   /\ RetainedPart(g, i)' = Payload(a))
    <2>1. Piece("retained", g, i) \in Slots
      BY RetainedPartType DEF IInv
    <2>2. RetainedPart(g, i)' = store'[Piece("retained", g, i)]
      BY DEF RetainedPart, Piece
    <2>3. CASE Piece("retained", g, i) # Target(a)
      BY <2>1, <2>2, <2>3, Written DEF RetainedPart
    <2>4. CASE Piece("retained", g, i) = Target(a)
      <3>1. g = a /\ i = k
        BY <1>1, <2>4, PiecesDiffer
      <3>2. RetainedPart(g, i).until <= now
        BY <2>4, PartWritten DEF RetainedPart
      <3>3. RetainedPart(g, i)' = Payload(a)
        BY <2>2, <2>4, Written
      <3> QED
        BY <1>1, <3>1, <3>2, <3>3
    <2> QED
      BY <2>3, <2>4
  <1> QED
    BY <1>2, <1>3, <1>4

LEMMA StorePart ==
    ASSUME IInv, NEW a \in Attempts, Store(a), Retained(a), IsPart(a)
    PROVE  IInv'
  <1>1. UNCHANGED <<scope, parts, job, now, get>> /\ now \in Nat
    BY NowType DEF Store, IInv
  <1>2. PICK e \in Entries : e = Payload(a)
    BY Written
  <1>3. e.until > now /\ e.until \in Nat /\ e.body = Body(job[a].build, put[a].at)
    BY <1>2, PartWritten DEF Entries
  <1>4. RootStays
    BY PartWrittenSame DEF RootStays
  <1>5. PartsGrow
    <2> SUFFICES ASSUME NEW b \in Attempts, NEW i \in 1 .. parts
                 PROVE  RetainedPart(b, i)'.until >= RetainedPart(b, i).until
      BY DEF PartsGrow
    <2>1. b \in Gens /\ RetainedPart(b, i).until \in Nat
      BY RetainedPartType DEF IInv, Gens
    <2> QED
      BY <1>1, <1>2, <1>3, <2>1, PartWrittenSame
  <1>6. PartsAreOwn'
    <2> SUFFICES ASSUME NEW b \in Attempts, Retained(b), NEW i \in 1 .. parts,
                        RetainedPart(b, i)'.until > 0
                 PROVE  RetainedPart(b, i)'.body = Body(job[b].build, i)
      BY <1>1 DEF PartsAreOwn, Retained, Body
    <2>1. b \in Gens
      BY DEF Gens
    <2>2. CASE RetainedPart(b, i)' = RetainedPart(b, i)
      BY <2>2 DEF IInv, PartsAreOwn
    <2>3. CASE b = a /\ i = put[a].at /\ RetainedPart(b, i)' = Payload(a)
      BY <1>2, <1>3, <2>3
    <2> QED
      BY <2>1, <2>2, <2>3, PartWrittenSame
  <1>7. RootsAreBuilt'
    <2>1. ASSUME NEW p \in Policies, store'[Root(p)].until > 0 PROVE Built(store'[Root(p)], p)
      BY <2>1, PartWrittenSame DEF IInv, RootsAreBuilt
    <2> QED
      BY <1>1, <2>1 DEF RootsAreBuilt, Built, Root
  <1>8. RootIsComplete'
    <2>1. PICK g \in Gens : g = RetainedRoot.gen
      BY RetainedRootType DEF IInv
    <2>2. RetainedRoot' = RetainedRoot /\ RetainedRoot.until \in Nat
      BY RetainedRootType, PartWrittenSame DEF IInv
    <2> SUFFICES ASSUME RetainedRoot.until > now, NEW i \in 1 .. parts
                 PROVE  RetainedPart(g, i)'.until >= RetainedRoot.until
      BY <1>1, <2>1, <2>2 DEF RootIsComplete, RetainedPart, Piece
    <2>3. RetainedPart(g, i).until >= RetainedRoot.until
      BY <2>1 DEF IInv, RootIsComplete
    <2>4. RetainedPart(g, i).until \in Nat
      BY RetainedPartType DEF IInv
    <2>5. ~(RetainedPart(g, i).until <= now)
      BY <1>1, <2>2, <2>3, <2>4
    <2> QED
      BY <2>3, <2>5, PartWrittenSame
  <1> QED
    BY <1>4, <1>5, <1>6, <1>7, <1>8, Written, StoreMoves

\* A retained root is written where no live one is, over parts that outlive it.
LEMMA RootWritten ==
    ASSUME IInv, NEW a \in Attempts, Store(a), Retained(a), ~IsPart(a)
    PROVE  /\ Target(a) = Root("retained")
           /\ RetainedRoot.until <= now
           /\ RetainedRoot' = Payload(a)
           /\ Payload(a).until > now /\ Payload(a).body = job[a].build /\ Payload(a).gen = a
           /\ \A i \in 1 .. parts : RetainedPart(a, i).until >= Payload(a).until
  <1>1. Target(a) = Root("retained")
    BY DEF Target, Retained
  <1>2. RetainedRoot.until <= now
    <2>1. ~Live(Root("retained"))
      BY <1>1 DEF Store, Exists, Immutable
    <2> QED
      BY <2>1, RetainedRootType, NowType DEF Live, RetainedRoot, IInv
  <1>3. RetainedRoot' = Payload(a)
    <2>1. store'[Root("retained")] = Payload(a)
      BY <1>1, Written
    <2> QED
      BY <2>1 DEF RetainedRoot, Root
  <1>4. Payload(a).until = now + job[a].days /\ Payload(a).body = job[a].build /\ Payload(a).gen = a
    BY DEF Payload, RequestedDays, Generation, Retained
  <1>5. job[a].days \in Nat /\ job[a].days > 0 /\ now \in Nat
    BY JobType, NowType DEF IInv
  <1>6. ASSUME NEW i \in 1 .. parts PROVE RetainedPart(a, i).until >= Payload(a).until
    <2>1. PICK q \in PutRecs : q = put[a]
      BY Records DEF IInv
    <2>2. q.pc = "put" /\ q.at \in 1 .. parts + 1 /\ parts \in Nat /\ ~(q.at <= parts)
      BY <2>1, OrderOf, PartsBounded DEF Store, IsPart, IInv
    <2>3. q.at = parts + 1 /\ q.at > 1 /\ parts # 0
      BY <1>6, <2>2
    <2>4. RetainedPart(a, i).until >= q.earliest
      BY <2>1, <2>2, <2>3 DEF IInv, AttemptOK, PartsOutlive
    <2>5. now + job[a].days <= q.earliest
      BY <2>1, <2>3 DEF Store, WithinCeiling, RequestedDays
    <2>6. RetainedPart(a, i).until \in Nat /\ q.earliest \in Nat
      BY RetainedPartType DEF IInv, Gens, PutRecs
    <2> QED
      BY <1>4, <1>5, <2>4, <2>5, <2>6
  <1>7. Payload(a).until > now
    BY <1>4, <1>5
  <1> QED
    BY <1>1, <1>2, <1>3, <1>4, <1>6, <1>7

LEMMA RootWrittenSame ==
    ASSUME IInv, NEW a \in Attempts, Store(a), Retained(a), ~IsPart(a)
    PROVE  /\ store'[Root("cache")] = store[Root("cache")]
           /\ \A g \in Gens, i \in 1 .. parts : RetainedPart(g, i)' = RetainedPart(g, i)
  <1>1. Root("cache") # Target(a) /\ Root("cache") \in Slots
    BY RootWritten, RootType DEF Root, Policies
  <1>2. ASSUME NEW g \in Gens, NEW i \in 1 .. parts PROVE RetainedPart(g, i)' = RetainedPart(g, i)
    <2>1. Piece("retained", g, i) \in Slots
      BY RetainedPartType DEF IInv
    <2>2. i # 0
      BY PartsBounded DEF IInv
    <2>3. Piece("retained", g, i) # Target(a)
      BY <2>2, RootWritten DEF Root, Piece
    <2>4. store'[Piece("retained", g, i)] = store[Piece("retained", g, i)]
      BY <2>1, <2>3, Written
    <2> QED
      BY <2>4 DEF RetainedPart, Piece
  <1> QED
    BY <1>1, <1>2, Written

LEMMA StoreRoot ==
    ASSUME IInv, NEW a \in Attempts, Store(a), Retained(a), ~IsPart(a)
    PROVE  IInv'
  <1>1. UNCHANGED <<scope, parts, job, now, get>> /\ now \in Nat
    BY NowType DEF Store, IInv
  <1>2. PICK e \in Entries : e = Payload(a)
    BY Written
  <1>3. RetainedRoot' = e /\ e.body = job[a].build /\ e.gen = a
    BY <1>2, RootWritten
  <1>4. RootStays
    BY <1>1, RootWritten, RetainedRootType DEF RootStays, IInv
  <1>5. PartsGrow
    <2> SUFFICES ASSUME NEW b \in Attempts, NEW i \in 1 .. parts
                 PROVE  RetainedPart(b, i)'.until >= RetainedPart(b, i).until
      BY DEF PartsGrow
    <2>1. b \in Gens /\ RetainedPart(b, i).until \in Nat
      BY RetainedPartType DEF IInv, Gens
    <2> QED
      BY <2>1, RootWrittenSame
  <1>6. PartsAreOwn'
    <2> SUFFICES ASSUME NEW b \in Attempts, Retained(b), NEW i \in 1 .. parts,
                        RetainedPart(b, i)'.until > 0
                 PROVE  RetainedPart(b, i)'.body = Body(job[b].build, i)
      BY <1>1 DEF PartsAreOwn, Retained, Body
    <2>1. RetainedPart(b, i)' = RetainedPart(b, i)
      BY RootWrittenSame DEF Gens
    <2> QED
      BY <2>1 DEF IInv, PartsAreOwn
  <1>7. RootsAreBuilt'
    <2>1. Built(e, "retained")
      BY <1>3 DEF Built, Retained
    <2>2. store'[Root("retained")] = e
      BY <1>3 DEF RetainedRoot, Root
    <2>3. store[Root("cache")].until > 0 => Built(store[Root("cache")], "cache")
      BY DEF IInv, RootsAreBuilt, Policies
    <2>4. ASSUME NEW p \in Policies, store'[Root(p)].until > 0 PROVE Built(store'[Root(p)], p)
      BY <2>1, <2>2, <2>3, <2>4, RootWrittenSame DEF Policies
    <2> QED
      BY <1>1, <2>4 DEF RootsAreBuilt, Built, Root
  <1>8. RootIsComplete'
    <2> SUFFICES ASSUME NEW i \in 1 .. parts
                 PROVE  RetainedPart(a, i)'.until >= e.until
      BY <1>1, <1>3 DEF RootIsComplete, RetainedPart, Piece
    <2>1. a \in Gens
      BY DEF Gens
    <2> QED
      BY <1>2, <2>1, RootWritten, RootWrittenSame
  <1> QED
    BY <1>4, <1>5, <1>6, <1>7, <1>8, Written, StoreMoves

LEMMA StoreStep ==
    ASSUME IInv, NEW a \in Attempts, Store(a)
    PROVE  IInv'
  BY StoreCache, StorePart, StoreRoot

-----------------------------------------------------------------------------
(* The store and the clock.                                                *)

LEMMA StoreOrClock ==
    ASSUME IInv, UNCHANGED <<scope, parts, job, put, get>>, now' \in Nat, now' >= now,
           store' \in [Slots -> Entries], RootStays, PartsGrow,
           PartsAreOwn', RootsAreBuilt', RootIsComplete'
    PROVE  IInv'
  <1>1. put \in [Attempts -> PutRecs] /\ get \in [Readers -> GetRecs]
    BY Records DEF IInv
  <1>2. TypeOK'
    BY DEF IInv, TypeOK
  <1>3. ASSUME NEW b \in Attempts PROVE AttemptOK(b, put[b])'
    <2>1. PICK q \in PutRecs : q = put[b]
      BY <1>1
    <2>2. AttemptOK(b, q)
      BY <2>1 DEF IInv
    <2>3. AttemptOK(b, q)'
      BY <2>2, AttemptKept
    <2>4. put'[b] = q
      BY <2>1
    <2> QED
      BY <2>3, <2>4 DEF AttemptOK, InOrder, PartsOutlive, TellsDeadline
  <1>4. ASSUME NEW r \in Readers PROVE ReaderOK(get[r])'
    <2>1. PICK q \in GetRecs : q = get[r]
      BY <1>1
    <2>2. ReaderOK(q)
      BY <2>1 DEF IInv
    <2>3. ReaderOK(q)'
      BY <2>2, ReaderKept
    <2>4. get'[r] = q
      BY <2>1
    <2> QED
      BY <2>3, <2>4 DEF ReaderOK, Assembles, HoldsOn
  <1> QED
    BY <1>2, <1>3, <1>4 DEF IInv

LEMMA EvictSame ==
    ASSUME IInv, NEW s \in Slots, Evict(s)
    PROVE  /\ \A g \in Gens, i \in 0 .. MaxParts :
                 store'[Piece("retained", g, i)] = store[Piece("retained", g, i)]
           /\ store' \in [Slots -> Entries]
           /\ \A p \in Policies : store'[Root(p)].until > 0 => store'[Root(p)] = store[Root(p)]
  <1>1. store \in [Slots -> Entries] /\ store' = [store EXCEPT ![s] = NoEntry] /\ s[1] = "cache"
    BY DEF IInv, TypeOK, Evict
  <1>2. store' \in [Slots -> Entries]
    BY <1>1, NoEntryType
  <1>3. ASSUME NEW g \in Gens, NEW i \in 0 .. MaxParts
        PROVE  store'[Piece("retained", g, i)] = store[Piece("retained", g, i)]
    <2>1. Piece("retained", g, i) \in Slots
      BY SlotType DEF Policies
    <2>2. Piece("retained", g, i) # s
      BY <1>1 DEF Piece
    <2> QED
      BY <1>1, <2>1, <2>2
  <1>4. ASSUME NEW p \in Policies, store'[Root(p)].until > 0 PROVE store'[Root(p)] = store[Root(p)]
    <2>1. Root(p) \in Slots
      BY RootType
    <2>2. CASE Root(p) = s
      <3>1. store'[Root(p)] = NoEntry
        BY <1>1, <2>1, <2>2
      <3>2. NoEntry.until = 0
        BY DEF NoEntry
      <3> QED
        BY <1>4, <3>1, <3>2
    <2>3. CASE Root(p) # s
      BY <1>1, <2>1, <2>3
    <2> QED
      BY <2>2, <2>3
  <1> QED
    BY <1>2, <1>3, <1>4

LEMMA EvictStep ==
    ASSUME IInv, NEW s \in Slots, Evict(s)
    PROVE  IInv'
  <1>1. UNCHANGED <<scope, parts, job, now, put, get>>
    BY DEF Evict
  <1>2. RootStays /\ PartsGrow /\ PartsAreOwn' /\ RootIsComplete'
    BY <1>1, EvictSame, RetainedSame
  <1>3. RootsAreBuilt'
    <2>1. ASSUME NEW p \in Policies, store'[Root(p)].until > 0 PROVE Built(store'[Root(p)], p)
      <3>1. store'[Root(p)] = store[Root(p)]
        BY <2>1, EvictSame
      <3> QED
        BY <2>1, <3>1 DEF IInv, RootsAreBuilt
    <2> QED
      BY <1>1, <2>1 DEF RootsAreBuilt, Built, Root
  <1>4. now' \in Nat /\ now' >= now
    BY <1>1, NowType DEF IInv
  <1> QED
    BY <1>1, <1>2, <1>3, <1>4, EvictSame, StoreOrClock

LEMMA TickStep ==
    ASSUME IInv, Tick
    PROVE  IInv'
  <1>1. UNCHANGED <<scope, parts, job, store, put, get>> /\ now' = now + 1 /\ now \in Nat
    BY NowType DEF Tick, IInv
  <1>2. now' \in Nat /\ now' >= now
    BY <1>1
  <1>3. store' \in [Slots -> Entries]
    BY <1>1 DEF IInv, TypeOK
  <1>4. RootStays
    BY <1>1 DEF RootStays, RetainedRoot
  <1>5. PartsGrow
    <2> SUFFICES ASSUME NEW b \in Attempts, NEW i \in 1 .. parts
                 PROVE  RetainedPart(b, i)'.until >= RetainedPart(b, i).until
      BY DEF PartsGrow
    <2>1. RetainedPart(b, i).until \in Nat
      BY RetainedPartType DEF IInv, Gens
    <2>2. RetainedPart(b, i)' = RetainedPart(b, i)
      BY <1>1 DEF RetainedPart, Piece
    <2> QED
      BY <2>1, <2>2
  <1>6. PartsAreOwn' /\ RootsAreBuilt'
    BY <1>1 DEF IInv, PartsAreOwn, RootsAreBuilt, RetainedPart, Retained, Built, Piece, Root, Body
  <1>7. RootIsComplete'
    <2>1. RetainedRoot.until \in Nat
      BY RetainedRootType DEF IInv
    <2>2. RetainedRoot.until > now' => RetainedRoot.until > now
      BY <1>1, <2>1
    <2>3. RetainedRoot.until > now' =>
            \A i \in 1 .. parts : RetainedPart(RetainedRoot.gen, i).until >= RetainedRoot.until
      BY <2>2 DEF IInv, RootIsComplete
    <2> QED
      BY <1>1, <2>3 DEF RootIsComplete, RetainedPart, RetainedRoot, Piece, Root
  <1> QED
    BY <1>1, <1>2, <1>3, <1>4, <1>5, <1>6, <1>7, StoreOrClock

-----------------------------------------------------------------------------
(* get, request by request.                                                *)

LEMMA ReaderMoves ==
    ASSUME IInv, NEW r \in Readers, NEW q \in GetRecs,
           get' = [get EXCEPT ![r] = q], ReaderOK(q), OnlyGet
    PROVE  IInv'
  <1>1. UNCHANGED <<scope, parts, job, now, store, put>>
    BY DEF OnlyGet
  <1>2. get \in [Readers -> GetRecs]
    BY Records DEF IInv
  <1>3. TypeOK'
    <2>1. get' \in [Readers -> GetRecs]
      BY <1>2
    <2> QED
      BY <1>1, <2>1 DEF IInv, TypeOK, GetRecs
  <1>4. PartsAreOwn' /\ RootsAreBuilt' /\ RootIsComplete'
    BY <1>1 DEF IInv, PartsAreOwn, RootsAreBuilt, RootIsComplete, RetainedPart, RetainedRoot,
           Retained, Built, Piece, Root, Body
  <1>5. ASSUME NEW b \in Attempts PROVE AttemptOK(b, put[b])'
    <2>1. AttemptOK(b, put[b])
      BY DEF IInv
    <2> QED
      BY <1>1, <2>1 DEF AttemptOK, InOrder, PartsOutlive, TellsDeadline, Retained, RetainedPart,
             RetainedRoot, Piece, Root
  <1>6. ASSUME NEW t \in Readers PROVE ReaderOK(get[t])'
    <2>1. PICK u \in GetRecs : u = get'[t]
      BY <1>2
    <2>2. ReaderOK(u)
      BY <1>2, <2>1 DEF IInv
    <2> QED
      BY <1>1, <2>1, <2>2 DEF ReaderOK, Assembles, HoldsOn, Built, RetainedRoot, Root, Body
  <1> QED
    BY <1>3, <1>4, <1>5, <1>6 DEF IInv

LEMMA AskStep ==
    ASSUME IInv, NEW r \in Readers, Ask(r)
    PROVE  IInv'
  <1>1. Promised \in SUBSET Nat
    <2>1. \A b \in Attempts : put[b].told \in Nat
      BY Records DEF IInv, PutRecs
    <2> QED
      BY <2>1 DEF Promised
  <1>2. PICK due \in SUBSET Nat : due = Promised
    BY <1>1
  <1>3. PICK q \in GetRecs : q = Reader("root", due)
    BY ReaderType
  <1>4. q.pc = "root" /\ q.due = due /\ q.ns = "retained" /\ q.got = <<>>
    BY <1>3, ReaderType
  <1>5. ASSUME NEW d \in due, now < d PROVE RetainedRoot.until = d
    <2>1. PICK b \in Attempts : Retained(b) /\ put[b].pc \in Acknowledged /\ d = put[b].told
      BY <1>2 DEF Promised
    <2> QED
      BY <1>5, <2>1 DEF IInv, AttemptOK, TellsDeadline
  <1>6. ReaderOK(q)
    BY <1>4, <1>5 DEF ReaderOK, Assembles, HoldsOn
  <1> QED
    BY <1>2, <1>3, <1>6, ReaderMoves DEF Ask

LEMMA GetFailsStep ==
    ASSUME IInv, NEW r \in Readers, GetFails(r)
    PROVE  IInv'
  <1>1. PICK pc \in {"unavailable", "failed"} : get' = [get EXCEPT ![r] = Reader(pc, {})]
    BY DEF GetFails
  <1>2. PICK q \in GetRecs : q = Reader(pc, {})
    BY ReaderType
  <1>3. q.pc = pc /\ q.due = {}
    BY <1>2, ReaderType
  <1>4. ReaderOK(q)
    BY <1>3 DEF ReaderOK, Assembles, HoldsOn
  <1> QED
    BY <1>1, <1>2, <1>4, ReaderMoves DEF GetFails

LEMMA GetRootStep ==
    ASSUME IInv, NEW r \in Readers, GetRoot(r)
    PROVE  IInv'
  <1>1. OnlyGet /\ get[r].pc = "root"
    BY DEF GetRoot
  <1>2. PICK q \in GetRecs : q = get[r]
    BY Records DEF IInv
  <1>3. q.pc = "root" /\ q.got = <<>> /\ q.ns \in Policies /\ q.due \in SUBSET Nat /\ ReaderOK(q)
    BY <1>1, <1>2 DEF IInv, ReaderOK, Assembles, GetRecs
  <1>4. ASSUME NEW d \in q.due, now < d PROVE q.ns = "retained" /\ RetainedRoot.until = d
    BY <1>3, <1>4 DEF ReaderOK, HoldsOn
  <1>5. PICK e \in Entries : e = store[Root(q.ns)]
    BY <1>3, RootType DEF IInv, TypeOK
  <1>6. CASE Live(Root(q.ns))
    <2>1. PICK pc \in {"found", "parts"} : pc = IF parts = 0 THEN "found" ELSE "parts"
      OBVIOUS
    <2> DEFINE n == [q EXCEPT !.pc = pc, !.root = e]
    <2>2. get' = [get EXCEPT ![r] = n]
      BY <1>2, <1>5, <1>6, <2>1 DEF GetRoot
    <2>3. n \in GetRecs /\ n.pc = pc /\ n.root = e /\ n.ns = q.ns /\ n.got = <<>> /\ n.due = q.due
      BY <1>3 DEF GetRecs
    <2> HIDE DEF n
    <2>4. Built(e, q.ns)
      <3>1. e.until > 0
        BY <1>5, <1>6, NowType DEF Live, Entries, IInv
      <3> QED
        BY <1>3, <1>5, <3>1 DEF IInv, RootsAreBuilt
    <2>5. Assembles(n)
      BY <2>1, <2>3, <2>4, PartsBounded DEF Assembles, IInv
    <2>6. HoldsOn(n)
      BY <1>4, <1>5, <2>1, <2>3 DEF HoldsOn, RetainedRoot
    <2> QED
      BY <1>1, <2>2, <2>3, <2>5, <2>6, ReaderMoves DEF ReaderOK
  <1>7. CASE ~Live(Root(q.ns)) /\ q.ns = "retained"
    <2> DEFINE n == [q EXCEPT !.ns = "cache"]
    <2>1. get' = [get EXCEPT ![r] = n]
      BY <1>2, <1>7 DEF GetRoot
    <2>2. n \in GetRecs /\ n.pc = "root" /\ n.got = <<>> /\ n.due = q.due
      BY <1>3 DEF GetRecs, Policies
    <2> HIDE DEF n
    <2>3. ASSUME NEW d \in n.due, now < d PROVE FALSE
      <3>1. RetainedRoot.until = d
        BY <1>4, <2>2, <2>3
      <3> QED
        BY <1>7, <2>3, <3>1 DEF Live, RetainedRoot
    <2>4. ReaderOK(n)
      BY <2>2, <2>3 DEF ReaderOK, Assembles, HoldsOn
    <2> QED
      BY <1>1, <2>1, <2>2, <2>4, ReaderMoves
  <1>8. CASE ~Live(Root(q.ns)) /\ q.ns # "retained"
    <2>1. PICK n \in GetRecs : n = Reader("miss", q.due)
      BY <1>3, ReaderType
    <2>2. n.pc = "miss" /\ n.due = q.due
      BY <1>3, <2>1, ReaderType
    <2>3. get' = [get EXCEPT ![r] = n]
      BY <1>2, <1>8, <2>1 DEF GetRoot
    <2>4. ReaderOK(n)
      BY <1>4, <1>8, <2>2 DEF ReaderOK, Assembles, HoldsOn
    <2> QED
      BY <1>1, <2>3, <2>4, ReaderMoves
  <1> QED
    BY <1>6, <1>7, <1>8

\* The part a reader of a retained root comes to is what the root names, if it
\* is there.
LEMMA RetainedPartFits ==
    ASSUME IInv, NEW q \in GetRecs, Built(q.root, "retained"), NEW k \in 1 .. parts,
           Live(Piece("retained", q.root.gen, k))
    PROVE  store[Piece("retained", q.root.gen, k)].body = Body(q.root.body, k)
  <1>1. PICK b \in Attempts : job[b].policy = "retained" /\ job[b].build = q.root.body /\ q.root.gen = b
    BY DEF Built
  <1>2. RetainedPart(b, k).until > 0
    BY <1>1, RetainedPartType, NowType DEF Live, RetainedPart, IInv, Gens
  <1>3. RetainedPart(b, k).body = Body(job[b].build, k)
    BY <1>1, <1>2 DEF IInv, PartsAreOwn, Retained
  <1> QED
    BY <1>1, <1>3 DEF RetainedPart

LEMMA GetPartStep ==
    ASSUME IInv, NEW r \in Readers, GetPart(r)
    PROVE  IInv'
  <1>1. OnlyGet /\ get[r].pc = "parts"
    BY DEF GetPart
  <1>2. PICK q \in GetRecs : q = get[r]
    BY Records DEF IInv
  <1>3. /\ q.pc = "parts" /\ q.ns \in Policies /\ q.due \in SUBSET Nat /\ ReaderOK(q)
        /\ q.root \in Entries /\ q.root.gen \in Gens /\ q.got \in Seq(Builds \cup {NoBuild})
    BY <1>1, <1>2 DEF IInv, GetRecs, Entries
  <1>4. Len(q.got) \in Nat /\ Len(q.got) < parts /\ parts \in Nat /\ Built(q.root, q.ns)
    BY <1>3, PartsBounded DEF ReaderOK, Assembles, IInv
  <1>5. PICK k \in 1 .. parts : k = Len(q.got) + 1
    BY <1>4
  <1>6. PICK part \in Slots : part = Piece(q.ns, q.root.gen, k)
    BY <1>3, <1>5, SlotType, PartsBounded, ConstantsAssumption DEF IInv
  <1>7. PICK body \in Builds \cup {NoBuild} : body = store[part].body
    BY <1>6 DEF IInv, TypeOK, Entries
  <1>8. PICK got \in Seq(Builds \cup {NoBuild}) : got = Append(q.got, body)
    <2>1. PICK S : S = Builds \cup {NoBuild}
      OBVIOUS
    <2>2. q.got \in Seq(S) /\ body \in S
      BY <1>3, <1>7, <2>1
    <2>3. Append(q.got, body) \in Seq(S)
      BY <2>2, AppendProperties
    <2> QED
      BY <2>1, <2>3
  <1>9. Len(got) = k /\ got[k] = body /\ \A i \in 1 .. Len(q.got) : got[i] = q.got[i]
    BY <1>3, <1>5, <1>7, <1>8
  <1>10. get' = [get EXCEPT ![r] =
             IF ~Live(part) \/ (Len(got) = parts /\ ~Joins(q.root, got))
             THEN Reader("torn", q.due)
             ELSE [q EXCEPT !.got = got, !.pc = IF Len(got) = parts THEN "found" ELSE "parts"]]
    BY <1>2, <1>5, <1>6, <1>7, <1>8 DEF GetPart
  \* What a reader of a retained root has is what the root names.
  <1>11. ASSUME q.ns = "retained", Live(part), NEW i \in 1 .. k
         PROVE  got[i] = Body(q.root.body, i)
    <2>1. CASE i = k
      BY <1>4, <1>6, <1>7, <1>9, <1>11, <2>1, RetainedPartFits
    <2>2. CASE i # k
      <3>1. i \in 1 .. Len(q.got)
        BY <1>4, <1>5, <2>2
      <3>2. q.got[i] = Body(q.root.body, i)
        BY <1>3, <1>11, <3>1 DEF ReaderOK, Assembles
      <3> QED
        BY <1>9, <3>1, <3>2
    <2> QED
      BY <2>1, <2>2
  <1>12. ASSUME NEW d \in q.due, now < d
         PROVE  q.ns = "retained" /\ RetainedRoot.until = d /\ RetainedRoot.gen = q.root.gen /\ Live(part)
    <2>1. q.ns = "retained" /\ RetainedRoot.until = d /\ RetainedRoot.gen = q.root.gen
      BY <1>3, <1>12 DEF ReaderOK, HoldsOn
    <2>2. RetainedPart(q.root.gen, k).until >= RetainedRoot.until
      BY <1>12, <2>1 DEF IInv, RootIsComplete
    <2>3. RetainedPart(q.root.gen, k).until \in Nat /\ d \in Nat /\ now \in Nat
      BY <1>3, RetainedPartType, NowType DEF IInv
    <2>4. RetainedPart(q.root.gen, k).until > now
      BY <1>12, <2>1, <2>2, <2>3
    <2> QED
      BY <1>6, <2>1, <2>4 DEF Live, RetainedPart
  <1>13. CASE ~Live(part) \/ (Len(got) = parts /\ ~Joins(q.root, got))
    <2>1. PICK n \in GetRecs : n = Reader("torn", q.due)
      BY <1>3, ReaderType
    <2>2. n.pc = "torn" /\ n.due = q.due
      BY <1>3, <2>1, ReaderType
    <2>3. ASSUME NEW d \in q.due, now < d PROVE FALSE
      <3>1. q.ns = "retained" /\ Live(part)
        BY <1>12, <2>3
      <3>2. \A i \in 1 .. k : got[i] = Body(q.root.body, i)
        BY <1>11, <3>1
      <3> QED
        BY <1>9, <1>13, <3>1, <3>2 DEF Joins
    <2>4. ReaderOK(n)
      BY <2>2, <2>3 DEF ReaderOK, Assembles, HoldsOn
    <2> QED
      BY <1>1, <1>10, <1>13, <2>1, <2>4, ReaderMoves
  <1>14. CASE Live(part) /\ (Len(got) = parts => Joins(q.root, got))
    <2>1. PICK pc \in {"found", "parts"} : pc = IF Len(got) = parts THEN "found" ELSE "parts"
      OBVIOUS
    <2> DEFINE n == [q EXCEPT !.got = got, !.pc = pc]
    <2>2. get' = [get EXCEPT ![r] = n]
      BY <1>10, <1>14, <2>1
    <2>3. n \in GetRecs /\ n.pc = pc /\ n.got = got /\ n.root = q.root /\ n.ns = q.ns /\ n.due = q.due
      BY <1>3 DEF GetRecs
    <2> HIDE DEF n
    <2>4. pc = "parts" => Len(n.got) < parts
      BY <1>5, <1>9, <2>1, <2>3, <1>4
    <2>5. pc = "parts" /\ n.ns = "retained" =>
             \A i \in 1 .. Len(n.got) : n.got[i] = Body(n.root.body, i)
      BY <1>9, <1>11, <1>14, <2>3
    <2>6. pc = "found" => \A i \in 1 .. parts : n.got[i] = Body(n.root.body, i)
      BY <1>14, <2>1, <2>3 DEF Joins
    <2>7. Assembles(n)
      BY <1>4, <2>3, <2>4, <2>5, <2>6 DEF Assembles
    <2>8. HoldsOn(n)
      BY <1>12, <2>3 DEF HoldsOn
    <2> QED
      BY <1>1, <2>2, <2>3, <2>7, <2>8, ReaderMoves DEF ReaderOK
  <1> QED
    BY <1>13, <1>14

-----------------------------------------------------------------------------
(* The specification.                                                      *)

LEMMA InitIInv == Init => IInv
  <1> SUFFICES ASSUME Init PROVE IInv
    OBVIOUS
  <1>1. PICK c \in Scenarios : scope = c.scope /\ parts = c.parts /\ job = c.job
    BY DEF Init
  <1>2. c.scope \in {"protected", "dev"} /\ c.parts \in PartCounts
        /\ c.job \in [Attempts -> [policy : Policies, build : Builds, days : Days]]
    BY ConstantsAssumption DEF Policies
  <1>3. store = [s \in Slots |-> NoEntry] /\ NoEntry.until = 0 /\ now = 0
    BY DEF Init, NoEntry
  <1>4. Attempt("idle") \in PutRecs /\ Attempt("idle").pc = "idle" /\ Attempt("idle").at = 1
    BY AttemptType DEF Attempt
  <1>5. Reader("idle", {}) \in GetRecs /\ Reader("idle", {}).pc = "idle" /\ Reader("idle", {}).due = {}
    BY ReaderType
  <1>6. put \in [Attempts -> PutRecs] /\ get \in [Readers -> GetRecs] /\ store \in [Slots -> Entries]
    BY <1>3, <1>4, <1>5, NoEntryType DEF Init
  <1>7. TypeOK
    BY <1>1, <1>2, <1>3, <1>6 DEF TypeOK, PutRecs, GetRecs
  <1>8. \A g \in Gens : \A i \in 1 .. parts : RetainedPart(g, i).until = 0
    <2> SUFFICES ASSUME NEW g \in Gens, NEW i \in 1 .. parts PROVE RetainedPart(g, i).until = 0
      OBVIOUS
    <2>1. Piece("retained", g, i) \in Slots
      BY <1>7, RetainedPartType
    <2> QED
      BY <1>3, <2>1 DEF RetainedPart
  <1>9. \A p \in Policies : store[Root(p)].until = 0
    BY <1>3, RootType
  <1>10. PartsAreOwn /\ RootsAreBuilt /\ RootIsComplete
    BY <1>3, <1>8, <1>9 DEF PartsAreOwn, RootsAreBuilt, RootIsComplete, RetainedRoot, Gens, Policies
  <1>11. ASSUME NEW a \in Attempts PROVE AttemptOK(a, put[a])
    <2>1. put[a].pc = "idle" /\ put[a].at = 1
      BY <1>4 DEF Init
    <2> QED
      BY <2>1 DEF AttemptOK, InOrder, PartsOutlive, TellsDeadline, Acknowledged
  <1>12. ASSUME NEW r \in Readers PROVE ReaderOK(get[r])
    <2>1. get[r].pc = "idle" /\ get[r].due = {}
      BY <1>5 DEF Init
    <2> QED
      BY <2>1 DEF ReaderOK, Assembles, HoldsOn
  <1> QED
    BY <1>7, <1>10, <1>11, <1>12 DEF IInv

LEMMA UnchangedStep ==
    ASSUME IInv, UNCHANGED vars
    PROVE  IInv'
  <1>1. UNCHANGED <<scope, parts, job, now, store, put, get>>
    BY DEF vars
  <1>2. TypeOK' /\ PartsAreOwn' /\ RootsAreBuilt' /\ RootIsComplete'
    BY <1>1 DEF IInv, TypeOK, PartsAreOwn, RootsAreBuilt, RootIsComplete, Built, Retained,
           RetainedPart, RetainedRoot, Piece, Root, Body
  <1>3. ASSUME NEW a \in Attempts PROVE AttemptOK(a, put[a])'
    <2>1. AttemptOK(a, put[a])
      BY DEF IInv
    <2> QED
      BY <1>1, <2>1 DEF AttemptOK, InOrder, PartsOutlive, TellsDeadline, Retained, RetainedPart,
             RetainedRoot, Piece, Root
  <1>4. ASSUME NEW r \in Readers PROVE ReaderOK(get[r])'
    <2>1. ReaderOK(get[r])
      BY DEF IInv
    <2> QED
      BY <1>1, <2>1 DEF ReaderOK, Assembles, HoldsOn, Built, RetainedRoot, Root, Body
  <1> QED
    BY <1>2, <1>3, <1>4 DEF IInv

LEMMA NextIInv ==
    ASSUME IInv, [Next]_vars
    PROVE  IInv'
  <1>1. ASSUME NEW a \in Attempts, PutStep(a) PROVE IInv'
    BY <1>1, BeginStep, CheckRootStep, StoreStep, ConflictStep, CompareStep, ReadBackStep,
       ExistingRootStep, ExistingPartStep, PutEndsStep DEF PutStep
  <1>2. ASSUME NEW r \in Readers, GetStep(r) PROVE IInv'
    BY <1>2, AskStep, GetRootStep, GetPartStep, GetFailsStep DEF GetStep
  <1> QED
    BY <1>1, <1>2, EvictStep, TickStep, UnchangedStep DEF Next

LEMMA Inductive == Spec => []IInv
  <1>1. IInv /\ [Next]_vars => IInv'
    BY NextIInv
  <1> QED
    BY <1>1, InitIInv, PTL DEF Spec

-----------------------------------------------------------------------------
(* What the store hands out.                                               *)

LEMMA LiveRootIsReadable ==
    ASSUME IInv, RetainedRoot.until > now
    PROVE  Readable("retained")
  <1>1. PICK g \in Gens : g = RetainedRoot.gen
    BY RetainedRootType DEF IInv
  <1>2. RetainedRoot.until \in Nat /\ now \in Nat
    BY RetainedRootType, NowType DEF IInv
  <1>3. PICK b \in Attempts : job[b].policy = "retained" /\ job[b].build = RetainedRoot.body /\ g = b
    <2>1. RetainedRoot.until > 0
      BY <1>2
    <2>2. Built(RetainedRoot, "retained")
      BY <2>1 DEF IInv, RootsAreBuilt, RetainedRoot, Policies
    <2> QED
      BY <1>1, <2>2 DEF Built
  <1>4. ASSUME NEW i \in 1 .. parts
        PROVE  /\ store[Piece("retained", g, i)].until > now
               /\ store[Piece("retained", g, i)].body = Body(RetainedRoot.body, i)
    <2>1. RetainedPart(g, i).until >= RetainedRoot.until
      BY <1>1 DEF IInv, RootIsComplete
    <2>2. RetainedPart(g, i).until \in Nat
      BY RetainedPartType DEF IInv
    <2>3. RetainedPart(g, i).until > now /\ RetainedPart(g, i).until > 0
      BY <1>2, <2>1, <2>2
    <2>4. RetainedPart(g, i).body = Body(job[b].build, i)
      BY <1>3, <2>3 DEF IInv, PartsAreOwn, Retained
    <2> QED
      BY <1>3, <2>3, <2>4 DEF RetainedPart
  <1> QED
    BY <1>1, <1>4 DEF Readable, Live, RetainedRoot

LEMMA ReadableIsLiveRoot ==
    ASSUME IInv
    PROVE  Readable("retained") <=> RetainedRoot.until > now
  <1>1. Readable("retained") => RetainedRoot.until > now
    BY DEF Readable, Live, RetainedRoot
  <1> QED
    BY <1>1, LiveRootIsReadable

LEMMA IInvStoreInv == IInv => StoreInv
  <1> SUFFICES ASSUME IInv PROVE StoreInv
    OBVIOUS
  <1>1. NeverAMixture
    <2> SUFFICES ASSUME NEW r \in Readers, get[r].pc = "found"
                 PROVE  \E a \in Attempts :
                            /\ job[a].policy = get[r].ns
                            /\ \A i \in 1 .. parts : get[r].got[i] = Body(job[a].build, i)
      BY DEF NeverAMixture
    <2>1. Built(get[r].root, get[r].ns) /\ \A i \in 1 .. parts : get[r].got[i] = Body(get[r].root.body, i)
      BY DEF IInv, ReaderOK, Assembles
    <2>2. PICK a \in Attempts : job[a].policy = get[r].ns /\ job[a].build = get[r].root.body
      BY <2>1 DEF Built
    <2> QED
      BY <2>1, <2>2
  <1>2. RetriesNeverCollide
    BY DEF IInv, AttemptOK, RetriesNeverCollide
  <1>3. AcknowledgedIsReadable
    <2> SUFFICES ASSUME NEW a \in Attempts, Retained(a), put[a].pc \in Acknowledged, now < put[a].told
                 PROVE  Readable("retained")
      BY DEF AcknowledgedIsReadable
    <2>1. RetainedRoot.until = put[a].told
      BY DEF IInv, AttemptOK, TellsDeadline
    <2>2. put[a].told \in Nat /\ now \in Nat
      BY Records, NowType DEF IInv, PutRecs
    <2> QED
      BY <2>1, <2>2, LiveRootIsReadable
  <1>4. PromiseIsKept
    <2> SUFFICES ASSUME NEW r \in Readers, get[r].pc \in {"miss", "torn"}, NEW d \in get[r].due
                 PROVE  now >= d
      BY DEF PromiseIsKept
    <2>1. ~(now < d)
      BY DEF IInv, ReaderOK, HoldsOn
    <2>2. d \in Nat /\ now \in Nat
      BY Records, NowType DEF IInv, GetRecs
    <2> QED
      BY <2>1, <2>2
  <1> QED
    BY <1>1, <1>2, <1>3, <1>4 DEF StoreInv, IInv

\* What run-store.sh hands a reader is one build of one attempt, whatever
\* attempts put the key meanwhile; a retry never collides with what a retained
\* attempt left; and a retained put that was acknowledged can be read until the
\* deadline it was told.
THEOREM StoreIsSound == Spec => []StoreInv
  BY Inductive, IInvStoreInv, PTL

-----------------------------------------------------------------------------
(* The refinement.  Between two days the retained entries change for a     *)
(* reader only in the step that writes the root.                           *)

HeldNow  == IF Readable("retained") THEN RetainedRoot.body ELSE NoBuild
UntilNow == IF Readable("retained") THEN RetainedRoot.until ELSE 0

LEMMA HeldByRoot ==
    ASSUME IInv
    PROVE  /\ HeldNow = IF RetainedRoot.until > now THEN RetainedRoot.body ELSE NoBuild
           /\ UntilNow = IF RetainedRoot.until > now THEN RetainedRoot.until ELSE 0
  BY ReadableIsLiveRoot DEF HeldNow, UntilNow

LEMMA HeldByRootNext ==
    ASSUME IInv'
    PROVE  /\ HeldNow' = IF RetainedRoot'.until > now' THEN RetainedRoot'.body ELSE NoBuild
           /\ UntilNow' = IF RetainedRoot'.until > now' THEN RetainedRoot'.until ELSE 0
  <1>1. (IInv => /\ HeldNow = IF RetainedRoot.until > now THEN RetainedRoot.body ELSE NoBuild
                 /\ UntilNow = IF RetainedRoot.until > now THEN RetainedRoot.until ELSE 0)'
    BY HeldByRoot, PTL
  <1> QED
    BY <1>1

\* A step that leaves the day and the root leaves what is held.
LEMMA HeldSame ==
    ASSUME IInv, IInv', now' = now, RetainedRoot' = RetainedRoot
    PROVE  UNCHANGED <<HeldNow, UntilNow, now>>
  BY HeldByRoot, HeldByRootNext

HandoverStep == [Promise!Next]_<<HeldNow, UntilNow, now>>

LEMMA RootIsPublished ==
    ASSUME IInv, IInv', NEW a \in Attempts, Store(a), Retained(a), ~IsPart(a)
    PROVE  Promise!Publish
  <1>1. UNCHANGED now
    BY DEF Store
  <1>2. PICK e \in Entries : e = Payload(a)
    BY Written
  <1>3. RetainedRoot.until <= now /\ RetainedRoot' = e /\ e.until > now /\ e.body = job[a].build
    BY <1>2, RootWritten
  <1>4. RetainedRoot.until \in Nat /\ now \in Nat /\ job[a].build \in Builds
    BY RetainedRootType, NowType, JobType DEF IInv
  <1>5. HeldNow = NoBuild
    BY <1>3, <1>4, HeldByRoot
  <1>6. HeldNow' = e.body /\ UntilNow' = e.until
    BY <1>1, <1>3, HeldByRootNext
  <1>7. HeldNow = NoBuild /\ HeldNow' \in Builds /\ UntilNow' > now /\ UNCHANGED now
    BY <1>1, <1>3, <1>4, <1>5, <1>6
  <1> QED
    BY <1>7 DEF Promise!Publish, HeldNow, UntilNow, RetainedRoot

LEMMA TickIsNextDay ==
    ASSUME IInv, IInv', Tick
    PROVE  Promise!NextDay
  <1>1. now' = now + 1 /\ RetainedRoot' = RetainedRoot
    BY DEF Tick, RetainedRoot, Root
  <1>2. RetainedRoot.until \in Nat /\ now \in Nat
    BY RetainedRootType, NowType DEF IInv
  <1>3. CASE RetainedRoot.until > now'
    <2>1. RetainedRoot.until > now
      BY <1>1, <1>2, <1>3
    <2>2. UntilNow > now' /\ UNCHANGED <<HeldNow, UntilNow>>
      BY <1>1, <1>3, <2>1, HeldByRoot, HeldByRootNext
    <2> QED
      BY <1>1, <2>2 DEF Promise!NextDay, HeldNow, UntilNow, RetainedRoot
  <1>4. CASE ~(RetainedRoot.until > now')
    <2>1. UntilNow = RetainedRoot.until \/ UntilNow = 0
      BY HeldByRoot
    <2>2. ~(UntilNow > now') /\ HeldNow' = NoBuild /\ UntilNow' = 0
      BY <1>1, <1>2, <1>4, <2>1, HeldByRootNext
    <2> QED
      BY <1>1, <2>2 DEF Promise!NextDay, HeldNow, UntilNow, RetainedRoot
  <1> QED
    BY <1>3, <1>4

LEMMA RootUnchanged ==
    ASSUME IInv, UNCHANGED store
    PROVE  RetainedRoot' = RetainedRoot
  BY DEF RetainedRoot, Root

LEMMA CacheStoreSame ==
    ASSUME IInv, NEW a \in Attempts, Store(a), ~Retained(a)
    PROVE  RetainedRoot' = RetainedRoot
  <1>1. Root("retained") \in Slots
    BY RootType DEF Policies
  <1>2. Root("retained") # Target(a)
    BY JobType DEF Retained, IInv, Policies, Target, Root, Piece
  <1>3. store'[Root("retained")] = store[Root("retained")]
    BY <1>1, <1>2, Written
  <1> QED
    BY <1>3 DEF RetainedRoot, Root

LEMMA EvictRootSame ==
    ASSUME IInv, NEW s \in Slots, Evict(s)
    PROVE  RetainedRoot' = RetainedRoot
  <1>1. Shared \in Gens /\ 0 \in 0 .. MaxParts
    BY ConstantsAssumption DEF Gens
  <1>2. store'[Piece("retained", Shared, 0)] = store[Piece("retained", Shared, 0)]
    BY <1>1, EvictSame
  <1> QED
    BY <1>2 DEF RetainedRoot, Root, Piece

LEMMA StepIsHandover ==
    ASSUME IInv, IInv', [Next]_vars
    PROVE  HandoverStep
  <1>1. ASSUME now' = now, RetainedRoot' = RetainedRoot PROVE HandoverStep
    BY <1>1, HeldSame DEF HandoverStep
  <1>2. ASSUME NEW a \in Attempts, PutStep(a), ~Store(a) PROVE HandoverStep
    <2>1. now' = now /\ UNCHANGED store
      BY <1>2 DEF PutStep, Begin, CheckRoot, Conflict, Compare, ReadBack, ExistingRoot, ExistingPart,
             PutUnavailable, PutFails, OnlyPut
    <2> QED
      BY <1>1, <2>1, RootUnchanged
  <1>3. ASSUME NEW a \in Attempts, Store(a) PROVE HandoverStep
    <2>1. now' = now
      BY <1>3 DEF Store
    <2>2. CASE ~Retained(a)
      BY <1>1, <1>3, <2>1, <2>2, CacheStoreSame
    <2>3. CASE Retained(a) /\ IsPart(a)
      BY <1>1, <1>3, <2>1, <2>3, PartWrittenSame
    <2>4. CASE Retained(a) /\ ~IsPart(a)
      BY <1>3, <2>4, RootIsPublished DEF HandoverStep, Promise!Next
    <2> QED
      BY <2>2, <2>3, <2>4
  <1>4. ASSUME NEW r \in Readers, GetStep(r) PROVE HandoverStep
    <2>1. now' = now /\ UNCHANGED store
      BY <1>4 DEF GetStep, Ask, GetRoot, GetPart, GetFails, OnlyGet
    <2> QED
      BY <1>1, <2>1, RootUnchanged
  <1>5. ASSUME NEW s \in Slots, Evict(s) PROVE HandoverStep
    <2>1. now' = now
      BY <1>5 DEF Evict
    <2> QED
      BY <1>1, <1>5, <2>1, EvictRootSame
  <1>6. ASSUME Tick PROVE HandoverStep
    BY <1>6, TickIsNextDay DEF HandoverStep, Promise!Next
  <1>7. ASSUME UNCHANGED vars PROVE HandoverStep
    BY <1>1, <1>7, RootUnchanged DEF vars
  <1> QED
    BY <1>2, <1>3, <1>4, <1>5, <1>6, <1>7 DEF Next

LEMMA InitIsHandover ==
    ASSUME Init
    PROVE  Promise!Init
  <1>1. IInv /\ now = 0
    BY InitIInv DEF Init
  <1>2. RetainedRoot.until = 0
    <2>1. Root("retained") \in Slots
      BY RootType DEF Policies
    <2> QED
      BY <2>1 DEF Init, RetainedRoot, NoEntry
  <1>3. HeldNow = NoBuild /\ UntilNow = 0
    BY <1>1, <1>2, HeldByRoot
  <1> QED
    BY <1>1, <1>3 DEF Promise!Init, HeldNow, UntilNow, RetainedRoot

\* To its readers the retained entries are one bundle, published whole by the
\* write of its manifest and the same until its deadline, although every part is
\* a request of its own and attempts, lost answers and evictions interleave.
THEOREM StoreIsHandover == Spec => ImplementsHandover
  <1>1. Init => Promise!Init
    BY InitIsHandover
  <1>2. IInv /\ IInv' /\ [Next]_vars => HandoverStep
    BY StepIsHandover
  <1>3. HandoverStep => [Promise!Next]_<<IF Readable("retained") THEN store[Root("retained")].body ELSE NoBuild,
                                         IF Readable("retained") THEN store[Root("retained")].until ELSE 0, now>>
    BY DEF HandoverStep, HeldNow, UntilNow, RetainedRoot
  <1> QED
    BY <1>1, <1>2, <1>3, Inductive, PTL DEF Spec, ImplementsHandover, Promise!Spec
=============================================================================
