----------------------------- MODULE JournalProofs -----------------------------
(***************************************************************************)
(* The life of an entity, for any number of events and of spawns, any      *)
(* retry limit and any journal that gives in before the writer does.       *)
(***************************************************************************)
EXTENDS Journal, SequenceTheorems, FiniteSetTheorems, TLAPS

----------------------------------------------------------------------------
(* The order of payloads.                                                  *)

\* Finitely many payloads, each number standing for one event.
Sound(S) ==
  /\ S \subseteq Payloads /\ IsFiniteSet(S)
  /\ \A a, b \in S : a.sequence_id = b.sequence_id => a.event = b.event

Preds(S, a) == {b \in S : Before(b, a)}
Rank(S, a) == Cardinality(Preds(S, a)) + 1

\* Payloads are in a strict order, which is total if numbers stand for events.
LEMMA StrictOrder ==
  /\ \A a \in Payloads : ~Before(a, a)
  /\ \A a, b, c \in Payloads : Before(a, b) /\ Before(b, c) => Before(a, c)
  /\ \A S : Sound(S) => \A a, b \in S : a = b \/ Before(a, b) \/ Before(b, a)
PROOF
<1>1. \A a \in Payloads : ~Before(a, a)
  BY DEF Before, Payloads
<1>2. \A a, b, c \in Payloads : Before(a, b) /\ Before(b, c) => Before(a, c)
  BY DEF Before, Payloads
<1>3. ASSUME NEW S, Sound(S), NEW a \in S, NEW b \in S, ~Before(a, b), ~Before(b, a)
      PROVE  a = b
  <2>1. a \in Payloads /\ b \in Payloads
    BY <1>3 DEF Sound
  <2>2. a.sequence_id = b.sequence_id /\ a.created_at = b.created_at
    BY <1>3, <2>1 DEF Before, Payloads
  <2>3. a.event = b.event
    BY <1>3, <2>2 DEF Sound
  <2>4. QED
    BY <2>1, <2>2, <2>3 DEF Payloads
<1>4. QED
  BY <1>1, <1>2, <1>3

\* A BTreeSet keeps all of them.
LEMMA AllDistinct ==
  ASSUME NEW S, Sound(S)
  PROVE  Distinct(S) = S
PROOF
<1>1. ASSUME NEW a \in S
      PROVE  (CHOOSE b \in S : ~Before(a, b) /\ ~Before(b, a)) = a
  <2>1. S \subseteq Payloads
    BY DEF Sound
  <2>2. ~Before(a, a) /\ \A b \in S : ~Before(a, b) /\ ~Before(b, a) => b = a
    BY <2>1, StrictOrder
  <2>3. QED
    BY <2>2
<1>2. QED
  BY <1>1 DEF Distinct

\* A part of them is as sound.
LEMMA SoundPart ==
  ASSUME NEW S, Sound(S), NEW T \in SUBSET S
  PROVE  Sound(T) /\ Cardinality(T) \in Nat /\ Cardinality(T) <= Cardinality(S)
  BY FS_Subset, FS_CardinalityType DEF Sound

\* The rank of a payload is a place in the walk, higher for a later payload.
LEMMA Ranks ==
  ASSUME NEW S, Sound(S), NEW a \in S
  PROVE  /\ Rank(S, a) \in 1 .. Cardinality(S)
         /\ \A b \in S : Before(a, b) => Rank(S, a) < Rank(S, b)
PROOF
<1>1. S \subseteq Payloads
  BY DEF Sound
<1>2. \A b \in S : Preds(S, b) \subseteq S /\ Cardinality(Preds(S, b)) \in Nat /\ IsFiniteSet(Preds(S, b))
  BY SoundPart DEF Preds, Sound
<1>3. a \notin Preds(S, a)
  BY <1>1, StrictOrder DEF Preds
<1>4. Cardinality(Preds(S, a)) < Cardinality(S)
  <2>1. IsFiniteSet(S) /\ Cardinality(S) \in Nat
    BY FS_CardinalityType DEF Sound
  <2>2. Cardinality(Preds(S, a)) <= Cardinality(S) /\ Cardinality(Preds(S, a)) # Cardinality(S)
    BY <1>2, <1>3, <2>1, FS_Subset
  <2>3. QED
    BY <1>2, <2>1, <2>2
<1>5. ASSUME NEW b \in S, Before(a, b)
      PROVE  Cardinality(Preds(S, a)) < Cardinality(Preds(S, b))
  <2>1. Preds(S, a) \subseteq Preds(S, b) /\ a \in Preds(S, b)
    BY <1>1, <1>5, StrictOrder DEF Preds
  <2>2. /\ Cardinality(Preds(S, a)) <= Cardinality(Preds(S, b))
        /\ Cardinality(Preds(S, a)) # Cardinality(Preds(S, b))
    BY <1>2, <1>3, <2>1, FS_Subset
  <2>3. QED
    BY <1>2, <2>2
<1>6. Cardinality(S) \in Nat
  BY FS_CardinalityType DEF Sound
<1>7. QED
  BY <1>2, <1>4, <1>5, <1>6 DEF Rank

\* An ordered walk meets every payload, at its rank.
LEMMA Walk ==
  ASSUME NEW S, Sound(S)
  PROVE  /\ Ordered(S) \in Seq(S) /\ Len(Ordered(S)) = Cardinality(S)
         /\ \A a \in S : Ordered(S)[Rank(S, a)] = a
         /\ \A n \in 1 .. Cardinality(S) : Rank(S, Ordered(S)[n]) = n
PROOF
<1> DEFINE N == Cardinality(S)
           at(n) == CHOOSE a \in S : Cardinality({b \in S : Before(b, a)}) = n - 1
           f == [a \in S |-> Rank(S, a)]
<1>1. Ordered(S) = [n \in 1 .. N |-> at(n)]
  BY DEF Ordered
<1>2. \A a \in S : Rank(S, a) \in 1 .. N
  BY Ranks
<1>3. \A a, b \in S : Rank(S, a) = Rank(S, b) => a = b
  BY StrictOrder, Ranks
<1>4. \A n \in 1 .. N : at(n) = CHOOSE a \in S : Rank(S, a) = n
  <2>1. ASSUME NEW n \in 1 .. N, NEW a \in S
        PROVE  Cardinality({b \in S : Before(b, a)}) = n - 1 <=> Rank(S, a) = n
    <3>1. Cardinality(Preds(S, a)) \in Nat
      BY SoundPart DEF Preds
    <3>2. QED
      BY <3>1 DEF Rank, Preds
  <2>2. QED
    BY <2>1
<1> HIDE DEF at
<1>5. N \in Nat /\ IsFiniteSet(S)
  BY FS_CardinalityType DEF Sound
<1>6. \A n \in 1 .. N : \E a \in S : Rank(S, a) = n
  <2>1. f \in Injection(S, 1 .. N)
    BY <1>2, <1>3 DEF Injection, IsInjective
  <2>2. IsFiniteSet(1 .. N) /\ Cardinality(1 .. N) = N
    BY <1>5, FS_Interval
  <2>3. f \in Surjection(S, 1 .. N)
    BY <2>1, <2>2, FS_Injection
  <2>4. QED
    BY <2>3 DEF Surjection
<1>7. \A n \in 1 .. N : at(n) \in S /\ Rank(S, at(n)) = n
  BY <1>4, <1>6
<1>8. Ordered(S) \in [1 .. N -> S]
  BY <1>1, <1>7
<1>9. Ordered(S) \in Seq(S) /\ Len(Ordered(S)) = N
  BY <1>5, <1>8
<1>10. \A n \in 1 .. N : Rank(S, Ordered(S)[n]) = n
  BY <1>1, <1>7
<1>11. ASSUME NEW a \in S PROVE Ordered(S)[Rank(S, a)] = a
  BY <1>1, <1>2, <1>3, <1>7
<1>12. QED
  BY <1>9, <1>10, <1>11

----------------------------------------------------------------------------
(* Replaying in parts.                                                     *)

Lower(S, s) == {a \in S : a.sequence_id < s}
Upper(S, s) == {a \in S : a.sequence_id >= s}

\* Payloads that come after all of A are walked after them.
LEMMA WalkExtends ==
  ASSUME NEW S, Sound(S), NEW A \in SUBSET S, \A a \in A, b \in S \ A : ~Before(b, a)
  PROVE  \A n \in 1 .. Cardinality(A) : Ordered(S)[n] = Ordered(A)[n]
PROOF
<1> SUFFICES ASSUME NEW n \in 1 .. Cardinality(A) PROVE Ordered(S)[n] = Ordered(A)[n]
  OBVIOUS
<1> DEFINE a == Ordered(A)[n]
<1>1. a \in A /\ Rank(A, a) = n
  BY SoundPart, Walk, LenProperties
<1> HIDE DEF a
<1>2. Preds(S, a) = Preds(A, a)
  BY <1>1 DEF Preds
<1>3. Rank(S, a) = n /\ a \in S
  BY <1>1, <1>2 DEF Rank
<1>4. QED
  BY <1>3, Walk DEF a

\* The payloads below a number are walked first.
LEMMA WalkInParts ==
  ASSUME NEW S, Sound(S), NEW s \in Int
  PROVE  /\ Cardinality(S) = Cardinality(Lower(S, s)) + Cardinality(Upper(S, s))
         /\ \A n \in 1 .. Cardinality(Lower(S, s)) : Ordered(S)[n] = Ordered(Lower(S, s))[n]
         /\ \A n \in 1 .. Cardinality(Upper(S, s)) :
              Ordered(S)[Cardinality(Lower(S, s)) + n] = Ordered(Upper(S, s))[n]
PROOF
<1> DEFINE A == Lower(S, s)
           B == Upper(S, s)
<1>1. /\ A \subseteq S /\ B \subseteq S /\ A \cup B = S /\ A \cap B = {}
      /\ S \subseteq Payloads
      /\ \A a \in A, b \in B : Before(a, b) /\ ~Before(b, a)
  BY DEF Lower, Upper, Sound, Payloads, Before
<1> HIDE DEF A, B
<1>2. /\ Sound(A) /\ Sound(B)
      /\ Cardinality(A) \in Nat /\ Cardinality(B) \in Nat
      /\ IsFiniteSet(A) /\ IsFiniteSet(B)
  BY <1>1, SoundPart DEF Sound
<1>3. Cardinality(S) = Cardinality(A) + Cardinality(B)
  <2>1. Cardinality(A \cup B) = Cardinality(A) + Cardinality(B) - Cardinality(A \cap B)
    BY <1>2, FS_Union
  <2>2. Cardinality(A \cap B) = 0
    BY <1>1, FS_EmptySet
  <2>3. Cardinality(A \cup B) = Cardinality(S)
    <3>1. A \cup B = S
      BY <1>1
    <3>2. QED
      BY <3>1, Zenon
  <2>4. QED
    BY <1>2, <2>1, <2>2, <2>3
<1>4. \A n \in 1 .. Cardinality(A) : Ordered(S)[n] = Ordered(A)[n]
  BY <1>1, WalkExtends
<1>5. ASSUME NEW n \in 1 .. Cardinality(B)
      PROVE  Ordered(S)[Cardinality(A) + n] = Ordered(B)[n]
  <2> DEFINE b == Ordered(B)[n]
  <2>1. b \in B /\ Rank(B, b) = n
    BY <1>2, Walk, LenProperties
  <2> HIDE DEF b
  <2>2. /\ Preds(S, b) = A \cup Preds(B, b) /\ A \cap Preds(B, b) = {}
        /\ Preds(B, b) \subseteq B
    BY <1>1, <2>1 DEF Preds
  <2>3. IsFiniteSet(Preds(B, b)) /\ Cardinality(Preds(B, b)) \in Nat
    BY <1>2, <2>2, FS_Subset, FS_CardinalityType
  <2>4. Cardinality(Preds(S, b)) = Cardinality(A) + Cardinality(Preds(B, b))
    <3>1. Cardinality(A \cup Preds(B, b)) =
            Cardinality(A) + Cardinality(Preds(B, b)) - Cardinality(A \cap Preds(B, b))
      BY <1>2, <2>3, FS_Union
    <3>2. Cardinality(A \cap Preds(B, b)) = 0
      BY <2>2, FS_EmptySet
    <3>3. QED
      BY <1>2, <2>2, <2>3, <3>1, <3>2
  <2>5. Rank(S, b) = Cardinality(A) + n /\ b \in S
    BY <1>1, <1>2, <2>1, <2>3, <2>4 DEF Rank
  <2>6. QED
    BY <2>5, Walk DEF b
<1>6. QED
  BY <1>3, <1>4, <1>5 DEF A, B

\* The events of some payloads, in the order of the walk.
EventsOf(S) == [n \in 1 .. Cardinality(S) |-> Ordered(S)[n].event]

\* What a patch makes of an entity.
LEMMA PatchIs ==
  ASSUME NEW S, Sound(S), NEW start
  PROVE  /\ Patch(start, S) = [entity |-> start.entity \o EventsOf(S),
                               seq |-> start.seq + Cardinality(S)]
         /\ EventsOf(S) \in Seq(Events) /\ Len(EventsOf(S)) = Cardinality(S)
         /\ Cardinality(S) \in Nat
PROOF
<1>1. Ordered(S) \in Seq(S) /\ Len(Ordered(S)) = Cardinality(S)
  BY Walk
<1>2. DOMAIN Ordered(S) = 1 .. Cardinality(S) /\ Cardinality(S) \in Nat
  BY <1>1, LenProperties
<1>3. \A n \in 1 .. Cardinality(S) : Ordered(S)[n].event \in Events
  BY <1>1, <1>2, LenProperties DEF Sound, Payloads
<1>4. EventsOf(S) \in [1 .. Cardinality(S) -> Events]
  BY <1>3 DEF EventsOf
<1>5. EventsOf(S) \in Seq(Events) /\ Len(EventsOf(S)) = Cardinality(S)
  BY <1>2, <1>4
<1>6. QED
  BY <1>1, <1>2, <1>5 DEF Patch, EventsOf

\* From nothing the entity is the events, from an entity their continuation.
LEMMA ReplayInParts ==
  ASSUME NEW S, Sound(S), NEW s \in Int
  PROVE  /\ Patch(NoSnapshot, S) = [entity |-> EventsOf(S), seq |-> Cardinality(S)]
         /\ EventsOf(S) = EventsOf(Lower(S, s)) \o EventsOf(Upper(S, s))
         /\ Sound(Lower(S, s)) /\ Sound(Upper(S, s))
         /\ Patch(Patch(NoSnapshot, Lower(S, s)), Upper(S, s)) = Patch(NoSnapshot, S)
PROOF
<1> DEFINE A == Lower(S, s)
           B == Upper(S, s)
<1>1. Sound(A) /\ Sound(B)
  BY SoundPart DEF Lower, Upper
<1>2. ASSUME NEW T, Sound(T)
      PROVE  Patch(NoSnapshot, T) = [entity |-> EventsOf(T), seq |-> Cardinality(T)]
  <2>1. <<>> \o EventsOf(T) = EventsOf(T)
    BY <1>2, PatchIs, ConcatEmptySeq
  <2>2. /\ Patch(NoSnapshot, T) = [entity |-> NoSnapshot.entity \o EventsOf(T),
                                  seq |-> NoSnapshot.seq + Cardinality(T)]
        /\ Cardinality(T) \in Nat
    BY <1>2, PatchIs
  <2>3. NoSnapshot.entity = <<>> /\ NoSnapshot.seq = 0
    BY DEF NoSnapshot
  <2>4. QED
    BY <2>1, <2>2, <2>3
<1>3. EventsOf(S) = EventsOf(A) \o EventsOf(B)
  <2>1. /\ EventsOf(A) \in Seq(Events) /\ Len(EventsOf(A)) = Cardinality(A) /\ Cardinality(A) \in Nat
        /\ EventsOf(B) \in Seq(Events) /\ Len(EventsOf(B)) = Cardinality(B) /\ Cardinality(B) \in Nat
        /\ EventsOf(S) \in Seq(Events) /\ Len(EventsOf(S)) = Cardinality(S)
    BY <1>1, PatchIs
  <2>2. Cardinality(S) = Cardinality(A) + Cardinality(B)
    BY WalkInParts
  <2>3. /\ EventsOf(A) \o EventsOf(B) \in Seq(Events)
        /\ Len(EventsOf(A) \o EventsOf(B)) = Cardinality(S)
        /\ \A i \in 1 .. Cardinality(A) + Cardinality(B) : (EventsOf(A) \o EventsOf(B))[i] =
             IF i <= Cardinality(A) THEN EventsOf(A)[i] ELSE EventsOf(B)[i - Cardinality(A)]
    <3> DEFINE x == EventsOf(A)
               y == EventsOf(B)
    <3>1. /\ x \o y \in Seq(Events) /\ Len(x \o y) = Len(x) + Len(y)
          /\ \A i \in 1 .. Len(x) + Len(y) : (x \o y)[i] = IF i <= Len(x) THEN x[i] ELSE y[i - Len(x)]
      <4> HIDE DEF x, y
      <4>1. x \in Seq(Events) /\ y \in Seq(Events)
        BY <2>1 DEF x, y
      <4>2. QED
        BY <4>1, ConcatProperties
    <3>2. Len(x) = Cardinality(A) /\ Len(y) = Cardinality(B)
      BY <2>1
    <3> HIDE DEF x, y
    <3>3. QED
      BY <2>2, <3>1, <3>2 DEF x, y
  <2>4. \A n \in 1 .. Cardinality(A) : EventsOf(S)[n] = EventsOf(A)[n]
    BY <2>1, <2>2, WalkInParts DEF EventsOf
  <2>5. ASSUME NEW n \in 1 .. Cardinality(B) PROVE EventsOf(S)[Cardinality(A) + n] = EventsOf(B)[n]
    <3>1. Cardinality(A) + n \in 1 .. Cardinality(S)
      BY <2>1, <2>2
    <3>2. QED
      BY <3>1, WalkInParts DEF EventsOf
  <2>6. ASSUME NEW i \in 1 .. Cardinality(S)
        PROVE  EventsOf(S)[i] = (EventsOf(A) \o EventsOf(B))[i]
    <3>1. CASE i <= Cardinality(A)
      BY <2>1, <2>2, <2>3, <2>4, <3>1
    <3>2. CASE ~(i <= Cardinality(A))
      <4>1. i - Cardinality(A) \in 1 .. Cardinality(B) /\ Cardinality(A) + (i - Cardinality(A)) = i
        BY <2>1, <2>2, <3>2
      <4>2. QED
        BY <2>1, <2>2, <2>3, <2>5, <3>2, <4>1
    <3>3. QED
      BY <3>1, <3>2
  <2>7. QED
    BY <2>1, <2>3, <2>6, SeqEqual
<1>4. Patch(Patch(NoSnapshot, A), B) = Patch(NoSnapshot, S)
  <2>1. Cardinality(S) = Cardinality(A) + Cardinality(B)
    BY WalkInParts
  <2>2. Patch(NoSnapshot, A) = [entity |-> EventsOf(A), seq |-> Cardinality(A)]
    BY <1>1, <1>2
  <2>3. QED
    BY <1>1, <1>2, <1>3, <2>1, <2>2, PatchIs
<1>5. QED
  BY <1>1, <1>2, <1>3, <1>4

----------------------------------------------------------------------------
(* The entity and its journal.                                             *)

\* The journal takes a payload before the writer gives up on it.
Patient == Refusals < Retry

\* Numbers run below the process's, and are as many at least; the process's own is
\* taken only while, or after, it writes the event it is at.
Numbered ==
  /\ Sound(store) /\ seq \in Nat
  /\ \A a \in store : a.sequence_id \in 0 .. seq
  /\ \A a \in store : a.sequence_id = seq => pc # "idle" /\ a.event = event
  /\ seq <= Cardinality(Lower(store, seq))
  /\ pc = "written" => Upper(store, seq) # {}

\* No number that the process, or the next one, goes on to write is below n.
Settled(n) ==
  /\ n \in Nat
  /\ pc \in {"idle", "writing"} => n <= seq
  /\ pc = "written" => n <= seq + 1
  /\ pc = "down" => n <= Cardinality(store)

\* A snapshot is the replay of the payloads below its number.
Taken ==
  \A s \in snapshots : Settled(s.seq) /\ s = Patch(NoSnapshot, Lower(store, s.seq))

\* If every acknowledgement has come, so is the process's entity.
Mirrored ==
  ~doubted /\ pc # "down" =>
    /\ [entity |-> entity, seq |-> seq] = Patch(NoSnapshot, Lower(store, seq))
    /\ pc = "writing" => Upper(store, seq) = {}
    /\ pc = "written" => \A a, b \in Upper(store, seq) : a = b

\* Answered events are in the journal, in order.
Kept ==
  \A i, j \in DOMAIN applied : i <= j =>
    \E a, b \in store :
      /\ a.event = applied[i] /\ b.event = applied[j]
      /\ a.sequence_id < seq /\ b.sequence_id < seq
      /\ i < j => a.sequence_id < b.sequence_id

\* And in an entity.
Has(e) ==
  \A i, j \in DOMAIN applied : i <= j =>
    \E m, n \in DOMAIN e : e[m] = applied[i] /\ e[n] = applied[j] /\ (i < j => m < n)

JournalInv ==
  /\ clock \in Nat /\ retry \in Nat /\ pc \in {"down", "idle", "writing", "written"}
  /\ event \in 0 .. MaxEvents /\ (pc \in {"writing", "written"} => event \in Events)
  /\ applied \in Seq(Events) /\ entity \in Seq(Events)
  /\ Numbered /\ Taken /\ Mirrored /\ Kept
  /\ pc # "down" => Has(entity)

\* What lies below the process's number and what does not.
LEMMA Parted ==
  ASSUME Numbered
  PROVE  /\ Cardinality(store) \in Nat
         /\ seq <= Cardinality(store)
         /\ Upper(store, seq) = {} <=> Lower(store, seq) = store
         /\ Upper(store, seq) # {} => seq < Cardinality(store)
         /\ \A s \in Int : s > seq => Lower(store, s) = store
         /\ Lower(store, Cardinality(store)) = store
PROOF
<1>1. /\ seq \in Nat /\ Sound(store) /\ seq <= Cardinality(Lower(store, seq))
      /\ \A a \in store : a.sequence_id \in 0 .. seq
  BY DEF Numbered
<1>2. /\ Cardinality(store) = Cardinality(Lower(store, seq)) + Cardinality(Upper(store, seq))
      /\ Cardinality(Lower(store, seq)) \in Nat /\ Cardinality(Upper(store, seq)) \in Nat
      /\ Cardinality(store) \in Nat /\ IsFiniteSet(Upper(store, seq))
  <2>1. Sound(Lower(store, seq)) /\ Sound(Upper(store, seq))
    BY <1>1, ReplayInParts
  <2>2. QED
    BY <1>1, <2>1, WalkInParts, FS_CardinalityType DEF Sound
<1>3. Upper(store, seq) # {} => Cardinality(Upper(store, seq)) > 0
  BY <1>2, FS_EmptySet
<1>4. Upper(store, seq) = {} <=> Lower(store, seq) = store
  BY <1>1 DEF Upper, Lower
<1>5. \A s \in Int : s > seq => Lower(store, s) = store
  BY <1>1 DEF Lower
<1>6. Lower(store, Cardinality(store)) = store
  <2>1. CASE Upper(store, seq) = {}
    <3>1. \A a \in store : a.sequence_id < Cardinality(store)
      BY <1>1, <1>2, <2>1 DEF Upper
    <3>2. QED
      BY <3>1 DEF Lower
  <2>2. CASE Upper(store, seq) # {}
    BY <1>1, <1>2, <1>3, <1>5, <2>2
  <2>3. QED
    BY <2>1, <2>2
<1>7. QED
  BY <1>1, <1>2, <1>3, <1>4, <1>5, <1>6

\* A projection from nothing or from a snapshot is the replay of the journal.
LEMMA ProjectIs ==
  ASSUME Numbered, Taken, NEW start \in snapshots \cup {NoSnapshot}
  PROVE  Project(start) = Patch(NoSnapshot, store)
PROOF
<1>1. Sound(store)
  BY DEF Numbered
<1>2. ASSUME NEW s \in Int PROVE Read(store, s) = Upper(store, s)
  <2>1. Sound(Upper(store, s))
    BY <1>1, SoundPart DEF Upper
  <2>2. QED
    BY <2>1, AllDistinct DEF Read, Upper
<1>3. CASE start = NoSnapshot
  <2>1. NoSnapshot.seq = 0
    BY DEF NoSnapshot
  <2>2. Upper(store, 0) = store
    BY DEF Upper, Numbered
  <2>3. QED
    BY <1>2, <1>3, <2>1, <2>2 DEF Project
<1>4. CASE start \in snapshots
  <2>1. start.seq \in Int /\ start = Patch(NoSnapshot, Lower(store, start.seq))
    BY <1>4 DEF Taken, Settled
  <2>2. Patch(Patch(NoSnapshot, Lower(store, start.seq)), Upper(store, start.seq))
          = Patch(NoSnapshot, store)
    BY <1>1, <2>1, ReplayInParts
  <2>3. QED
    BY <1>2, <2>1, <2>2 DEF Project
<1>5. QED
  BY <1>3, <1>4

----------------------------------------------------------------------------
(* The steps.                                                              *)

\* A payload of the event being applied is stored, under the process's number.
LEMMA StoredStep ==
  ASSUME JournalInv, pc = "writing", NEW at \in {clock, clock + 1}, Stored(at),
         pc' \in {"writing", "written"}, UNCHANGED <<entity, seq, event, snapshots, applied>>,
         doubted \/ doubted' \/ pc' = "written", ~doubted' => ~doubted,
         clock' \in Nat, retry' \in Nat
  PROVE  JournalInv'
PROOF
<1> DEFINE new == [sequence_id |-> seq, created_at |-> at, event |-> event]
<1>1. /\ store' = store \cup {new} /\ new \in Payloads
      /\ new.sequence_id = seq /\ new.event = event
      /\ seq \in Nat /\ Sound(store)
      /\ \A a \in store : a.sequence_id \in 0 .. seq /\ (a.sequence_id = seq => a.event = event)
  BY DEF Stored, JournalInv, Numbered, Payloads
<1> HIDE DEF new
<1>2. Sound(store')
  <2>1. store' \subseteq Payloads /\ IsFiniteSet(store')
    BY <1>1, FS_AddElement DEF Sound
  <2>2. \A a, b \in store' : a.sequence_id = b.sequence_id => a.event = b.event
    BY <1>1 DEF Sound
  <2>3. QED
    BY <2>1, <2>2 DEF Sound
<1>3. \A s \in 0 .. seq : Lower(store', s) = Lower(store, s)
  BY <1>1 DEF Lower
<1>4. Upper(store', seq) = Upper(store, seq) \cup {new}
  BY <1>1 DEF Upper
<1>5. Numbered'
  <2>1. \A a \in store' : a.sequence_id \in 0 .. seq' /\ (a.sequence_id = seq' => a.event = event')
    BY <1>1
  <2>2. seq' <= Cardinality(Lower(store', seq'))
    <3>1. Lower(store', seq') = Lower(store, seq)
      BY <1>1, <1>3
    <3>2. QED
      BY <3>1 DEF JournalInv, Numbered
  <2>3. Upper(store', seq') # {}
    BY <1>4
  <2>4. QED
    BY <1>1, <1>2, <2>1, <2>2, <2>3 DEF Numbered
<1>6. Taken'
  <2>1. \A s \in snapshots : s.seq \in 0 .. seq /\ s = Patch(NoSnapshot, Lower(store, s.seq))
    BY <1>1 DEF JournalInv, Taken, Settled
  <2>2. \A s \in snapshots : s = Patch(NoSnapshot, Lower(store', s.seq))
    BY <1>3, <2>1
  <2>3. \A s \in snapshots : Settled(s.seq)'
    BY <1>1, <2>1 DEF Settled
  <2>4. QED
    BY <2>2, <2>3 DEF Taken
<1>7. Mirrored'
  <2> SUFFICES ASSUME ~doubted' PROVE Mirrored'
    BY DEF Mirrored
  <2>1. /\ [entity |-> entity, seq |-> seq] = Patch(NoSnapshot, Lower(store, seq))
        /\ Upper(store, seq) = {} /\ pc' = "written"
    BY DEF JournalInv, Mirrored
  <2>2. Lower(store', seq') = Lower(store, seq) /\ Upper(store', seq') = {new}
    <3>1. seq \in 0 .. seq /\ seq' = seq
      BY <1>1
    <3>2. Lower(store', seq) = Lower(store, seq)
      BY <1>3, <3>1
    <3>3. Upper(store', seq) = {new}
      BY <1>4, <2>1
    <3>4. QED
      BY <3>1, <3>2, <3>3
  <2>3. QED
    BY <2>1, <2>2 DEF Mirrored
<1>8. Kept'
  BY <1>1 DEF JournalInv, Kept
<1>9. Has(entity)'
  BY DEF JournalInv, Has
<1>10. QED
  BY <1>5, <1>6, <1>7, <1>8, <1>9 DEF JournalInv

\* The event is applied and its caller answered.
LEMMA AnswerStep ==
  ASSUME JournalInv, Answer
  PROVE  JournalInv'
PROOF
<1>1. /\ pc = "written" /\ pc' = "idle" /\ seq' = seq + 1
      /\ entity' = Append(entity, event) /\ applied' = Append(applied, event)
      /\ UNCHANGED <<store, clock, event, retry, snapshots, doubted>>
      /\ event \in Events /\ entity \in Seq(Events) /\ applied \in Seq(Events)
      /\ Numbered /\ Taken /\ Mirrored /\ Kept /\ Has(entity)
  BY DEF Answer, JournalInv
<1>2. /\ seq \in Nat /\ Upper(store, seq) # {} /\ Sound(store)
      /\ \A a \in store : a.sequence_id \in 0 .. seq /\ (a.sequence_id = seq => a.event = event)
  BY <1>1 DEF Numbered
<1>3. /\ Lower(store, seq') = store /\ seq < Cardinality(store) /\ Cardinality(store) \in Nat
  BY <1>1, <1>2, Parted
<1>4. PICK w \in Upper(store, seq) : TRUE
  BY <1>2
<1>5. w \in store /\ w.sequence_id = seq /\ w.event = event
  BY <1>2, <1>4 DEF Upper
<1>6. /\ DOMAIN applied = 1 .. Len(applied) /\ Len(applied) \in Nat
      /\ DOMAIN entity = 1 .. Len(entity) /\ Len(entity) \in Nat
  BY <1>1, LenProperties
<1>7. /\ applied' \in Seq(Events) /\ DOMAIN applied' = 1 .. Len(applied) + 1
      /\ \A i \in DOMAIN applied : applied'[i] = applied[i]
      /\ applied'[Len(applied) + 1] = event
      /\ entity' \in Seq(Events) /\ DOMAIN entity' = 1 .. Len(entity) + 1
      /\ \A i \in DOMAIN entity : entity'[i] = entity[i]
      /\ entity'[Len(entity) + 1] = event
  BY <1>1, <1>6, AppendProperties, LenProperties
<1>8. Numbered'
  BY <1>1, <1>2, <1>3 DEF Numbered
<1>9. Taken'
  BY <1>1, <1>2 DEF Taken, Settled
<1>10. Mirrored'
  <2> SUFFICES ASSUME ~doubted
               PROVE  [entity |-> entity', seq |-> seq'] = Patch(NoSnapshot, store)
    BY <1>1, <1>3 DEF Mirrored
  <2> DEFINE A == Lower(store, seq)
             B == Upper(store, seq)
  <2>1. /\ [entity |-> entity, seq |-> seq] = Patch(NoSnapshot, A)
        /\ B = {w}
    BY <1>1, <1>4 DEF Mirrored
  <2>2. Sound(A) /\ Sound(B) /\ EventsOf(store) = EventsOf(A) \o EventsOf(B)
    BY <1>2, ReplayInParts
  <2>3. [entity |-> entity, seq |-> seq] = [entity |-> EventsOf(A), seq |-> Cardinality(A)]
    BY <2>1, <2>2, ReplayInParts
  <2>4. entity = EventsOf(A) /\ seq = Cardinality(A)
    BY <2>3
  <2>5. Cardinality(B) = 1
    BY <2>1, FS_Singleton
  <2>6. EventsOf(B) = <<event>>
    <3>1. EventsOf(B) \in Seq(Events) /\ Len(EventsOf(B)) = 1
      BY <2>2, <2>5, PatchIs
    <3>2. Ordered(B)[1] = w
      <4>1. Ordered(B) \in Seq(B) /\ Len(Ordered(B)) = 1
        BY <2>2, <2>5, Walk
      <4>2. Ordered(B)[1] \in B
        BY <4>1, LenProperties
      <4>3. QED
        BY <2>1, <4>2
    <3>3. EventsOf(B)[1] = event
      BY <1>5, <2>5, <3>2 DEF EventsOf
    <3>4. <<event>> \in Seq(Events) /\ Len(<<event>>) = 1 /\ <<event>>[1] = event
      BY <1>1
    <3>5. QED
      BY <3>1, <3>3, <3>4, SeqEqual
  <2>7. EventsOf(store) = Append(entity, event)
    BY <1>1, <2>2, <2>4, <2>6, AppendIsConcat
  <2>8. Cardinality(store) = seq + 1
    BY <1>2, <2>4, <2>5, WalkInParts
  <2>9. Patch(NoSnapshot, store) = [entity |-> EventsOf(store), seq |-> Cardinality(store)]
    BY <1>2, ReplayInParts
  <2>10. QED
    BY <1>1, <2>7, <2>8, <2>9
<1>11. Kept'
  <2> SUFFICES ASSUME NEW i \in DOMAIN applied', NEW j \in DOMAIN applied', i <= j
               PROVE  \E a, b \in store :
                        /\ a.event = applied'[i] /\ b.event = applied'[j]
                        /\ a.sequence_id < seq' /\ b.sequence_id < seq'
                        /\ i < j => a.sequence_id < b.sequence_id
    BY <1>1 DEF Kept
  <2>1. CASE j \in DOMAIN applied
    <3>1. i \in DOMAIN applied /\ applied'[i] = applied[i] /\ applied'[j] = applied[j]
      BY <1>6, <1>7, <2>1
    <3>2. PICK a \in store, b \in store :
            /\ a.event = applied[i] /\ b.event = applied[j]
            /\ a.sequence_id < seq /\ b.sequence_id < seq
            /\ i < j => a.sequence_id < b.sequence_id
      BY <1>1, <2>1, <3>1 DEF Kept
    <3>3. a.sequence_id < seq' /\ b.sequence_id < seq'
      BY <1>1, <1>2, <3>2
    <3>4. QED
      BY <3>1, <3>2, <3>3
  <2>2. CASE j = Len(applied) + 1 /\ i = j
    BY <1>1, <1>2, <1>5, <1>7, <2>2
  <2>3. CASE j = Len(applied) + 1 /\ i \in DOMAIN applied
    <3>1. PICK a \in store : a.event = applied[i] /\ a.sequence_id < seq
      BY <1>1, <1>6, <2>3 DEF Kept
    <3>2. a.sequence_id < seq' /\ w.sequence_id < seq' /\ a.sequence_id < w.sequence_id
      BY <1>1, <1>2, <1>5, <3>1
    <3>3. a.event = applied'[i] /\ w.event = applied'[j]
      BY <1>5, <1>7, <2>3, <3>1
    <3>4. QED
      BY <1>5, <3>2, <3>3
  <2>4. QED
    BY <1>6, <1>7, <2>1, <2>2, <2>3
<1>12. Has(entity)'
  <2> SUFFICES ASSUME NEW i \in DOMAIN applied', NEW j \in DOMAIN applied', i <= j
               PROVE  \E m, n \in DOMAIN entity' :
                        entity'[m] = applied'[i] /\ entity'[n] = applied'[j] /\ (i < j => m < n)
    BY DEF Has
  <2>1. CASE j \in DOMAIN applied
    <3>1. i \in DOMAIN applied /\ applied'[i] = applied[i] /\ applied'[j] = applied[j]
      BY <1>6, <1>7, <2>1
    <3>2. PICK m \in DOMAIN entity, n \in DOMAIN entity :
            entity[m] = applied[i] /\ entity[n] = applied[j] /\ (i < j => m < n)
      BY <1>1, <2>1, <3>1 DEF Has
    <3>3. /\ m \in DOMAIN entity' /\ n \in DOMAIN entity'
          /\ entity'[m] = entity[m] /\ entity'[n] = entity[n]
      BY <1>6, <1>7
    <3>4. QED
      BY <3>1, <3>2, <3>3
  <2>2. CASE j = Len(applied) + 1 /\ i = j
    BY <1>6, <1>7, <2>2
  <2>3. CASE j = Len(applied) + 1 /\ i \in DOMAIN applied
    <3>1. PICK m \in DOMAIN entity : entity[m] = applied[i]
      BY <1>1, <1>6, <2>3 DEF Has
    <3>2. QED
      BY <1>6, <1>7, <2>3, <3>1
  <2>4. QED
    BY <1>6, <1>7, <2>1, <2>2, <2>3
<1>13. QED
  BY <1>1, <1>7, <1>8, <1>9, <1>10, <1>11, <1>12 DEF JournalInv

\* The next process starts from a projection.
LEMMA RespawnStep ==
  ASSUME JournalInv, NEW start \in snapshots, Respawn(start)
  PROVE  JournalInv'
PROOF
<1> DEFINE N == Cardinality(store)
<1>1. /\ pc' = "idle" /\ entity' = Project(start).entity /\ seq' = Project(start).seq
      /\ snapshots' = snapshots \cup {Project(start)} /\ pc = "down"
      /\ UNCHANGED <<store, clock, event, retry, applied>>
      /\ Numbered /\ Taken /\ Kept /\ Sound(store) /\ applied \in Seq(Events)
      /\ clock \in Nat /\ retry \in Nat /\ event \in 0 .. MaxEvents
  BY DEF Respawn, JournalInv, Numbered
<1>2. Project(start) = [entity |-> EventsOf(store), seq |-> N] /\ Project(start) = Patch(NoSnapshot, store)
  BY <1>1, ProjectIs, ReplayInParts
<1>3. entity' = EventsOf(store) /\ seq' = N /\ Project(start).seq = N
  BY <1>1, <1>2
<1>4. EventsOf(store) \in Seq(Events) /\ Len(EventsOf(store)) = N /\ N \in Nat /\ seq <= N /\ seq \in Nat
  BY <1>1, PatchIs, Parted DEF Numbered
<1>5. Lower(store, N) = store
  BY <1>1, Parted
<1>6. \A a \in store : a.sequence_id \in 0 .. N - 1
  BY <1>1, <1>4, <1>5 DEF Numbered, Lower
<1>7. Numbered'
  <2>1. \A a \in store : a.sequence_id \in 0 .. N /\ a.sequence_id # N
    BY <1>4, <1>6
  <2>2. N <= Cardinality(Lower(store, N))
    BY <1>4, <1>5
  <2>3. QED
    BY <1>1, <1>3, <1>4, <2>1, <2>2 DEF Numbered
<1>8. Taken'
  <2>1. /\ \A s \in snapshots' : s.seq \in Nat /\ s.seq <= N
        /\ \A s \in snapshots' : s = Patch(NoSnapshot, Lower(store, s.seq))
    BY <1>1, <1>2, <1>3, <1>4, <1>5 DEF Taken, Settled
  <2>2. QED
    BY <1>1, <1>3, <2>1 DEF Taken, Settled
<1>9. Mirrored'
  BY <1>1, <1>2, <1>3, <1>5 DEF Mirrored
<1>10. Kept'
  <2> SUFFICES ASSUME NEW i \in DOMAIN applied, NEW j \in DOMAIN applied, i <= j
               PROVE  \E a, b \in store :
                        /\ a.event = applied[i] /\ b.event = applied[j]
                        /\ a.sequence_id < N /\ b.sequence_id < N
                        /\ i < j => a.sequence_id < b.sequence_id
    BY <1>1, <1>3 DEF Kept
  <2>1. PICK a \in store, b \in store :
          /\ a.event = applied[i] /\ b.event = applied[j]
          /\ i < j => a.sequence_id < b.sequence_id
    BY <1>1 DEF Kept
  <2>2. a.sequence_id < N /\ b.sequence_id < N
    BY <1>4, <1>6
  <2>3. QED
    BY <2>1, <2>2
<1>11. Has(entity)'
  <2> SUFFICES ASSUME NEW i \in DOMAIN applied, NEW j \in DOMAIN applied, i <= j
               PROVE  \E m, n \in DOMAIN EventsOf(store) :
                        /\ EventsOf(store)[m] = applied[i] /\ EventsOf(store)[n] = applied[j]
                        /\ i < j => m < n
    BY <1>1, <1>3 DEF Has
  <2>1. PICK a \in store, b \in store :
          /\ a.event = applied[i] /\ b.event = applied[j]
          /\ i < j => a.sequence_id < b.sequence_id
    BY <1>1 DEF Kept
  <2>2. \A c \in store : Rank(store, c) \in 1 .. N /\ EventsOf(store)[Rank(store, c)] = c.event
    BY <1>1, Ranks, Walk DEF EventsOf
  <2>3. i < j => Rank(store, a) < Rank(store, b)
    BY <1>1, <2>1, Ranks DEF Before
  <2>4. DOMAIN EventsOf(store) = 1 .. N
    BY DEF EventsOf
  <2>5. QED
    BY <2>1, <2>2, <2>3, <2>4
<1>12. QED
  BY <1>1, <1>3, <1>4, <1>7, <1>8, <1>9, <1>10, <1>11 DEF JournalInv

\* A projection made between processes, or beside one that has not repeated a write,
\* counts no more payloads than there are numbers.
LEMMA SnapshotStep ==
  ASSUME JournalInv, NEW start \in snapshots, Snapshot(start), Careful
  PROVE  JournalInv'
PROOF
<1> DEFINE N == Cardinality(store)
<1>1. /\ snapshots' = snapshots \cup {Project(start)}
      /\ UNCHANGED <<store, clock, pc, entity, seq, event, retry, applied, doubted>>
      /\ Numbered /\ Taken /\ Mirrored /\ Sound(store) /\ seq \in Nat
      /\ pc \in {"down", "idle", "writing", "written"}
  BY DEF Snapshot, JournalInv, Numbered
<1>2. Project(start) = Patch(NoSnapshot, store) /\ Project(start).seq = N /\ N \in Nat
  <2>1. Project(start) = Patch(NoSnapshot, store)
    BY <1>1, ProjectIs
  <2>2. QED
    BY <1>1, <2>1, ReplayInParts, Parted
<1>3. Lower(store, N) = store
  BY <1>1, Parted
<1>4. CASE Project(start) \in snapshots
  <2>1. snapshots' = snapshots
    BY <1>1, <1>4
  <2>2. Numbered' /\ Taken' /\ Mirrored' /\ Kept' /\ (pc' # "down" => Has(entity)')
    BY <1>1, <2>1 DEF JournalInv, Numbered, Taken, Settled, Mirrored, Kept, Has
  <2>3. QED
    BY <1>1, <2>2 DEF JournalInv
<1>5. CASE Project(start) \notin snapshots
  <2>1. pc = "down" \/ ~doubted
    BY <1>1, <1>5 DEF Careful
  <2>2. pc # "down" => Cardinality(Lower(store, seq)) = seq
    <3> SUFFICES ASSUME pc # "down" PROVE Cardinality(Lower(store, seq)) = seq
      OBVIOUS
    <3>1. [entity |-> entity, seq |-> seq] = Patch(NoSnapshot, Lower(store, seq))
      BY <1>1, <2>1 DEF Mirrored
    <3>2. Patch(NoSnapshot, Lower(store, seq)).seq = Cardinality(Lower(store, seq))
      BY <1>1, ReplayInParts
    <3>3. QED
      BY <3>1, <3>2
  <2>3. pc # "down" => N = seq + Cardinality(Upper(store, seq)) /\ Cardinality(Upper(store, seq)) \in Nat
    <3>1. N = Cardinality(Lower(store, seq)) + Cardinality(Upper(store, seq))
      BY <1>1, WalkInParts
    <3>2. Cardinality(Upper(store, seq)) \in Nat
      BY <1>1, ReplayInParts, FS_CardinalityType DEF Sound
    <3>3. QED
      BY <2>2, <3>1, <3>2
  <2>4. /\ pc \in {"idle", "writing"} => Upper(store, seq) = {}
        /\ pc = "written" => \E w : Upper(store, seq) = {w}
    <3>1. pc = "idle" => Upper(store, seq) = {}
      BY <1>1 DEF Numbered, Upper
    <3>2. pc = "writing" => Upper(store, seq) = {}
      BY <1>1, <2>1 DEF Mirrored
    <3>3. ASSUME pc = "written" PROVE \E w : Upper(store, seq) = {w}
      <4>1. PICK w \in Upper(store, seq) : TRUE
        BY <1>1, <3>3 DEF Numbered
      <4>2. \A a \in Upper(store, seq) : a = w
        BY <1>1, <2>1, <3>3, <4>1 DEF Mirrored
      <4>3. QED
        BY <4>1, <4>2
    <3>4. QED
      BY <3>1, <3>2, <3>3
  <2>5. /\ pc \in {"idle", "writing"} => Cardinality(Upper(store, seq)) = 0
        /\ pc = "written" => Cardinality(Upper(store, seq)) = 1
    BY <2>4, FS_EmptySet, FS_Singleton
  <2>6. Settled(N)
    BY <1>1, <1>2, <2>3, <2>5 DEF Settled
  <2>7. Taken'
    BY <1>1, <1>2, <1>3, <2>6 DEF Taken, Settled
  <2>8. Numbered' /\ Mirrored' /\ Kept' /\ (pc' # "down" => Has(entity)')
    BY <1>1 DEF JournalInv, Numbered, Mirrored, Kept, Has
  <2>9. QED
    BY <1>1, <2>7, <2>8 DEF JournalInv
<1>6. QED
  BY <1>4, <1>5

\* A write is refused, an event is taken, or the process ends.
LEMMA QuietJournal ==
  ASSUME JournalInv, JournalAssumption, Patient, WriteRefused \/ Begin \/ End
  PROVE  JournalInv'
PROOF
<1>1. UNCHANGED <<store, clock, seq, snapshots, applied, doubted>>
  BY DEF WriteRefused, Begin, End
<1>2. CASE WriteRefused
  <2>1. pc = "writing" /\ pc' = "writing" /\ retry' \in Nat /\ UNCHANGED <<entity, event>>
    BY <1>2 DEF WriteRefused, Failed, JournalInv, JournalAssumption, Patient
  <2>2. Numbered' /\ Taken' /\ Mirrored' /\ Kept' /\ Has(entity)'
    BY <1>1, <2>1 DEF JournalInv, Numbered, Taken, Settled, Mirrored, Kept, Has
  <2>3. QED
    BY <1>1, <2>1, <2>2 DEF JournalInv
<1>3. CASE Begin
  <2>1. /\ pc = "idle" /\ pc' = "writing" /\ retry' = 0 /\ UNCHANGED entity
        /\ event' \in 0 .. MaxEvents /\ event' \in Events'
    BY <1>3 DEF Begin, JournalInv, JournalAssumption, Events
  <2>2. Upper(store, seq) = {}
    BY <2>1 DEF JournalInv, Numbered, Upper
  <2>3. Numbered'
    BY <1>1, <2>1 DEF JournalInv, Numbered
  <2>4. Mirrored'
    BY <1>1, <2>1, <2>2 DEF JournalInv, Mirrored
  <2>5. Taken' /\ Kept' /\ Has(entity)'
    BY <1>1, <2>1 DEF JournalInv, Taken, Settled, Kept, Has
  <2>6. QED
    BY <1>1, <2>1, <2>3, <2>4, <2>5 DEF JournalInv, Events
<1>4. CASE End
  <2>1. pc' = "down" /\ entity' = <<>> /\ UNCHANGED <<event, retry>>
    BY <1>4 DEF End
  <2>2. Numbered'
    BY <1>1, <2>1 DEF JournalInv, Numbered
  <2>3. Taken' /\ Kept' /\ Mirrored'
    <3>1. /\ Cardinality(store) \in Nat /\ seq \in Nat /\ seq <= Cardinality(store)
          /\ pc = "written" => seq < Cardinality(store)
      BY Parted DEF JournalInv, Numbered
    <3>2. \A s \in snapshots : Settled(s.seq)'
      BY <1>1, <2>1, <3>1 DEF JournalInv, Taken, Settled
    <3>3. QED
      BY <1>1, <2>1, <3>2 DEF JournalInv, Taken, Kept, Mirrored
  <2>4. QED
    BY <1>1, <2>1, <2>2, <2>3, EmptySeq DEF JournalInv
<1>5. QED
  BY <1>2, <1>3, <1>4

\* Every careful step keeps the invariant.
LEMMA JournalNext ==
  ASSUME JournalAssumption, Patient
  PROVE  JournalInv /\ [Next /\ Careful]_vars => JournalInv'
PROOF
<1> SUFFICES ASSUME JournalInv, [Next /\ Careful]_vars PROVE JournalInv'
  OBVIOUS
<1>1. CASE UNCHANGED vars
  BY <1>1 DEF vars, JournalInv, Numbered, Taken, Settled, Mirrored, Kept, Has
<1>2. CASE WriteOk
  <2>1. PICK at \in {clock, clock + 1} : Stored(at) /\ clock' = at
    BY <1>2 DEF WriteOk
  <2>2. pc = "writing" /\ pc' = "written" /\ UNCHANGED <<entity, seq, event, retry, snapshots, applied, doubted>>
    BY <1>2 DEF WriteOk
  <2>3. clock' \in Nat /\ retry' \in Nat
    BY <2>1, <2>2 DEF JournalInv
  <2>4. QED
    BY <2>1, <2>2, <2>3, StoredStep
<1>3. CASE WriteUnacknowledged
  <2>1. PICK at \in {clock, clock + 1} : Stored(at) /\ clock' = at
    BY <1>3 DEF WriteUnacknowledged
  <2>2. /\ pc = "writing" /\ doubted' = TRUE /\ UNCHANGED <<entity, seq, event, snapshots, applied>>
        /\ retry' = retry + 1 /\ pc' \in {"writing", "written"}
    BY <1>3 DEF WriteUnacknowledged, Failed
  <2>3. clock' \in Nat /\ retry' \in Nat
    BY <2>1, <2>2 DEF JournalInv
  <2>4. QED
    BY <2>1, <2>2, <2>3, StoredStep
<1>4. QED
  BY <1>1, <1>2, <1>3, QuietJournal, AnswerStep, RespawnStep, SnapshotStep DEF Next, Write

\* It holds of a new entity.
LEMMA JournalStart == JournalAssumption /\ Init => JournalInv
PROOF
<1> SUFFICES ASSUME JournalAssumption, Init PROVE JournalInv
  OBVIOUS
<1>1. Sound({}) /\ Lower({}, 0) = {} /\ Upper({}, 0) = {} /\ Cardinality({}) = 0
  BY FS_EmptySet DEF Sound, Lower, Upper
<1>2. Patch(NoSnapshot, {}) = NoSnapshot
  <2>1. EventsOf({}) \in Seq(Events) /\ Len(EventsOf({})) = 0
    BY <1>1, PatchIs
  <2>2. EventsOf({}) = <<>>
    BY <2>1, EmptySeq, SeqEqual
  <2>3. Patch(NoSnapshot, {}) = [entity |-> EventsOf({}), seq |-> 0]
    BY <1>1, ReplayInParts
  <2>4. QED
    BY <2>2, <2>3 DEF NoSnapshot
<1>3. Numbered
  <2>1. store = {} /\ seq = 0 /\ pc = "idle"
    BY DEF Init
  <2>2. Cardinality(Lower(store, seq)) = 0 /\ Sound(store)
    BY <1>1, <2>1, Zenon
  <2>3. QED
    BY <2>1, <2>2 DEF Numbered
<1>4. Taken
  <2>1. snapshots = {NoSnapshot} /\ NoSnapshot.seq = 0 /\ store = {} /\ seq = 0 /\ pc = "idle"
    BY DEF Init, NoSnapshot
  <2>2. Lower(store, NoSnapshot.seq) = {}
    BY <1>1, <2>1
  <2>3. NoSnapshot = Patch(NoSnapshot, Lower(store, NoSnapshot.seq))
    BY <1>2, <2>1, <2>2, Zenon
  <2>4. QED
    BY <2>1, <2>3 DEF Taken, Settled
<1>5. Mirrored
  BY <1>1, <1>2 DEF Init, Mirrored, NoSnapshot
<1>6. Kept /\ Has(entity)
  BY DEF Init, Kept, Has
<1>7. QED
  BY <1>3, <1>4, <1>5, <1>6, EmptySeq DEF Init, JournalInv, JournalAssumption

LEMMA JournalInvariant ==
  ASSUME Patient
  PROVE  CarefulSpec => []JournalInv
PROOF
<1>1. Init => JournalInv
  BY JournalAssumption, JournalStart
<1>2. JournalInv /\ [Next /\ Careful]_vars => JournalInv'
  BY JournalAssumption, JournalNext
<1>3. QED
  BY <1>1, <1>2, PTL DEF CarefulSpec

----------------------------------------------------------------------------
\* If the journal gives in before the writer does, no number of an entity ever stands
\* for two events, over any ends, careful projections and lost acknowledgements.
THEOREM NumbersStandForEvents ==
  ASSUME Patient
  PROVE  CarefulSpec => []SequenceNeverReused
PROOF
<1>1. JournalInv => SequenceNeverReused
  BY DEF JournalInv, Numbered, Sound, SequenceNeverReused
<1>2. QED
  BY <1>1, JournalInvariant, PTL

\* And an entity in memory is what a projection would make it.
THEOREM MemoryMirrorsJournal ==
  ASSUME Patient
  PROVE  CarefulSpec => []MemoryIsJournal
PROOF
<1>1. JournalInv => MemoryIsJournal
  <2> SUFFICES ASSUME JournalInv, pc = "idle", ~doubted
               PROVE  Project(NoSnapshot) = [entity |-> entity, seq |-> seq]
    BY DEF MemoryIsJournal
  <2>1. Upper(store, seq) = {} /\ Lower(store, seq) = store
    <3>1. Upper(store, seq) = {}
      BY DEF JournalInv, Numbered, Upper
    <3>2. QED
      BY <3>1, Parted DEF JournalInv
  <2>2. QED
    BY <2>1, ProjectIs DEF JournalInv, Mirrored
<1>2. QED
  BY <1>1, JournalInvariant, PTL

\* And a projection that starts from any snapshot, of a live process or of a former one,
\* ends where one from nothing does.
THEOREM SnapshotsResume ==
  ASSUME Patient
  PROVE  CarefulSpec => []ResumeIsReplay
PROOF
<1>1. JournalInv => ResumeIsReplay
  <2> SUFFICES ASSUME JournalInv, NEW s \in snapshots PROVE Project(s) = Project(NoSnapshot)
    BY DEF ResumeIsReplay
  <2>1. QED
    BY ProjectIs DEF JournalInv
<1>2. QED
  BY <1>1, JournalInvariant, PTL

\* And an event whose apply was answered stays in the entity, in the order of the answers.
THEOREM AnswersLast ==
  ASSUME Patient
  PROVE  CarefulSpec => []AnsweredIsDurable
PROOF
<1>1. JournalInv => AnsweredIsDurable
  BY DEF JournalInv, Has, AnsweredIsDurable
<1>2. QED
  BY <1>1, JournalInvariant, PTL

----------------------------------------------------------------------------
(* The journal grows at its end.                                           *)

\* Nothing that is stored is from the future.
Timely == \A a \in store : a.created_at <= clock

\* What is stored comes after all that was.
LEMMA StoresLast ==
  ASSUME JournalInv, Timely, pc = "writing", NEW at \in {clock, clock + 1}, Stored(at), clock' = at
  PROVE  /\ Timely' /\ store \subseteq store'
         /\ \A a \in store, b \in store' \ store : ~Before(b, a)
PROOF
<1> DEFINE new == [sequence_id |-> seq, created_at |-> at, event |-> event]
<1>1. /\ store' = store \cup {new} /\ new.sequence_id = seq /\ new.created_at = at
      /\ new.event = event /\ clock \in Nat /\ at >= clock /\ at \in Nat
      /\ seq \in Nat /\ store \subseteq Payloads
      /\ \A a \in store : a.sequence_id \in 0 .. seq /\ a.created_at <= clock /\ a.created_at \in Nat
  BY DEF Stored, JournalInv, Numbered, Sound, Timely, Payloads
<1> HIDE DEF new
<1>2. Timely'
  BY <1>1 DEF Timely
<1>3. \A a \in store : ~Before(new, a)
  BY <1>1 DEF Before
<1>4. QED
  BY <1>1, <1>2, <1>3

\* Only a write stores, and the clock does not go back.
LEMMA StoreSteps ==
  ASSUME JournalInv, Timely, [Next /\ Careful]_vars
  PROVE  /\ Timely' /\ store \subseteq store'
         /\ \A a \in store, b \in store' \ store : ~Before(b, a)
PROOF
<1>1. CASE WriteOk \/ WriteUnacknowledged
  BY <1>1, StoresLast DEF WriteOk, WriteUnacknowledged
<1>2. CASE UNCHANGED <<store, clock>>
  BY <1>2 DEF Timely
<1>3. QED
  BY <1>1, <1>2 DEF Next, Write, WriteRefused, Begin, Answer, End, Respawn, Snapshot, vars

\* A projection from the beginning reads everything.
LEMMA ReplayedIs ==
  ASSUME NEW S, Sound(S), \A a \in S : a.sequence_id >= 0
  PROVE  Replayed(S) = EventsOf(S)
PROOF
<1>1. Read(S, NoSnapshot.seq) = S
  BY AllDistinct DEF Read, NoSnapshot
<1>2. Patch(NoSnapshot, S) = [entity |-> EventsOf(S), seq |-> Cardinality(S)]
  BY ReplayInParts
<1>3. QED
  BY <1>1, <1>2 DEF Replayed

\* More payloads, after the others, make more of an entity and nothing else of it.
LEMMA ReplayExtends ==
  ASSUME NEW S, Sound(S), NEW A \in SUBSET S, \A a \in A, b \in S \ A : ~Before(b, a)
  PROVE  Continues(EventsOf(S), EventsOf(A))
PROOF
<1>1. /\ Sound(A) /\ Cardinality(A) \in Nat /\ Cardinality(S) \in Nat /\ Cardinality(A) <= Cardinality(S)
  BY SoundPart, FS_CardinalityType DEF Sound
<1>2. /\ EventsOf(A) \in Seq(Events) /\ Len(EventsOf(A)) = Cardinality(A)
      /\ EventsOf(S) \in Seq(Events) /\ Len(EventsOf(S)) = Cardinality(S)
  BY <1>1, PatchIs
<1>3. \A n \in 1 .. Cardinality(A) : EventsOf(S)[n] = EventsOf(A)[n]
  BY <1>1, WalkExtends DEF EventsOf
<1>4. /\ SubSeq(EventsOf(S), 1, Cardinality(A)) \in Seq(Events)
      /\ Len(SubSeq(EventsOf(S), 1, Cardinality(A))) = Cardinality(A)
      /\ \A n \in 1 .. Cardinality(A) : SubSeq(EventsOf(S), 1, Cardinality(A))[n] = EventsOf(S)[n]
  BY <1>1, <1>2, SubSeqProperties
<1>5. SubSeq(EventsOf(S), 1, Cardinality(A)) = EventsOf(A)
  BY <1>2, <1>3, <1>4, SeqEqual
<1>6. QED
  BY <1>1, <1>2, <1>5 DEF Continues

\* And the past of an entity is never rewritten: however often a write is repeated, what
\* is replayed afterwards continues what would have been replayed before.
THEOREM PastStays ==
  ASSUME Patient
  PROVE  CarefulSpec => ReplayOnlyGrows
PROOF
<1>1. Init => Timely
  BY DEF Init, Timely
<1>2. JournalInv /\ Timely /\ [Next /\ Careful]_vars => Timely'
  BY StoreSteps
<1>3. JournalInv /\ JournalInv' /\ Timely /\ [Next /\ Careful]_vars => [Continues(Replayed(store'), Replayed(store))]_store
  <2> SUFFICES ASSUME JournalInv, JournalInv', Timely, [Next /\ Careful]_vars
               PROVE  Continues(Replayed(store'), Replayed(store))
    OBVIOUS
  <2>1. /\ Sound(store) /\ \A a \in store : a.sequence_id >= 0
        /\ Sound(store') /\ \A a \in store' : a.sequence_id >= 0
    BY DEF JournalInv, Numbered
  <2>2. store \subseteq store' /\ \A a \in store, b \in store' \ store : ~Before(b, a)
    BY StoreSteps
  <2>3. Continues(EventsOf(store'), EventsOf(store))
    BY <2>1, <2>2, ReplayExtends
  <2>4. QED
    BY <2>1, <2>3, ReplayedIs
<1>4. QED
  BY <1>1, <1>2, <1>3, JournalInvariant, PTL DEF CarefulSpec, ReplayOnlyGrows

----------------------------------------------------------------------------
\* Where every payload that is stored is acknowledged, all runs are careful: what holds
\* of those then holds whenever, and from whatever, an entity is projected.
THEOREM HonestJournalsNeedNoCare ==
  ASSUME ~AckLost
  PROVE  Spec => CarefulSpec
PROOF
<1>1. Init => ~doubted
  BY DEF Init
<1>2. ~doubted /\ [Next]_vars => ~doubted'
  BY DEF Next, Write, WriteOk, WriteRefused, WriteUnacknowledged, Begin, Answer, End,
         Respawn, Snapshot, vars
<1>3. ~doubted /\ [Next]_vars => [Next /\ Careful]_vars
  BY DEF Careful
<1>4. QED
  BY <1>1, <1>2, <1>3, PTL DEF Spec, CarefulSpec
=============================================================================
