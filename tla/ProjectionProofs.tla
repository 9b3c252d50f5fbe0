--------------------------- MODULE ProjectionProofs ---------------------------
(***************************************************************************)
(* A projection, for any entity it starts from, any journal and anything   *)
(* that its mapping registers.  That an ordered walk meets each payload is *)
(* not needed: the theorems are about what is done with Ordered(read).     *)
(***************************************************************************)
EXTENDS Projection, SequenceTheorems, FiniteSetTheorems, TLAPS

----------------------------------------------------------------------------
(* The mapper.                                                             *)

\* An entry is in the map if it was registered, and last under its key.
MapperInv ==
  /\ registered \in Seq(Entries)
  /\ \A x : x \in mapper <=>
       \E n \in DOMAIN registered :
         /\ registered[n] = x
         /\ \A i \in DOMAIN registered : SameKey(registered[i], x) => i <= n

\* Insert keeps the map to what was registered last.
LEMMA InsertStep ==
  ASSUME MapperInv, NEW x \in Entries, Insert(x)
  PROVE  MapperInv'
PROOF
<1> DEFINE N == Len(registered) + 1
<1>1. /\ mapper' = {y \in mapper : ~SameKey(x, y)} \cup {x}
      /\ registered' = Append(registered, x)
      /\ registered \in Seq(Entries)
  BY DEF Insert, MapperInv
<1>2. /\ registered' \in Seq(Entries) /\ DOMAIN registered = 1 .. N - 1 /\ DOMAIN registered' = 1 .. N
      /\ N \in Nat \ {0}
      /\ registered'[N] = x
      /\ \A n \in 1 .. N - 1 : registered'[n] = registered[n]
  BY <1>1, AppendProperties, LenProperties
<1> HIDE DEF N
<1>3. ASSUME NEW y, SameKey(x, y)
      PROVE  y \in mapper' <=>
               \E n \in 1 .. N : /\ registered'[n] = y
                                 /\ \A i \in 1 .. N : SameKey(registered'[i], y) => i <= n
  <2>1. y \in mapper' <=> y = x
    BY <1>1, <1>3
  <2>2. ASSUME NEW n \in 1 .. N, \A i \in 1 .. N : SameKey(registered'[i], y) => i <= n
        PROVE  n = N
    BY <1>2, <1>3, <2>2
  <2>3. \A i \in 1 .. N : i <= N
    BY <1>2
  <2>4. QED
    BY <1>2, <2>1, <2>2, <2>3
<1>4. ASSUME NEW y, ~SameKey(x, y)
      PROVE  y \in mapper' <=>
               \E n \in 1 .. N : /\ registered'[n] = y
                                 /\ \A i \in 1 .. N : SameKey(registered'[i], y) => i <= n
  <2>1. y # x
    BY <1>4 DEF SameKey
  <2>2. y \in mapper' <=> y \in mapper
    BY <1>1, <1>4, <2>1
  <2>3. ASSUME NEW n \in 1 .. N
        PROVE  /\ registered'[n] = y => n \in 1 .. N - 1 /\ registered[n] = y
               /\ n \in 1 .. N - 1 => registered'[n] = registered[n]
               /\ SameKey(registered'[n], y) => n \in 1 .. N - 1
    BY <1>2, <1>4, <2>1, <2>3
  <2>4. y \in mapper <=>
          \E n \in 1 .. N - 1 : /\ registered[n] = y
                                /\ \A i \in 1 .. N - 1 : SameKey(registered[i], y) => i <= n
    BY <1>2 DEF MapperInv
  <2>5. 1 .. N - 1 \subseteq 1 .. N
    BY <1>2
  <2>6. QED
    BY <2>2, <2>3, <2>4, <2>5
<1>5. QED
  BY <1>2, <1>3, <1>4 DEF MapperInv

\* What the map and its history are, however it was filled.
LEMMA MapperFindsTheLast == MapperInv => FindsTheLast
PROOF
<1> SUFFICES ASSUME MapperInv PROVE FindsTheLast
  OBVIOUS
<1>1. DOMAIN registered = 1 .. Len(registered) /\ Len(registered) \in Nat
  BY LenProperties DEF MapperInv
<1>2. ASSUME NEW e, NEW h
      PROVE  {x \in mapper : x.event = e /\ x.handler = h} = LastFor(e, h)
  <2> DEFINE at == {n \in DOMAIN registered : registered[n].event = e /\ registered[n].handler = h}
  <2>1. ASSUME NEW n \in at, NEW i \in DOMAIN registered
        PROVE  SameKey(registered[i], registered[n]) <=> i \in at
    BY <2>1 DEF SameKey
  <2>2. ASSUME NEW n \in at, \A i \in at : i <= n PROVE registered[n] \in mapper
    BY <2>1, <2>2 DEF MapperInv
  <2>3. ASSUME NEW x \in mapper, x.event = e, x.handler = h
        PROVE  \E n \in at : x = registered[n] /\ \A i \in at : i <= n
    <3>1. PICK n \in DOMAIN registered :
                 /\ registered[n] = x
                 /\ \A i \in DOMAIN registered : SameKey(registered[i], x) => i <= n
      BY <2>3 DEF MapperInv
    <3>2. n \in at
      BY <2>3, <3>1
    <3>3. QED
      BY <2>1, <3>1, <3>2
  <2>4. LastFor(e, h) = {registered[n] : n \in {m \in at : \A i \in at : i <= m}}
    BY DEF LastFor
  <2>5. QED
    BY <2>2, <2>3, <2>4
<1>3. QED
  BY <1>2 DEF FindsTheLast, FindProjector, FindFiltered, Filter

----------------------------------------------------------------------------
(* What is read.                                                           *)

Payload == PayloadsOf(Nat)

\* A read is a finite part of a finite journal.
LEMMA ReadIsFinite ==
  ASSUME NEW payloads \in SUBSET Payload, IsFiniteSet(payloads), NEW from
  PROVE  /\ Read(payloads, from) \subseteq payloads
         /\ IsFiniteSet(Read(payloads, from)) /\ Cardinality(Read(payloads, from)) \in Nat
PROOF
<1> DEFINE some == {a \in payloads : a.sequence_id >= from}
<1>1. ASSUME NEW a \in some
      PROVE  (CHOOSE b \in some : ~Before(a, b) /\ ~Before(b, a)) \in some
  <2>1. ~Before(a, a)
    BY DEF Before, Payload, PayloadsOf
  <2>2. QED
    BY <2>1
<1>2. Read(payloads, from) \subseteq some
  BY <1>1 DEF Read, Distinct
<1>3. QED
  BY <1>2, FS_Subset, FS_CardinalityType

\* A walk has as many places as there are payloads.
LEMMA OrderedIsFunction ==
  ASSUME NEW S
  PROVE  Ordered(S) = [n \in 1 .. Cardinality(S) |-> Ordered(S)[n]]
PROOF
<1> DEFINE at(n) == CHOOSE a \in S : Cardinality({b \in S : Before(b, a)}) = n - 1
<1>1. Ordered(S) = [n \in 1 .. Cardinality(S) |-> at(n)]
  BY DEF Ordered
<1> HIDE DEF at
<1>2. QED
  BY <1>1

----------------------------------------------------------------------------
(* The call.                                                               *)

N == Cardinality(read)
O == Ordered(read)

\* How many payloads have been applied.
Applied == N - Len(parts)

Parts == {O[n] : n \in 1 .. N}
Events == Nat \cup {a.event : a \in Parts}

Before1 == {"mapping", "loading", "Protocol", "NotCompatible"}

Untouched ==
  /\ parts = <<>> /\ ran = <<>>
  /\ present = start.present /\ entity = start.entity /\ seq = start.seq

\* The entity is the start's, and the events that have been applied.
Replayed ==
  /\ entity \in Seq(Events)
  /\ Len(entity) = Len(start.entity) + Applied
  /\ \A i \in 1 .. Len(start.entity) : entity[i] = start.entity[i]
  /\ \A n \in 1 .. Applied : entity[Len(start.entity) + n] = O[n].event
  /\ seq = start.seq + Applied

\* It is Some if the start was, or if an event has been applied.
Formed == present = (start.present \/ Applied > 0)

\* What is left is the rest of the walk, and what ran its beginning.
Walking ==
  /\ parts \in Seq(Parts) /\ Len(parts) <= N
  /\ \A n \in 1 .. Len(parts) : parts[n] = O[n + Applied]
  /\ ran \in Seq(Parts)
  /\ \A n \in 1 .. Len(ran) : ran[n] = O[n]
  /\ Len(ran) <= N
  /\ pc = "patching" => Len(ran) = Applied

Resolved == \A a \in read : FindProjector(a.key) # {}

CallInv ==
  /\ start \in Starts /\ pc \in Points
  /\ store \subseteq Payload /\ IsFiniteSet(store)
  /\ IsFiniteSet(read) /\ N \in Nat
  /\ pc \in Before1 => Untouched
  /\ pc \notin Before1 => Resolved /\ Walking /\ Replayed /\ Formed
  /\ pc \in {"ok", "unreachable"} => parts = <<>> /\ (pc = "ok" <=> present)

LEMMA StartTypes ==
  ASSUME CallInv
  PROVE  /\ start.present \in BOOLEAN /\ start.entity \in Seq(Nat) /\ start.seq \in Int
         /\ start.entity \in Seq(Events) /\ Len(start.entity) \in Nat
PROOF
<1>1. start.present \in BOOLEAN /\ start.entity \in Seq(Nat) /\ start.seq \in Int
  BY ProjectionAssumption DEF CallInv
<1>2. QED
  BY <1>1, SeqMonotonic, LenProperties DEF Events

\* Before it has resolvers for all it has read, a call changes nothing.
LEMMA WalkBegins ==
  ASSUME CallInv, Load
  PROVE  CallInv'
PROOF
<1>1. /\ pc = "loading" /\ Untouched
      /\ UNCHANGED <<mapper, store, start, read, present, entity, seq, ran>>
  BY DEF Load, CallInv, Before1
<1>2. CASE Resolved /\ pc' = "patching" /\ parts' = Ordered(read)
  <2>1. /\ O' = O /\ N' = N /\ N \in Nat /\ Parts' = Parts /\ Events' = Events
        /\ O = [n \in 1 .. N |-> O[n]]
    <3>1. N' = N /\ O' = O /\ N \in Nat
      BY <1>1 DEF CallInv, O, N
    <3>2. Parts' = Parts
      BY <3>1 DEF Parts
    <3>3. Events' = Events
      BY <3>2 DEF Events
    <3>4. O = [n \in 1 .. N |-> O[n]]
      BY OrderedIsFunction DEF O, N
    <3>5. QED
      BY <3>1, <3>2, <3>3, <3>4
  <2>2. parts' \in Seq(Parts) /\ Len(parts') = N /\ \A n \in 1 .. N : parts'[n] = O[n]
    <3>1. O \in [1 .. N -> Parts]
      BY <2>1 DEF Parts
    <3>2. QED
      BY <1>2, <2>1, <3>1, LenProperties DEF O
  <2>3. Applied' = 0 /\ ran' = <<>> /\ Len(<<>>) = 0
    BY <1>1, <2>1, <2>2 DEF Applied, Untouched
  <2>4. Walking'
    BY <1>2, <2>1, <2>2, <2>3, EmptySeq DEF Walking
  <2>5. Replayed'
    BY <1>1, <2>1, <2>3, StartTypes DEF Replayed, Untouched
  <2>8. Formed'
    BY <1>1, <2>3, StartTypes DEF Formed, Untouched
  <2>6. Resolved'
    BY <1>1, <1>2 DEF Resolved, FindProjector
  <2>7. QED
    BY <1>1, <1>2, <2>1, <2>4, <2>5, <2>6, <2>8 DEF CallInv, Points, Before1
<1>3. CASE pc' = "NotCompatible" /\ UNCHANGED parts
  BY <1>1, <1>3 DEF CallInv, Untouched, Points, Errors, Before1, N
<1>4. QED
  BY <1>2, <1>3 DEF Load, Goto, Resolved

\* A payload is applied.
LEMMA WalkGoesOn ==
  ASSUME CallInv, Accepted
  PROVE  CallInv'
PROOF
<1>1. /\ pc = "patching" /\ Resolved /\ Walking /\ Replayed /\ Formed /\ N \in Nat
      /\ parts # <<>>
      /\ UNCHANGED <<mapper, registered, store, start, pc, read>>
      /\ ran' = Append(ran, Head(parts)) /\ parts' = Tail(parts)
      /\ entity' = Append(entity, Head(parts).event)
      /\ seq' = seq + 1 /\ present' = TRUE
  BY DEF Accepted, HandToUser, CallInv, Before1
<1>2. N' = N /\ O' = O /\ Parts' = Parts /\ Events' = Events /\ Resolved'
  BY <1>1 DEF N, O, Parts, Events, Resolved, FindProjector
<1>3. /\ Len(parts) \in 1 .. N /\ Head(parts) = parts[1] /\ Head(parts) \in Parts
      /\ parts' \in Seq(Parts) /\ Len(parts') = Len(parts) - 1
      /\ \A n \in 1 .. Len(parts) - 1 : parts'[n] = parts[n + 1]
  BY <1>1, HeadTailProperties, LenProperties, EmptySeq DEF Walking
<1>4. Applied \in 0 .. N - 1 /\ Applied' = Applied + 1 /\ Head(parts) = O[Applied + 1]
  BY <1>1, <1>2, <1>3 DEF Applied, Walking
<1>5. /\ ran' \in Seq(Parts) /\ Len(ran') = Applied + 1
      /\ \A n \in 1 .. Applied + 1 : ran'[n] = O[n]
  <2>1. ran \in Seq(Parts) /\ Len(ran) = Applied /\ \A n \in 1 .. Applied : ran[n] = O[n]
    BY <1>1 DEF Walking
  <2>2. QED
    BY <1>1, <1>3, <1>4, <2>1, AppendProperties
<1>6. Walking'
  <2>1. ASSUME NEW n \in 1 .. Len(parts') PROVE parts'[n] = O[n + Applied + 1]
    BY <1>1, <1>3, <1>4, <2>1 DEF Walking
  <2>2. QED
    BY <1>1, <1>2, <1>3, <1>4, <1>5, <2>1 DEF Walking
<1>7. Replayed'
  <2> DEFINE L == Len(start.entity)
             k == Applied
             e == O[k + 1].event
  <2>1. /\ entity \in Seq(Events) /\ L \in Nat /\ k \in Nat /\ Len(entity) = L + k
        /\ \A i \in 1 .. L : entity[i] = start.entity[i]
        /\ \A n \in 1 .. k : entity[L + n] = O[n].event
    BY <1>1, <1>4, StartTypes DEF Replayed
  <2>2. e \in Events /\ entity' = Append(entity, e)
    BY <1>1, <1>3, <1>4 DEF Events
  <2>3. seq' = start.seq + (k + 1)
    BY <1>1, <1>4, StartTypes DEF Replayed
  <2>4. start' = start /\ Applied' = k + 1 /\ O' = O /\ Events' = Events
    BY <1>1, <1>2, <1>4
  <2> HIDE DEF L, k, e
  <2>5. /\ entity' \in Seq(Events) /\ Len(entity') = L + k + 1
        /\ \A i \in 1 .. L + k : entity'[i] = entity[i]
        /\ entity'[L + k + 1] = e
    BY <2>1, <2>2, AppendProperties
  <2>6. \A i \in 1 .. L : entity'[i] = start.entity[i]
    BY <2>1, <2>5
  <2>7. ASSUME NEW n \in 1 .. k + 1 PROVE entity'[L + n] = O[n].event
    <3>1. CASE n = k + 1
      BY <2>1, <2>5, <3>1 DEF e
    <3>2. CASE n \in 1 .. k
      BY <2>1, <2>5, <3>2
    <3>3. QED
      BY <2>1, <3>1, <3>2
  <2>8. QED
    <3>1. Len(entity') = Len(start'.entity) + Applied'
      <4>1. Len(entity') = L + (k + 1)
        BY <2>1, <2>5
      <4>2. QED
        BY <4>1, <2>4 DEF L
    <3>2. seq' = start'.seq + Applied'
      BY <2>3, <2>4
    <3>3. \A i \in 1 .. Len(start'.entity) : entity'[i] = start'.entity[i]
      BY <2>4, <2>6 DEF L
    <3>4. \A n \in 1 .. Applied' : entity'[Len(start'.entity) + n] = O'[n].event
      BY <2>4, <2>7 DEF L
    <3>5. entity' \in Seq(Events')
      BY <2>4, <2>5
    <3>6. QED
      BY <3>1, <3>2, <3>3, <3>4, <3>5 DEF Replayed
<1>8. Formed'
  <2>1. present' = TRUE /\ Applied' > 0
    BY <1>1, <1>4
  <2>2. QED
    BY <2>1 DEF Formed
<1>9. QED
  BY <1>1, <1>2, <1>6, <1>7, <1>8 DEF CallInv, Before1

\* The call ends within the walk, user code having run or not.
LEMMA WalkStops ==
  ASSUME CallInv, Undecodable \/ Rejected \/ Unwinds
  PROVE  CallInv'
PROOF
<1>1. /\ pc = "patching" /\ Resolved /\ Walking /\ Replayed /\ Formed /\ N \in Nat
      /\ parts # <<>>
      /\ UNCHANGED <<mapper, store, start, read, parts, present, entity, seq>>
      /\ ran' = ran \/ ran' = Append(ran, Head(parts))
      /\ pc' \in {"DeserializeEvent", "ApplyEvent", "unwinding"}
  BY DEF Undecodable, Rejected, Unwinds, HandToUser, Goto, CallInv, Before1
<1>2. N' = N /\ O' = O /\ Parts' = Parts /\ Events' = Events /\ Applied' = Applied /\ Resolved'
  BY <1>1 DEF N, O, Parts, Events, Applied, Resolved, FindProjector
<1>3. /\ Len(parts) \in 1 .. N /\ Head(parts) = parts[1] /\ Head(parts) \in Parts
  BY <1>1, HeadTailProperties, LenProperties, EmptySeq DEF Walking
<1>4. Applied \in 0 .. N - 1 /\ Head(parts) = O[Applied + 1]
  BY <1>1, <1>3 DEF Applied, Walking
<1>5. ran' \in Seq(Parts) /\ Len(ran') <= N /\ \A n \in 1 .. Len(ran') : ran'[n] = O[n]
  <2>1. ran \in Seq(Parts) /\ Len(ran) = Applied /\ \A n \in 1 .. Applied : ran[n] = O[n]
    BY <1>1 DEF Walking
  <2>2. QED
    BY <1>1, <1>3, <1>4, <2>1, AppendProperties
<1>6. Walking' /\ Replayed' /\ Formed'
  BY <1>1, <1>2, <1>5 DEF Walking, Replayed, Formed
<1>7. QED
  BY <1>1, <1>2, <1>6 DEF CallInv, Before1, Points, Errors

\* Whatever becomes of the journal, a call that does not move is what it was.
LEMMA CallUnmoved ==
  ASSUME CallInv, UNCHANGED <<mapper, start, pc, read, parts, present, entity, seq, ran>>,
         store' \subseteq Payload, IsFiniteSet(store')
  PROVE  CallInv'
PROOF
<1>1. N' = N /\ O' = O /\ Resolved' = Resolved /\ Untouched' = Untouched
  BY DEF N, O, Resolved, FindProjector, Untouched
<1>2. Parts' = Parts /\ Applied' = Applied
  BY <1>1 DEF Parts, Applied
<1>3. Events' = Events
  BY <1>2 DEF Events
<1>4. (Walking => Walking') /\ (Replayed => Replayed') /\ (Formed => Formed')
  BY <1>1, <1>2, <1>3 DEF Walking, Replayed, Formed
<1>5. QED
  BY <1>1, <1>4 DEF CallInv

\* Every step keeps the invariant.
LEMMA CallNext == CallInv /\ [Next]_vars => CallInv'
PROOF
<1> SUFFICES ASSUME CallInv, [Next]_vars PROVE CallInv'
  OBVIOUS
<1>1. CASE UNCHANGED vars
  BY <1>1, CallUnmoved DEF vars, CallInv
<1>2. ASSUME NEW key \in Types, NEW sound \in BOOLEAN, Write(key, sound) PROVE CallInv'
  <2>1. /\ \E a \in Payload : store' = store \cup {a}
        /\ UNCHANGED <<mapper, start, pc, read, parts, present, entity, seq, ran>>
    <3>1. Cardinality(store) \in Nat
      BY FS_CardinalityType DEF CallInv
    <3>2. PICK number \in {Cardinality(store), Cardinality(store) - 1} \cap Nat,
               at \in {Cardinality(store), Cardinality(store) + 1} :
                 store' = store \cup {[sequence_id |-> number, created_at |-> at,
                                       event |-> Cardinality(store) + 1, key |-> key, sound |-> sound]}
      BY <1>2 DEF Write
    <3>3. [sequence_id |-> number, created_at |-> at, event |-> Cardinality(store) + 1,
           key |-> key, sound |-> sound] \in Payload
      BY <3>1 DEF Payload, PayloadsOf
    <3>4. QED
      BY <1>2, <3>2, <3>3 DEF Write
  <2>2. store' \subseteq Payload /\ IsFiniteSet(store')
    BY <2>1, FS_AddElement DEF CallInv
  <2>3. QED
    BY <2>1, <2>2, CallUnmoved
<1>3. CASE Map
  BY <1>3 DEF Map, CallInv, Before1, Untouched, N
<1>4. CASE ReadJournal
  <2>1. IsFiniteSet(read') /\ Cardinality(read') \in Nat
    BY <1>4, ReadIsFinite DEF ReadJournal, CallInv
  <2>2. QED
    BY <1>4, <2>1 DEF ReadJournal, Goto, CallInv, Before1, Untouched, N, Points
<1>5. CASE ReadFails
  BY <1>5 DEF ReadFails, Goto, CallInv, Before1, Untouched, N, Points, Errors
<1>6. CASE Finish
  BY <1>6 DEF Finish, Goto, CallInv, Before1, Points, N, O, Parts, Events, Applied, Resolved, FindProjector, Walking, Replayed, Formed
<1>7. QED
  BY <1>1, <1>2, <1>3, <1>4, <1>5, <1>6, WalkBegins, WalkGoesOn, WalkStops DEF Next

\* So every state satisfies it.
LEMMA CallInvariant == Spec => []CallInv
PROOF
<1>1. Init => CallInv
  BY FS_EmptySet DEF Init, CallInv, Before1, Untouched, Points, N
<1>2. QED
  BY <1>1, CallNext, PTL DEF Spec

\* Whoever looks a resolver up finds what was registered last, whatever the map's order.
THEOREM LookupsFindTheLast == Spec => []FindsTheLast
PROOF
<1>1. Init => MapperInv
  BY EmptySeq DEF Init, MapperInit, MapperInv
<1>2. MapperInv /\ [Next]_vars => MapperInv'
  <2> SUFFICES ASSUME MapperInv, [Next]_vars PROVE MapperInv'
    OBVIOUS
  <2>1. CASE UNCHANGED <<mapper, registered>>
    BY <2>1 DEF MapperInv
  <2>2. CASE Map
    <3>1. PICK x \in Entries : Insert(x)
      BY <2>2 DEF Map, MapperNext, Register, RegisterWith, Entries, Handlers
    <3>2. QED
      BY <3>1, InsertStep
  <2>3. QED
    BY <2>1, <2>2 DEF Next, vars, Write, ReadJournal, ReadFails, Load, Undecodable, Accepted,
                      Rejected, Unwinds, HandToUser, Finish
<1>3. QED
  BY <1>1, <1>2, MapperFindsTheLast, PTL DEF Spec

\* User code runs in the journal's order, and only if all that was read has resolvers.
THEOREM NothingRunsUnresolved == Spec => []CompatibleBeforeUse
PROOF
<1>1. CallInv => CompatibleBeforeUse
  <2> SUFFICES ASSUME CallInv, ran # <<>> PROVE CompatibleBeforeUse
    BY DEF CompatibleBeforeUse
  <2>1. Resolved /\ Walking
    BY DEF CallInv, Untouched
  <2>2. DOMAIN ran = 1 .. Len(ran)
    BY <2>1, LenProperties DEF Walking
  <2>3. QED
    BY <2>1, <2>2 DEF CompatibleBeforeUse, Resolved, Walking, N, O
<1>2. QED
  BY <1>1, CallInvariant, PTL

\* The unreachable! is reached from nothing only, when there is nothing to read.
THEOREM UnreachableOnlyFromNothing ==
  Spec => [](pc = "unreachable" => ~start.present /\ read = {})
PROOF
<1>1. CallInv => (pc = "unreachable" => ~start.present /\ read = {})
  <2> SUFFICES ASSUME CallInv, pc = "unreachable" PROVE ~start.present /\ read = {}
    OBVIOUS
  <2>1. parts = <<>> /\ ~present /\ Formed /\ N \in Nat
    BY DEF CallInv, Before1
  <2>2. ~start.present /\ N = 0
    <3>1. Applied = N
      BY <2>1, EmptySeq DEF Applied
    <3>2. ~start.present /\ ~(Applied > 0)
      BY <2>1, Zenon DEF Formed
    <3>3. QED
      BY <2>1, <3>1, <3>2
  <2>3. QED
    BY <2>2, FS_EmptySet DEF CallInv, N
<1>2. QED
  BY <1>1, CallInvariant, PTL

\* An entity that is returned is the replay of all that was read.
THEOREM ProjectionIsReplay == Spec => []ResultIsReplay
PROOF
<1>1. CallInv => ResultIsReplay
  <2> SUFFICES ASSUME CallInv, pc = "ok" PROVE [entity |-> entity, seq |-> seq] = Patch(start, read)
    BY DEF ResultIsReplay
  <2>1. parts = <<>> /\ Replayed /\ N \in Nat /\ O = Ordered(read)
    BY DEF CallInv, Before1, O
  <2>2. Applied = N
    BY <2>1, EmptySeq DEF Applied
  <2> DEFINE events == [n \in 1 .. N |-> O[n].event]
  <2>3. O = [n \in 1 .. N |-> O[n]] /\ O \in Seq(Parts) /\ Len(O) = N
    <3>1. O = [n \in 1 .. N |-> O[n]]
      BY OrderedIsFunction DEF O, N
    <3>2. O \in [1 .. N -> Parts]
      BY <3>1 DEF Parts
    <3>3. QED
      BY <2>1, <3>1, <3>2, LenProperties
  <2>4. events \in Seq(Events) /\ Len(events) = N
    <3>1. events \in [1 .. N -> Events]
      BY DEF Events, Parts
    <3>2. QED
      BY <2>1, <3>1, LenProperties
  <2>5. start.entity \in Seq(Events) /\ Len(start.entity) \in Nat
    BY StartTypes
  <2>6. entity = start.entity \o events
    <3> DEFINE L == Len(start.entity)
               both == start.entity \o events
    <3> HIDE DEF events
    <3>1. both \in Seq(Events) /\ Len(both) = L + N /\ L \in Nat
      BY <2>4, <2>5, ConcatProperties
    <3>2. \A i \in 1 .. L + N : both[i] = IF i <= L THEN start.entity[i] ELSE events[i - L]
      BY <2>4, <2>5, ConcatProperties
    <3>3. \A n \in 1 .. N : events[n] = O[n].event
      BY DEF events
    <3>4. /\ entity \in Seq(Events) /\ Len(entity) = L + N
          /\ \A i \in 1 .. L : entity[i] = start.entity[i]
          /\ \A n \in 1 .. N : entity[L + n] = O[n].event
      BY <2>1, <2>2 DEF Replayed
    <3> HIDE DEF L, both
    <3>5. ASSUME NEW i \in 1 .. L + N PROVE entity[i] = both[i]
      <4>1. CASE i <= L
        BY <2>1, <3>1, <3>2, <3>4, <4>1
      <4>2. CASE i > L
        <5>1. i - L \in 1 .. N /\ i = L + (i - L)
          BY <2>1, <3>1, <4>2
        <5>2. entity[i] = O[i - L].event
          BY <3>4, <5>1
        <5>3. both[i] = events[i - L]
          BY <3>1, <3>2, <4>2
        <5>4. QED
          BY <3>3, <5>1, <5>2, <5>3
      <4>3. QED
        BY <2>1, <3>1, <4>1, <4>2
    <3>6. entity = both
      BY <3>1, <3>4, <3>5, SeqEqual
    <3>7. QED
      BY <3>6 DEF both
  <2>7. DOMAIN Ordered(read) = 1 .. N /\ seq = start.seq + Len(Ordered(read))
    BY <2>1, <2>2, <2>3 DEF Replayed
  <2>8. QED
    BY <2>1, <2>6, <2>7 DEF Patch
<1>2. QED
  BY <1>1, CallInvariant, PTL
=============================================================================
