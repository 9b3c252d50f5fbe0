----------------------------- MODULE Projection -----------------------------
(***************************************************************************)
(* nitinol-projection: one call of EventProjector::projection_to_latest,   *)
(* while processes go on writing to the journal it reads.                  *)
(***************************************************************************)
EXTENDS Mapping, Payloads

CONSTANTS
  Starts,       \* the entities a caller starts from; present is FALSE for None
  MaxPayloads   \* bound: how many payloads the journal gets

ASSUME ProjectionAssumption ==
  /\ Starts \subseteq [present : BOOLEAN, entity : Seq(Nat), seq : Int]
  /\ \A s \in Starts : ~s.present => s.entity = <<>> /\ s.seq = 0

VARIABLES
  store,     \* the journal's payloads for the entity
  start,     \* what the caller passed
  pc,        \* where the call is: see Points
  read,      \* the payloads it has read
  parts,     \* the fixture: the payloads still to be applied, in order
  present,   \* whether the entity is Some
  entity,    \* the events it consists of
  seq,       \* its sequence number
  ran        \* history: the payloads handed to user code

vars == <<mapper, registered, store, start, pc, read, parts, present, entity, seq, ran>>

\* ProjectionError, but for FirstFormation, which nobody is ever given:
\* TypedResolver turns whatever a handler returns into InProcess, which the
\* projector returns as ApplyEvent.
Errors == {"Protocol", "NotCompatible", "DeserializeEvent", "ApplyEvent"}

Points == {"mapping", "loading", "patching", "ok", "unreachable", "unwinding"} \cup Errors

\* key is the registry_key, sound whether its type decodes the bytes.
PayloadsOf(events) ==
  [sequence_id : Int, created_at : Nat, event : events, key : Types, sound : BOOLEAN]

TypeOK ==
  /\ mapper \subseteq Entries /\ registered \in Seq(Entries)
  /\ store \subseteq PayloadsOf(Nat) /\ read \subseteq store
  /\ start \in Starts /\ pc \in Points
  /\ parts \in Seq(store) /\ ran \in Seq(store)
  /\ present \in BOOLEAN /\ entity \in Seq(Nat) /\ seq \in Int

Init ==
  /\ MapperInit /\ store = {} /\ start \in Starts /\ pc = "mapping"
  /\ read = {} /\ parts = <<>> /\ ran = <<>>
  /\ present = start.present /\ entity = start.entity /\ seq = start.seq

Goto(point) == pc' = point

----------------------------------------------------------------------------
\* A process persists one more event, under the next number or under the last one
\* again (see JournalGivesUp), at a time that is no earlier.
Write(key, sound) ==
  LET n == Cardinality(store) IN
  /\ n < MaxPayloads
  /\ \E number \in {n, n - 1} \cap Nat, at \in {n, n + 1} :
       store' = store \cup {[sequence_id |-> number, created_at |-> at, event |-> n + 1,
                             key |-> key, sound |-> sound]}
  /\ UNCHANGED <<mapper, registered, start, pc, read, parts, present, entity, seq, ran>>

\* T::mapping registers what the entity's author has written there.
Map ==
  /\ pc = "mapping" /\ MapperNext
  /\ UNCHANGED <<store, start, pc, read, parts, present, entity, seq, ran>>

ReadJournal ==
  /\ pc = "mapping" /\ Goto("loading")
  /\ read' = Read(store, start.seq)
  /\ UNCHANGED <<mapper, registered, store, start, parts, present, entity, seq, ran>>

ReadFails ==
  /\ pc = "mapping" /\ Goto("Protocol")
  /\ UNCHANGED <<mapper, registered, store, start, read, parts, present, entity, seq, ran>>

\* Mutant: payloads are given resolvers one by one, as they are applied.
LoadLazily ==
  /\ pc = "loading" /\ Goto("patching")
  /\ parts' = Ordered(read)
  /\ UNCHANGED <<mapper, registered, store, start, read, present, entity, seq, ran>>

\* patch_load: every payload gets a resolver, or the projection fails.
Load ==
  /\ pc = "loading"
  /\ IF \A a \in read : FindProjector(a.key) # {}
     THEN Goto("patching") /\ parts' = Ordered(read)
     ELSE Goto("NotCompatible") /\ UNCHANGED parts
  /\ UNCHANGED <<mapper, registered, store, start, read, present, entity, seq, ran>>

\* Fixture::apply goes on to the next part; the first error ends it.
Undecodable ==
  /\ pc = "patching" /\ parts # <<>> /\ ~Head(parts).sound
  /\ Goto("DeserializeEvent")
  /\ UNCHANGED <<mapper, registered, store, start, read, parts, present, entity, seq, ran>>

HandToUser ==
  /\ pc = "patching" /\ parts # <<>> /\ Head(parts).sound
  /\ ran' = Append(ran, Head(parts))

\* first, of an entity that is None, or apply returns Ok.
Accepted ==
  /\ HandToUser
  /\ present' = TRUE
  /\ entity' = Append(entity, Head(parts).event)
  /\ parts' = Tail(parts)
  /\ seq' = seq + 1
  /\ UNCHANGED <<mapper, registered, store, start, pc, read>>

\* Mutant: the event counts although the entity's code has rejected it.
RejectedSkipped ==
  /\ HandToUser
  /\ parts' = Tail(parts) /\ seq' = seq + 1
  /\ UNCHANGED <<mapper, registered, store, start, pc, read, present, entity>>

\* Either returns Err, or first panics, as it does by default.
Rejected ==
  /\ HandToUser /\ Goto("ApplyEvent")
  /\ UNCHANGED <<mapper, registered, store, start, read, parts, present, entity, seq>>

\* apply panics: only first is called under catch_unwind.
Unwinds ==
  /\ present /\ HandToUser /\ Goto("unwinding")
  /\ UNCHANGED <<mapper, registered, store, start, read, parts, present, entity, seq>>

Finish ==
  /\ pc = "patching" /\ parts = <<>>
  /\ Goto(IF present THEN "ok" ELSE "unreachable")
  /\ UNCHANGED <<mapper, registered, store, start, read, parts, present, entity, seq, ran>>

Next ==
  \/ \E key \in Types, sound \in BOOLEAN : Write(key, sound)
  \/ Map \/ ReadJournal \/ ReadFails \/ Load
  \/ Undecodable \/ Accepted \/ Rejected \/ Unwinds \/ Finish

Spec == Init /\ [][Next]_vars

----------------------------------------------------------------------------
\* An entity that is returned is the replay of the whole journal as it was read
\* at one moment of the call, and its number the one Journal relies on: user code
\* that rejects, bytes that do not decode or writes meanwhile never make it less.
ResultIsReplay == pc = "ok" => [entity |-> entity, seq |-> seq] = Patch(start, read)

\* User code sees no event before every payload that was read has a resolver, and
\* then sees them in the order of the journal, each once.
CompatibleBeforeUse ==
  ran # <<>> =>
    /\ \A a \in read : FindProjector(a.key) # {}
    /\ Len(ran) <= Cardinality(read)
    /\ \A n \in DOMAIN ran : ran[n] = Ordered(read)[n]
=============================================================================
