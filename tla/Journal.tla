------------------------------- MODULE Journal -------------------------------
(***************************************************************************)
(* nitinol-persistence, nitinol-projection and the payloads they exchange: *)
(* the life of one entity whose process persists each event it applies     *)
(* under its sequence number, and is spawned again, after it ended, from   *)
(* what EventProjector makes of the journal.  The journal itself, behind   *)
(* the Writer and Reader traits, is not part of the repository.            *)
(***************************************************************************)
EXTENDS Payloads

CONSTANTS
  Retry,       \* EventWriter::retry
  Refusals,    \* how often in a row the journal refuses a write
  AckLost,     \* whether the journal may store a payload and report an error
  MaxEvents,   \* bound: how many events the entity is given
  MaxSpawns    \* bound: how often it is spawned again

ASSUME JournalAssumption ==
  /\ Retry \in Int /\ Refusals \in Nat /\ AckLost \in BOOLEAN
  /\ MaxEvents \in Nat /\ MaxSpawns \in Nat

VARIABLES
  store,      \* the journal's payloads for the entity
  clock,      \* what OffsetDateTime::now_utc returns
  pc,         \* "down", "idle", "writing" or "written"
  entity,     \* the process's entity
  seq,        \* its context's sequence number
  event,      \* the event being applied
  retry,      \* how many attempts to write it have failed
  snapshots,  \* the (entity, sequence) pairs that projections have returned
  applied,    \* history: the events whose apply was answered, in order
  spawns,     \* history: how often the process was spawned
  doubted     \* history: whether the process was told of an error for a payload
              \* that was stored

vars == <<store, clock, pc, entity, seq, event, retry, snapshots, applied, spawns, doubted>>

Events == 1 .. MaxEvents
Payloads == [sequence_id : Int, created_at : Nat, event : Events]
NoSnapshot == [entity |-> <<>>, seq |-> 0]

TypeOK ==
  /\ store \subseteq Payloads /\ clock \in Nat
  /\ pc \in {"down", "idle", "writing", "written"}
  /\ entity \in Seq(Events) /\ applied \in Seq(Events)
  /\ seq \in Int /\ doubted \in BOOLEAN /\ event \in 0 .. MaxEvents
  /\ retry \in Nat /\ spawns \in Nat
  /\ snapshots \subseteq [entity : Seq(Events), seq : Int]

Init ==
  /\ store = {} /\ clock = 0 /\ pc = "idle" /\ entity = <<>> /\ seq = 0
  /\ event = 0 /\ retry = 0 /\ snapshots = {NoSnapshot} /\ applied = <<>> /\ spawns = 0
  /\ doubted = FALSE

----------------------------------------------------------------------------
(* EventProjector::projection_to_latest.                                   *)

\* As one step: Projection shows its steps to come to this when they succeed.
Project(start) == Patch(start, Read(store, start.seq))

----------------------------------------------------------------------------
(* The process.                                                            *)

\* The process takes an event to apply, which its entity first persists.
Begin ==
  /\ pc = "idle" /\ event < MaxEvents
  /\ event' = event + 1
  /\ pc' = "writing"
  /\ retry' = 0
  /\ UNCHANGED <<store, clock, entity, seq, snapshots, applied, spawns, doubted>>

\* The payload an attempt to write carries, and the journal with it.
Stored(at) ==
  store' = store \cup {[sequence_id |-> seq, created_at |-> at, event |-> event]}

WriteOk ==
  /\ pc = "writing"
  /\ \E at \in {clock, clock + 1} : Stored(at) /\ clock' = at
  /\ pc' = "written"
  /\ UNCHANGED <<entity, seq, event, retry, snapshots, applied, spawns, doubted>>

\* Mutant: the limit is one attempt short.
FailedShort ==
  /\ retry' = retry + 1
  /\ pc' = IF retry' + 1 >= Retry THEN "written" ELSE "writing"

\* An attempt returned an error: the writer tries again, or silently gives up
\* and lets the event be applied that it has not persisted.
Failed ==
  /\ retry' = retry + 1
  /\ pc' = IF retry' >= Retry THEN "written" ELSE "writing"

WriteRefused ==
  /\ pc = "writing" /\ retry < Refusals /\ Failed
  /\ UNCHANGED <<store, clock, entity, seq, event, snapshots, applied, spawns, doubted>>

WriteUnacknowledged ==
  /\ pc = "writing" /\ AckLost
  /\ \E at \in {clock, clock + 1} : Stored(at) /\ clock' = at
  /\ Failed
  /\ doubted' = TRUE
  /\ UNCHANGED <<entity, seq, event, snapshots, applied, spawns>>

\* The entity is changed and the caller answered.
Answer ==
  /\ pc = "written"
  /\ pc' = "idle"
  /\ entity' = Append(entity, event)
  /\ seq' = seq + 1
  /\ applied' = Append(applied, event)
  /\ UNCHANGED <<store, clock, event, retry, snapshots, spawns, doubted>>

\* The process ends: by an idle timeout, because the caller of an apply it has
\* carried out is gone, or anywhere by a panic or the end of the program, after
\* which it takes a new program to spawn it again (a panic leaves its id taken).
End ==
  /\ pc # "down"
  /\ pc' = "down"
  /\ entity' = <<>>
  /\ UNCHANGED <<store, clock, seq, event, retry, snapshots, applied, spawns, doubted>>

\* Mutant: its context starts at the number that the projection started from.
RespawnStale(start) ==
  /\ pc = "down" /\ spawns < MaxSpawns
  /\ pc' = "idle"
  /\ entity' = Project(start).entity
  /\ seq' = start.seq
  /\ snapshots' = snapshots \cup {Project(start)}
  /\ spawns' = spawns + 1 /\ doubted' = FALSE
  /\ UNCHANGED <<store, clock, event, retry, applied>>

\* It is spawned with what is projected: from the beginning, or from what any
\* earlier projection returned.  With nothing to replay the projection from the
\* beginning panics, and the caller starts a new entity instead.
Respawn(start) ==
  /\ pc = "down" /\ spawns < MaxSpawns
  /\ pc' = "idle"
  /\ entity' = Project(start).entity
  /\ seq' = Project(start).seq
  /\ snapshots' = snapshots \cup {Project(start)}
  /\ spawns' = spawns + 1 /\ doubted' = FALSE
  /\ UNCHANGED <<store, clock, event, retry, applied>>

\* Anyone may project the entity at any time, also while its process lives, and keep
\* what that returns.
Snapshot(start) ==
  /\ snapshots' = snapshots \cup {Project(start)}
  /\ UNCHANGED <<store, clock, pc, entity, seq, event, retry, applied, spawns, doubted>>

Write == WriteOk \/ WriteRefused \/ WriteUnacknowledged

Next ==
  \/ Begin \/ Write \/ Answer \/ End
  \/ \E start \in snapshots : Respawn(start) \/ Snapshot(start)

Spec == Init /\ [][Next]_vars

\* The runs of callers that keep nothing they have projected while a process lives
\* that has stored an event more than once.  Such a projection counts the event as
\* often, and its number is ahead of the process: events that this goes on to write
\* are then below the number, and missed by whoever starts from there.
Careful == snapshots' # snapshots => pc = "down" \/ ~doubted

CarefulSpec == Init /\ [][Next /\ Careful]_vars

----------------------------------------------------------------------------
(* Properties of careful runs.                                             *)

\* A sequence number stands for one event of the entity: the journal holds no two
\* payloads with the same number and different events.  Needs a journal that
\* takes a payload before the writer gives up.
SequenceNeverReused ==
  \A a, b \in store : a.sequence_id = b.sequence_id => a.event = b.event

\* Whenever it is between two events the entity is what a projection from the
\* beginning would make it, with the number its next event will have; unless it has
\* repeated a write because its success was not reported, in which case the next
\* process is again.
MemoryIsJournal ==
  pc = "idle" /\ ~doubted => Project(NoSnapshot) = [entity |-> entity, seq |-> seq]

\* A projection that starts from any earlier one, made between two processes or
\* beside a live one, ends where one from the beginning does, however many events
\* and processes later.
ResumeIsReplay == \A s \in snapshots : Project(s) = Project(NoSnapshot)

\* An event whose apply was answered is never lost to the entity, over any number
\* of ends and projections, and stays in the order of the answers.
AnsweredIsDurable ==
  pc = "idle" =>
    \A i, j \in DOMAIN applied : i <= j =>
      \E m, n \in DOMAIN entity :
        /\ entity[m] = applied[i] /\ entity[n] = applied[j]
        /\ i < j => m < n

\* What a projection from the beginning makes of the entity with these payloads.
Replayed(payloads) == Patch(NoSnapshot, Read(payloads, NoSnapshot.seq)).entity

Continues(new, old) == Len(old) <= Len(new) /\ SubSeq(new, 1, Len(old)) = old

\* The past is never rewritten: whatever is projected from the beginning is continued
\* by every later projection, through repeated writes, those that were stored without
\* the writer's knowledge, and the writes of the processes that are spawned next.
ReplayOnlyGrows == [][Continues(Replayed(store'), Replayed(store))]_store
=============================================================================
