# Nitinol, in TLA+

Nitinol is a Rust library for event sourcing: entities run as processes with a
mailbox, publish their events on a stream, persist them in a journal and are
projected from it again. These modules model the parts of it that hold state
between two awaits, TLC checks them on small instances, and TLAPS proves what
matters most for instances of any size. `PROJECT.json` lists the runs, the lines
every definition stands for, and the hazards the properties are for.

## The system

| component | state | operations | interacts with |
|---|---|---|---|
| process registry (`nitinol-process/src/registry.rs`) | a map from entity id to a type-erased `Receptor`, behind one `RwLock` | `register`, `deregister`, `find`; the first two check under a read lock and change under a later write lock | called by `lifecycle::run`, by its task, by `ProcessManager::find` and `Context::find` |
| process lifecycle (`lifecycle.rs`, `manager.rs`, `process.rs`) | per process a task, its mailbox, its entity | `run`: register and spawn; the task: `start` hook, loop, `stop` hook, `deregister` | calls the registry and user code |
| receptors and tasks (`receptor.rs`, `task/`) | unbounded mailbox, one oneshot channel per awaited call | `handle`, `apply`, `entrust`, `send`, and what each task does when it is taken | callers, other processes, event-stream forwarders |
| context (`context.rs`, `context/status.rs`) | sequence number, shared status flag | `sequence`, `poison`, `is_active`, `find` | tasks advance the number; `persist` and `publish` read it; forwarders read the flag |
| event stream (`nitinol-eventstream/src/eventstream.rs`) | tokio broadcast channel of 256 payloads, one task per reader | `publish`, `subscribe`, `subscribe_in_process`; a dead-letter reader spawned with it | publishers are processes or the program; forwarders entrust commands to their process |
| globals (three `global.rs`) | a `static mut` and two atomics | one setter and one getter each | `publish`, `subscribe`, `persist` fetch the instance |
| event writer (`nitinol-persistence`) | retry limit | `write` with retries | the journal behind the `Writer` trait, the context's number |
| projector (`nitinol-projection`) | none | `projection_to_latest` | the journal behind `Reader`, `Mapper`, the code that spawns an entity |
| payloads and protocol (`nitinol-protocol`) | none | construction, order, read and write | writer, projector, stream |
| mapper (`nitinol-resolver`) | map from (event type, handler type) to resolver | `register`, `register_with`, `filter`, `find` | stream and projector |
| `v3`, core traits, macros, cluster, facade, examples | none that runs | | |

What is hard in it, and what makes each part correct:

* **registry and lifecycle**: a check and the act it allows happen under
  different locks; entries are removed by id alone; panics skip deregistration.
  Correct means: one live process per id, found under it, whose id becomes free
  when it ends.
* **mailbox**: a process may end by an idle timeout, a failed reply or a panic
  at any length of its mailbox; callers may go away at any time. Correct means:
  what a caller is told is what happened, nobody waits for ever, sequence
  numbers have neither gaps nor repetitions.
* **stream**: readers lag, join and leave while events are published. Correct
  means: nothing lost without a report, nothing repeated or reordered, readers
  end.
* **globals**: unsynchronised memory guarded by the order of two stores.
  Correct means: no race, one instance.
* **journal**: writes are refused or stored without acknowledgement, processes
  end between persisting and answering, entities are projected beside live processes. Correct means: numbers stay unique,
  memory and journal agree, nothing answered is lost.
* **projection and resolvers**: user code registers resolvers in any order, and
  rejects, panics or meets bytes it cannot decode in the middle of a replay.
  Correct means: a result is the whole replay or an error, and no user code runs
  when a resolver is missing.
* **calls between processes**: a handler that awaits another process stops its
  own mailbox and timer. Correct means: what cannot be answered lies behind a
  deadlock of processes that do not bound their awaits, and everyone else is answered.
* **publishers and subscribers**: an event passes a mailbox, the stream, a forwarder and
  another mailbox, any of which may end. Correct means: handled at most once per
  subscription and in order, and brought to an end.

## The modules

| module | stands for | extends or instantiates |
|---|---|---|
| `Lifecycle` | registry, lifecycle, mailbox and context together | `INSTANCE Directory` |
| `Directory` | what the registry promises: an id has one owner at a time | |
| `LifecycleProofs` | theorems about `Lifecycle` | `Lifecycle`, TLAPS |
| `MailboxProofs` | theorems about the calls in `Lifecycle` | `LifecycleProofs` |
| `EventStream` | the stream, its dead-letter reader, subscribers and forwarders | `INSTANCE Topic` |
| `Topic` | what the stream promises: at-most-once delivery in order | |
| `EventStreamProofs` | theorems about `EventStream` | `EventStream`, TLAPS |
| `GlobalCell`, `GlobalCellProofs` | the three `global.rs` | |
| `Payloads` | payloads, the order of a `BTreeSet` of them, and replay | |
| `Journal` | writer and journal of one entity over its lives | `Payloads` |
| `JournalProofs` | theorems about `Journal` | `Journal`, TLAPS |
| `Mapping` | the `Mapper` of nitinol-resolver | |
| `Projection` | one call of `projection_to_latest` | `Mapping`, `Payloads` |
| `ProjectionProofs` | theorems about `Projection` and `Mapping` | `Projection`, TLAPS |
| `CallGraph` | handlers and hooks that use the Receptors of processes | |
| `CallGraphProofs` | theorems about `CallGraph` | `CallGraph`, TLAPS |
| `PubSub` | publishing and subscribing processes with their forwarders | `INSTANCE Lifecycle`, `EventStream`, `Topic` |
| `PubSubProofs` | the composition implements the lifecycle and, end to end, the topic | `PubSub`, TLAPS |
| `MCLifecycle`, `MCEventStream`, `MCProjection`, `MCCallGraph`, `MCPubSub` | small instances | |

Definitions whose comment begins with *Mutant:* are wrong versions of the
definition that follows them. Nothing uses them; put in the place of that
definition each makes the property it is listed with in `PROJECT.json` fail.

### Lifecycle

A step is what happens between two awaits at which another task can observe a
difference. `phase[p]` is the position of one call of `lifecycle::run` and of
the task it spawns:

```
unborn -RunAllowed-> registering -RunInsert-> starting -Start-> running
   |                     |                                         |
   +---- RunRefused -----+---- RunCancelled ---> refused           |
                                       Timeout, Orphaned, a failed reply
                                                                   v
exited <-Exit- leaving <-DeregisterRemove- removing <- deregistering <-Stop- stopping
```

and `crashed` from any phase in which user code runs. `register` and `deregister` are two
steps each, with their locks released in between. `registry` is the map with
the owner in place of its `Receptor`; `held[p]` says whether anyone else has a
`Receptor` of `p`, which is all that `recv()` returning `None` depends on. A
task taken from the mailbox is one step, because what it changes for others
(reply, number) comes after its last await; `HandleCommand`, `ApplyEvent`,
`EntrustCommand` and `ReceiveMessage` are the four `TaskApplier`s, and `Panic`
is any of their handlers panicking, the `unwrap` of `task/receive.rs:29`
included. An applicator that panics may have persisted, published or changed the entity
before it does (`task/event.rs:24-25`): `Panic` takes the event as applied or not, and
`OutcomeMatchesEffect` says which call `ChannelDropped` may be untrue of. `applied` is a history of the events a process applied and of the
number its context showed meanwhile: the number `persist` and `publish` use.

The registry does not stop a second spawn of an id whose first is between the two
locks, so `OneLivePerId` fails under `Spec` (finding below). `SerialSpec` adds `NoOverlap`,
that callers do not overlap the spawns of one id, which is an assumption about them and
translates no code; under it the registry
implements `Directory`, while a second spawn during the whole rest of a
process's life remains possible and is refused.

### EventStream

`log` is the sequence of the events' types, `next[r]` a reader's cursor, and a
reader lags when its cursor is behind the oldest of the last `Cap` events, as
tokio documents of its broadcast channel, which is external. A `Receive` of a
forwarder leaves it in `checking`, where it looks at the status of the process it
`Serves`; a process may have any number of forwarders, one per call of
`subscribe_in_process`, and `late` counts for each. `since`,
`got`, `lost` and `late` are histories. What a resolver does with an event is
left out, except that it may panic. `Publish` is that of an event `as_bytes` encodes;
the panic of `publish` over another one (`eventstream.rs:38`) sends nothing, and is the
`Dies` of a process in `PubSub`.

### GlobalCell

The write of the static is `BeginWrite` and `EndWrite`; in between it is `Torn`.
`Follow` reads it through a reference obtained by `Get`. SeqCst and
release/acquire make every order of the atomics that a thread can observe one
of the interleavings here.

### Journal

One entity. `persist` is called while an event is applied and before the entity
changes, as the examples do (examples/2.persistence-process-inmemory/src/main.rs:69).
An attempt to write is stored, refused, or stored and answered with an error
(`AckLost`); after `Retry` errors the writer goes on as if it had written. A
process may end anywhere and be spawned again from a projection, of everything
or from what any earlier projection returned; and anyone may project at any time, beside a
live process too, and keep the result (`Snapshot`). `created_at` never decreases and may repeat.
`Replayed` is what a projection from the beginning returns; `ReplayOnlyGrows` relates it
before and after every write, in whichever life it happens.

The properties are those of `CarefulSpec`: while a process lives that has stored an event
more than once, because an acknowledgement was lost, nobody keeps what is projected. Under
`Spec` four of the five fail if acknowledgements get lost. Event 1 is stored twice under
number 0; a projection beside the process counts it twice and returns `(<<1, 1>>, 2)`; the
process, whose number is 1, stores event 2 under 1 and answers it. A process spawned from
that snapshot reads from 2 and misses event 2; and its number, being no longer the count
of what is stored, may be one that was used. No text of the repository promises otherwise; who uses snapshots has to
know. `HonestJournalsNeedNoCare` proves that every run is careful where the journal
acknowledges what it stores.

### Mapping and Projection

A resolver is kept as its key and the event type that it decodes; a lookup is
the set of the entries a walk of the `HashMap` may meet first, so that an
ambiguous predicate would show as a set of two. `Projection` is one call from `T::mapping` to its result, one
step per await: the read, which may fail, `patch_load`, and then each payload,
whose bytes may not decode and whose `first` or `apply` may accept, reject or
panic. Only `first` runs under `catch_unwind` (`nitinol-projection/src/resolver.rs:23-26`),
and `apply` only runs on an entity that is there, so that `Unwinds` asks for one.
`Write` is a process that goes on persisting meanwhile; it may use a number
again, as finding 4 lets it. `TypedResolver` turns every
error of a handler into `InProcess`; `FirstFormation` therefore
reaches no caller, and is not among `Errors`.

### CallGraph

Here registering and deregistering are one step with what comes before them, because
`Lifecycle` has them in detail, and the inside of a task or hook is several: `Take`, any
number of `Ask` (`handle`, `apply`) and `Tell` (`entrust`, `send`), `Resume` for every
answer, `Accept` between the two halves of an entrusted command, and `Return`. The start
hook ends with `Started`, the stop hook with `Stopped`; a process in `Hooked` has hooks of
its own, which ask and tell as handlers do, while its mailbox already, or still, accepts
tasks. `wait[p]` is the call whose oneshot `p`'s handler or hook awaits. `MayAsk` says
whose answers the code of a process awaits, and `Bounded` which processes bound those
awaits, by a timeout or a `select!`: `GiveUp` drops the future, the task stays queued and
its reply will fail. Both are properties of the program that uses the library, and decide
whether it may deadlock for good: `Deadlocked` is a set of processes that all await one of
the set, `Hopeless` one of which none gives up. `Miscast` is `Context::find` with a type
other than the registered one, whose `unwrap` panics. `StallIsDeadlock` is the safety half
of `AnsweredUnlessDeadlocked`: of states in which every process is idle or awaits an
answer it says which calls may still be waiting, and it needs no fairness.

### PubSub

The two instances `L` and `S` share the variables whose names they share, and `held` of the
lifecycle is defined as what it stands for: a caller or a forwarder has the
Receptor. A member of `Forwarders` is one call of `subscribe`, by the process it `Serves`,
in any of its hooks or handlers: `WithEventSubscriber<E>::subscribe` exists once for every
event type and may be repeated, and each call hands the whole mapping to another forwarder
(`nitinol-eventstream/src/process/subscriber.rs:20-33`, `eventstream.rs:74-77`). It is
`S!Subscribe` and `L!Find` in one
step. `Publish` comes before the end of the task that applies, as in the
repository's test (`nitinol-eventstream/tests/test_process_pub_sub.rs`), `Forward` is
`S!Receive` with the `entrust` of `resolve`, which the lifecycle may refuse.
Everything else is a step of one of the two, with the other unchanged. `handled` is a
history of the published events whose commands a process applied, for each of its
forwarders, so that `ImplementsTopic` speaks of the far end of the second
mailbox, and of one subscription: who subscribes twice, as for two event types, handles an
event twice, and may be sent a late event by each of its forwarders. A process may poison
itself at any time, before it subscribes too; each of its forwarders then ends with the
first event it gets.
Spawns of one id do not overlap here; where they do (finding 1) the two start
hooks find the second Receptor, and that process is sent every event twice over.

## The runs

| run | instance | result |
|---|---|---|
| `lifecycle_race` | `FairSpec`, 2 processes of one id (one timed), an awaited call and one of any other kind | 281 593 states; invariants and liveness hold |
| `lifecycle_serial` | `SerialSpec`, 3 processes of one id, 1 call | 18 596 states; holds |
| `lifecycle_overlap` | `Spec`, 2 processes | `OneLivePerId` violated |
| `lifecycle_poison` | `FairSpec`, 1 process, 1 call | `PoisonEnds` violated |
| `stream_delivery` | `FairSpec`, channel of 2, 4 events, subscriber, forwarder, dead letter | 193 982 states; invariants, refinement and liveness hold |
| `stream_panic` | channel of 2, 4 events, subscriber, dead letter | `PublishFindsReceiver` violated |
| `global_cell` | 3 setters, 3 getters | 1 160 states; holds |
| `journal_reliable` | `CarefulSpec`, 3 events, 2 respawns, limit 3, 2 refusals, lost acknowledgements, any snapshots | 124 863 states; holds |
| `journal_gives_up` | the same with 3 refusals, no lost acknowledgement | `SequenceNeverReused` violated |
| `projection` | 2 event types, 2 registrations, 3 payloads, from nothing or from one event | 3.2 million states; holds |
| `call_graph` | `FairSpec`, 3 processes (one timed and with hooks, another bounding its awaits), 3 calls, two cycles of two, a self-loop | 242 251 states; holds |
| `pub_sub` | `FairSpec`, a process that publishes and subscribes twice, channel of 1, 2 events | 121 349 states; refinements and liveness hold |

Why the bounds are enough to be interesting: one id is where processes compete,
and different ids share nothing but the map; two processes make every race
between a spawn and another spawn or an end, three let a successor be spawned
while its predecessor's removal is pending; two calls queue behind each other at
one process, or go to both. A channel of two with four events lets a reader lag
twice, by one and by two, and the dead-letter reader end with events still to
come; the code's 256 only makes the same rarer. Three events are one before, one at and
one after a gap. In `journal_reliable` one refusal less than the limit is
the boundary at which the writer still succeeds. Two registrations collide under
one key, or under two keys of one event type; three payloads of two types let the first, a
middle and the last one fail, and two of them share a number. In `call_graph` two
processes that bound nothing, one of which may also ask itself, may deadlock for good; the
third makes a cycle with one of them that its bounded await ends. Three
calls are the least with which a deadlock has a caller left to
queue behind it. In `pub_sub` a channel of one makes two events lag, and two events
are enough to be swapped or repeated: an `apply` makes the first, what either forwarder
entrusts of it the second, and the other forwarder meets both. That publisher and
subscribers are one process is for size: with two processes, a publisher of two entrusted
commands and a timed subscriber with one forwarder, the four properties hold as well, in
254 845 states, which takes too long to be among the runs.

`CHECK_DEADLOCK FALSE`: every instance has a bounded number of calls, events,
payloads or spawns, after which the modelled system rests; in `call_graph`
processes may also deadlock, which its properties are about.

**Fairness.** `Lifecycle!FairSpec` has weak fairness of each process's own steps
and of its timer while the mailbox is empty: tokio polls every task that is
ready, the entity's handlers are taken to return, and a timer that nothing
restarts fires. Callers are not fair: nobody has to send, cancel or drop
anything. `EventStream!FairSpec` has weak fairness of each reader's next step.
`CallGraph!FairSpec` has weak fairness of a process's takes, resumptions and
returns, the ends of its hooks included, and of the end of an await that is bounded; and
none of what a handler decides to call, of panics or of idle timers.
`PubSub!FairSpec` has weak fairness of the tasks of processes that subscribe and of
each forwarder; other publishers and callers may stop at any time.

## Findings

1. **Two processes of one id** (`lifecycle_overlap`): `register` checks under a
   read lock, releases it, and inserts under a write lock. Two overlapping
   spawns both succeed, where the error type says *Already registered*.
2. **Poison does not end a process** (`lifecycle_poison`): the loops that run
   never look at the status; the check is in commented-out code
   (`lifecycle.rs:78-81`).
3. **The dead-letter task dies of a lag** (`stream_panic`): its loop ends on any
   error, and `publish` then panics when nobody is subscribed.
4. **A write given up leads to a reused number** (`journal_gives_up`): the writer
   swallows the error, and the projector counts events instead of reading their
   numbers, so that the next life of the entity writes under a number that is taken.

## What is proved

TLAPS checks these for all values of the constants, from the assumptions named
in the modules (`ProcsAssumption`, `StreamAssumption`, `CellAssumption`,
`JournalAssumption`, `ProjectionAssumption`, `CallGraphAssumption`,
`PubSubAssumption`), which
say no more than that the constants have the types the code gives them. Those about
`Journal` also assume `Patient`, that the journal refuses fewer writes in a row than the
writer retries: without it they are false, as finding 4 shows; and they are about
`CarefulSpec`, for the reason given under Journal.

| theorem | says | argument |
|---|---|---|
| `LifecycleProofs!TypeCorrect` | `Spec => []TypeOK` | inductive as it stands; lemmas for the moves several actions share |
| `NoGhosts` | `Spec => []NoGhostEntry` | inductive with `TypeOK`. `DeregisterRemove` empties the entry whosever it is, so that no process gets from `removing` to `leaving` with an entry; and `DeregisterMiss` leaves only if the id is free |
| `SequencesAreConsecutive` | `Spec => []ConsecutiveSequence` | `SequenceInv` extends the property to the phases before `starting`, where the number is still the start sequence; in `stopping` it may lag by one (a failed reply) |
| `OneAtATime`, `Findable` | `SerialSpec => []OneLivePerId`, `[]LiveIsFindable` | `SerialInv`: a process between check and insert has found its id free, and it still is, because nobody else can insert; a process that is present owns its entry, so that what it removes is its own. Both need each other: removing by id alone is right only as long as one process per id exists |
| `RegistryIsADirectory` | `SerialSpec => ImplementsDirectory` | step simulation under `SerialInv`: `RunInsert` is `Claim`, `DeregisterRemove` is `Release`, all else stutters |
| `MailboxProofs!NobodyStranded`, `CallersAreTold` | `Spec => []NoStrandedCaller`, `[]OutcomeMatchesEffect` | `MailInv` says of every call where its task is: in the mailbox of the process it went to, once, while it is unsettled or its caller is gone, and nowhere after its event was applied; and that a call that was dropped although its event was applied is the last event of a process that panicked. The two properties say nothing of calls that neither wait nor have an effect, and so do not survive a step by themselves |
| `EventStreamProofs!AllAccountedFor`, `DeliveredInOrder` | `Spec => []Accounting`, `[]InOrder` | `DeliveryInv`: each reader's `got` and `lost` split the mapped events between `since` and `next`, and the log only grows |
| `OneLateEvent` | `Spec => []AtMostOneLate`, for each forwarder | `LateInv`: a late event leaves its forwarder in `checking` of an inactive process, from where it only ends |
| `StreamIsATopic` | `Spec => ImplementsTopic` | step simulation; the topic's position of a reader is never past its cursor |
| `GlobalCellProofs!Races`, `SingleInstance`, `NoSpuriousPanic` | the three properties of `global_cell` | `CellInv`: one winner of the exchange, whose progress decides the three variables |
| `JournalProofs!NumbersStandForEvents`, `MemoryMirrorsJournal`, `SnapshotsResume`, `AnswersLast` | `Patient => (CarefulSpec => [](…))` for the four invariants of `journal_reliable` | `JournalInv`. `Numbered`: numbers in the store are below the process's, or are its own while it writes, and as many as that at least, so that a replay, which counts, ends at an unused number. `Taken`: a snapshot is the replay of the payloads below its number, which no process goes on to write below; a snapshot of a live process is so only if its number is the process's, and that is where careful runs are needed. `Mirrored`: without lost acknowledgements the entity is that of its own number. `Kept` and `Has`: answered events are in store and entity, in order. The replay of a set is split at a number (`ReplayInParts`), and its order is the payloads' ranks, shown to be a bijection by counting, without induction |
| `ProjectionProofs!LookupsFindTheLast`, `ProjectionIsReplay`, `NothingRunsUnresolved`, `UnreachableOnlyFromNothing` | the three properties of `projection`, and that `unreachable!` needs an empty journal and no start | `MapperInv`: an entry is in the map iff it is the last of its key in the history. `CallInv`: the entity is the start's events and then those applied, `parts` the rest of the ordered walk, and it is there iff the start was or something was applied |
| `CallGraphProofs!GraphTyped`, `EntrustAtomic`, `DeadlocksLast` | `TypeOK`, `EntrustIsAtomic`, `DeadlockIsForGood` | `GraphInv`: a process executes and queues what was sent to it, and nobody else awaits what it awaits. With it no process of a stuck set that bounds nothing can take a step, and no step of another, its giving up included, settles a call the set awaits |
| `JournalProofs!HonestJournalsNeedNoCare` | `~AckLost => (Spec => CarefulSpec)` | a process doubts only after an acknowledgement was lost |
| `JournalProofs!PastStays` | `Patient => (CarefulSpec => ReplayOnlyGrows)` | with `JournalInv`, `Timely`: nothing stored is from the future. So what is stored comes last in the order of the set (`StoresLast`: by `Numbered` no number in the store is above the process's own), the ranks of the payloads before it stay (`WalkExtends`), and the replay only grows at its end |
| `CallGraphProofs!StallsAreDeadlocks` | `Spec => []StallIsDeadlock` | `Attended`: whoever is waited for executes the call or has it queued, and who has ended has neither. In a stall the waiting processes are therefore a stuck set, and the one a caller waits for is in it |
| `CallGraphProofs!AcyclicGraphsAnswer` | if every nonempty set of processes has a member that may await none of the set, `Spec => []` nothing is deadlocked, and in a stall no call is waiting | `GraphInv` (who is awaited may be asked) and `StallsAreDeadlocks`. The assumption says that the awaits the program permits have neither cycles nor endless chains; `call_graph` has cycles on purpose, and does not meet it |
| `PubSubProofs!CompositionIsLifecycle` | `Spec => ImplementsLifecycle` | step simulation. `PubInv`: whoever awaits is a caller with a Receptor. `StreamInv`: a forwarder that reads has a target. A forwarder that starts is a `Find`, one that ends a `Drop` or, if another holds the same Receptor, a stutter |
| `ProcessesStaySound` | the safety properties of `Lifecycle` and of its `SerialSpec`, for the processes of `PubSub` | the theorems of `LifecycleProofs` and `MailboxProofs`, for the instance `CompositionIsLifecycle` gives |
| `DeliveryStaysSound` | the safety properties of `EventStream`, for the stream of `PubSub` | the theorems of `EventStreamProofs`, for the instance the lemma `CompositionIsStream` gives |
| `HandledInOrder` | `Spec => ImplementsTopic` | step simulation under `ForwardInv`. `Reading`: cursors stay within the log, and a forwarder that reads holds the Receptor of the process that subscribed. `EntrustsPassed`: the entrust of an event was used only once its forwarder's cursor had passed it, for an event mapped and after `since`. `Queued`: what a mailbox holds of one forwarder's entrusts, after what was handled of them, is increasing, whatever other forwarders entrust in between. That the target is the subscriber itself, and not whoever else is registered under its id, is `LiveIsFindable`, by `ProcessesStaySound` |

The instances are proved about through second `INSTANCE`s of the proof modules with
the same substitutions; that their definitions say the same is shown by expanding both.

Only model-checked: the liveness properties (`CallsAnswered`, `LeaversReleaseTheirId`,
`TimedProcessesEnd`, `OrphansEnd`, `CatchesUp`, `ReadersEnd`, `AnsweredUnlessDeadlocked`,
`EventsSettle`, `PoisonedForwarderEnds`). They need `ENABLED` and temporal reasoning
under fairness, which the prover's backends do not have. Every safety property, action
property and refinement of a passing run is a theorem.

## What the properties leave out

* An entity without `first` is reported as `ApplyEvent` and not as the
  `FirstFormation` that `errors.rs:11` of nitinol-projection has for it.
* An id stays registered after a panic; `NoGhostEntry` says so, and nothing in the
  repository says it should not.
* A subscribed process that ends unpoisoned leaves its forwarder running, and
  refused, for good.
* `projection_to_latest` panics for an entity that has no events and no start: the
  `unreachable!` of `projector.rs:59` is reached, two steps into a call, by every program
  that projects a new entity before it spawns one. No run says that it is not, because the
  code plainly contradicts its assertion there; the theorem `UnreachableOnlyFromNothing`
  says that nothing else leads to it.
* A snapshot taken beside a live process while acknowledgements get lost may make whoever
  starts from it miss answered events; `CarefulSpec` leaves such callers out (see Journal).
* Through two subscriptions of one process an event is handled twice; the properties of
  `PubSub` are per subscription.
* A caller that is told `ChannelDropped` cannot know whether its apply had an effect before
  the process panicked.

## Not modelled, and why

* `ReadProtocol::read` and `read_to` by number: delegations to the `Reader`
  that no code of the repository calls.
* `i64` overflow of sequence numbers: numbers are integers. A process would have
  to apply 2^63 events.
* `v3` (a private module nothing calls, whose bodies are `todo!()` or empty), the
  cluster placeholder, derive macros, core traits and identifiers, the facade, examples,
  formatting and logging: no state and no interleaving to check.
* Two processes that write one entity's journal at once, which finding 1 allows:
  `Journal` has one process at a time.
* What an event does to an entity: an entity is the list of its events, which is
  the most that replay can get right or wrong.

## What could come next

1. The safety halves of the liveness properties, as `StallIsDeadlock` is of
   `AnsweredUnlessDeadlocked`: that a state in which no fair action can be taken
   has nothing left to do, for `Lifecycle`, `EventStream` and `PubSub`.
2. Overlapping spawns in `PubSub`, with the doubled delivery they cause as a
   property of its own.
3. `Journal` with two writers of one entity, as finding 1 allows.
