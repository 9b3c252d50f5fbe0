----------------------------- MODULE EventStream -----------------------------
(***************************************************************************)
(* nitinol-eventstream: a tokio broadcast channel of bounded length, its   *)
(* publishers and the tasks that read it.  A reader is the dead-letter     *)
(* task spawned with the stream, a task spawned by subscribe, or one       *)
(* spawned by subscribe_in_process, which forwards events to a process as  *)
(* commands until that process's Status says it is poisoned.  A process    *)
(* may subscribe any number of times, for one event type or several.       *)
(*                                                                         *)
(* Events are numbered in the order of their sends; of an event only its   *)
(* type is kept, which a reader's mapping has a resolver for or has not.   *)
(***************************************************************************)
EXTENDS Integers, Sequences, Functions

CONSTANTS
  Subscribers,  \* the calls of subscribe
  Forwarders,   \* the calls of subscribe_in_process
  Processes,    \* the processes that may have called it
  Serves,       \* the process each of those calls was made for
  DeadLetter,   \* the reader spawned by EventStream::new
  Types,        \* event types (EVENT_TYPE)
  Mapped,       \* the event types each reader has a resolver for
  Cap,          \* the length of the channel
  MaxEvents     \* bound: how many events are published

Readers == Subscribers \cup Forwarders \cup {DeadLetter}

ASSUME StreamAssumption ==
  /\ Subscribers \cap Forwarders = {}
  /\ DeadLetter \notin Subscribers \cup Forwarders
  /\ Serves \in [Forwarders -> Processes]
  /\ Mapped \in [Readers -> SUBSET Types] /\ Cap \in Nat \ {0}
  /\ MaxEvents \in Nat

VARIABLES
  log,        \* the types of the events sent, in order
  open,       \* whether a clone of the EventStream, the sending half, exists
  reader,     \* what each reader is doing
  next,       \* how many events of log each reader has passed (its cursor)
  active,     \* the Status of each process
  panicked,   \* whether a publish has panicked
  since,      \* history: the reader's cursor when it subscribed
  got,        \* history: the numbers of the events resolved by each reader
  lost,       \* history: the numbers of those it was told it missed
  late        \* history: those of got resolved when the process was poisoned

vars == <<log, open, reader, next, active, panicked, since, got, lost, late>>

States == {"off", "listening", "checking", "ended"}

TypeOK ==
  /\ log \in Seq(Types) /\ open \in BOOLEAN /\ reader \in [Readers -> States]
  /\ next \in [Readers -> Nat] /\ active \in [Processes -> BOOLEAN]
  /\ panicked \in BOOLEAN /\ since \in [Readers -> Nat]
  /\ got \in [Readers -> Seq(Nat)] /\ lost \in [Readers -> SUBSET Nat]
  /\ late \in [Readers -> Nat]

Init ==
  /\ log = <<>> /\ open = TRUE
  /\ reader = [r \in Readers |-> IF r = DeadLetter THEN "listening" ELSE "off"]
  /\ next = [r \in Readers |-> 0] /\ active = [p \in Processes |-> TRUE]
  /\ panicked = FALSE /\ since = [r \in Readers |-> 0]
  /\ got = [r \in Readers |-> <<>>] /\ lost = [r \in Readers |-> {}]
  /\ late = [r \in Readers |-> 0]

----------------------------------------------------------------------------
(* The broadcast channel.                                                  *)

\* A receiver exists as long as the task that owns it.
HasReceiver == \E r \in Readers : reader[r] \in {"listening", "checking"}

Sent == Len(log)

\* The oldest event the channel still holds has number Oldest + 1.
Oldest == IF Sent > Cap THEN Sent - Cap ELSE 0

Lags(r) == next[r] < Oldest

Goto(r, state) == reader' = [reader EXCEPT ![r] = state]

----------------------------------------------------------------------------
\* EventStream::publish unwraps the result of the send, which is an error when
\* the channel has no receiver.  The events published are those that as_bytes
\* encodes: of another one nothing is sent, and its publisher panics.
Publish(type) ==
  /\ open /\ Sent < MaxEvents
  /\ IF HasReceiver
     THEN log' = Append(log, type) /\ UNCHANGED panicked
     ELSE panicked' = TRUE /\ UNCHANGED log
  /\ UNCHANGED <<open, reader, next, active, since, got, lost, late>>

\* Mutant: the receiver is created from the start of what the channel holds.
SubscribeReplay(r) ==
  /\ open /\ reader[r] = "off" /\ Goto(r, "listening")
  /\ since' = [since EXCEPT ![r] = Sent]
  /\ UNCHANGED <<log, open, next, active, panicked, got, lost, late>>

\* subscribe and subscribe_in_process: the receiver starts at the end.
Subscribe(r) ==
  /\ open /\ reader[r] = "off" /\ Goto(r, "listening")
  /\ next' = [next EXCEPT ![r] = Sent]
  /\ since' = [since EXCEPT ![r] = Sent]
  /\ UNCHANGED <<log, open, active, panicked, got, lost, late>>

\* Mutant: every event is resolved, whatever the mapping says.
ResolveUnmapped(r, n) == got' = [got EXCEPT ![r] = Append(@, n)] /\ UNCHANGED late

\* The event that follows r's cursor is resolved, if r's mapping finds a
\* resolver for its type; its failure is logged.
Resolve(r, n) ==
  /\ got' = IF log[n] \in Mapped[r] THEN [got EXCEPT ![r] = Append(@, n)] ELSE got
  /\ late' = IF log[n] \in Mapped[r] /\ r \in Forwarders /\ ~active[Serves[r]]
             THEN [late EXCEPT ![r] = @ + 1] ELSE late

\* Mutant: the forwarder goes on without a look at the Status.
ReceiveUnchecked(r) ==
  /\ reader[r] = "listening" /\ next[r] < Sent /\ ~Lags(r)
  /\ next' = [next EXCEPT ![r] = @ + 1]
  /\ Resolve(r, next[r] + 1)
  /\ UNCHANGED <<log, open, reader, active, panicked, since, lost>>

\* recv() returns Ok.  A forwarder then looks at its process's Status.
Receive(r) ==
  /\ reader[r] = "listening" /\ next[r] < Sent /\ ~Lags(r)
  /\ next' = [next EXCEPT ![r] = @ + 1]
  /\ Resolve(r, next[r] + 1)
  /\ IF r \in Forwarders THEN Goto(r, "checking") ELSE UNCHANGED reader
  /\ UNCHANGED <<log, open, active, panicked, since, lost>>

\* Mutant: the cursor is put one event behind where it belongs.
LaggedShort(r) ==
  /\ reader[r] = "listening" /\ Lags(r)
  /\ next' = [next EXCEPT ![r] = Oldest - 1]
  /\ lost' = [lost EXCEPT ![r] = @ \cup (next[r] + 1 .. Oldest)]
  /\ IF r = DeadLetter THEN Goto(r, "ended") ELSE UNCHANGED reader
  /\ UNCHANGED <<log, open, active, panicked, since, got, late>>

\* Mutant: after a lag the reader starts over at the end.
LaggedToEnd(r) ==
  /\ reader[r] = "listening" /\ Lags(r)
  /\ next' = [next EXCEPT ![r] = Sent]
  /\ lost' = [lost EXCEPT ![r] = @ \cup (next[r] + 1 .. Sent)]
  /\ IF r = DeadLetter THEN Goto(r, "ended") ELSE UNCHANGED reader
  /\ UNCHANGED <<log, open, active, panicked, since, got, late>>

\* recv() returns Lagged, with the cursor moved to the oldest event there is.
\* The subscribers log it and go on; the dead-letter loop ends on any error.
Lagged(r) ==
  /\ reader[r] = "listening" /\ Lags(r)
  /\ next' = [next EXCEPT ![r] = Oldest]
  /\ lost' = [lost EXCEPT ![r] = @ \cup (next[r] + 1 .. Oldest)]
  /\ IF r = DeadLetter THEN Goto(r, "ended") ELSE UNCHANGED reader
  /\ UNCHANGED <<log, open, active, panicked, since, got, late>>

\* Mutant: Closed is handled like Lagged.
ClosedIgnored(r) ==
  /\ reader[r] = "listening" /\ next[r] = Sent /\ ~open
  /\ UNCHANGED vars

\* recv() returns Closed.
Closed(r) ==
  /\ reader[r] = "listening" /\ next[r] = Sent /\ ~open /\ Goto(r, "ended")
  /\ UNCHANGED <<log, open, next, active, panicked, since, got, lost, late>>

\* The forwarder's look at the Status, after each event it has received.
Check(r) ==
  /\ reader[r] = "checking"
  /\ Goto(r, IF active[Serves[r]] THEN "listening" ELSE "ended")
  /\ UNCHANGED <<log, open, next, active, panicked, since, got, lost, late>>

\* User code called by a resolver panics, and the reader's task ends.
Panic(r) ==
  /\ r # DeadLetter /\ reader[r] = "listening" /\ next[r] < Sent /\ ~Lags(r)
  /\ log[next[r] + 1] \in Mapped[r] /\ Goto(r, "ended")
  /\ UNCHANGED <<log, open, next, active, panicked, since, got, lost, late>>

\* A process poisons itself.
Poison(p) ==
  /\ active[p]
  /\ active' = [active EXCEPT ![p] = FALSE]
  /\ UNCHANGED <<log, open, reader, next, panicked, since, got, lost, late>>

\* The last clone of an EventStream that was not installed globally is dropped.
Close ==
  /\ open
  /\ open' = FALSE
  /\ UNCHANGED <<log, reader, next, active, panicked, since, got, lost, late>>

----------------------------------------------------------------------------
ReaderStep(r) == Receive(r) \/ Lagged(r) \/ Closed(r) \/ Check(r) \/ Panic(r)

Next ==
  \/ \E type \in Types : Publish(type)
  \/ \E r \in Readers : ReaderStep(r)
  \/ \E r \in Readers \ {DeadLetter} : Subscribe(r)
  \/ \E p \in Processes : Poison(p)
  \/ Close

Spec == Init /\ [][Next]_vars

\* tokio runs the reader tasks, and the resolvers return.
FairSpec == Spec /\ \A r \in Readers : WF_vars(ReaderStep(r))

----------------------------------------------------------------------------
(* Properties of every run.                                                *)

\* Every event with a resolver that was sent while a reader subscribed and that
\* its cursor has passed was either resolved or reported as lost; and a reader
\* is told it lost an event only once Cap newer ones have been sent.
Accounting ==
  \A r \in Readers :
    /\ \A n \in since[r] + 1 .. next[r] :
         log[n] \in Mapped[r] => (n \in Range(got[r]) <=> n \notin lost[r])
    /\ \A n \in lost[r] : n <= Sent - Cap

\* A reader resolves events in the order of their sends, none of them twice and
\* none from before it subscribed.
InOrder ==
  \A r \in Readers : \A i \in DOMAIN got[r] :
    /\ since[r] < got[r][i] /\ got[r][i] <= next[r]
    /\ \A j \in DOMAIN got[r] : i < j => got[r][i] < got[r][j]

\* A process that has poisoned itself is sent at most one event more by each of its
\* forwarders: they look at the Status after an event, not before, and not at a lag.
AtMostOneLate == \A r \in Forwarders : late[r] <= 1

\* The send that publish unwraps succeeds: the dead-letter task is meant to be
\* the receiver that is always there.
PublishFindsReceiver == ~panicked

----------------------------------------------------------------------------
(* Properties of the fair runs.                                            *)

\* A reader that is behind gets to the end once the publishers pause, by resolving
\* events or by lagging behind them, unless its task ends.
CatchesUp ==
  \A r \in Readers :
    reader[r] = "listening" ~> next[r] = Sent \/ reader[r] = "ended"

\* When the stream is gone its readers end, having drained the channel.
ReadersEnd == \A r \in Readers : ~open /\ reader[r] # "off" ~> reader[r] = "ended"

----------------------------------------------------------------------------
T == INSTANCE Topic WITH joined <- [r \in Readers |-> reader[r] # "off"]

\* The stream is a topic: what its ring, cursors and lags do to a reader is to
\* leave out events, never to repeat, reorder or invent them.
ImplementsTopic == T!Spec
=============================================================================
