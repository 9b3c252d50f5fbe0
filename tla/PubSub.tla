------------------------------- MODULE PubSub -------------------------------
(***************************************************************************)
(* Processes that publish what they apply and processes that subscribe:    *)
(* nitinol-process and nitinol-eventstream put together, as the latter's   *)
(* test_process_pub_sub does.  A publisher's EventApplicator ends with     *)
(* publish; a subscriber's hooks and handlers call subscribe, once for     *)
(* every event type or as often as they like.  Each call starts another    *)
(* forwarder, which decodes events, of all the types the entity has        *)
(* mapped, turns them into commands and entrusts them to it.  The steps    *)
(* are those of Lifecycle and EventStream, joined where one calls the      *)
(* other; the stream is the global one, which is never dropped.            *)
(***************************************************************************)
EXTENDS Integers, Sequences, Functions

CONSTANTS
  Ids, Procs, IdOf, StartSeq, Timed, Calls, OpsOf, NoProc,   \* as in Lifecycle
  DeadLetter, Types, Mapped, Cap, MaxEvents,                 \* as in EventStream
  Publishers,   \* the processes that publish the events they apply
  Forwarders,   \* the calls of subscribe, each of which starts a forwarder
  Serves,       \* the process that makes each of them
  TypeOf        \* the type of the events that a publisher applies

\* The entrust with which the forwarder of r hands on the n-th event.
Forwarded == Forwarders \X (1 .. MaxEvents)

ASSUME PubSubAssumption ==
  /\ Publishers \subseteq Procs /\ NoProc \notin Procs
  /\ DeadLetter \notin Forwarders \cup (Procs \X Forwarders)
  /\ Serves \in [Forwarders -> Procs]
  /\ IdOf \in [Procs -> Ids] /\ StartSeq \in [Procs -> Int] /\ Timed \subseteq Procs
  /\ OpsOf \in [Calls -> SUBSET {"handle", "apply", "entrust", "send"}]
  /\ Mapped \in [Forwarders \cup {DeadLetter} -> SUBSET Types]
  /\ Cap \in Nat \ {0} /\ MaxEvents \in Nat
  /\ TypeOf \in [Publishers -> Types] /\ Forwarded \subseteq Calls
  /\ \A k \in Forwarded : OpsOf[k] = {"entrust"}

VARIABLES
  phase, registry, mailbox, seq, poisoned, call, applied,    \* as in Lifecycle
  log, open, reader, next, panicked, since, got, lost, late, \* as in EventStream
  client,     \* whether a caller holds a Receptor of a process
  target,     \* the process whose Receptor a forwarder holds
  announced,  \* whether the apply that a process is in the middle of has published
  handled     \* history: of the events that each forwarder has entrusted to a process,
              \* the numbers of those that the process applied

lvars == <<phase, registry, mailbox, seq, poisoned, call, applied>>
svars == <<log, open, reader, next, panicked, since, got, lost, late>>
vars == <<lvars, svars, client, target, announced, handled>>

Readers == Forwarders \cup {DeadLetter}

\* Whether the forwarder r holds a Receptor of p.
Holds(r, p) == target[r] = p /\ reader[r] \in {"listening", "checking"}

L == INSTANCE Lifecycle WITH
       held <- [p \in Procs |-> client[p] \/ \E r \in Forwarders : Holds(r, p)]

S == INSTANCE EventStream WITH
       Subscribers <- {}, Processes <- Procs,
       active <- [p \in Procs |-> ~poisoned[p]]

Init ==
  /\ client = [p \in Procs |-> FALSE] /\ target = [r \in Forwarders |-> NoProc]
  /\ announced = [p \in Procs |-> FALSE] /\ handled = [pr \in Procs \X Forwarders |-> <<>>]
  /\ phase = [p \in Procs |-> "unborn"] /\ poisoned = [p \in Procs |-> FALSE]
  /\ S!Init /\ L!Init

----------------------------------------------------------------------------
(* The processes.                                                          *)

\* A step of the lifecycle that neither the stream nor a Receptor has a part in.
Alone == UNCHANGED <<svars, client, target, announced, handled>>

\* run returns a Receptor when it has registered one.
Spawn(p) ==
  /\ client' = [client EXCEPT ![p] = TRUE] \/ UNCHANGED client
  /\ UNCHANGED <<svars, target, announced, handled>> /\ L!Run(p)

\* subscribe, of a hook or a handler: as_ref_self looks up whose Receptor is registered
\* under the process's own id.  If there is none it panics, which Dies includes.
Subscribe(r) ==
  /\ L!InUserCode(Serves[r]) /\ registry[IdOf[Serves[r]]] # NoProc
  /\ target' = [target EXCEPT ![r] = registry[IdOf[Serves[r]]]]
  /\ UNCHANGED <<poisoned, client, announced, handled>> /\ S!Subscribe(r)
  /\ L!Find(registry[IdOf[Serves[r]]])

\* The history of what p applies: its task is the n-th event's, from the forwarder r.
Handles(p) ==
  handled' = IF applied' # applied /\ Head(mailbox[p]) \in Forwarded
             THEN LET r == Head(mailbox[p])[1]
                      n == Head(mailbox[p])[2]
                  IN  [handled EXCEPT ![<<p, r>>] = Append(@, n)]
             ELSE handled

\* publish, the last thing an apply does; with no receiver it panics.
Publish(p) ==
  /\ p \in Publishers /\ ~announced[p]
  /\ phase[p] = "running" /\ mailbox[p] # <<>>
  /\ call[Head(mailbox[p])].op \in {"apply", "entrust"}
  /\ UNCHANGED <<poisoned, client, target>> /\ S!Publish(TypeOf[p])
  /\ IF S!HasReceiver
     THEN announced' = [announced EXCEPT ![p] = TRUE] /\ UNCHANGED lvars
     ELSE UNCHANGED announced /\ L!Panic(p) /\ applied' # applied
  /\ Handles(p)

\* A task ends; a publisher has published the event it has applied, if any.
Task(p) ==
  /\ announced' = [announced EXCEPT ![p] = FALSE]
  /\ UNCHANGED <<svars, client, target>> /\ L!Task(p) /\ Handles(p)
  /\ p \in Publishers => (announced[p] <=> applied' # applied)

\* A hook or handler panics; an apply does before or after it has published.
Dies(p) ==
  /\ announced' = [announced EXCEPT ![p] = FALSE]
  /\ UNCHANGED <<svars, client, target>> /\ L!Panic(p) /\ Handles(p)
  /\ announced[p] => applied' # applied

Start(p) == Alone /\ L!Start(p)

\* The rest of the lifecycle; a timer is not polled in the middle of a task.
Leave(p) ==
  /\ Alone
  /\ \/ ~announced[p] /\ (L!Timeout(p) \/ L!Orphaned(p))
     \/ L!Stop(p) \/ L!DeregisterMiss(p) \/ L!DeregisterHit(p) \/ L!DeregisterRemove(p) \/ L!Exit(p)

\* Only the Status of a process that has a forwarder is ever looked at.
Poison(p) == (\E r \in Forwarders : Serves[r] = p) /\ Alone /\ L!Poison(p)

----------------------------------------------------------------------------
(* The forwarders.                                                         *)

\* Mutant: the command is queued whether or not its receiver is still there.
ForwardUnrefused(r) ==
  /\ UNCHANGED <<poisoned, client, target, announced, handled, phase, registry, seq, applied>>
  /\ S!Receive(r)
  /\ mailbox' = [mailbox EXCEPT ![target[r]] = Append(@, <<r, next'[r]>>)]
  /\ call' = [call EXCEPT ![<<r, next'[r]>>] =
                [status |-> "sent", op |-> "entrust", to |-> target[r]]]

\* resolve: what is decoded and converted is entrusted, an error of either is
\* logged, and so is the ChannelDropped of a process that is no more.
Forward(r) ==
  /\ UNCHANGED <<poisoned, client, target, announced, handled>> /\ S!Receive(r)
  /\ \/ got' # got /\ L!Send(<<r, next'[r]>>, "entrust", target[r])
     \/ UNCHANGED lvars

Lags(r) == UNCHANGED <<lvars, client, target, announced, handled>> /\ S!Lagged(r)

Check(r) == UNCHANGED <<lvars, client, target, announced, handled>> /\ S!Check(r)

ForwarderDies(r) == UNCHANGED <<lvars, client, target, announced, handled>> /\ S!Panic(r)

\* The dead-letter task has no mapping.
DeadLetterStep ==
  UNCHANGED <<lvars, client, target, announced, handled>> /\ (S!Receive(DeadLetter) \/ S!Lagged(DeadLetter))

----------------------------------------------------------------------------
(* The callers.                                                            *)

ClientCalls(k, op, p) == client[p] /\ Alone /\ L!Send(k, op, p)

ClientCancels(k) == Alone /\ L!Cancel(k)

\* A caller drops the Receptor that run has returned to it.
ClientDrops(p) ==
  /\ client[p]
  /\ \A k \in Calls : ~ (call[k].status = "waiting" /\ call[k].to = p)
  /\ client' = [client EXCEPT ![p] = FALSE]
  /\ UNCHANGED <<lvars, svars, target, announced, handled>>

----------------------------------------------------------------------------
ProcessStep(p) ==
  \/ Start(p) \/ Dies(p) \/ Publish(p) \/ Task(p) \/ Leave(p)
  \/ \E r \in Forwarders : Serves[r] = p /\ Subscribe(r)

ForwarderStep(r) == Check(r) \/ Lags(r) \/ ForwarderDies(r) \/ Forward(r)

Next ==
  /\ \/ \E p \in Procs : Spawn(p) \/ ProcessStep(p) \/ Poison(p) \/ ClientDrops(p)
     \/ \E r \in Forwarders : ForwarderStep(r)
     \/ DeadLetterStep
     \/ \E k \in Calls \ Forwarded :
          ClientCancels(k) \/ \E op \in L!Ops, p \in Procs : ClientCalls(k, op, p)
  /\ L!NoOverlap'

Spec == Init /\ [][Next]_vars

\* tokio runs the tasks of subscribers and of their forwarders when they are ready;
\* hooks, handlers and resolvers return.
FairSpec ==
  /\ Spec
  /\ \A p \in Range(Serves) : WF_vars(ProcessStep(p))
  /\ \A r \in Forwarders : WF_vars(ForwarderStep(r))

----------------------------------------------------------------------------
\* The Receptors that forwarders hold, and the commands they entrust, are Finds,
\* Drops and Sends of the lifecycle: what holds of its serial runs holds here.
ImplementsLifecycle == L!SerialSpec

T == INSTANCE Topic WITH
       Readers <- Procs \X Forwarders,
       Mapped <- [pr \in Procs \X Forwarders |-> Mapped[pr[2]]],
       joined <- [pr \in Procs \X Forwarders |-> Serves[pr[2]] = pr[1] /\ reader[pr[2]] # "off"],
       since <- [pr \in Procs \X Forwarders |-> IF Serves[pr[2]] = pr[1] THEN since[pr[2]] ELSE 0],
       got <- handled

\* From the apply of one process to the apply of another: through each of its
\* subscriptions a subscriber's entity sees events it maps, that were published after
\* it subscribed, in their order and none twice, and nobody else sees any, through a
\* channel that lags, two mailboxes, poisons, panics and respawns.  Who subscribes
\* twice may see an event twice.
ImplementsTopic == T!Spec

\* Once the publishers pause, what was published since a subscription has come through
\* the stream, the forwarder and the mailbox of the subscriber to an end, unless the
\* forwarder's task ends.
EventsSettle ==
  \A r \in Forwarders :
    reader[r] # "off" ~>
      \/ reader[r] = "ended"
      \/ next[r] = S!Sent /\ \A n \in 1 .. S!Sent : <<r, n>> \notin Range(mailbox[target[r]])

\* Each forwarder of a process that has poisoned itself ends, and lets go of its
\* Receptor, with the next event it gets; one that lags past it needs another.
PoisonedForwarderEnds ==
  \A r \in Forwarders :
    poisoned[Serves[r]] /\ reader[r] = "listening" /\ next[r] < S!Sent ~> reader[r] = "ended"
=============================================================================
