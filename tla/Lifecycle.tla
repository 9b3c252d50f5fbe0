------------------------------ MODULE Lifecycle ------------------------------
(***************************************************************************)
(* nitinol-process: a process is one call of lifecycle::run.  The call     *)
(* registers a Receptor (the sending half of a mailbox) under the entity's *)
(* id in the shared ProcessRegistry and spawns a task that runs the        *)
(* entity's start hook, takes tasks from the mailbox one at a time, runs   *)
(* the stop hook and deregisters the id.  Callers hold Receptors and use   *)
(* them to have commands handled and events applied.                       *)
(*                                                                         *)
(* A step is what happens between two awaits at which another task can     *)
(* observe a difference.  A task of the mailbox is one step: its effects   *)
(* (the reply and the sequence number) come after its last await.          *)
(***************************************************************************)
EXTENDS Integers, Sequences, Functions

CONSTANTS
  Ids,        \* entity ids
  Procs,      \* the calls of lifecycle::run, each of which is one process
  IdOf,       \* the id a process is spawned under
  StartSeq,   \* the sequence number a process is spawned with
  Timed,      \* the processes run with an idle timeout
  Calls,      \* the calls of a Receptor's methods
  OpsOf,      \* the methods each of them may be a call of
  NoProc      \* stands for None

Ops == {"handle", "apply", "entrust", "send"}

ASSUME ProcsAssumption ==
  /\ NoProc \notin Procs /\ IdOf \in [Procs -> Ids]
  /\ StartSeq \in [Procs -> Int] /\ Timed \subseteq Procs
  /\ OpsOf \in [Calls -> SUBSET Ops]

VARIABLES
  phase,      \* how far each call of run, and the task it spawns, has come
  registry,   \* the ProcessRegistry: whose Receptor each id is mapped to
  held,       \* whether anyone but the registry holds a Receptor of a process
  mailbox,    \* the tasks sent to a process and not yet taken
  seq,        \* Context::sequence
  poisoned,   \* ~ Context::is_active
  call,       \* the calls of Receptor methods and their outcome
  applied     \* history: the events whose applicator a process has run, with the
              \* sequence number its context showed meanwhile

vars == <<phase, registry, held, mailbox, seq, poisoned, call, applied>>

Unspawned == {"unborn", "registering", "refused"}
UserCode  == {"starting", "running", "stopping"}
Leaving   == {"deregistering", "removing"}
Gone      == {"leaving", "exited"}
Phases    == Unspawned \cup UserCode \cup Leaving \cup Gone \cup {"crashed"}

Statuses == {"idle", "waiting", "sent", "ok", "dropped", "cancelled"}

TypeOK ==
  /\ phase \in [Procs -> Phases] /\ registry \in [Ids -> Procs \cup {NoProc}]
  /\ held \in [Procs -> BOOLEAN] /\ mailbox \in [Procs -> Seq(Calls)]
  /\ seq \in [Procs -> Int] /\ poisoned \in [Procs -> BOOLEAN]
  /\ call \in [Calls -> [status : Statuses, op : Ops, to : Procs \cup {NoProc}]]
  /\ applied \in [Procs -> Seq([call : Calls, seq : Int])]

Init ==
  /\ phase = [p \in Procs |-> "unborn"] /\ registry = [i \in Ids |-> NoProc]
  /\ held = [p \in Procs |-> FALSE] /\ mailbox = [p \in Procs |-> <<>>]
  /\ seq = StartSeq /\ poisoned = [p \in Procs |-> FALSE]
  /\ call = [k \in Calls |-> [status |-> "idle", op |-> "send", to |-> NoProc]]
  /\ applied = [p \in Procs |-> <<>>]

----------------------------------------------------------------------------
(* Moves every step below is made of.                                      *)

Goto(p, ph) == phase' = [phase EXCEPT ![p] = ph]

\* p goes from one phase to the next and nothing else changes.
Pass(p, from, to) ==
  /\ phase[p] = from /\ Goto(p, to)
  /\ UNCHANGED <<registry, held, mailbox, seq, poisoned, call, applied>>

Settle(k, status) == call' = [call EXCEPT ![k].status = status]

\* The mailbox can be written to: its receiver lives in the process's task.
Open(p) == phase[p] \in UserCode \cup Leaving \cup {"leaving"}

\* Some sender of p's mailbox exists, so that its recv() does not return None.
HasSender(p) == held[p] \/ registry[IdOf[p]] = p

\* A hook or a handler of p's entity may be executing.
InUserCode(p) ==
  \/ phase[p] \in {"starting", "stopping"}
  \/ phase[p] = "running" /\ mailbox[p] # <<>>

\* Mutant: the queued oneshot senders are leaked instead of dropped.
CloseChannelLeak(p, ph) == Goto(p, ph) /\ mailbox' = [mailbox EXCEPT ![p] = <<>>] /\ UNCHANGED call

\* The task ends and drops the receiver, the queued tasks and with them the
\* oneshot senders of their callers, whose awaits return ChannelDropped.
CloseChannel(p, ph) ==
  /\ Goto(p, ph)
  /\ mailbox' = [mailbox EXCEPT ![p] = <<>>]
  /\ call' = [k \in Calls |->
                IF k \in Range(mailbox[p]) /\ call[k].status = "waiting"
                THEN [call[k] EXCEPT !.status = "dropped"] ELSE call[k]]

----------------------------------------------------------------------------
(* lifecycle::run up to the spawn of the task.                             *)

\* register finds the id under the read lock: run returns AlreadyExist.
RunRefused(p) == registry[IdOf[p]] # NoProc /\ Pass(p, "unborn", "refused")

\* Mutant: register does not look before it inserts.
RunUnchecked(p) == Pass(p, "unborn", "registering")

\* register does not find it, and releases the read lock.
RunAllowed(p) == registry[IdOf[p]] = NoProc /\ Pass(p, "unborn", "registering")

\* The caller drops the future of run while it awaits the write lock.
RunCancelled(p) == Pass(p, "registering", "refused")

\* register takes the write lock and inserts, whatever is there by now; run
\* spawns the task and returns a Receptor.
RunInsert(p) ==
  /\ phase[p] = "registering"
  /\ registry' = [registry EXCEPT ![IdOf[p]] = p]
  /\ held' = [held EXCEPT ![p] = TRUE]
  /\ Goto(p, "starting")
  /\ UNCHANGED <<mailbox, seq, poisoned, call, applied>>

----------------------------------------------------------------------------
(* The spawned task.                                                       *)

Start(p) == Pass(p, "starting", "running")

\* Mutant: the task stays in the mailbox.
Peeks(p, op) ==
  /\ phase[p] = "running" /\ mailbox[p] # <<>> /\ call[Head(mailbox[p])].op = op
  /\ UNCHANGED mailbox

\* recv() yields the oldest task, and it is of kind op.
Takes(p, op) ==
  /\ phase[p] = "running" /\ mailbox[p] # <<>> /\ call[Head(mailbox[p])].op = op
  /\ mailbox' = [mailbox EXCEPT ![p] = Tail(@)]

\* The oneshot reply: an error, which ends the loop, if the caller is gone.
Reply(p, k) ==
  \/ call[k].status = "waiting" /\ Settle(k, "ok") /\ UNCHANGED phase
  \/ call[k].status # "waiting" /\ Goto(p, "stopping") /\ UNCHANGED call

Apply(p, k) == applied' = [applied EXCEPT ![p] = Append(@, [call |-> k, seq |-> seq[p]])]

Advance(p) == seq' = [seq EXCEPT ![p] = @ + 1]

\* CommandHandleTask: the answer is the handler's, acceptance or rejection.
HandleCommand(p) ==
  /\ Takes(p, "handle") /\ Reply(p, Head(mailbox[p]))
  /\ UNCHANGED <<registry, held, seq, poisoned, applied>>

\* EventApplicatorTask: the event is applied before the reply, the sequence
\* number advanced after it and only if it was received.
ApplyEvent(p) ==
  /\ Takes(p, "apply") /\ Apply(p, Head(mailbox[p]))
  /\ Reply(p, Head(mailbox[p]))
  /\ IF call[Head(mailbox[p])].status = "waiting" THEN Advance(p) ELSE UNCHANGED seq
  /\ UNCHANGED <<registry, held, poisoned>>

\* Mutant: the event of an entrusted command takes no number.
EntrustUncounted(p) ==
  /\ Takes(p, "entrust")
  /\ Apply(p, Head(mailbox[p])) \/ UNCHANGED applied
  /\ UNCHANGED <<phase, registry, held, seq, poisoned, call>>

\* EntrustTask: handle, and if the command is accepted apply its event.
EntrustCommand(p) ==
  /\ Takes(p, "entrust")
  /\ \/ Apply(p, Head(mailbox[p])) /\ Advance(p)
     \/ UNCHANGED <<applied, seq>>
  /\ UNCHANGED <<phase, registry, held, poisoned, call>>

\* ReceiveTask, its handler having returned Ok (Panic is the other case).
ReceiveMessage(p) ==
  /\ Takes(p, "send")
  /\ UNCHANGED <<phase, registry, held, seq, poisoned, call, applied>>

\* Mutant: the idle timer is awaited only once recv() has returned None.
TimeoutAfterNone(p) == p \in Timed /\ ~HasSender(p) /\ Pass(p, "running", "stopping")

\* Mutant: the id is deregistered before the stop hook runs.
TimeoutReleases(p) ==
  /\ phase[p] = "running" /\ p \in Timed
  /\ registry' = [registry EXCEPT ![IdOf[p]] = NoProc]
  /\ Goto(p, "stopping")
  /\ UNCHANGED <<held, mailbox, seq, poisoned, call, applied>>

\* The idle timer fires.  select! may prefer it to a task that is also ready.
Timeout(p) == p \in Timed /\ Pass(p, "running", "stopping")

\* Mutant: the two loops are swapped.
OrphanedTimed(p) ==
  p \in Timed /\ mailbox[p] = <<>> /\ ~HasSender(p) /\ Pass(p, "running", "stopping")

\* recv() returns None.  The timed loop's select! disables that branch.
Orphaned(p) ==
  p \notin Timed /\ mailbox[p] = <<>> /\ ~HasSender(p) /\ Pass(p, "running", "stopping")

Stop(p) == Pass(p, "stopping", "deregistering")

\* deregister does not find the id under the read lock: NotFound, logged.
DeregisterMiss(p) == registry[IdOf[p]] = NoProc /\ Pass(p, "deregistering", "leaving")

\* Mutant: deregister's early return is taken when the id is there.
DeregisterInverted(p) == registry[IdOf[p]] # NoProc /\ Pass(p, "deregistering", "leaving")

\* deregister finds the id, mapped to anyone, and releases the read lock.
DeregisterHit(p) == registry[IdOf[p]] # NoProc /\ Pass(p, "deregistering", "removing")

\* Mutant: the id is taken out of the function's domain, as it is out of the map's.
DeregisterShrinks(p) ==
  /\ phase[p] = "removing"
  /\ registry' = [i \in Ids \ {IdOf[p]} |-> registry[i]]
  /\ Goto(p, "leaving")
  /\ UNCHANGED <<held, mailbox, seq, poisoned, call, applied>>

\* deregister takes the write lock and removes the id's entry, whosever it is.
DeregisterRemove(p) ==
  /\ phase[p] = "removing"
  /\ registry' = [registry EXCEPT ![IdOf[p]] = NoProc]
  /\ Goto(p, "leaving")
  /\ UNCHANGED <<held, mailbox, seq, poisoned, call, applied>>

\* Mutant: the dropped process deregisters its id once more.
ExitRemoves(p) ==
  /\ phase[p] = "leaving" /\ CloseChannel(p, "exited")
  /\ registry' = [registry EXCEPT ![IdOf[p]] = NoProc]
  /\ UNCHANGED <<held, seq, poisoned, applied>>

Exit(p) ==
  /\ phase[p] = "leaving" /\ CloseChannel(p, "exited")
  /\ UNCHANGED <<registry, held, seq, poisoned, applied>>

\* A hook or handler of the entity panics, or ReceiveTask's unwrap does: tokio
\* ends the task, nothing deregisters its id.  The panic of an applicator may come
\* after it has persisted, published or changed the entity.
Panic(p) ==
  /\ InUserCode(p) /\ CloseChannel(p, "crashed")
  /\ \/ UNCHANGED applied
     \/ /\ phase[p] = "running" /\ call[Head(mailbox[p])].op \in {"apply", "entrust"}
        /\ Apply(p, Head(mailbox[p]))
  /\ UNCHANGED <<registry, held, seq, poisoned>>

\* Context::poison, called by the entity's hooks and handlers.
Poison(p) ==
  /\ InUserCode(p)
  /\ poisoned' = [poisoned EXCEPT ![p] = TRUE]
  /\ UNCHANGED <<phase, registry, held, mailbox, seq, call, applied>>

----------------------------------------------------------------------------
(* The holders of Receptors.                                               *)

\* handle and apply queue a task and await its oneshot, entrust and send only
\* queue it; each returns ChannelDropped at once if the receiver is gone.
Send(k, op, p) ==
  /\ call[k].status = "idle" /\ op \in OpsOf[k] /\ held[p]
  /\ IF Open(p)
     THEN /\ mailbox' = [mailbox EXCEPT ![p] = Append(@, k)]
          /\ call' = [call EXCEPT ![k] =
               [status |-> IF op \in {"handle", "apply"} THEN "waiting" ELSE "sent",
                op |-> op, to |-> p]]
     ELSE /\ call' = [call EXCEPT ![k] = [status |-> "dropped", op |-> op, to |-> p]]
          /\ UNCHANGED mailbox
  /\ UNCHANGED <<phase, registry, held, seq, poisoned, applied>>

\* The caller drops the future it awaits; the task stays in the mailbox.
Cancel(k) ==
  /\ call[k].status = "waiting" /\ Settle(k, "cancelled")
  /\ UNCHANGED <<phase, registry, held, mailbox, seq, poisoned, applied>>

\* ProcessManager::find, Context::find and as_ref_self clone what is registered.
Find(p) ==
  /\ registry[IdOf[p]] = p
  /\ held' = [held EXCEPT ![p] = TRUE]
  /\ UNCHANGED <<phase, registry, mailbox, seq, poisoned, call, applied>>

\* The last Receptor outside the registry is dropped.  A call borrows its own.
Drop(p) ==
  /\ held[p]
  /\ \A k \in Calls : ~ (call[k].status = "waiting" /\ call[k].to = p)
  /\ held' = [held EXCEPT ![p] = FALSE]
  /\ UNCHANGED <<phase, registry, mailbox, seq, poisoned, call, applied>>

----------------------------------------------------------------------------
Run(p) == RunRefused(p) \/ RunAllowed(p) \/ RunCancelled(p) \/ RunInsert(p)

Task(p) == HandleCommand(p) \/ ApplyEvent(p) \/ EntrustCommand(p) \/ ReceiveMessage(p)

\* A step of the spawned task that waits for nothing but the scheduler.
ProcessStep(p) ==
  \/ Start(p) \/ Task(p) \/ Orphaned(p) \/ Stop(p)
  \/ DeregisterMiss(p) \/ DeregisterHit(p) \/ DeregisterRemove(p)
  \/ Exit(p) \/ Panic(p)

Next ==
  \/ \E p \in Procs : Run(p) \/ ProcessStep(p) \/ Timeout(p) \/ Poison(p) \/ Find(p) \/ Drop(p)
  \/ \E k \in Calls : Cancel(k) \/ \E op \in Ops, p \in Procs : Send(k, op, p)

Spec == Init /\ [][Next]_vars

\* tokio runs every task that is ready, an entity's handlers return, and a
\* timer fires once nothing restarts it.
FairSpec ==
  /\ Spec
  /\ \A p \in Procs : /\ WF_vars(ProcessStep(p))
                      /\ WF_vars(mailbox[p] = <<>> /\ Timeout(p))

\* The runs of callers that never have two spawns of one id under way.
NoOverlap ==
  \A p, q \in Procs : phase[p] = "registering" /\ phase[q] = "registering"
                        /\ IdOf[p] = IdOf[q] => p = q

SerialSpec == Init /\ [][Next /\ NoOverlap']_vars
----------------------------------------------------------------------------
(* Properties of every run.                                                *)

\* A process that has left its task, or has yet to be registered, is not in the
\* registry; only a panic leaves a dead Receptor behind.  Holds though
\* deregister removes by id alone: who overwrites an entry also replaces it.
NoGhostEntry ==
  \A i \in Ids : registry[i] # NoProc =>
    /\ IdOf[registry[i]] = i
    /\ phase[registry[i]] \in UserCode \cup Leaving \cup {"crashed"}

\* The events a process applies carry consecutive numbers from its start
\* sequence on, through whichever of apply and entrust they come, and while it
\* takes tasks its context shows the number after the last of them.
ConsecutiveSequence ==
  \A p \in Procs :
    /\ \A n \in DOMAIN applied[p] : applied[p][n].seq = StartSeq[p] + n - 1
    /\ phase[p] \in {"starting", "running"} => seq[p] = StartSeq[p] + Len(applied[p])

\* What a caller is told is what happened: an apply that returned Ok was applied by
\* the process it was sent to.  A call that returned ChannelDropped had no effect,
\* except the one its process panicked in, which may have: it is the last thing that
\* process did.  No call has its effect twice, or at another process.
OutcomeMatchesEffect ==
  \A k \in Calls :
    /\ call[k].status = "ok" /\ call[k].op = "apply" =>
         \E n \in DOMAIN applied[call[k].to] : applied[call[k].to][n].call = k
    /\ \A p \in Procs : \A n \in DOMAIN applied[p] : applied[p][n].call = k =>
         /\ call[k].status # "idle" /\ call[k].to = p
         /\ call[k].status = "dropped" => phase[p] = "crashed" /\ n = Len(applied[p])
         /\ \A m \in DOMAIN applied[p] : applied[p][m].call = k => m = n

\* Whoever awaits an answer can still get one: its task is queued, once, at a
\* process that will take it or, in ending, drop it and so wake the caller.
NoStrandedCaller ==
  \A k \in Calls : call[k].status = "waiting" =>
    /\ Open(call[k].to)
    /\ \E n \in DOMAIN mailbox[call[k].to] : mailbox[call[k].to][n] = k

----------------------------------------------------------------------------
(* Properties of the fair runs.                                            *)

\* Every handle and apply that is awaited returns.
CallsAnswered ==
  \A k \in Calls : call[k].status = "waiting" ~> call[k].status # "waiting"

\* A process that left its loop gives its id up, unless its stop hook panics.
LeaversReleaseTheirId ==
  \A p \in Procs : phase[p] = "stopping" ~> registry[IdOf[p]] # p \/ phase[p] = "crashed"

\* A process with an idle timeout does not run for ever.
TimedProcessesEnd ==
  \A p \in Timed : phase[p] = "running" ~> phase[p] # "running"

\* A process without one ends when nobody can send to it any more.
OrphansEnd ==
  \A p \in Procs : phase[p] = "running" /\ ~HasSender(p) ~> phase[p] \in {"exited", "crashed"}

\* A process poisoned by a task leaves its loop after that task, as the check
\* in the comment at lifecycle.rs:78-81 says: the loops that run have no check.
PoisonEnds ==
  \A p \in Procs :
    phase[p] = "running" /\ poisoned[p] /\ mailbox[p] # <<>> ~> phase[p] # "running"

----------------------------------------------------------------------------
(* Properties of the serial runs.                                          *)

\* Of the processes of one id at most one runs its entity's code, and none
\* starts while another is still leaving.
OneLivePerId ==
  \A p, q \in Procs :
    /\ phase[p] \in UserCode \cup Leaving /\ phase[q] \in UserCode \cup Leaving
    /\ IdOf[p] = IdOf[q]
    => p = q

\* A process that runs its entity's code is the one find returns for its id.
LiveIsFindable ==
  \A p \in Procs : phase[p] \in UserCode \cup Leaving => registry[IdOf[p]] = p

----------------------------------------------------------------------------
(* The registry as a directory in which an id has one owner at a time.     *)

Member(p) ==
  CASE phase[p] \in {"unborn", "registering"}               -> "out"
    [] phase[p] = "refused"                                 -> "refused"
    [] phase[p] \in UserCode \cup Leaving \cup {"crashed"} -> "in"
    [] phase[p] \in Gone                                    -> "gone"

D == INSTANCE Directory WITH owner <- registry, member <- [p \in Procs |-> Member(p)]

\* Every step of a serial run is a claim of a free id, a refusal of an owned
\* one, a release by its owner, or none of the directory's business.
ImplementsDirectory == D!Spec
=============================================================================
