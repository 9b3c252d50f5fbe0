------------------------------ MODULE CallGraph ------------------------------
(***************************************************************************)
(* nitinol-process: handlers and hooks that use the Receptors of other     *)
(* processes, or of their own.  They run in the task of their process:     *)
(* while one awaits the answer to handle or apply the process takes        *)
(* nothing from its mailbox, and its idle timer is not polled.  A handler  *)
(* may bound what it awaits, by a timeout or a select!, and then go on.    *)
(* Registering and deregistering, which Lifecycle has step by step, happen *)
(* in one step here with what comes before them.                           *)
(***************************************************************************)
EXTENDS Integers, Sequences, Functions

CONSTANTS
  Procs,      \* the processes
  Timed,      \* those with an idle timeout
  Hooked,     \* those with hooks of their own: the default hooks do nothing
  TypeOf,     \* the type each is registered under
  MayAsk,     \* the processes whose answers a process's handlers may await
  Bounded,    \* the processes whose handlers bound how long they await one
  Calls,      \* the calls of a Receptor's methods
  OpsOf,      \* the methods that each of them may be a call of
  Client,     \* stands for a caller that is no process
  NoCall      \* stands for no call

Awaited == {"handle", "apply"}
Unawaited == {"entrust", "send"}
Ops == Awaited \cup Unawaited

ASSUME CallGraphAssumption ==
  /\ Timed \subseteq Procs /\ Bounded \subseteq Procs /\ Hooked \subseteq Procs
  /\ MayAsk \in [Procs -> SUBSET Procs]
  /\ OpsOf \in [Calls -> SUBSET Ops] /\ NoCall \notin Calls
  /\ Client \notin Procs

VARIABLES
  state,      \* whether a process is in its start hook, its loop or its stop hook,
              \* or how it has ended: "left" or "crashed"
  mailbox,    \* the calls queued at each process
  job,        \* the call whose task it is executing
  accepted,   \* whether that is an entrusted command its handler has accepted
  wait,       \* the call whose answer its handler or hook awaits
  version,    \* how many events it has applied
  decided,    \* the version its handler saw when it accepted a command
  call        \* what became of each call

vars == <<state, mailbox, job, accepted, wait, version, decided, call>>

Hooks    == {"starting", "stopping"}
Ended    == {"left", "crashed"}
Statuses == {"idle", "waiting", "sent", "ok", "dropped", "cancelled"}

TypeOK ==
  /\ state \in [Procs -> Hooks \cup {"up"} \cup Ended]
  /\ mailbox \in [Procs -> Seq(Calls)] /\ job \in [Procs -> Calls \cup {NoCall}]
  /\ accepted \in [Procs -> BOOLEAN] /\ wait \in [Procs -> Calls \cup {NoCall}]
  /\ version \in [Procs -> Nat] /\ decided \in [Procs -> Nat]
  /\ call \in [Calls -> [status : Statuses, op : Ops, to : Procs \cup {Client}]]

Init ==
  /\ state = [p \in Procs |-> "starting"] /\ mailbox = [p \in Procs |-> <<>>]
  /\ job = [p \in Procs |-> NoCall] /\ accepted = [p \in Procs |-> FALSE]
  /\ wait = [p \in Procs |-> NoCall] /\ version = [p \in Procs |-> 0]
  /\ decided = [p \in Procs |-> 0]
  /\ call = [k \in Calls |-> [status |-> "idle", op |-> "send", to |-> Client]]

----------------------------------------------------------------------------
\* p's handler or hook awaits an answer that it has not got.
Waits(p) == wait[p] # NoCall /\ call[wait[p]].status = "waiting"

\* p is executing a task or a hook.
Busy(p) == job[p] # NoCall \/ state[p] \in Hooks

\* p's handler runs, or either that or a hook of its own.
Handles(p)  == job[p] # NoCall /\ wait[p] = NoCall
Executes(p) == Handles(p) \/ (p \in Hooked /\ state[p] \in Hooks /\ wait[p] = NoCall)

\* The answer to k, or that there will be none.
Settle(k, status) == [call EXCEPT ![k].status = status]

\* The task of p ends and drops its mailbox and what it was executing, with the
\* oneshot senders in them.
End(p, how) ==
  /\ state' = [state EXCEPT ![p] = how]
  /\ mailbox' = [mailbox EXCEPT ![p] = <<>>]
  /\ job' = [job EXCEPT ![p] = NoCall]
  /\ accepted' = [accepted EXCEPT ![p] = FALSE]
  /\ call' = [k \in Calls |->
                IF k \in Range(mailbox[p]) \cup {job[p]} /\ call[k].status = "waiting"
                THEN [call[k] EXCEPT !.status = "dropped"] ELSE call[k]]
  /\ UNCHANGED <<wait, decided>>

----------------------------------------------------------------------------
(* Calls.                                                                  *)

\* handle, apply, entrust and send queue a task, or find the receiver gone.
Send(k, op, q) ==
  /\ op \in OpsOf[k] /\ call[k].status = "idle"
  /\ IF state[q] \notin Ended
     THEN /\ mailbox' = [mailbox EXCEPT ![q] = Append(@, k)]
          /\ call' = [call EXCEPT ![k] =
               [status |-> IF op \in Awaited THEN "waiting" ELSE "sent", op |-> op, to |-> q]]
     ELSE /\ call' = [call EXCEPT ![k] = [status |-> "dropped", op |-> op, to |-> q]]
          /\ UNCHANGED mailbox
  /\ UNCHANGED <<state, job, accepted, version, decided>>

\* A caller that is no process awaits its answers without holding anyone up.
ClientSends(k, op, q) == Send(k, op, q) /\ UNCHANGED wait

\* It may stop waiting.
ClientCancels(k) ==
  /\ call[k].status = "waiting"
  /\ \A p \in Procs : wait[p] # k
  /\ call' = Settle(k, "cancelled")
  /\ UNCHANGED <<state, mailbox, job, accepted, wait, version, decided>>

\* A handler or hook awaits an answer.
Ask(p, k, op, q) ==
  /\ Executes(p) /\ q \in MayAsk[p] /\ Send(k, op, q)
  /\ wait' = [wait EXCEPT ![p] = k]

\* A handler has a task queued, at any process, and goes on.
Tell(p, k, op, q) ==
  /\ Executes(p) /\ Send(k, op, q)
  /\ UNCHANGED wait

\* The answer, or ChannelDropped, reaches the handler that awaits it.
Resume(p) ==
  /\ wait[p] # NoCall /\ ~Waits(p)
  /\ wait' = [wait EXCEPT ![p] = NoCall]
  /\ UNCHANGED <<state, mailbox, job, accepted, version, decided, call>>

\* It drops the future that it awaits; the task stays where it is.
GiveUp(p) ==
  /\ p \in Bounded /\ Waits(p)
  /\ call' = Settle(wait[p], "cancelled")
  /\ wait' = [wait EXCEPT ![p] = NoCall]
  /\ UNCHANGED <<state, mailbox, job, accepted, version, decided>>

----------------------------------------------------------------------------
(* Hooks.                                                                  *)

\* The start hook returns, and the loop begins.
Started(p) ==
  /\ state[p] = "starting" /\ wait[p] = NoCall
  /\ state' = [state EXCEPT ![p] = "up"]
  /\ UNCHANGED <<mailbox, job, accepted, wait, version, decided, call>>

\* The stop hook returns: the id is deregistered and the mailbox dropped.
Stopped(p) == state[p] = "stopping" /\ wait[p] = NoCall /\ End(p, "left") /\ UNCHANGED version

----------------------------------------------------------------------------
(* Tasks.                                                                  *)

\* Mutant: a task that the loop takes while it executes another changes the state.
TakeMeanwhile(p) ==
  /\ state[p] = "up" /\ mailbox[p] # <<>>
  /\ mailbox' = [mailbox EXCEPT ![p] = Tail(@)]
  /\ IF job[p] = NoCall
     THEN job' = [job EXCEPT ![p] = Head(mailbox[p])] /\ UNCHANGED version
     ELSE version' = [version EXCEPT ![p] = @ + 1] /\ UNCHANGED job
  /\ UNCHANGED <<state, accepted, wait, decided, call>>

Take(p) ==
  /\ state[p] = "up" /\ job[p] = NoCall /\ mailbox[p] # <<>>
  /\ job' = [job EXCEPT ![p] = Head(mailbox[p])]
  /\ mailbox' = [mailbox EXCEPT ![p] = Tail(@)]
  /\ UNCHANGED <<state, accepted, wait, version, decided, call>>

Op(p) == call[job[p]].op

\* The loop is ready for the next task.
Done(p) ==
  /\ job' = [job EXCEPT ![p] = NoCall]
  /\ accepted' = [accepted EXCEPT ![p] = FALSE]

\* The oneshot reply: an error, which ends the loop, if the caller is gone.
Reply(p) ==
  /\ \/ call[job[p]].status = "waiting" /\ call' = Settle(job[p], "ok") /\ UNCHANGED state
     \/ /\ call[job[p]].status # "waiting" /\ UNCHANGED call
        /\ state' = [state EXCEPT ![p] = "stopping"]
  /\ Done(p)
  /\ UNCHANGED <<mailbox, wait, decided>>

\* EntrustTask: the command is accepted, and the event it leads to is applied next.
Accept(p) ==
  /\ Handles(p) /\ Op(p) = "entrust" /\ ~accepted[p]
  /\ accepted' = [accepted EXCEPT ![p] = TRUE]
  /\ decided' = [decided EXCEPT ![p] = version[p]]
  /\ UNCHANGED <<state, mailbox, job, wait, version, call>>

\* The last handler of a task returns.
Return(p) ==
  /\ Handles(p)
  /\ \/ Op(p) = "handle" /\ Reply(p) /\ UNCHANGED version
     \/ Op(p) = "apply" /\ Reply(p) /\ version' = [version EXCEPT ![p] = @ + 1]
     \/ /\ Op(p) \in Unawaited
        /\ version' = IF accepted[p] THEN [version EXCEPT ![p] = @ + 1] ELSE version
        /\ Done(p)
        /\ UNCHANGED <<state, mailbox, wait, decided, call>>

\* Mutant: the oneshot sender of the task that panics is kept alive.
PanicKeepsSender(p) ==
  /\ Executes(p)
  /\ state' = [state EXCEPT ![p] = "crashed"]
  /\ mailbox' = [mailbox EXCEPT ![p] = <<>>]
  /\ job' = [job EXCEPT ![p] = NoCall]
  /\ accepted' = [accepted EXCEPT ![p] = FALSE]
  /\ UNCHANGED <<wait, version, decided, call>>

\* A handler or hook panics: its id stays registered.
Panic(p) == Executes(p) /\ End(p, "crashed") /\ UNCHANGED version

\* A handler looks an id up as a type it is not registered under: Context::find
\* unwraps the InvalidCast.
Miscast(p, q, type) ==
  /\ state[q] # "left" /\ TypeOf[q] # type /\ Panic(p)

\* Mutant: the timer is polled while a task runs.
TimeoutInTask(p) == p \in Timed /\ state[p] = "up" /\ End(p, "left") /\ UNCHANGED version

\* The idle timer fires, which is polled between tasks only.
Timeout(p) ==
  /\ p \in Timed /\ state[p] = "up" /\ job[p] = NoCall
  /\ state' = [state EXCEPT ![p] = "stopping"]
  /\ UNCHANGED <<mailbox, job, accepted, wait, version, decided, call>>

----------------------------------------------------------------------------
\* What a process does when nothing but the scheduler holds it up.
ProcessStep(p) ==
  Started(p) \/ Take(p) \/ Resume(p) \/ Accept(p) \/ Return(p) \/ Stopped(p)

HandlerStep(p) ==
  \/ Panic(p)
  \/ \E q \in Procs, type \in Range(TypeOf) : Miscast(p, q, type)
  \/ \E k \in Calls, q \in Procs :
       \/ \E op \in Awaited : Ask(p, k, op, q)
       \/ \E op \in Unawaited : Tell(p, k, op, q)

Next ==
  \/ \E p \in Procs : ProcessStep(p) \/ HandlerStep(p) \/ GiveUp(p) \/ Timeout(p)
  \/ \E k \in Calls : ClientCancels(k) \/ \E op \in Ops, q \in Procs : ClientSends(k, op, q)

Spec == Init /\ [][Next]_vars

\* tokio runs every task that is ready, handlers and hooks return unless they await,
\* and what bounds an await ends it.
FairSpec == Spec /\ \A p \in Procs : WF_vars(ProcessStep(p)) /\ WF_vars(GiveUp(p))

----------------------------------------------------------------------------
\* The handlers of a set of processes all await one of the set.
Stuck(S) == \A q \in S : Waits(q) /\ call[wait[q]].to \in S

Deadlocked(p) == \E S \in SUBSET Procs : p \in S /\ Stuck(S)

\* The same, and none of them bounds what it awaits.
Hopeless(p) == \E S \in SUBSET (Procs \ Bounded) : p \in S /\ Stuck(S)

\* p has nothing to do: its loop waits for a task, or has ended.
Idle(p) == ~Busy(p) /\ (state[p] = "up" => mailbox[p] = <<>>)

\* Where nothing moves any more, every process having nothing to do or waiting for an
\* answer, the calls that are still awaited are those of a deadlock or behind one: no
\* panic, end, hook or lost caller leaves another caller waiting for a process that is
\* free.
StallIsDeadlock ==
  (\A p \in Procs : Idle(p) \/ Waits(p)) =>
    \A k \in Calls : call[k].status = "waiting" => Deadlocked(call[k].to)

\* The event of an entrusted command is applied to the state in which the command
\* was accepted, though its handlers may await others in between; for an event
\* that a caller gets from handle and has applied by apply nothing of the kind holds.
EntrustIsAtomic == \A p \in Procs : accepted[p] => decided[p] = version[p]

\* A deadlock of processes that do not bound what they await is for good: no idle timer
\* of theirs ends it, nor a client that gives up, nor the panic or the end of others,
\* nor another process that has got into it and gives up.
DeadlockIsForGood == [][\A p \in Procs : Hopeless(p) => Hopeless(p)']_vars

\* Every awaited call returns, through any number of processes that await each
\* other, panic or end, except where it is queued behind such a deadlock: one process
\* that bounds what it awaits sets everyone free that waits for it.
AnsweredUnlessDeadlocked ==
  \A k \in Calls :
    call[k].status = "waiting" ~> call[k].status # "waiting" \/ Hopeless(call[k].to)
=============================================================================
