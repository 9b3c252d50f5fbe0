--------------------------- MODULE CallGraphProofs ---------------------------
(***************************************************************************)
(* Handlers that await each other, for any processes, any graph of who may *)
(* ask whom and any calls.                                                 *)
(***************************************************************************)
EXTENDS CallGraph, SequenceTheorems, TLAPS

USE CallGraphAssumption
USE DEF Awaited, Unawaited, Ops, Statuses, Hooks, Ended

\* k was sent to p.
Mine(k, p) == call[k].status # "idle" /\ call[k].to = p

\* A process executes and queues what was sent to it.
OwnTasks ==
  \A p \in Procs :
    /\ job[p] # NoCall => Mine(job[p], p)
    /\ \A n \in DOMAIN mailbox[p] : Mine(mailbox[p][n], p)

\* What is awaited is awaited within a task or a hook, of one that may be asked, and
\* by nobody else.
AwaitsAsked ==
  \A p \in Procs : wait[p] # NoCall =>
    /\ Busy(p)
    /\ \A q \in Procs : wait[q] = wait[p] => q = p
    /\ call[wait[p]].status # "idle"
    /\ call[wait[p]].to \in MayAsk[p]

GraphInv == TypeOK /\ OwnTasks /\ AwaitsAsked /\ EntrustIsAtomic

----------------------------------------------------------------------------
(* What the steps are made of.                                             *)

Call == [status : Statuses, op : Ops, to : Procs \cup {Client}]

\* The call c with another status.
With(c, status) == [c EXCEPT !.status = status]

\* It is a call, and to whom it was.
LEMMA WithCall ==
  ASSUME NEW c \in Call, NEW s \in Statuses
  PROVE  With(c, s) \in Call /\ With(c, s).status = s /\ With(c, s).to = c.to
PROOF BY DEF Call, With

\* A call that has been made stays made, and to whom it was.
CallsStay ==
  \A k \in Calls : call[k].status # "idle" => call'[k].status # "idle" /\ call'[k].to = call[k].to

\* A caller is answered, or stops waiting.
LEMMA SettleStep ==
  ASSUME GraphInv, NEW k \in Calls, call[k].status = "waiting", NEW s \in Statuses \ {"idle"},
         call' = Settle(k, s)
  PROVE  CallsStay /\ call' \in [Calls -> Call]
PROOF
<1>1. call \in [Calls -> Call]
  BY DEF Call, GraphInv, TypeOK
<1>2. call' = [call EXCEPT ![k] = With(call[k], s)]
  BY DEF Settle, With
<1>3. QED
  BY <1>1, <1>2, WithCall DEF CallsStay

\* A process ends.
LEMMA EndStep ==
  ASSUME GraphInv, NEW p \in Procs, NEW how \in Ended, End(p, how),
         version' \in [Procs -> Nat],
         \A q \in Procs : q # p => version'[q] = version[q], wait[p] = NoCall
  PROVE  GraphInv' /\ CallsStay
PROOF
<1>1. /\ state' = [state EXCEPT ![p] = how] /\ mailbox' = [mailbox EXCEPT ![p] = <<>>]
      /\ job' = [job EXCEPT ![p] = NoCall] /\ accepted' = [accepted EXCEPT ![p] = FALSE]
      /\ UNCHANGED <<wait, decided>>
  BY DEF End
<1>2. call \in [Calls -> Call]
  BY DEF Call, GraphInv, TypeOK
<1>3. DOMAIN call' = Calls /\ call' = [k \in Calls |-> call'[k]]
  BY DEF End
<1>4. ASSUME NEW k \in Calls
      PROVE  call'[k] \in Call /\ (call[k].status # "idle" => call'[k].status # "idle" /\ call'[k].to = call[k].to)
  <2>1. CASE call'[k] = call[k]
    BY <1>2, <2>1
  <2>2. CASE call'[k] = With(call[k], "dropped")
    BY <1>2, <2>2, WithCall
  <2>3. QED
    BY <2>1, <2>2 DEF End, With
<1>5. CallsStay /\ call' \in [Calls -> Call]
  BY <1>3, <1>4 DEF CallsStay
<1>6. TypeOK'
  BY <1>1, <1>5, EmptySeq DEF GraphInv, TypeOK, Call
<1>7. OwnTasks'
  BY <1>1, <1>5, EmptySeq DEF GraphInv, TypeOK, OwnTasks, Mine, CallsStay
<1>8. AwaitsAsked'
  BY <1>1, <1>5 DEF GraphInv, TypeOK, AwaitsAsked, Busy, CallsStay
<1>9. EntrustIsAtomic'
  BY <1>1 DEF GraphInv, TypeOK, EntrustIsAtomic
<1>10. QED
  BY <1>5, <1>6, <1>7, <1>8, <1>9 DEF GraphInv

\* A call is made; whoever goes on to await it may ask the process it is made of.
LEMMA SendStep ==
  ASSUME GraphInv, NEW k \in Calls, NEW op \in Ops, NEW q \in Procs, Send(k, op, q),
         NEW r \in Procs,
         \/ UNCHANGED wait
         \/ Busy(r) /\ q \in MayAsk[r] /\ wait' = [wait EXCEPT ![r] = k]
  PROVE  GraphInv' /\ CallsStay
PROOF
<1>1. /\ UNCHANGED <<state, job, accepted, version, decided>>
      /\ mailbox' = mailbox \/ mailbox' = [mailbox EXCEPT ![q] = Append(@, k)]
      /\ \E s \in Statuses \ {"idle"} : call' = [call EXCEPT ![k] = [status |-> s, op |-> op, to |-> q]]
      /\ call[k].status = "idle"
  BY DEF Send
<1>2. CallsStay /\ Mine(k, q)'
  BY <1>1 DEF CallsStay, Mine, GraphInv, TypeOK
<1>3. TypeOK'
  <2>1. call' \in [Calls -> Call]
    BY <1>1 DEF Call, GraphInv, TypeOK
  <2>2. Append(mailbox[q], k) \in Seq(Calls)
    BY AppendProperties DEF GraphInv, TypeOK
  <2>3. mailbox' \in [Procs -> Seq(Calls)]
    BY <1>1, <2>2 DEF GraphInv, TypeOK
  <2>4. QED
    BY <1>1, <2>1, <2>3 DEF Call, GraphInv, TypeOK
<1>4. OwnTasks'
  <2>1. ASSUME NEW p \in Procs, NEW n \in DOMAIN mailbox'[p] PROVE Mine(mailbox[p][n], p)'
    <3>1. CASE n \in DOMAIN mailbox[p] /\ mailbox'[p][n] = mailbox[p][n]
      <4>1. mailbox[p][n] \in Calls /\ Mine(mailbox[p][n], p)
        BY <3>1, ElementOfSeq, LenProperties DEF GraphInv, TypeOK, OwnTasks
      <4>2. QED
        BY <3>1, <4>1, <1>2 DEF Mine, CallsStay
    <3>2. CASE p = q /\ mailbox'[p][n] = k
      BY <3>2, <1>2 DEF Mine
    <3>3. CASE p = q /\ mailbox'[p] = Append(mailbox[q], k)
      BY <2>1, <3>1, <3>2, <3>3, AppendProperties, LenProperties DEF GraphInv, TypeOK
    <3>4. CASE mailbox'[p] = mailbox[p]
      BY <2>1, <3>1, <3>4
    <3>5. QED
      BY <1>1, <3>3, <3>4 DEF GraphInv, TypeOK
  <2>2. ASSUME NEW p \in Procs, job'[p] # NoCall PROVE Mine(job[p], p)'
    BY <1>1, <1>2, <2>2 DEF GraphInv, TypeOK, OwnTasks, Mine, CallsStay
  <2>3. QED
    BY <2>1, <2>2 DEF OwnTasks
<1>5. AwaitsAsked'
  <2>1. \A p \in Procs : Busy(p)' = Busy(p) /\ wait[p] # k
    BY <1>1 DEF Busy, GraphInv, AwaitsAsked
  <2>2. CASE UNCHANGED wait
    BY <1>2, <2>1, <2>2 DEF GraphInv, TypeOK, AwaitsAsked, CallsStay
  <2>3. CASE Busy(r) /\ q \in MayAsk[r] /\ wait' = [wait EXCEPT ![r] = k]
    <3>1. wait'[r] = k /\ \A p \in Procs : p # r => wait'[p] = wait[p]
      BY <2>3 DEF GraphInv, TypeOK
    <3>2. call'[k].status # "idle" /\ call'[k].to = q
      BY <1>2 DEF Mine
    <3>3. \A p \in Procs \ {r} : wait[p] # NoCall =>
            call'[wait[p]].status # "idle" /\ call'[wait[p]].to \in MayAsk[p]
      BY <1>2 DEF GraphInv, TypeOK, AwaitsAsked, CallsStay
    <3>4. QED
      BY <2>1, <2>3, <3>1, <3>2, <3>3 DEF GraphInv, AwaitsAsked
  <2>4. QED
    BY <2>2, <2>3
<1>6. EntrustIsAtomic'
  BY <1>1 DEF GraphInv, EntrustIsAtomic
<1>7. QED
  BY <1>2, <1>3, <1>4, <1>5, <1>6 DEF GraphInv

\* A task ends with the caller's answer, or none, and so may the loop.
LEMMA DoneStep ==
  ASSUME GraphInv, NEW p \in Procs, Handles(p), Done(p), UNCHANGED <<mailbox, wait, decided>>,
         UNCHANGED state \/ state' = [state EXCEPT ![p] = "stopping"],
         version' \in [Procs -> Nat], \A q \in Procs : q # p => version'[q] = version[q],
         UNCHANGED call \/ (call[job[p]].status = "waiting" /\ call' = Settle(job[p], "ok"))
  PROVE  GraphInv' /\ CallsStay
PROOF
<1>1. /\ job' = [job EXCEPT ![p] = NoCall] /\ accepted' = [accepted EXCEPT ![p] = FALSE]
      /\ job[p] \in Calls /\ wait[p] = NoCall
  BY DEF Done, Handles, GraphInv, TypeOK
<1>2. CallsStay /\ call' \in [Calls -> [status : Statuses, op : Ops, to : Procs \cup {Client}]]
  BY <1>1, SettleStep DEF CallsStay, Call, GraphInv, TypeOK
<1>3. TypeOK'
  <2>1. state' \in [Procs -> Hooks \cup {"up"} \cup Ended]
    BY DEF GraphInv, TypeOK
  <2>2. QED
    BY <1>1, <1>2, <2>1 DEF GraphInv, TypeOK
<1>4. OwnTasks'
  <2>1. ASSUME NEW q \in Procs, NEW n \in DOMAIN mailbox'[q] PROVE Mine(mailbox[q][n], q)'
    <3>1. mailbox[q][n] \in Calls /\ Mine(mailbox[q][n], q)
      BY <2>1, ElementOfSeq, LenProperties DEF GraphInv, TypeOK, OwnTasks
    <3>2. QED
      BY <3>1, <1>2 DEF Mine, CallsStay
  <2>2. QED
    BY <2>1, <1>1, <1>2 DEF GraphInv, TypeOK, OwnTasks, Mine, CallsStay
<1>5. AwaitsAsked'
  <2>1. ASSUME NEW q \in Procs, q # p PROVE Busy(q)' = Busy(q)
    BY <1>1, <2>1 DEF Busy, GraphInv, TypeOK
  <2>2. QED
    BY <1>1, <1>2, <2>1 DEF GraphInv, TypeOK, AwaitsAsked, CallsStay, Busy
<1>6. EntrustIsAtomic'
  BY <1>1, <1>2 DEF GraphInv, TypeOK, EntrustIsAtomic
<1>7. QED
  BY <1>2, <1>3, <1>4, <1>5, <1>6 DEF GraphInv

\* A process goes on to another place of its run, where it awaits nothing.
LEMMA MoveStep ==
  ASSUME GraphInv, NEW p \in Procs, wait[p] = NoCall, NEW st \in Hooks \cup {"up"},
         state' = [state EXCEPT ![p] = st],
         UNCHANGED <<mailbox, job, accepted, wait, version, decided, call>>
  PROVE  GraphInv' /\ CallsStay
PROOF
<1>1. TypeOK' /\ CallsStay
  BY DEF GraphInv, TypeOK, CallsStay
<1>2. OwnTasks' /\ EntrustIsAtomic'
  BY DEF GraphInv, OwnTasks, Mine, EntrustIsAtomic
<1>3. AwaitsAsked'
  BY DEF GraphInv, TypeOK, AwaitsAsked, Busy
<1>4. QED
  BY <1>1, <1>2, <1>3 DEF GraphInv

\* A caller settles for an answer, or for none, and no process does anything else.
LEMMA CallerStep ==
  ASSUME GraphInv, NEW k \in Calls, call[k].status = "waiting", call' = Settle(k, "cancelled"),
         UNCHANGED <<state, mailbox, job, accepted, version, decided>>,
         wait' \in [Procs -> Calls \cup {NoCall}],
         \A p \in Procs : wait'[p] # NoCall => wait'[p] = wait[p]
  PROVE  GraphInv' /\ CallsStay
PROOF
<1>1. CallsStay /\ TypeOK'
  BY SettleStep DEF Call, GraphInv, TypeOK
<1>2. ASSUME NEW p \in Procs, NEW n \in DOMAIN mailbox'[p] PROVE Mine(mailbox[p][n], p)'
  <2>1. mailbox[p][n] \in Calls /\ Mine(mailbox[p][n], p)
    BY <1>2, ElementOfSeq, LenProperties DEF GraphInv, TypeOK, OwnTasks
  <2>2. QED
    BY <1>1, <2>1 DEF Mine, CallsStay
<1>3. OwnTasks' /\ EntrustIsAtomic'
  BY <1>1, <1>2 DEF GraphInv, TypeOK, OwnTasks, Mine, EntrustIsAtomic, CallsStay
<1>4. AwaitsAsked'
  BY <1>1 DEF GraphInv, TypeOK, AwaitsAsked, Busy, CallsStay
<1>5. QED
  BY <1>1, <1>3, <1>4 DEF GraphInv

----------------------------------------------------------------------------
\* Every step keeps the invariant.
LEMMA GraphNext == GraphInv /\ [Next]_vars => GraphInv' /\ CallsStay
PROOF
<1> SUFFICES ASSUME GraphInv, [Next]_vars PROVE GraphInv' /\ CallsStay
  OBVIOUS
<1>1. CASE UNCHANGED vars
  BY <1>1 DEF GraphInv, TypeOK, OwnTasks, Mine, AwaitsAsked, Busy, EntrustIsAtomic, CallsStay, vars
<1>2. ASSUME NEW p \in Procs, Take(p) PROVE GraphInv' /\ CallsStay
  <2>1. /\ job' = [job EXCEPT ![p] = Head(mailbox[p])]
        /\ mailbox' = [mailbox EXCEPT ![p] = Tail(@)]
        /\ UNCHANGED <<state, accepted, wait, version, decided, call>>
        /\ mailbox[p] \in Seq(Calls) /\ mailbox[p] # <<>>
    BY <1>2 DEF Take, GraphInv, TypeOK
  <2>2. /\ Tail(mailbox[p]) \in Seq(Calls)
        /\ Head(mailbox[p]) = mailbox[p][1] /\ 1 \in DOMAIN mailbox[p]
        /\ \A n \in DOMAIN Tail(mailbox[p]) :
             n + 1 \in DOMAIN mailbox[p] /\ Tail(mailbox[p])[n] = mailbox[p][n + 1]
    BY <2>1, HeadTailProperties, LenProperties, EmptySeq
  <2>3. CallsStay /\ mailbox[p][1] \in Calls
    BY <2>1, <2>2, ElementOfSeq, LenProperties DEF CallsStay
  <2>4. TypeOK'
    BY <2>1, <2>2, <2>3 DEF GraphInv, TypeOK
  <2>5. OwnTasks'
    BY <2>1, <2>2, <2>3 DEF GraphInv, TypeOK, OwnTasks, Mine
  <2>6. AwaitsAsked' /\ EntrustIsAtomic'
    BY <1>2, <2>1, <2>2, <2>3 DEF GraphInv, TypeOK, AwaitsAsked, Busy, Take, EntrustIsAtomic
  <2>7. QED
    BY <2>3, <2>4, <2>5, <2>6 DEF GraphInv
<1>3. ASSUME NEW p \in Procs, Resume(p) PROVE GraphInv' /\ CallsStay
  BY <1>3 DEF Resume, GraphInv, TypeOK, OwnTasks, Mine, AwaitsAsked, Busy, EntrustIsAtomic, CallsStay
<1>4. ASSUME NEW p \in Procs, Accept(p) PROVE GraphInv' /\ CallsStay
  BY <1>4 DEF Accept, Handles, GraphInv, TypeOK, OwnTasks, Mine, AwaitsAsked, Busy, EntrustIsAtomic, CallsStay
<1>5. ASSUME NEW p \in Procs, Return(p) PROVE GraphInv' /\ CallsStay
  <2>1. Handles(p) /\ version' \in [Procs -> Nat] /\ \A q \in Procs : q # p => version'[q] = version[q]
    <3>1. version' = version \/ version' = [version EXCEPT ![p] = @ + 1]
      BY <1>5 DEF Return
    <3>2. QED
      BY <1>5, <3>1 DEF Return, GraphInv, TypeOK
  <2>2. CASE Reply(p)
    BY <2>1, <2>2, DoneStep DEF Reply
  <2>3. CASE Done(p) /\ UNCHANGED <<state, mailbox, wait, decided, call>>
    BY <2>1, <2>3, DoneStep
  <2>4. QED
    BY <1>5, <2>2, <2>3 DEF Return
<1>6. ASSUME NEW p \in Procs, Panic(p) PROVE GraphInv' /\ CallsStay
  BY <1>6, EndStep DEF Panic, Executes, Handles, GraphInv, TypeOK
<1>7. ASSUME NEW p \in Procs, Timeout(p) \/ Started(p) PROVE GraphInv' /\ CallsStay
  <2>1. wait[p] = NoCall
    BY <1>7 DEF Timeout, Started, Busy, GraphInv, AwaitsAsked
  <2>2. QED
    BY <1>7, <2>1, MoveStep DEF Timeout, Started
<1>7a. ASSUME NEW p \in Procs, Stopped(p) PROVE GraphInv' /\ CallsStay
  BY <1>7a, EndStep DEF Stopped, GraphInv, TypeOK
<1>8. ASSUME NEW p \in Procs, NEW k \in Calls, NEW op \in Ops, NEW q \in Procs,
             Ask(p, k, op, q) \/ Tell(p, k, op, q) \/ ClientSends(k, op, q)
      PROVE  GraphInv' /\ CallsStay
  <2>1. CASE Ask(p, k, op, q)
    BY <2>1, SendStep DEF Ask, Executes, Handles, Busy, GraphInv, TypeOK
  <2>2. CASE Tell(p, k, op, q) \/ ClientSends(k, op, q)
    BY <2>2, SendStep DEF Tell, ClientSends, GraphInv, TypeOK
  <2>3. QED
    BY <1>8, <2>1, <2>2
<1>9. ASSUME NEW k \in Calls, ClientCancels(k) PROVE GraphInv' /\ CallsStay
  BY <1>9, CallerStep DEF ClientCancels, GraphInv, TypeOK
<1>9a. ASSUME NEW p \in Procs, GiveUp(p) PROVE GraphInv' /\ CallsStay
  <2>1. wait[p] \in Calls /\ call[wait[p]].status = "waiting"
    BY <1>9a DEF GiveUp, Waits, GraphInv, TypeOK
  <2>2. QED
    BY <1>9a, <2>1, CallerStep DEF GiveUp, GraphInv, TypeOK
<1>10. QED
  BY <1>1, <1>2, <1>3, <1>4, <1>5, <1>6, <1>7, <1>7a, <1>8, <1>9, <1>9a
     DEF Next, ProcessStep, HandlerStep, Miscast

\* So every state satisfies it.
LEMMA GraphInvariant == Spec => []GraphInv
PROOF
<1>1. Init => GraphInv
  BY EmptySeq DEF Init, GraphInv, TypeOK, OwnTasks, Mine, AwaitsAsked, EntrustIsAtomic
<1>2. GraphInv /\ [Next]_vars => GraphInv'
  BY GraphNext
<1>3. QED
  BY <1>1, <1>2, PTL DEF Spec

\* The variables keep their types.
THEOREM GraphTyped == Spec => []TypeOK
PROOF
<1>1. GraphInv => TypeOK
  BY DEF GraphInv
<1>2. QED
  BY <1>1, GraphInvariant, PTL

\* Nothing comes between the acceptance of an entrusted command and its event.
THEOREM EntrustAtomic == Spec => []EntrustIsAtomic
PROOF
<1>1. GraphInv => EntrustIsAtomic
  BY DEF GraphInv
<1>2. QED
  BY <1>1, GraphInvariant, PTL

----------------------------------------------------------------------------
(* Deadlocks last.                                                         *)

\* An answer that is awaited among processes that are stuck is not given, and who
\* awaits it goes on doing so.
LEMMA StuckStays ==
  ASSUME GraphInv, NEW S \in SUBSET (Procs \ Bounded), Stuck(S), [Next]_vars
  PROVE  Stuck(S)'
PROOF
<1>1. \A p \in S : /\ wait[p] \in Calls /\ wait[p] # NoCall /\ Busy(p) /\ ~Executes(p) /\ ~Handles(p)
                   /\ call[wait[p]].status = "waiting" /\ call[wait[p]].to \in S
  BY DEF Stuck, Waits, Executes, Handles, GraphInv, TypeOK, AwaitsAsked
<1>2. SUFFICES ASSUME NEW q \in S
               PROVE  wait'[q] = wait[q] /\ call'[wait[q]].status = "waiting"
  BY <1>1, GraphNext DEF Stuck, Waits, CallsStay
<1>3. CASE UNCHANGED vars
  BY <1>1, <1>3 DEF vars
\* Whoever ends is not one of S, so that no call awaited in S is lost with it.
<1>4. ASSUME NEW p \in Procs \ S, NEW how, End(p, how)
      PROVE  wait'[q] = wait[q] /\ call'[wait[q]].status = "waiting"
  <2>1. wait[q] # job[p]
    BY <1>1, <1>4 DEF GraphInv, OwnTasks, Mine
  <2>2. wait[q] \notin Range(mailbox[p])
    BY <1>1, <1>4 DEF GraphInv, OwnTasks, Mine, Range
  <2>3. QED
    BY <1>1, <1>4, <2>1, <2>2 DEF End
<1>5. ASSUME NEW p \in Procs, Take(p) \/ Accept(p) \/ Started(p) \/ Timeout(p)
      PROVE  UNCHANGED <<wait, call>>
  BY <1>5 DEF Take, Accept, Started, Timeout
<1>6. ASSUME NEW p \in Procs, Resume(p)
      PROVE  wait'[q] = wait[q] /\ call'[wait[q]].status = "waiting"
  BY <1>1, <1>6 DEF Resume, Waits, GraphInv, TypeOK
<1>7. ASSUME NEW p \in Procs, Return(p)
      PROVE  wait'[q] = wait[q] /\ call'[wait[q]].status = "waiting"
  <2>1. p \notin S
    BY <1>1, <1>7 DEF Return
  <2>3. CASE UNCHANGED <<wait, call>>
    BY <1>1, <2>3
  <2>4. CASE UNCHANGED wait /\ call' = Settle(job[p], "ok")
    <3>1. wait[q] # job[p]
      BY <1>1, <2>1 DEF GraphInv, OwnTasks, Mine
    <3>2. QED
      BY <1>1, <2>4, <3>1 DEF Settle, GraphInv, TypeOK
  <2>5. QED
    BY <1>7, <2>3, <2>4 DEF Return, Reply
<1>8. ASSUME NEW p \in Procs, Panic(p) \/ Stopped(p)
      PROVE  wait'[q] = wait[q] /\ call'[wait[q]].status = "waiting"
  BY <1>1, <1>4, <1>8 DEF Panic, Stopped
<1>9. ASSUME NEW p \in Procs, NEW k \in Calls, NEW op \in Ops, NEW r \in Procs,
             Ask(p, k, op, r) \/ Tell(p, k, op, r) \/ ClientSends(k, op, r)
      PROVE  wait'[q] = wait[q] /\ call'[wait[q]].status = "waiting"
  <2>1. /\ call[k].status = "idle"
        /\ \E s : call' = [call EXCEPT ![k] = s]
        /\ wait' = wait \/ (Executes(p) /\ wait' = [wait EXCEPT ![p] = k])
    BY <1>9 DEF Ask, Tell, ClientSends, Send
  <2>2. QED
    BY <1>1, <2>1 DEF GraphInv, TypeOK
<1>10. ASSUME NEW k \in Calls, ClientCancels(k)
       PROVE  wait'[q] = wait[q] /\ call'[wait[q]].status = "waiting"
  BY <1>1, <1>10 DEF ClientCancels, Settle, GraphInv, TypeOK
\* Who gives up is not one of S, and nobody else awaits the call it gives up: what
\* S awaits is sent to one of S that has it in hand, and is awaited where it was made.
<1>11. ASSUME NEW p \in Procs, GiveUp(p)
       PROVE  wait'[q] = wait[q] /\ call'[wait[q]].status = "waiting"
  <2>1. p \notin S /\ wait[p] # wait[q]
    BY <1>1, <1>11 DEF GiveUp, Waits, GraphInv, AwaitsAsked
  <2>2. QED
    BY <1>1, <1>11, <2>1 DEF GiveUp, Settle, GraphInv, TypeOK
<1>12. QED
  BY <1>1, <1>3, <1>5, <1>6, <1>7, <1>8, <1>9, <1>10, <1>11
     DEF Next, ProcessStep, HandlerStep, Miscast

\* Processes that deadlock without bounding what they await stay so.
THEOREM DeadlocksLast == Spec => DeadlockIsForGood
PROOF
<1>1. GraphInv /\ [Next]_vars => [\A p \in Procs : Hopeless(p) => Hopeless(p)']_vars
  BY StuckStays DEF Hopeless
<1>2. QED
  BY <1>1, GraphInvariant, PTL DEF Spec, DeadlockIsForGood

----------------------------------------------------------------------------
(* A stall is a deadlock.                                                  *)

\* p has the call k in hand: it executes its task, or has it queued.
InHand(k, p) == job[p] = k \/ \E n \in DOMAIN mailbox[p] : mailbox[p][n] = k

\* Whoever is waited for has the call in hand; tasks are executed in the loop only, and
\* who has ended has none queued.
Attended ==
  /\ \A k \in Calls : call[k].status = "waiting" =>
       call[k].op \in Awaited /\ call[k].to \in Procs /\ InHand(k, call[k].to)
  /\ \A p \in Procs : /\ state[p] # "up" => job[p] = NoCall
                      /\ state[p] \in Ended => mailbox[p] = <<>>

\* A process that ends leaves no caller of its own waiting.
LEMMA EndAttends ==
  ASSUME GraphInv, Attended, NEW p \in Procs, NEW how, End(p, how)
  PROVE  Attended'
PROOF
<1>1. /\ state' = [state EXCEPT ![p] = how] /\ mailbox' = [mailbox EXCEPT ![p] = <<>>]
      /\ job' = [job EXCEPT ![p] = NoCall]
  BY DEF End
<1>2. ASSUME NEW k \in Calls, call'[k].status = "waiting"
      PROVE  call'[k].op \in Awaited /\ call'[k].to \in Procs /\ InHand(k, call[k].to)'
  <2>1. call'[k] = call[k] /\ k # job[p] /\ \A n \in DOMAIN mailbox[p] : mailbox[p][n] # k
    <3>1. CASE k \in Range(mailbox[p]) \cup {job[p]} /\ call[k].status = "waiting"
      <4>1. call'[k] = With(call[k], "dropped") /\ call[k] \in Call
        BY <3>1 DEF End, With, GraphInv, TypeOK, Call
      <4>2. call'[k].status = "dropped"
        BY <4>1, WithCall
      <4>3. QED
        BY <1>2, <4>2
    <3>2. CASE ~(k \in Range(mailbox[p]) \cup {job[p]} /\ call[k].status = "waiting")
      BY <1>2, <3>2 DEF End, Range
    <3>3. QED
      BY <3>1, <3>2
  <2>2. call[k].op \in Awaited /\ call[k].to \in Procs /\ InHand(k, call[k].to) /\ call[k].to # p
    BY <1>2, <2>1 DEF Attended, InHand
  <2>3. job'[call[k].to] = job[call[k].to] /\ mailbox'[call[k].to] = mailbox[call[k].to]
    BY <1>1, <2>2 DEF GraphInv, TypeOK
  <2>4. QED
    BY <2>1, <2>2, <2>3 DEF InHand
<1>3. QED
  BY <1>1, <1>2 DEF Attended, GraphInv, TypeOK

\* A call that is made is queued where somebody will take it, or not waited for.
LEMMA SendAttends ==
  ASSUME GraphInv, Attended, NEW k \in Calls, NEW op \in Ops, NEW q \in Procs, Send(k, op, q)
  PROVE  Attended'
PROOF
<1>1. /\ UNCHANGED <<state, job>> /\ \A j \in Calls \ {k} : call'[j] = call[j]
      /\ mailbox \in [Procs -> Seq(Calls)] /\ mailbox[q] \in Seq(Calls)
  BY DEF Send, GraphInv, TypeOK
<1>2. CASE state[q] \in Ended
  <2>1. UNCHANGED mailbox /\ call'[k].status = "dropped"
    BY <1>2 DEF Send, GraphInv, TypeOK
  <2>2. QED
    BY <1>1, <2>1 DEF Attended, InHand
<1>3. CASE state[q] \notin Ended
  <2>1. /\ mailbox' = [mailbox EXCEPT ![q] = Append(@, k)]
        /\ call'[k].to = q /\ (call'[k].status = "waiting" => call'[k].op \in Awaited)
    BY <1>3 DEF Send, GraphInv, TypeOK
  <2>2. /\ DOMAIN mailbox[q] \subseteq DOMAIN Append(mailbox[q], k)
        /\ \A n \in DOMAIN mailbox[q] : Append(mailbox[q], k)[n] = mailbox[q][n]
        /\ Len(mailbox[q]) + 1 \in DOMAIN Append(mailbox[q], k)
        /\ Append(mailbox[q], k)[Len(mailbox[q]) + 1] = k
    BY <1>1, AppendProperties, LenProperties
  <2>3. InHand(k, q)'
    BY <1>1, <2>1, <2>2 DEF InHand
  <2>4. ASSUME NEW j, NEW p \in Procs, InHand(j, p) PROVE InHand(j, p)'
    BY <1>1, <2>1, <2>2, <2>4 DEF InHand
  <2>5. ASSUME NEW j \in Calls, call'[j].status = "waiting"
        PROVE  call'[j].op \in Awaited /\ call'[j].to \in Procs /\ InHand(j, call[j].to)'
    <3>1. CASE j = k
      BY <2>1, <2>3, <2>5, <3>1
    <3>2. CASE j # k
      <4>1. call'[j] = call[j] /\ call[j].op \in Awaited /\ call[j].to \in Procs /\ InHand(j, call[j].to)
        BY <1>1, <2>5, <3>2 DEF Attended
      <4>2. InHand(j, call[j].to)'
        BY <2>4, <4>1
      <4>3. QED
        BY <4>1, <4>2 DEF InHand
    <3>3. QED
      BY <3>1, <3>2
  <2>6. \A p \in Procs : /\ state'[p] # "up" => job'[p] = NoCall
                         /\ state'[p] \in Ended => mailbox'[p] = <<>>
    BY <1>1, <1>3, <2>1 DEF Attended
  <2>7. QED
    BY <2>5, <2>6 DEF Attended
<1>4. QED
  BY <1>2, <1>3

\* A process that is done with a task has answered its caller, if one waited.
LEMMA DoneAttends ==
  ASSUME GraphInv, Attended, NEW p \in Procs, Done(p), UNCHANGED mailbox, job[p] # NoCall,
         UNCHANGED state \/ state' = [state EXCEPT ![p] = "stopping"],
         \/ UNCHANGED call /\ (call[job[p]].op \in Unawaited \/ call[job[p]].status # "waiting")
         \/ call[job[p]].status = "waiting" /\ call' = Settle(job[p], "ok")
  PROVE  Attended'
PROOF
<1>1. /\ job' = [job EXCEPT ![p] = NoCall] /\ job \in [Procs -> Calls \cup {NoCall}] /\ job[p] \in Calls
      /\ call'[job[p]].status # "waiting" /\ \A k \in Calls \ {job[p]} : call'[k] = call[k]
  <2>1. job' = [job EXCEPT ![p] = NoCall] /\ job \in [Procs -> Calls \cup {NoCall}] /\ job[p] \in Calls
    BY DEF Done, GraphInv, TypeOK
  <2>2. CASE UNCHANGED call /\ (call[job[p]].op \in Unawaited \/ call[job[p]].status # "waiting")
    BY <2>1, <2>2 DEF Attended
  <2>3. CASE call' = Settle(job[p], "ok")
    BY <2>1, <2>3 DEF Settle, GraphInv, TypeOK
  <2>4. QED
    BY <2>1, <2>2, <2>3
<1>2. ASSUME NEW k \in Calls, call'[k].status = "waiting"
      PROVE  call'[k].op \in Awaited /\ call'[k].to \in Procs /\ InHand(k, call[k].to)'
  <2>1. call'[k] = call[k] /\ k # job[p]
    BY <1>1, <1>2
  <2>2. call[k].op \in Awaited /\ call[k].to \in Procs /\ InHand(k, call[k].to)
    BY <1>2, <2>1 DEF Attended
  <2>3. job'[call[k].to] = job[call[k].to] \/ job[call[k].to] # k
    BY <1>1, <2>1, <2>2
  <2>4. QED
    BY <2>1, <2>2, <2>3 DEF InHand
<1>3. \A q \in Procs : state'[q] \in Ended => state[q] \in Ended
  BY DEF GraphInv, TypeOK
<1>4. \A q \in Procs : state'[q] # "up" => job'[q] = NoCall
  BY <1>1 DEF Attended, GraphInv, TypeOK
<1>5. QED
  BY <1>2, <1>3, <1>4 DEF Attended

\* A process has the task that it takes in hand as before.
LEMMA TakeAttends ==
  ASSUME GraphInv, Attended, NEW p \in Procs, Take(p)
  PROVE  Attended'
PROOF
<1>1. /\ job' = [job EXCEPT ![p] = Head(mailbox[p])] /\ mailbox' = [mailbox EXCEPT ![p] = Tail(@)]
      /\ UNCHANGED <<state, call>> /\ state[p] = "up" /\ job[p] = NoCall
      /\ mailbox[p] \in Seq(Calls) /\ mailbox[p] # <<>>
      /\ job \in [Procs -> Calls \cup {NoCall}] /\ mailbox \in [Procs -> Seq(Calls)]
  BY DEF Take, GraphInv, TypeOK
<1>2. /\ Head(mailbox[p]) = mailbox[p][1]
      /\ \A n \in DOMAIN mailbox[p] : n = 1 \/ (n - 1 \in DOMAIN Tail(mailbox[p]) /\ Tail(mailbox[p])[n - 1] = mailbox[p][n])
  BY <1>1, HeadTailProperties, LenProperties, EmptySeq
<1>3. ASSUME NEW k \in Calls, NEW q \in Procs, InHand(k, q) PROVE InHand(k, q)'
  <2>1. CASE q = p
    BY <1>1, <1>2, <1>3, <2>1, CallGraphAssumption DEF InHand, CallGraphAssumption
  <2>2. CASE q # p
    BY <1>1, <1>3, <2>2 DEF InHand
  <2>3. QED
    BY <2>1, <2>2
<1>4. ASSUME NEW k \in Calls, call'[k].status = "waiting"
      PROVE  call'[k].op \in Awaited /\ call'[k].to \in Procs /\ InHand(k, call[k].to)'
  <2>1. call'[k] = call[k] /\ call[k].op \in Awaited /\ call[k].to \in Procs /\ InHand(k, call[k].to)
    BY <1>1, <1>4 DEF Attended
  <2>2. InHand(k, call[k].to)'
    BY <1>3, <2>1
  <2>3. QED
    BY <1>1, <2>1, <2>2 DEF InHand
<1>5. QED
  BY <1>1, <1>4 DEF Attended

\* Every step keeps it.
LEMMA AttendedNext == GraphInv /\ Attended /\ [Next]_vars => Attended'
PROOF
<1> SUFFICES ASSUME GraphInv, Attended, [Next]_vars PROVE Attended'
  OBVIOUS
<1>1. ASSUME UNCHANGED <<state, mailbox, job, call>> PROVE Attended'
  BY <1>1 DEF Attended, InHand
<1>2. ASSUME NEW p \in Procs, Return(p) PROVE Attended'
  <2>1. job[p] # NoCall
    BY <1>2 DEF Return, Handles
  <2>2. CASE Reply(p)
    BY <2>1, <2>2, DoneAttends DEF Reply
  <2>3. CASE Op(p) \in Unawaited /\ Done(p) /\ UNCHANGED <<state, mailbox, call>>
    BY <2>1, <2>3, DoneAttends DEF Op
  <2>4. QED
    BY <1>2, <2>2, <2>3 DEF Return
<1>3. ASSUME NEW p \in Procs, Panic(p) \/ Stopped(p) PROVE Attended'
  BY <1>3, EndAttends DEF Panic, Stopped
\* From the start hook to the loop, and from it, between tasks, to the stop hook.
<1>3a. ASSUME NEW p \in Procs, Started(p) \/ Timeout(p) PROVE Attended'
  <2>1. /\ UNCHANGED <<mailbox, job, call>> /\ job[p] = NoCall
        /\ \A q \in Procs : q # p => state'[q] = state[q]
        /\ state'[p] \notin Ended
    BY <1>3a DEF Started, Timeout, Attended, GraphInv, TypeOK
  <2>2. QED
    BY <2>1 DEF Attended, InHand
<1>4. ASSUME NEW p, NEW k \in Calls, NEW op \in Ops, NEW q \in Procs,
             Ask(p, k, op, q) \/ Tell(p, k, op, q) \/ ClientSends(k, op, q)
      PROVE  Attended'
  BY <1>4, SendAttends DEF Ask, Tell, ClientSends
<1>5. ASSUME NEW k \in Calls, call' = Settle(k, "cancelled"), UNCHANGED <<state, mailbox, job>>
      PROVE  Attended'
  <2>1. call'[k].status = "cancelled" /\ \A j \in Calls \ {k} : call'[j] = call[j]
    BY <1>5 DEF Settle, GraphInv, TypeOK
  <2>2. QED
    BY <1>5, <2>1 DEF Attended, InHand
<1>5a. ASSUME NEW k \in Calls, ClientCancels(k) PROVE Attended'
  BY <1>5, <1>5a DEF ClientCancels
<1>5b. ASSUME NEW p \in Procs, GiveUp(p) PROVE Attended'
  BY <1>5, <1>5b DEF GiveUp, Waits, GraphInv, TypeOK
<1>6. ASSUME NEW p \in Procs, Resume(p) \/ Accept(p) PROVE UNCHANGED <<state, mailbox, job, call>>
  BY <1>6 DEF Resume, Accept
<1>7. CASE UNCHANGED vars
  BY <1>1, <1>7 DEF vars
<1>8. QED
  BY <1>1, <1>2, <1>3, <1>3a, <1>4, <1>5a, <1>5b, <1>6, <1>7, TakeAttends
     DEF Next, ProcessStep, HandlerStep, Miscast

\* Where nothing moves any more, whoever is waited for waits as well, for one that is
\* waited for: of all the processes that wait each awaits one of them.
LEMMA StalledIsStuck ==
  ASSUME GraphInv, Attended, \A p \in Procs : Idle(p) \/ Waits(p)
  PROVE  StallIsDeadlock
PROOF
<1>1. ASSUME NEW k \in Calls, call[k].status = "waiting"
      PROVE  call[k].to \in Procs /\ Waits(call[k].to)
  <2>1. call[k].to \in Procs /\ InHand(k, call[k].to)
    BY <1>1 DEF Attended
  <2>2. ~Idle(call[k].to)
    BY <2>1, EmptySeq, CallGraphAssumption
    DEF CallGraphAssumption, Idle, Busy, InHand, Attended, GraphInv, TypeOK
  <2>3. QED
    BY <2>1, <2>2
<1> DEFINE S == {q \in Procs : Waits(q)}
<1>2. Stuck(S)
  BY <1>1 DEF Stuck, Waits, GraphInv, TypeOK
<1>3. QED
  BY <1>1, <1>2 DEF StallIsDeadlock, Deadlocked

\* Callers are stranded by deadlocks only: in a system in which nothing moves, every
\* call that is still awaited is one to a process of a deadlock.
THEOREM StallsAreDeadlocks == Spec => []StallIsDeadlock
PROOF
<1>1. Init => Attended
  BY DEF Init, Attended
<1>2. Spec => []Attended
  BY <1>1, AttendedNext, GraphInvariant, PTL DEF Spec
<1>3. GraphInv /\ Attended => StallIsDeadlock
  BY StalledIsStuck DEF StallIsDeadlock
<1>4. QED
  BY <1>2, <1>3, GraphInvariant, PTL

\* Where every set of processes has one that may await none of the set, which is so of
\* a graph of awaits without cycles, nothing deadlocks; and what does not move any
\* more has answered every caller.
THEOREM AcyclicGraphsAnswer ==
  ASSUME \A S \in SUBSET Procs : S # {} => \E q \in S : MayAsk[q] \cap S = {}
  PROVE  Spec => [](/\ \A p \in Procs : ~Deadlocked(p)
                    /\ (\A p \in Procs : Idle(p) \/ Waits(p)) =>
                         \A k \in Calls : call[k].status # "waiting")
PROOF
<1>1. GraphInv => \A p \in Procs : ~Deadlocked(p)
  BY DEF GraphInv, AwaitsAsked, Deadlocked, Stuck, Waits
<1>2. GraphInv /\ StallIsDeadlock =>
        /\ \A p \in Procs : ~Deadlocked(p)
        /\ (\A p \in Procs : Idle(p) \/ Waits(p)) => \A k \in Calls : call[k].status # "waiting"
  BY <1>1 DEF StallIsDeadlock, Deadlocked
<1>3. QED
  BY <1>2, GraphInvariant, StallsAreDeadlocks, PTL
=============================================================================
