----------------------------- MODULE PubSubProofs -----------------------------
(***************************************************************************)
(* Forwarders and the Receptors they hold are nothing new to the lifecycle *)
(* of processes, nor processes to the stream; and what one process applies *)
(* and publishes reaches the apply of another in order and at most once.   *)
(* For any processes, any number of forwarders and any mappings.           *)
(***************************************************************************)
EXTENDS PubSub, SequenceTheorems, TLAPS

\* Whether anyone but the registry holds a Receptor, as Lifecycle sees it.
Held == [p \in Procs |-> client[p] \/ \E r \in Forwarders : Holds(r, p)]

\* Whoever awaits an answer is a caller that holds its Receptor: forwarders entrust.
PubInv ==
  /\ client \in [Procs -> BOOLEAN]
  /\ target \in [Forwarders -> Procs \cup {NoProc}]
  /\ registry \in [Ids -> Procs \cup {NoProc}]
  /\ reader \in [Readers -> S!States]
  /\ call \in [Calls -> [status : L!Statuses, op : L!Ops, to : Procs \cup {NoProc}]]
  /\ \A k \in Calls : call[k].status = "waiting" => call[k].to \in Procs /\ client[call[k].to]

\* Cursors count events, and who reads holds the Receptor of a process.
StreamInv ==
  /\ log \in Seq(Types) /\ Len(log) <= MaxEvents
  /\ next \in [Readers -> Nat]
  /\ \A r \in Forwarders : reader[r] # "off" => target[r] \in Procs

\* Every call that is waiting afterwards was so before.
NoNewWaiters ==
  /\ call' \in [Calls -> [status : L!Statuses, op : L!Ops, to : Procs \cup {NoProc}]]
  /\ \A k \in Calls : call'[k].status = "waiting" => call'[k] = call[k]

\* The steps of processes make nobody wait, and leave the registry well typed.
LEMMA ProcessMoves ==
  ASSUME PubInv, NEW p \in Procs,
         L!Run(p) \/ L!ProcessStep(p) \/ L!Timeout(p) \/ L!Poison(p)
  PROVE  NoNewWaiters /\ registry' \in [Ids -> Procs \cup {NoProc}]
PROOF
<1>1. CASE UNCHANGED <<registry, call>>
  BY <1>1 DEF PubInv, NoNewWaiters
<1>2. CASE L!RunInsert(p) \/ L!DeregisterRemove(p)
  BY <1>2 DEF L!RunInsert, L!DeregisterRemove, PubInv, NoNewWaiters
<1>3. CASE L!Task(p)
  <2>1. UNCHANGED registry
    BY <1>3 DEF L!Task, L!HandleCommand, L!ApplyEvent, L!EntrustCommand, L!ReceiveMessage
  <2>2. CASE UNCHANGED call
    BY <2>1, <2>2 DEF PubInv, NoNewWaiters
  <2>3. CASE \E k : call' = [call EXCEPT ![k].status = "ok"]
    <3>1. PICK k : call' = [call EXCEPT ![k].status = "ok"]
      BY <2>3
    <3>2. call' = [j \in Calls |-> IF j = k THEN [call[j] EXCEPT !.status = "ok"] ELSE call[j]]
      BY <3>1 DEF PubInv
    <3>3. QED
      BY <2>1, <3>2 DEF PubInv, NoNewWaiters, L!Statuses
  <2>4. QED
    BY <1>3, <2>2, <2>3 DEF L!Task, L!HandleCommand, L!ApplyEvent, L!EntrustCommand, L!ReceiveMessage,
                            L!Reply, L!Settle
<1>4. CASE L!Exit(p) \/ L!Panic(p)
  <2>1. UNCHANGED registry
    BY <1>4 DEF L!Exit, L!Panic
  <2>2. PICK dropped \in SUBSET Calls :
          call' = [k \in Calls |-> IF k \in dropped THEN [call[k] EXCEPT !.status = "dropped"] ELSE call[k]]
    <3> DEFINE D == {k \in Calls : k \in L!Range(mailbox[p]) /\ call[k].status = "waiting"}
    <3>1. call' = [k \in Calls |-> IF k \in D THEN [call[k] EXCEPT !.status = "dropped"] ELSE call[k]]
      BY <1>4 DEF L!Exit, L!Panic, L!CloseChannel
    <3>2. QED
      BY <3>1
  <2>3. QED
    BY <2>1, <2>2 DEF PubInv, NoNewWaiters, L!Statuses
<1>5. QED
  BY <1>1, <1>2, <1>3, <1>4
     DEF L!Run, L!RunRefused, L!RunAllowed, L!RunCancelled, L!ProcessStep, L!Start, L!Orphaned, L!Stop,
         L!DeregisterMiss, L!DeregisterHit, L!Timeout, L!Poison, L!Pass

\* The calls of callers are theirs, and those of forwarders do not wait.
LEMMA CallMoves ==
  ASSUME PubInv, NEW k \in Calls, NEW op \in L!Ops, NEW p \in Procs \cup {NoProc},
         op \in {"handle", "apply"} => p \in Procs /\ client[p],
         L!Send(k, op, p), UNCHANGED <<client, target, reader>>
  PROVE  PubInv'
PROOF
<1>1. \E s \in {"waiting", "sent", "dropped"} :
        /\ call' = [call EXCEPT ![k] = [status |-> s, op |-> op, to |-> p]]
        /\ s = "waiting" => op \in {"handle", "apply"}
  BY DEF L!Send
<1>2. UNCHANGED registry
  BY DEF L!Send
<1>3. QED
  BY <1>1, <1>2 DEF PubInv, L!Statuses

\* A reader's step leaves it a reader.
LEMMA ReaderMoves ==
  ASSUME PubInv, NEW r \in Readers,
         S!Receive(r) \/ S!Lagged(r) \/ S!Check(r) \/ S!Panic(r) \/ S!Subscribe(r)
  PROVE  \E s \in S!States : reader' = reader \/ reader' = [reader EXCEPT ![r] = s]
  BY DEF S!Receive, S!Lagged, S!Check, S!Panic, S!Subscribe, S!Goto, S!States

\* Every step keeps the invariant.
LEMMA PubNext ==
  ASSUME PubSubAssumption
  PROVE  PubInv /\ [Next]_vars => PubInv'
PROOF
<1> SUFFICES ASSUME PubInv, [Next]_vars PROVE PubInv'
  OBVIOUS
<1>1. CASE UNCHANGED vars
  BY <1>1 DEF vars, lvars, svars, PubInv
<1>2. ASSUME NoNewWaiters, registry' \in [Ids -> Procs \cup {NoProc}],
             client' \in [Procs -> BOOLEAN], \A p \in Procs : client[p] => client'[p],
             target' \in [Forwarders -> Procs \cup {NoProc}], reader' \in [Readers -> S!States]
      PROVE  PubInv'
  BY <1>2 DEF PubInv, NoNewWaiters
<1>3. UNCHANGED call => NoNewWaiters
  BY DEF PubInv, NoNewWaiters
<1>4. ASSUME NEW p \in Procs, Spawn(p) PROVE PubInv'
  <2>1. NoNewWaiters /\ registry' \in [Ids -> Procs \cup {NoProc}]
    BY <1>4, ProcessMoves DEF Spawn
  <2>2. UNCHANGED <<target, reader>> /\ client' \in [Procs -> BOOLEAN] /\ \A q \in Procs : client[q] => client'[q]
    BY <1>4 DEF Spawn, svars, PubInv
  <2>3. QED
    BY <1>2, <2>1, <2>2 DEF PubInv
<1>5. ASSUME NEW r \in Forwarders, Subscribe(r) PROVE PubInv'
  <2>1. IdOf[Serves[r]] \in Ids /\ registry[IdOf[Serves[r]]] \in Procs \cup {NoProc}
    BY PubSubAssumption DEF PubSubAssumption, PubInv
  <2>2. UNCHANGED <<client, registry, call>> /\ target' = [target EXCEPT ![r] = registry[IdOf[Serves[r]]]]
    BY <1>5 DEF Subscribe, L!Find
  <2>3. reader' \in [Readers -> S!States]
    BY <1>5 DEF Subscribe, S!Subscribe, S!Goto, S!States, PubInv
  <2>4. QED
    BY <2>1, <2>2, <2>3 DEF PubInv
<1>6. ASSUME NEW p \in Procs, Start(p) \/ Publish(p) \/ Task(p) \/ Dies(p) \/ Leave(p)
      PROVE  PubInv'
  <2>1. UNCHANGED <<client, target, reader>>
    BY <1>6 DEF Start, Publish, S!Publish, Task, Dies, Leave, Alone, svars
  <2>2. \/ L!Run(p) \/ L!ProcessStep(p) \/ L!Timeout(p) \/ L!Poison(p)
        \/ UNCHANGED <<registry, call>>
    BY <1>6 DEF Start, Publish, Task, Dies, Leave, L!ProcessStep, lvars
  <2>3. NoNewWaiters /\ registry' \in [Ids -> Procs \cup {NoProc}]
    BY <1>3, <2>2, ProcessMoves DEF PubInv
  <2>4. QED
    BY <1>2, <2>1, <2>3 DEF PubInv
<1>7. ASSUME NEW p \in Procs, ClientDrops(p) PROVE PubInv'
  BY <1>7 DEF ClientDrops, PubInv, lvars, svars
<1>8. ASSUME NEW r \in Forwarders, Forward(r) PROVE PubInv'
  <2>1. r \in Readers /\ target[r] \in Procs \cup {NoProc}
    BY DEF Readers, PubInv
  <2>2. reader' \in [Readers -> S!States]
    BY <1>8, <2>1, ReaderMoves DEF Forward, PubInv
  <2>3. CASE UNCHANGED lvars
    BY <1>8, <2>2, <2>3 DEF Forward, PubInv, lvars
  <2>4. CASE L!Send(<<r, next'[r]>>, "entrust", target[r])
    <3>1. /\ UNCHANGED <<client, target, registry>>
          /\ \E s \in {"sent", "dropped"} :
               call' = [call EXCEPT ![<<r, next'[r]>>] = [status |-> s, op |-> "entrust", to |-> target[r]]]
      BY <1>8, <2>4 DEF Forward, L!Send
    <3> DEFINE k == <<r, next'[r]>>
    <3>2. PICK s \in {"sent", "dropped"} :
            call' = [call EXCEPT ![k] = [status |-> s, op |-> "entrust", to |-> target[r]]]
      BY <3>1
    <3> HIDE DEF k
    <3>3. call' = [j \in Calls |-> IF j = k THEN [status |-> s, op |-> "entrust", to |-> target[r]] ELSE call[j]]
      BY <3>2 DEF PubInv
    <3>4. NoNewWaiters
      BY <2>1, <3>3 DEF PubInv, NoNewWaiters, L!Statuses, L!Ops
    <3>5. QED
      BY <1>2, <2>2, <3>1, <3>4 DEF PubInv
  <2>5. QED
    BY <1>8, <2>3, <2>4 DEF Forward
<1>9. ASSUME NEW r \in Readers, UNCHANGED <<lvars, client, target, announced>>,
             S!Receive(r) \/ S!Lagged(r) \/ S!Check(r) \/ S!Panic(r)
      PROVE  PubInv'
  <2>1. reader' \in [Readers -> S!States]
    BY <1>9, ReaderMoves DEF PubInv
  <2>2. QED
    BY <1>9, <2>1 DEF PubInv, lvars
<1>10. ASSUME NEW r \in Forwarders, Lags(r) \/ Check(r) \/ ForwarderDies(r) PROVE PubInv'
  BY <1>9, <1>10 DEF Lags, Check, ForwarderDies, Readers
<1>11. CASE DeadLetterStep
  BY <1>9, <1>11 DEF DeadLetterStep, Readers
<1>12. ASSUME NEW p \in Procs, Poison(p) PROVE PubInv'
  BY <1>12 DEF Poison, Alone, L!Poison, svars, PubInv
<1>13. ASSUME NEW k \in Calls, ClientCancels(k) PROVE PubInv'
  <2>1. call' = [call EXCEPT ![k].status = "cancelled"] /\ UNCHANGED <<client, target, reader, registry>>
    BY <1>13 DEF ClientCancels, Alone, L!Cancel, L!Settle, svars
  <2>2. call' = [j \in Calls |-> IF j = k THEN [call[j] EXCEPT !.status = "cancelled"] ELSE call[j]]
    BY <2>1 DEF PubInv
  <2>3. NoNewWaiters
    BY <2>2 DEF PubInv, NoNewWaiters, L!Statuses
  <2>4. QED
    BY <1>2, <2>1, <2>3 DEF PubInv
<1>14. ASSUME NEW k \in Calls, NEW op \in L!Ops, NEW p \in Procs, ClientCalls(k, op, p) PROVE PubInv'
  BY <1>14, CallMoves DEF ClientCalls, Alone, svars
<1>15. QED
  BY <1>1, <1>4, <1>5, <1>6, <1>7, <1>8, <1>10, <1>11, <1>12, <1>13, <1>14
     DEF Next, ProcessStep, ForwarderStep

\* And cursors and targets as they are.
LEMMA StreamNext ==
  ASSUME PubSubAssumption
  PROVE  PubInv /\ StreamInv /\ [Next]_vars => StreamInv'
PROOF
<1> SUFFICES ASSUME PubInv, StreamInv, [Next]_vars PROVE StreamInv'
  OBVIOUS
<1>1. ASSUME UNCHANGED <<log, next, reader, target>> PROVE StreamInv'
  BY <1>1 DEF StreamInv
<1>2. ASSUME NEW p \in Procs, Publish(p) PROVE StreamInv'
  <2>1. /\ UNCHANGED <<next, reader, target>> /\ Len(log) < MaxEvents
        /\ log' = log \/ log' = Append(log, TypeOf[p])
    <3>1. S!Publish(TypeOf[p]) /\ UNCHANGED target
      BY <1>2 DEF Publish
    <3>2. UNCHANGED <<next, reader>> /\ S!Sent < MaxEvents
      BY <3>1 DEF S!Publish
    <3>3. log' = log \/ log' = Append(log, TypeOf[p])
      BY <3>1, Zenon DEF S!Publish
    <3>4. QED
      BY <3>1, <3>2, <3>3 DEF S!Sent
  <2>2. TypeOf[p] \in Types /\ MaxEvents \in Nat
    BY <1>2, PubSubAssumption DEF PubSubAssumption, Publish
  <2>3. log' \in Seq(Types) /\ Len(log') <= MaxEvents
    <3>1. log \in Seq(Types) /\ Len(log) \in Nat
      BY DEF StreamInv
    <3>2. Append(log, TypeOf[p]) \in Seq(Types) /\ Len(Append(log, TypeOf[p])) = Len(log) + 1
      BY <2>2, <3>1, AppendProperties
    <3>3. CASE log' = log
      BY <3>3 DEF StreamInv
    <3>4. CASE log' = Append(log, TypeOf[p])
      BY <2>1, <2>2, <3>1, <3>2, <3>4
    <3>5. QED
      BY <2>1, <3>3, <3>4
  <2>4. QED
    BY <2>1, <2>3 DEF StreamInv
<1>3. ASSUME NEW r \in Forwarders, Subscribe(r) PROVE StreamInv'
  <2>1. /\ reader' = [reader EXCEPT ![r] = "listening"] /\ next' = [next EXCEPT ![r] = Len(log)]
        /\ target' = [target EXCEPT ![r] = registry[IdOf[Serves[r]]]] /\ UNCHANGED log
        /\ registry[IdOf[Serves[r]]] # NoProc
    BY <1>3 DEF Subscribe, S!Subscribe, S!Goto, S!Sent
  <2>2. registry[IdOf[Serves[r]]] \in Procs
    BY <2>1, PubSubAssumption DEF PubSubAssumption, PubInv
  <2>3. QED
    BY <2>1, <2>2 DEF StreamInv, PubInv, Readers
<1>4. ASSUME NEW r \in Readers, UNCHANGED target,
             S!Receive(r) \/ S!Lagged(r) \/ S!Check(r) \/ S!Panic(r)
      PROVE  StreamInv'
  <2>1. /\ UNCHANGED log /\ reader[r] # "off"
        /\ \A q \in Readers : q # r => reader'[q] = reader[q]
    BY <1>4 DEF S!Receive, S!Lagged, S!Check, S!Panic, S!Goto, PubInv
  <2>2. S!Oldest \in Nat
    BY PubSubAssumption DEF PubSubAssumption, StreamInv, S!Oldest, S!Sent
  <2>3. next' \in [Readers -> Nat]
    BY <1>4, <2>2 DEF S!Receive, S!Lagged, S!Check, S!Panic, StreamInv
  <2>4. QED
    BY <1>4, <2>1, <2>3 DEF StreamInv, Readers
<1>5. CASE UNCHANGED vars
  BY <1>1, <1>5 DEF vars, svars
<1>6. ASSUME NEW p \in Procs,
             Spawn(p) \/ Start(p) \/ Task(p) \/ Dies(p) \/ Leave(p) \/ Poison(p) \/ ClientDrops(p)
      PROVE  StreamInv'
  BY <1>1, <1>6 DEF Spawn, Start, Task, Dies, Leave, Poison, ClientDrops, Alone, svars
<1>7. ASSUME NEW r \in Forwarders, ForwarderStep(r) PROVE StreamInv'
  BY <1>1, <1>4, <1>7 DEF ForwarderStep, Forward, Lags, Check, ForwarderDies, Readers
<1>8. CASE DeadLetterStep
  BY <1>4, <1>8 DEF DeadLetterStep, Readers
<1>9. ASSUME NEW k, NEW op, NEW p, ClientCancels(k) \/ ClientCalls(k, op, p) PROVE StreamInv'
  BY <1>1, <1>9 DEF ClientCancels, ClientCalls, Alone, svars
<1>10. QED
  BY <1>2, <1>3, <1>5, <1>6, <1>7, <1>8, <1>9 DEF Next, ProcessStep

----------------------------------------------------------------------------
(* Steps of the lifecycle.                                                 *)

\* Whoever lets go of the last Receptor outside the registry drops it.
LEMMA LetsGo ==
  ASSUME NEW p \in Procs, UNCHANGED lvars,
         \A q \in Procs : Held'[q] # Held[q] =>
           q = p /\ ~Held'[p] /\ \A k \in Calls : ~(call[k].status = "waiting" /\ call[k].to = p)
  PROVE  L!Drop(p) \/ UNCHANGED L!vars
PROOF
<1>1. Held \in [Procs -> BOOLEAN] /\ Held' \in [Procs -> BOOLEAN]
  <2>1. \A q \in Procs : Held[q] \in BOOLEAN /\ Held'[q] \in BOOLEAN
    BY DEF Held
  <2>2. QED
    BY <2>1 DEF Held
<1>2. CASE Held' = Held
  BY <1>2 DEF L!vars, lvars, Held
<1>3. CASE Held' # Held
  <2>1. PICK q \in Procs : Held'[q] # Held[q]
    BY <1>1, <1>3
  <2>2. /\ ~Held'[p] /\ Held[p]
        /\ \A k \in Calls : ~(call[k].status = "waiting" /\ call[k].to = p)
    BY <1>1, <2>1
  <2>3. Held' = [Held EXCEPT ![p] = FALSE]
    BY <1>1, <2>2
  <2>4. QED
    BY <2>2, <2>3 DEF L!Drop, lvars, Held
<1>4. QED
  BY <1>2, <1>3

\* A reader's step takes at most one Receptor from a forwarder.
LEMMA ReaderHolds ==
  ASSUME PubSubAssumption, PubInv, UNCHANGED <<lvars, client, target>>, NEW r \in Readers,
         S!Receive(r) \/ S!Lagged(r) \/ S!Check(r) \/ S!Panic(r)
  PROVE  L!Next \/ UNCHANGED L!vars
PROOF
<1>1. /\ \A q \in Forwarders : q # r => reader'[q] = reader[q]
      /\ reader[r] \in {"listening", "checking"}
  BY DEF S!Receive, S!Lagged, S!Check, S!Panic, S!Goto, PubInv, Readers
<1>2. ASSUME NEW q \in Procs, Held'[q] # Held[q]
      PROVE  r \in Forwarders /\ q = target[r] /\ ~Held'[q] /\ Held[q]
  <2>1. \A f \in Forwarders : f # r => (Holds(f, q)' <=> Holds(f, q))
    BY <1>1 DEF Holds
  <2>2. r \in Forwarders /\ (Holds(r, q)' # Holds(r, q))
    BY <1>2, <2>1 DEF Held
  <2>3. Holds(r, q)
    BY <1>1, <2>2 DEF Holds
  <2>4. QED
    BY <1>2, <2>1, <2>2, <2>3 DEF Held, Holds
<1>3. ASSUME NEW q \in Procs, ~Held'[q], NEW k \in Calls
      PROVE  ~(call[k].status = "waiting" /\ call[k].to = q)
  BY <1>3 DEF Held, PubInv
<1>4. CASE \A q \in Procs : Held'[q] = Held[q]
  BY <1>4 DEF Held, L!vars, lvars
<1>5. ASSUME NEW p \in Procs, Held'[p] # Held[p] PROVE L!Drop(p) \/ UNCHANGED L!vars
  BY <1>2, <1>3, <1>5, LetsGo
<1>6. QED
  BY <1>4, <1>5 DEF L!Next

\* Every step is one of the lifecycle, or changes nothing in it.
LEMMA LifecycleStep ==
  ASSUME PubSubAssumption
  PROVE  PubInv /\ StreamInv /\ [Next]_vars => [L!Next /\ L!NoOverlap']_(L!vars)
PROOF
<1> SUFFICES ASSUME PubInv, StreamInv, [Next]_vars PROVE [L!Next /\ L!NoOverlap']_(L!vars)
  OBVIOUS
<1>1. CASE UNCHANGED vars
  BY <1>1 DEF vars, lvars, svars, L!vars, Holds
<1>2. CASE Next
  <2> SUFFICES L!Next \/ UNCHANGED L!vars
    BY <1>2 DEF Next
  <2>1. ASSUME UNCHANGED <<lvars, client, target, reader>> PROVE UNCHANGED L!vars
    BY <2>1 DEF lvars, L!vars, Holds
  <2>2. ASSUME NEW p \in Procs, Spawn(p) PROVE L!Next
    BY <2>2 DEF Spawn, L!Next
  <2>3. ASSUME NEW r \in Forwarders, Subscribe(r) PROVE L!Next
    <3>1. PICK q \in Procs : q = registry[IdOf[Serves[r]]]
      BY <2>3, PubSubAssumption DEF PubSubAssumption, PubInv, Subscribe
    <3>2. L!Find(q)
      BY <2>3, <3>1 DEF Subscribe, L!Find
    <3>3. QED
      BY <3>2 DEF L!Next
  <2>4. ASSUME NEW p \in Procs, Start(p) \/ Task(p) \/ Dies(p) PROVE L!Next
    BY <2>4 DEF Start, Task, Dies, L!ProcessStep, L!Next
  <2>5. ASSUME NEW p \in Procs, Publish(p) PROVE L!Next \/ UNCHANGED L!vars
    <3>1. CASE L!Panic(p)
      BY <3>1 DEF L!ProcessStep, L!Next
    <3>2. CASE UNCHANGED lvars
      BY <2>1, <2>5, <3>2 DEF Publish, S!Publish
    <3>3. QED
      BY <2>5, <3>1, <3>2 DEF Publish
  <2>6. ASSUME NEW p \in Procs, Leave(p) PROVE L!Next
    BY <2>6 DEF Leave, L!ProcessStep, L!Next
  <2>7. ASSUME NEW p \in Procs, ClientDrops(p) PROVE L!Next \/ UNCHANGED L!vars
    <3>1. /\ UNCHANGED <<lvars, target, reader>> /\ client' = [client EXCEPT ![p] = FALSE] /\ client[p]
          /\ \A k \in Calls : ~(call[k].status = "waiting" /\ call[k].to = p)
      BY <2>7 DEF ClientDrops, svars
    <3>2. \A q \in Procs, r \in Forwarders : Holds(r, q)' <=> Holds(r, q)
      BY <3>1 DEF Holds
    <3>3. \A q \in Procs : Held'[q] # Held[q] => q = p /\ ~Held'[p]
      BY <3>1, <3>2 DEF Held, PubInv
    <3>4. QED
      BY <3>1, <3>3, LetsGo DEF L!Next
  <2>8. ASSUME NEW r \in Forwarders, Forward(r) PROVE L!Next \/ UNCHANGED L!vars
    <3>1. r \in Readers
      BY DEF Readers
    <3>2. CASE UNCHANGED lvars
      BY <2>8, <3>1, <3>2, ReaderHolds DEF Forward
    <3>3. CASE L!Send(<<r, next'[r]>>, "entrust", target[r]) /\ got' # got
      <4>1. S!Receive(r)
        BY <2>8 DEF Forward
      <4>2. target[r] \in Procs
        BY <4>1 DEF S!Receive, StreamInv
      <4>4. next'[r] \in 1 .. MaxEvents
        BY <3>1, <4>1, PubSubAssumption DEF PubSubAssumption, S!Receive, S!Sent, StreamInv
      <4>5. <<r, next'[r]>> \in Calls
        BY <4>4, PubSubAssumption DEF PubSubAssumption, Forwarded
      <4>3. QED
        BY <3>3, <4>2, <4>5 DEF L!Next, L!Ops
    <3>4. QED
      BY <2>8, <3>2, <3>3 DEF Forward
  <2>9. ASSUME NEW r \in Forwarders, Lags(r) \/ Check(r) \/ ForwarderDies(r)
        PROVE  L!Next \/ UNCHANGED L!vars
    BY <2>9, ReaderHolds DEF Lags, Check, ForwarderDies, Readers
  <2>10. CASE DeadLetterStep
    BY <2>10, ReaderHolds DEF DeadLetterStep, Readers
  <2>11. ASSUME NEW p \in Procs, Poison(p) PROVE L!Next
    BY <2>11 DEF Poison, L!Next
  <2>12. ASSUME NEW k \in Calls, ClientCancels(k) PROVE L!Next
    BY <2>12 DEF ClientCancels, L!Next
  <2>13. ASSUME NEW k \in Calls, NEW op \in L!Ops, NEW p \in Procs, ClientCalls(k, op, p) PROVE L!Next
    BY <2>13 DEF ClientCalls, L!Next
  <2>14. QED
    BY <1>2, <2>2, <2>3, <2>4, <2>5, <2>6, <2>7, <2>8, <2>9, <2>10, <2>11, <2>12, <2>13
       DEF Next, ProcessStep, ForwarderStep
<1>3. QED
  BY <1>1, <1>2

\* Both hold of every state.
LEMMA PubInvariant == Spec => [](PubInv /\ StreamInv)
PROOF
<1>1. Init => PubInv /\ StreamInv
  <2> SUFFICES ASSUME Init PROVE PubInv /\ StreamInv
    OBVIOUS
  <2>1. PubInv
    BY DEF Init, L!Init, S!Init, PubInv, S!States, L!Statuses, L!Ops, S!Readers, Readers
  <2>2. DeadLetter \notin Forwarders /\ MaxEvents \in Nat
    BY PubSubAssumption DEF PubSubAssumption
  <2>3. StreamInv
    BY <2>2 DEF Init, S!Init, StreamInv, S!Readers, Readers
  <2>4. QED
    BY <2>1, <2>3
<1>2. PubInv /\ StreamInv /\ [Next]_vars => (PubInv /\ StreamInv)'
  BY PubSubAssumption, PubNext, StreamNext
<1>3. QED
  BY <1>1, <1>2, PTL DEF Spec

\* What a caller or a forwarder does with a Receptor is something the lifecycle
\* already allows: the composition is one of its serial runs.
THEOREM CompositionIsLifecycle == Spec => ImplementsLifecycle
PROOF
<1>1. Init => L!Init
  BY DEF Init
<1>2. PubInv /\ StreamInv /\ [Next]_vars => [L!Next /\ L!NoOverlap']_(L!vars)
  BY PubSubAssumption, LifecycleStep
<1>3. QED
  BY <1>1, <1>2, PubInvariant, PTL DEF Spec, ImplementsLifecycle, L!SerialSpec

----------------------------------------------------------------------------
(* What is proved of the lifecycle and of the stream.                      *)

LP == INSTANCE MailboxProofs WITH
        held <- [p \in Procs |-> client[p] \/ \E r \in Forwarders : Holds(r, p)]

\* The parameters are ones the lifecycle's theorems are about.
LEMMA LifecycleParameters == LP!ProcsAssumption
  BY PubSubAssumption DEF PubSubAssumption, LP!ProcsAssumption, LP!Ops

\* The two instances of the lifecycle are one.
LEMMA SameLifecycle == L!SerialSpec => LP!SerialSpec
PROOF
<1>1. L!Init => LP!Init
  BY DEF L!Init, LP!Init
<1>2. L!Next => LP!Next
  BY DEF L!Next, LP!Next, L!Run, LP!Run, L!RunRefused, LP!RunRefused, L!RunAllowed, LP!RunAllowed,
         L!RunCancelled, LP!RunCancelled, L!RunInsert, LP!RunInsert, L!Pass, LP!Pass, L!Goto, LP!Goto,
         L!ProcessStep, LP!ProcessStep, L!Start, LP!Start, L!Task, LP!Task, L!Orphaned, LP!Orphaned,
         L!HasSender, LP!HasSender, L!Stop, LP!Stop, L!DeregisterMiss, LP!DeregisterMiss,
         L!DeregisterHit, LP!DeregisterHit, L!DeregisterRemove, LP!DeregisterRemove,
         L!Exit, LP!Exit, L!Panic, LP!Panic, L!InUserCode, LP!InUserCode,
         L!CloseChannel, LP!CloseChannel, L!Range, LP!Range, L!HandleCommand, LP!HandleCommand,
         L!ApplyEvent, LP!ApplyEvent, L!EntrustCommand, LP!EntrustCommand,
         L!ReceiveMessage, LP!ReceiveMessage, L!Takes, LP!Takes, L!Reply, LP!Reply,
         L!Settle, LP!Settle, L!Apply, LP!Apply, L!Advance, LP!Advance, L!Timeout, LP!Timeout,
         L!Poison, LP!Poison, L!Find, LP!Find, L!Drop, LP!Drop, L!Cancel, LP!Cancel, L!Send, LP!Send,
         L!Open, LP!Open, L!Ops, LP!Ops, L!UserCode, LP!UserCode, L!Leaving, LP!Leaving
<1>3. L!NoOverlap' => LP!NoOverlap'
  BY DEF L!NoOverlap, LP!NoOverlap
<1>4. UNCHANGED L!vars => UNCHANGED LP!vars
  BY DEF L!vars, LP!vars
<1>5. [L!Next /\ L!NoOverlap']_(L!vars) => [LP!Next /\ LP!NoOverlap']_(LP!vars)
  BY <1>2, <1>3, <1>4
<1>6. QED
  BY <1>1, <1>5, PTL DEF L!SerialSpec, LP!SerialSpec

\* What is proved of every run of processes, and of those in which no two spawns of
\* one id overlap, holds with publishers and subscribers among them: types, no ghosts
\* in the registry, numbers without gaps, callers who are told the truth and never
\* stranded, one live process per id, and found under it.
THEOREM ProcessesStaySound ==
  Spec => [](/\ L!TypeOK /\ L!NoGhostEntry /\ L!ConsecutiveSequence
             /\ L!OutcomeMatchesEffect /\ L!NoStrandedCaller
             /\ L!OneLivePerId /\ L!LiveIsFindable)
PROOF
<1>1. LP!TypeOK => L!TypeOK
  BY DEF L!TypeOK, LP!TypeOK, L!Phases, LP!Phases, L!Unspawned, LP!Unspawned, L!UserCode, LP!UserCode,
         L!Leaving, LP!Leaving, L!Gone, LP!Gone, L!Statuses, LP!Statuses, L!Ops, LP!Ops
<1>2. LP!NoGhostEntry /\ LP!ConsecutiveSequence => L!NoGhostEntry /\ L!ConsecutiveSequence
  BY DEF L!NoGhostEntry, LP!NoGhostEntry, L!ConsecutiveSequence, LP!ConsecutiveSequence,
         L!UserCode, LP!UserCode, L!Leaving, LP!Leaving
<1>3. LP!OutcomeMatchesEffect /\ LP!NoStrandedCaller => L!OutcomeMatchesEffect /\ L!NoStrandedCaller
  BY DEF L!OutcomeMatchesEffect, LP!OutcomeMatchesEffect, L!NoStrandedCaller, LP!NoStrandedCaller,
         L!Range, LP!Range, L!Open, LP!Open, L!UserCode, LP!UserCode, L!Leaving, LP!Leaving
<1>4. LP!OneLivePerId /\ LP!LiveIsFindable => L!OneLivePerId /\ L!LiveIsFindable
  BY DEF L!OneLivePerId, LP!OneLivePerId, L!LiveIsFindable, LP!LiveIsFindable,
         L!UserCode, LP!UserCode, L!Leaving, LP!Leaving
<1>5. [LP!Next /\ LP!NoOverlap']_(LP!vars) => [LP!Next]_(LP!vars)
  OBVIOUS
<1>6. LP!SerialSpec => LP!Spec
  BY <1>5, PTL DEF LP!SerialSpec, LP!Spec
<1>7. Spec => LP!SerialSpec
  BY CompositionIsLifecycle, SameLifecycle, PTL DEF ImplementsLifecycle
<1>8. LP!Spec => [](/\ LP!TypeOK /\ LP!NoGhostEntry /\ LP!ConsecutiveSequence
                     /\ LP!OutcomeMatchesEffect /\ LP!NoStrandedCaller)
  BY LP!TypeCorrect, LP!NoGhosts, LP!SequencesAreConsecutive, LP!CallersAreTold, LP!NobodyStranded, LifecycleParameters, PTL
<1>9. LP!SerialSpec => [](LP!OneLivePerId /\ LP!LiveIsFindable)
  BY LP!OneAtATime, LP!Findable, LifecycleParameters, PTL
<1>10. QED
  BY <1>1, <1>2, <1>3, <1>4, <1>6, <1>7, <1>8, <1>9, PTL

SP == INSTANCE EventStreamProofs WITH
        Subscribers <- {}, Processes <- Procs,
        active <- [p \in Procs |-> ~poisoned[p]]

\* The parameters are ones the stream's theorems are about.
LEMMA StreamParameters == SP!StreamAssumption
  BY PubSubAssumption DEF PubSubAssumption, SP!StreamAssumption, SP!Readers

\* The Status of every process, as EventStream sees it.
Active == [p \in Procs |-> ~poisoned[p]]

\* A process's step shows the stream, at most, that it has poisoned itself.
LEMMA StreamSeesPoison ==
  ASSUME PubSubAssumption, L!TypeOK, NEW p \in Procs, UNCHANGED svars,
         L!Run(p) \/ L!ProcessStep(p) \/ L!Timeout(p) \/ L!Poison(p)
  PROVE  S!Next \/ UNCHANGED S!vars
PROOF
<1>1. CASE L!Poison(p)
  <2>1. poisoned' = [poisoned EXCEPT ![p] = TRUE] /\ poisoned \in [Procs -> BOOLEAN]
    BY <1>1 DEF L!Poison, L!TypeOK
  <2>2. Active' = [Active EXCEPT ![p] = FALSE]
    BY <2>1 DEF Active
  <2>3. CASE Active[p]
    <3>1. S!Poison(p)
      BY <2>2, <2>3 DEF S!Poison, Active, svars
    <3>2. QED
      BY <3>1 DEF S!Next
  <2>4. CASE ~Active[p]
    <3>1. Active' = Active
      BY <2>1, <2>4 DEF Active
    <3>2. QED
      BY <3>1 DEF S!vars, svars, Active
  <2>5. QED
    BY <2>3, <2>4
<1>2. CASE L!Run(p) \/ L!ProcessStep(p) \/ L!Timeout(p)
  <2>1. UNCHANGED poisoned
    BY <1>2 DEF L!Run, L!RunRefused, L!RunAllowed, L!RunCancelled, L!RunInsert, L!ProcessStep, L!Start,
                L!Task, L!HandleCommand, L!ApplyEvent, L!EntrustCommand, L!ReceiveMessage, L!Orphaned,
                L!Stop, L!DeregisterMiss, L!DeregisterHit, L!DeregisterRemove, L!Exit, L!Panic,
                L!Timeout, L!Pass
  <2>2. QED
    BY <2>1 DEF S!vars, svars
<1>3. QED
  BY <1>1, <1>2

\* Every step is one of the stream, or changes nothing in it.
LEMMA StreamStep ==
  ASSUME PubSubAssumption
  PROVE  L!TypeOK /\ [Next]_vars => [S!Next]_(S!vars)
PROOF
<1> SUFFICES ASSUME L!TypeOK, [Next]_vars PROVE S!Next \/ UNCHANGED S!vars
  OBVIOUS
<1>1. ASSUME UNCHANGED <<svars, poisoned>> PROVE UNCHANGED S!vars
  BY <1>1 DEF S!vars, svars
<1>2. CASE UNCHANGED vars
  BY <1>1, <1>2 DEF vars, lvars
<1>3. ASSUME NEW r \in Readers, S!Receive(r) \/ S!Lagged(r) \/ S!Check(r) \/ S!Panic(r) PROVE S!Next
  BY <1>3 DEF S!Next, S!ReaderStep, S!Readers, Readers
<1>4. ASSUME NEW p \in Procs, Spawn(p) \/ Start(p) \/ Task(p) \/ Dies(p) \/ Leave(p) \/ Poison(p)
      PROVE  S!Next \/ UNCHANGED S!vars
  BY <1>4, StreamSeesPoison DEF Spawn, Start, Task, Dies, Leave, Poison, Alone, L!ProcessStep
<1>5. ASSUME NEW p \in Procs, Publish(p) PROVE S!Next
  <2>1. TypeOf[p] \in Types /\ S!Publish(TypeOf[p])
    BY <1>5, PubSubAssumption DEF PubSubAssumption, Publish
  <2>2. QED
    BY <2>1 DEF S!Next
<1>6. ASSUME NEW r \in Forwarders, Subscribe(r) PROVE S!Next
  <2>1. r \in S!Readers \ {DeadLetter} /\ S!Subscribe(r)
    BY <1>6, PubSubAssumption DEF PubSubAssumption, Subscribe, S!Readers
  <2>2. QED
    BY <2>1 DEF S!Next
<1>7. ASSUME NEW r \in Forwarders, ForwarderStep(r) PROVE S!Next
  BY <1>3, <1>7 DEF ForwarderStep, Forward, Lags, Check, ForwarderDies, Readers
<1>8. CASE DeadLetterStep
  BY <1>3, <1>8 DEF DeadLetterStep, Readers
<1>9. ASSUME NEW k, NEW op, NEW p, ClientDrops(p) \/ ClientCancels(k) \/ ClientCalls(k, op, p)
      PROVE  UNCHANGED S!vars
  BY <1>1, <1>9 DEF ClientDrops, ClientCancels, ClientCalls, Alone, L!Cancel, L!Send, lvars
<1>10. QED
  BY <1>2, <1>4, <1>5, <1>6, <1>7, <1>8, <1>9 DEF Next, ProcessStep

\* The processes publish, subscribe and poison themselves by steps of the stream.
LEMMA CompositionIsStream == Spec => S!Spec
PROOF
<1>1. Init => S!Init
  BY PubSubAssumption DEF PubSubAssumption, Init, S!Init, S!Readers, Readers
<1>2. L!TypeOK /\ [Next]_vars => [S!Next]_(S!vars)
  BY PubSubAssumption, StreamStep
<1>3. Spec => []L!TypeOK
  BY ProcessesStaySound, PTL
<1>4. QED
  BY <1>1, <1>2, <1>3, PTL DEF Spec, S!Spec

\* What is proved of every run of the stream holds here: events with a resolver are
\* resolved or reported lost, in order and once by each forwarder, and at most one of them late.
THEOREM DeliveryStaysSound ==
  Spec => [](S!TypeOK /\ S!Accounting /\ S!InOrder /\ S!AtMostOneLate)
PROOF
<1>1. S!Init => SP!Init
  BY DEF S!Init, SP!Init, S!Readers, SP!Readers
<1>2. [S!Next]_(S!vars) => [SP!Next]_(SP!vars)
  <2>1. S!Next => SP!Next
    BY DEF S!Next, SP!Next, S!Readers, SP!Readers, S!Publish, SP!Publish, S!HasReceiver, SP!HasReceiver,
           S!Sent, SP!Sent, S!Subscribe, SP!Subscribe, S!Goto, SP!Goto, S!ReaderStep, SP!ReaderStep,
           S!Receive, SP!Receive, S!Lags, SP!Lags, S!Oldest, SP!Oldest, S!Resolve, SP!Resolve,
           S!Lagged, SP!Lagged, S!Closed, SP!Closed, S!Check, SP!Check, S!Panic, SP!Panic,
           S!Poison, SP!Poison, S!Close, SP!Close
  <2>2. UNCHANGED S!vars => UNCHANGED SP!vars
    BY DEF S!vars, SP!vars
  <2>3. QED
    BY <2>1, <2>2
<1>3. SP!TypeOK /\ SP!Accounting /\ SP!InOrder /\ SP!AtMostOneLate
        => S!TypeOK /\ S!Accounting /\ S!InOrder /\ S!AtMostOneLate
  BY DEF S!TypeOK, SP!TypeOK, S!States, SP!States, S!Accounting, SP!Accounting, S!Range, SP!Range,
         S!InOrder, SP!InOrder, S!AtMostOneLate, SP!AtMostOneLate, S!Sent, SP!Sent, S!Readers, SP!Readers
<1>4. Spec => SP!Spec
  BY <1>1, <1>2, CompositionIsStream, PTL DEF S!Spec, SP!Spec
<1>5. SP!Spec => [](SP!TypeOK /\ SP!Accounting /\ SP!InOrder /\ SP!AtMostOneLate)
  BY SP!TypeCorrect, SP!AllAccountedFor, SP!DeliveredInOrder, SP!OneLateEvent, StreamParameters, PTL
<1>6. QED
  BY <1>3, <1>4, <1>5, PTL

----------------------------------------------------------------------------
(* From one process's apply to another's.                                  *)

\* The n-th event, which r's mapping has a resolver for, is one that r's cursor has
\* passed since it subscribed.
Passed(r, n) ==
  reader[r] # "off" /\ since[r] < n /\ n <= next[r] /\ log[n] \in Mapped[r]

\* A forwarder reads for its process, between where it began and the end of the log.
Reading ==
  \A r \in Forwarders :
    since[r] <= next[r] /\ next[r] <= Len(log) /\ (reader[r] # "off" => target[r] = Serves[r])

\* What it entrusts it has passed.
EntrustsPassed ==
  \A r \in Forwarders, n \in 1 .. MaxEvents : call[<<r, n>>].status # "idle" => Passed(r, n)

\* What the forwarder r entrusts.
By(r) == {r} \X (1 .. MaxEvents)

\* The commands of the forwarder r in a mailbox follow each other and those seen.
Orderly(box, seen, r) ==
  \A i \in DOMAIN box : box[i] \in By(r) =>
    /\ \A j \in DOMAIN seen : seen[j] < box[i][2]
    /\ \A j \in DOMAIN box : j < i /\ box[j] \in By(r) => box[j][2] < box[i][2]

\* A process has been sent, and has handled, what its own forwarders passed, of each
\* of them in order.
Queued ==
  /\ handled \in [Procs \X Forwarders -> Seq(Nat)]
  /\ \A p \in Procs, r \in Forwarders :
       /\ Orderly(mailbox[p], handled[<<p, r>>], r)
       /\ \A i \in DOMAIN handled[<<p, r>>] :
            Serves[r] = p /\ reader[r] # "off" /\ handled[<<p, r>>][i] <= next[r]
  /\ \A p \in Procs : \A i \in DOMAIN mailbox[p] :
       mailbox[p][i] \in Forwarded =>
         call[mailbox[p][i]].status # "idle" /\ Serves[mailbox[p][i][1]] = p

ForwardInv == Reading /\ EntrustsPassed /\ Queued

\* What else is known of every state.
Known == PubInv /\ StreamInv /\ L!TypeOK /\ S!TypeOK /\ L!LiveIsFindable

\* Readers and the log go on.
Onward ==
  /\ Reading'
  /\ \A r \in Forwarders : reader[r] # "off" =>
       reader'[r] # "off" /\ since'[r] = since[r] /\ next[r] <= next'[r]
  /\ \A n \in 1 .. Len(log) : log'[n] = log[n]

\* No forwarded command is entrusted.
NoneEntrusted == \A k \in Forwarded : call[k].status = "idle" => call'[k].status = "idle"

\* A forwarder and a number.
LEMMA ForwardedIs ==
  /\ \A k \in Forwarded : k[1] \in Forwarders /\ k[2] \in 1 .. MaxEvents /\ k = <<k[1], k[2]>>
  /\ \A r \in Forwarders, n \in 1 .. MaxEvents :
       <<r, n>> \in Forwarded /\ <<r, n>>[1] = r /\ <<r, n>>[2] = n
  /\ \A r \in Forwarders : \A k : k \in By(r) <=> k \in Forwarded /\ k[1] = r
  BY DEF Forwarded, By

\* What was passed stays so.
LEMMA PassedStays ==
  ASSUME PubSubAssumption, Known, Known', ForwardInv, Onward,
         NEW r \in Forwarders, NEW n \in 1 .. MaxEvents, Passed(r, n)
  PROVE  Passed(r, n)'
PROOF
<1>1. /\ next[r] \in Nat /\ since[r] \in Nat /\ Len(log) \in Nat /\ next[r] <= Len(log)
      /\ next'[r] \in Nat
  BY DEF Known, StreamInv, S!TypeOK, S!Readers, ForwardInv, Reading
<1>2. n \in 1 .. Len(log) /\ next'[r] <= Len(log')
  BY <1>1 DEF Passed, Onward, Reading
<1>3. QED
  BY <1>1, <1>2 DEF Passed, Onward

\* A mailbox that loses its first task, whose number if any is seen, or gets another.
LEMMA OrderlyTail ==
  ASSUME PubSubAssumption, NEW r \in Forwarders, NEW box \in Seq(Calls), box # <<>>,
         NEW seen \in Seq(Nat), Orderly(box, seen, r)
  PROVE  /\ Orderly(Tail(box), seen, r)
         /\ Head(box) \in By(r) => Orderly(Tail(box), Append(seen, Head(box)[2]), r)
PROOF
<1>1. /\ Head(box) = box[1] /\ 1 \in DOMAIN box
      /\ \A i \in DOMAIN Tail(box) : i \in Nat /\ i + 1 \in DOMAIN box /\ Tail(box)[i] = box[i + 1]
      /\ DOMAIN box = 1 .. Len(box) /\ Len(box) \in Nat
  BY HeadTailProperties, LenProperties, EmptySeq
<1>2. ASSUME NEW i \in DOMAIN Tail(box), Tail(box)[i] \in By(r)
      PROVE  /\ \A j \in DOMAIN seen : seen[j] < Tail(box)[i][2]
             /\ \A j \in DOMAIN Tail(box) : j < i /\ Tail(box)[j] \in By(r) =>
                  Tail(box)[j][2] < Tail(box)[i][2]
             /\ Head(box) \in By(r) => Head(box)[2] < Tail(box)[i][2]
  <2>1. i + 1 \in DOMAIN box /\ box[i + 1] \in By(r) /\ i \in Nat /\ 1 < i + 1
    BY <1>1, <1>2
  <2>2. /\ \A j \in DOMAIN seen : seen[j] < box[i + 1][2]
        /\ \A j \in DOMAIN box : j < i + 1 /\ box[j] \in By(r) => box[j][2] < box[i + 1][2]
    BY <2>1 DEF Orderly
  <2>3. ASSUME NEW j \in DOMAIN Tail(box), j < i, Tail(box)[j] \in By(r)
        PROVE  Tail(box)[j][2] < Tail(box)[i][2]
    <3>1. j + 1 \in DOMAIN box /\ Tail(box)[j] = box[j + 1] /\ j + 1 < i + 1
      BY <1>1, <2>1, <2>3
    <3>2. QED
      BY <1>1, <2>2, <2>3, <3>1
  <2>4. QED
    BY <1>1, <2>1, <2>2, <2>3
<1>3. ASSUME Head(box) \in By(r)
      PROVE  Orderly(Tail(box), Append(seen, Head(box)[2]), r)
  <2> DEFINE m == Head(box)[2]
  <2>1. m \in Nat
    BY <1>3, ForwardedIs, PubSubAssumption DEF PubSubAssumption
  <2> HIDE DEF m
  <2>2. \A j \in DOMAIN Append(seen, m) : (j \in DOMAIN seen /\ Append(seen, m)[j] = seen[j])
                                       \/ Append(seen, m)[j] = m
    BY <2>1, AppendProperties, LenProperties
  <2>3. \A i \in DOMAIN Tail(box) : Tail(box)[i] \in By(r) => m < Tail(box)[i][2]
    BY <1>2, <1>3 DEF m
  <2>4. Orderly(Tail(box), Append(seen, m), r)
    BY <1>2, <2>2, <2>3 DEF Orderly
  <2>5. QED
    BY <2>4 DEF m
<1>4. QED
  BY <1>2, <1>3 DEF Orderly

LEMMA OrderlyAppend ==
  ASSUME NEW r \in Forwarders, NEW box \in Seq(Calls), NEW seen, NEW k \in Calls,
         Orderly(box, seen, r),
         k \in By(r) =>
           /\ \A j \in DOMAIN seen : seen[j] < k[2]
           /\ \A j \in DOMAIN box : box[j] \in By(r) => box[j][2] < k[2]
  PROVE  Orderly(Append(box, k), seen, r)
PROOF
<1>1. /\ DOMAIN box = 1 .. Len(box) /\ Len(box) \in Nat
      /\ DOMAIN Append(box, k) = 1 .. Len(box) + 1
      /\ \A i \in DOMAIN box : Append(box, k)[i] = box[i]
      /\ Append(box, k)[Len(box) + 1] = k
  BY AppendProperties, LenProperties
<1>2. ASSUME NEW i \in DOMAIN Append(box, k), Append(box, k)[i] \in By(r)
      PROVE  /\ \A j \in DOMAIN seen : seen[j] < Append(box, k)[i][2]
             /\ \A j \in DOMAIN Append(box, k) : j < i /\ Append(box, k)[j] \in By(r) =>
                  Append(box, k)[j][2] < Append(box, k)[i][2]
  <2>1. \A j \in DOMAIN Append(box, k) : j < i => j \in DOMAIN box /\ Append(box, k)[j] = box[j]
    BY <1>1, <1>2
  <2>2. CASE i \in DOMAIN box
    BY <1>1, <1>2, <2>1, <2>2 DEF Orderly
  <2>3. CASE i = Len(box) + 1
    BY <1>1, <1>2, <2>1, <2>3
  <2>4. QED
    BY <1>1, <2>2, <2>3
<1>3. QED
  BY <1>2 DEF Orderly

\* What a process has handled stays behind its forwarders.
LEMMA HandledStays ==
  ASSUME PubSubAssumption, Known, Known', ForwardInv, Onward, UNCHANGED handled,
         NEW p \in Procs, NEW r \in Forwarders, NEW i \in DOMAIN handled[<<p, r>>]
  PROVE  Serves[r] = p /\ reader'[r] # "off" /\ handled[<<p, r>>][i] <= next'[r]
PROOF
<1>1. handled[<<p, r>>] \in Seq(Nat)
  BY DEF ForwardInv, Queued
<1>2. /\ Serves[r] = p /\ reader[r] # "off" /\ handled[<<p, r>>][i] <= next[r]
      /\ handled[<<p, r>>][i] \in Nat
  BY <1>1, ElementOfSeq, LenProperties DEF ForwardInv, Queued
<1>3. next[r] \in Nat /\ next'[r] \in Nat /\ next[r] <= next'[r] /\ reader'[r] # "off"
  BY <1>2 DEF Known, S!TypeOK, S!Readers, Onward
<1>4. QED
  BY <1>2, <1>3

\* A step in which readers go on, mailboxes stay or are emptied, and nothing is handled.
LEMMA ForwardStays ==
  ASSUME PubSubAssumption, Known, Known', ForwardInv, Onward, NoneEntrusted, UNCHANGED handled,
         \A p \in Procs : mailbox'[p] = mailbox[p] \/ mailbox'[p] = <<>>,
         \A p \in Procs : mailbox'[p] = mailbox[p] => \A i \in DOMAIN mailbox[p] :
           mailbox[p][i] \in Forwarded => call'[mailbox[p][i]].status # "idle"
  PROVE  ForwardInv'
PROOF
<1>1. EntrustsPassed'
  <2> SUFFICES ASSUME NEW r \in Forwarders, NEW n \in 1 .. MaxEvents, call'[<<r, n>>].status # "idle"
               PROVE  Passed(r, n)'
    BY DEF EntrustsPassed
  <2>1. Passed(r, n)
    BY ForwardedIs DEF NoneEntrusted, ForwardInv, EntrustsPassed
  <2>2. QED
    BY <2>1, PassedStays
<1>2. ASSUME NEW p \in Procs, NEW r \in Forwarders PROVE Orderly(mailbox'[p], handled[<<p, r>>], r)
  <2>1. CASE mailbox'[p] = mailbox[p]
    BY <2>1 DEF ForwardInv, Queued
  <2>2. CASE mailbox'[p] = <<>>
    BY <2>2, EmptySeq DEF Orderly
  <2>3. QED
    BY <2>1, <2>2
<1>3. ASSUME NEW p \in Procs, NEW i \in DOMAIN mailbox'[p], mailbox'[p][i] \in Forwarded
      PROVE  call'[mailbox'[p][i]].status # "idle" /\ Serves[mailbox'[p][i][1]] = p
  <2>1. mailbox'[p] = mailbox[p]
    BY <1>3, EmptySeq
  <2>2. Serves[mailbox[p][i][1]] = p
    BY <1>3, <2>1 DEF ForwardInv, Queued
  <2>3. QED
    BY <1>3, <2>1, <2>2
<1>4. Queued'
  BY <1>2, <1>3, HandledStays DEF ForwardInv, Queued
<1>5. QED
  BY <1>1, <1>4 DEF Onward, ForwardInv

\* The first task of p is taken, or panics: its event, if a forwarder's and applied, is
\* seen.
LEMMA ForwardTaken ==
  ASSUME PubSubAssumption, Known, Known', ForwardInv, NEW p \in Procs, Handles(p),
         UNCHANGED <<log, reader, next, since, target>>, mailbox[p] # <<>>,
         \/ mailbox' = [mailbox EXCEPT ![p] = Tail(@)]
         \/ mailbox' = [mailbox EXCEPT ![p] = <<>>],
         \A j \in Calls : call'[j].status = "idle" <=> call[j].status = "idle"
  PROVE  ForwardInv'
PROOF
<1> DEFINE k == Head(mailbox[p])
<1>1. /\ mailbox \in [Procs -> Seq(Calls)] /\ mailbox[p] \in Seq(Calls)
      /\ handled \in [Procs \X Forwarders -> Seq(Nat)]
      /\ \A r \in Forwarders : handled[<<p, r>>] \in Seq(Nat) /\ Orderly(mailbox[p], handled[<<p, r>>], r)
  BY DEF Known, L!TypeOK, ForwardInv, Queued
<1>2. /\ k = mailbox[p][1] /\ 1 \in DOMAIN mailbox[p] /\ k \in Calls
      /\ \A i \in DOMAIN Tail(mailbox[p]) :
           i + 1 \in DOMAIN mailbox[p] /\ Tail(mailbox[p])[i] = mailbox[p][i + 1]
  BY <1>1, HeadTailProperties, LenProperties, EmptySeq, ElementOfSeq
<1>3. Forwarded \subseteq Calls
  BY PubSubAssumption DEF PubSubAssumption
<1>4. handled' = handled \/ (k \in Forwarded /\ handled' = [handled EXCEPT ![<<p, k[1]>>] = Append(@, k[2])])
  BY DEF Handles
<1>5. \A r \in Forwarders : Orderly(Tail(mailbox[p]), handled[<<p, r>>], r)
  BY <1>1, OrderlyTail
<1>6. ASSUME k \in Forwarded
      PROVE  /\ k[1] \in Forwarders /\ k[2] \in Nat /\ k \in By(k[1]) /\ Serves[k[1]] = p
             /\ k[2] <= next[k[1]] /\ reader[k[1]] # "off"
             /\ Orderly(Tail(mailbox[p]), Append(handled[<<p, k[1]>>], k[2]), k[1])
  <2>1. k[1] \in Forwarders /\ k[2] \in 1 .. MaxEvents /\ k = <<k[1], k[2]>> /\ k \in By(k[1])
    BY <1>6, ForwardedIs
  <2>2. Serves[k[1]] = p /\ call[k].status # "idle"
    BY <1>2, <1>6 DEF ForwardInv, Queued
  <2>3. Passed(k[1], k[2])
    BY <2>1, <2>2 DEF ForwardInv, EntrustsPassed
  <2>4. Orderly(Tail(mailbox[p]), Append(handled[<<p, k[1]>>], k[2]), k[1])
    BY <1>1, <2>1, OrderlyTail
  <2>5. QED
    BY <2>1, <2>2, <2>3, <2>4, PubSubAssumption DEF PubSubAssumption, Passed
<1> HIDE DEF k
<1>7. Reading' /\ EntrustsPassed'
  BY <1>3, ForwardedIs DEF ForwardInv, Reading, EntrustsPassed, Passed
<1>8. handled' \in [Procs \X Forwarders -> Seq(Nat)]
  <2>1. CASE handled' = handled
    BY <1>1, <2>1
  <2>2. CASE k \in Forwarded /\ handled' = [handled EXCEPT ![<<p, k[1]>>] = Append(@, k[2])]
    <3>1. <<p, k[1]>> \in Procs \X Forwarders /\ Append(handled[<<p, k[1]>>], k[2]) \in Seq(Nat)
      BY <1>1, <1>6, <2>2, AppendProperties
    <3>2. QED
      BY <1>1, <2>2, <3>1
  <2>3. QED
    BY <1>4, <2>1, <2>2
<1>9. ASSUME NEW q \in Procs, NEW r \in Forwarders
      PROVE  \/ handled'[<<q, r>>] = handled[<<q, r>>]
             \/ /\ q = p /\ k \in Forwarded /\ r = k[1]
                /\ handled'[<<q, r>>] = Append(handled[<<q, r>>], k[2])
  <2>1. <<q, r>> \in Procs \X Forwarders /\ (<<q, r>> = <<p, k[1]>> => q = p /\ r = k[1])
    OBVIOUS
  <2>2. QED
    BY <1>1, <1>4, <2>1
<1>10. ASSUME NEW q \in Procs, NEW r \in Forwarders PROVE Orderly(mailbox'[q], handled'[<<q, r>>], r)
  <2>1. CASE q # p
    BY <1>1, <1>9, <2>1 DEF ForwardInv, Queued
  <2>2. CASE mailbox'[q] = <<>>
    BY <2>2, EmptySeq DEF Orderly
  <2>3. CASE q = p /\ mailbox'[q] = Tail(mailbox[p])
    <3>1. CASE handled'[<<q, r>>] = handled[<<q, r>>]
      BY <1>5, <2>3, <3>1
    <3>2. CASE k \in Forwarded /\ r = k[1] /\ handled'[<<q, r>>] = Append(handled[<<q, r>>], k[2])
      BY <1>6, <2>3, <3>2
    <3>3. QED
      BY <1>9, <3>1, <3>2
  <2>4. QED
    BY <1>1, <2>1, <2>2, <2>3
<1>11. ASSUME NEW q \in Procs, NEW r \in Forwarders, NEW i \in DOMAIN handled'[<<q, r>>]
       PROVE  Serves[r] = q /\ reader[r] # "off" /\ handled'[<<q, r>>][i] <= next[r]
  <2>1. CASE handled'[<<q, r>>] = handled[<<q, r>>]
    BY <1>11, <2>1 DEF ForwardInv, Queued
  <2>2. CASE q = p /\ k \in Forwarded /\ r = k[1] /\ handled'[<<q, r>>] = Append(handled[<<q, r>>], k[2])
    <3>1. \/ i \in DOMAIN handled[<<p, r>>] /\ handled'[<<p, r>>][i] = handled[<<p, r>>][i]
          \/ handled'[<<p, r>>][i] = k[2]
      BY <1>1, <1>6, <1>11, <2>2, AppendProperties, LenProperties
    <3>2. QED
      BY <1>6, <2>2, <3>1 DEF ForwardInv, Queued
  <2>3. QED
    BY <1>9, <2>1, <2>2
<1>12. ASSUME NEW q \in Procs, NEW i \in DOMAIN mailbox'[q], mailbox'[q][i] \in Forwarded
       PROVE  call'[mailbox'[q][i]].status # "idle" /\ Serves[mailbox'[q][i][1]] = q
  <2>1. mailbox'[q] = mailbox[q] \/ mailbox'[q] = <<>> \/ (q = p /\ mailbox'[q] = Tail(mailbox[p]))
    BY <1>1
  <2>2. \E j \in DOMAIN mailbox[q] : mailbox'[q][i] = mailbox[q][j]
    <3>1. CASE mailbox'[q] = mailbox[q]
      BY <1>12, <3>1
    <3>2. CASE mailbox'[q] = <<>>
      BY <1>12, <3>2, EmptySeq
    <3>3. CASE q = p /\ mailbox'[q] = Tail(mailbox[p])
      BY <1>2, <1>12, <3>3
    <3>4. QED
      BY <2>1, <3>1, <3>2, <3>3
  <2>3. call[mailbox'[q][i]].status # "idle" /\ Serves[mailbox'[q][i][1]] = q
    BY <1>12, <2>2 DEF ForwardInv, Queued
  <2>4. QED
    BY <1>3, <1>12, <2>3
<1>13. Queued'
  BY <1>8, <1>10, <1>11, <1>12 DEF Queued
<1>14. QED
  BY <1>7, <1>13 DEF ForwardInv

\* A call is sent, which if a forwarder sends it is the next it passes.
LEMMA ForwardSent ==
  ASSUME PubSubAssumption, Known, Known', ForwardInv, Onward, UNCHANGED handled,
         NEW k \in Calls, NEW op, NEW p \in Procs, L!Send(k, op, p),
         k \in Forwarded => Serves[k[1]] = p /\ next[k[1]] < k[2] /\ Passed(k[1], k[2])'
  PROVE  ForwardInv'
PROOF
<1>1. /\ mailbox' = mailbox \/ mailbox' = [mailbox EXCEPT ![p] = Append(@, k)]
      /\ \A j \in Calls : j # k => call'[j] = call[j]
      /\ call'[k].status # "idle"
      /\ mailbox \in [Procs -> Seq(Calls)] /\ handled \in [Procs \X Forwarders -> Seq(Nat)]
  BY DEF L!Send, Known, L!TypeOK, ForwardInv, Queued
<1>2. Forwarded \subseteq Calls
  BY PubSubAssumption DEF PubSubAssumption
<1>3. ASSUME NEW r \in Forwarders, NEW n \in 1 .. MaxEvents, call'[<<r, n>>].status # "idle"
      PROVE  Passed(r, n)'
  <2>1. <<r, n>> \in Forwarded /\ <<r, n>> \in Calls /\ <<r, n>>[1] = r /\ <<r, n>>[2] = n
    BY <1>2, ForwardedIs
  <2>2. CASE <<r, n>> = k
    BY <2>1, <2>2
  <2>3. CASE <<r, n>> # k
    <3>1. call[<<r, n>>].status # "idle"
      BY <1>1, <1>3, <2>1, <2>3
    <3>2. Passed(r, n)
      BY <3>1 DEF ForwardInv, EntrustsPassed
    <3>3. QED
      BY <3>2, PassedStays
  <2>4. QED
    BY <2>2, <2>3
<1>4. ASSUME NEW r \in Forwarders, k \in By(r)
      PROVE  /\ \A j \in DOMAIN handled[<<p, r>>] : handled[<<p, r>>][j] < k[2]
             /\ \A j \in DOMAIN mailbox[p] : mailbox[p][j] \in By(r) => mailbox[p][j][2] < k[2]
  <2>1. k[1] = r /\ k[2] \in Nat /\ next[r] \in Nat /\ next[r] < k[2]
    <3>1. k \in Forwarded /\ k[1] = r /\ k[2] \in 1 .. MaxEvents
      BY <1>4, ForwardedIs
    <3>2. next[r] \in Nat
      BY DEF Known, S!TypeOK, S!Readers
    <3>3. QED
      BY <3>1, <3>2, PubSubAssumption DEF PubSubAssumption
  <2>2. ASSUME NEW j \in DOMAIN handled[<<p, r>>] PROVE handled[<<p, r>>][j] < k[2]
    <3>1. handled[<<p, r>>] \in Seq(Nat)
      BY <1>1
    <3>2. handled[<<p, r>>][j] <= next[r] /\ handled[<<p, r>>][j] \in Nat
      BY <2>2, <3>1, ElementOfSeq, LenProperties DEF ForwardInv, Queued
    <3>3. QED
      BY <2>1, <3>2
  <2>3. ASSUME NEW j \in DOMAIN mailbox[p], mailbox[p][j] \in By(r) PROVE mailbox[p][j][2] < k[2]
    <3>1. /\ mailbox[p][j] \in Forwarded /\ mailbox[p][j][2] \in 1 .. MaxEvents
          /\ mailbox[p][j] = <<r, mailbox[p][j][2]>>
      BY <2>3, ForwardedIs
    <3>2. call[mailbox[p][j]].status # "idle"
      BY <2>3, <3>1 DEF ForwardInv, Queued
    <3>3. Passed(r, mailbox[p][j][2])
      BY <3>1, <3>2 DEF ForwardInv, EntrustsPassed
    <3>4. QED
      BY <2>1, <3>1, <3>3, PubSubAssumption DEF PubSubAssumption, Passed
  <2>4. QED
    BY <2>2, <2>3
<1>5. ASSUME NEW q \in Procs, NEW r \in Forwarders PROVE Orderly(mailbox'[q], handled[<<q, r>>], r)
  <2>1. Orderly(mailbox[q], handled[<<q, r>>], r) /\ mailbox[q] \in Seq(Calls)
    BY <1>1 DEF ForwardInv, Queued
  <2>2. CASE mailbox'[q] = mailbox[q]
    BY <2>1, <2>2
  <2>3. CASE q = p /\ mailbox'[q] = Append(mailbox[q], k)
    <3>1. Orderly(Append(mailbox[p], k), handled[<<p, r>>], r)
      <4> DEFINE box == mailbox[p]
                 seen == handled[<<p, r>>]
      <4>1. /\ box \in Seq(Calls) /\ Orderly(box, seen, r)
            /\ k \in By(r) => /\ \A j \in DOMAIN seen : seen[j] < k[2]
                              /\ \A j \in DOMAIN box : box[j] \in By(r) => box[j][2] < k[2]
        BY <1>4, <2>1, <2>3
      <4> HIDE DEF box, seen
      <4>2. Orderly(Append(box, k), seen, r)
        BY <4>1, OrderlyAppend
      <4>3. QED
        BY <4>2 DEF box, seen
    <3>2. QED
      BY <2>3, <3>1
  <2>4. QED
    BY <1>1, <2>2, <2>3
<1>6. ASSUME NEW q \in Procs, NEW i \in DOMAIN mailbox'[q], mailbox'[q][i] \in Forwarded
      PROVE  call'[mailbox'[q][i]].status # "idle" /\ Serves[mailbox'[q][i][1]] = q
  <2>1. \/ mailbox'[q][i] = k /\ q = p
        \/ \E j \in DOMAIN mailbox[q] : mailbox'[q][i] = mailbox[q][j]
    <3>1. CASE mailbox'[q] = mailbox[q]
      BY <1>6, <3>1
    <3>2. CASE q = p /\ mailbox'[q] = Append(mailbox[q], k)
      <4>1. mailbox[q] \in Seq(Calls)
        BY <1>1
      <4>2. QED
        BY <1>6, <3>2, <4>1, AppendProperties, LenProperties
    <3>3. QED
      BY <1>1, <3>1, <3>2
  <2>2. CASE mailbox'[q][i] = k /\ q = p
    BY <1>1, <1>6, <2>2
  <2>3. CASE \E j \in DOMAIN mailbox[q] : mailbox'[q][i] = mailbox[q][j]
    <3>1. call[mailbox'[q][i]].status # "idle" /\ Serves[mailbox'[q][i][1]] = q
      BY <1>6, <2>3 DEF ForwardInv, Queued
    <3>2. QED
      BY <1>1, <1>2, <1>6, <3>1
  <2>4. QED
    BY <2>1, <2>2, <2>3
<1>7. EntrustsPassed' /\ Queued'
  BY <1>1, <1>3, <1>5, <1>6, HandledStays DEF EntrustsPassed, Queued
<1>8. QED
  BY <1>7 DEF Onward, ForwardInv

\* How a step that is none of a mailbox's leaves calls and mailboxes.
LEMMA QuietSteps ==
  ASSUME PubSubAssumption, Known, NEW p \in Procs,
         \/ L!Run(p) \/ L!Start(p) \/ L!Timeout(p) \/ L!Orphaned(p) \/ L!Stop(p)
         \/ L!DeregisterMiss(p) \/ L!DeregisterHit(p) \/ L!DeregisterRemove(p) \/ L!Exit(p)
         \/ L!Panic(p) \/ L!Poison(p)
  PROVE  /\ \A k \in Calls : call'[k].status = "idle" <=> call[k].status = "idle"
         /\ \A q \in Procs : mailbox'[q] = mailbox[q] \/ mailbox'[q] = <<>>
PROOF
<1>1. CASE L!Exit(p) \/ L!Panic(p)
  <2>1. mailbox' = [mailbox EXCEPT ![p] = <<>>]
    BY <1>1 DEF L!Exit, L!Panic, L!CloseChannel
  <2>2. ASSUME NEW k \in Calls PROVE call'[k].status = "idle" <=> call[k].status = "idle"
    <3>1. \/ call'[k] = call[k]
          \/ call[k].status = "waiting" /\ call'[k] = [call[k] EXCEPT !.status = "dropped"]
      BY <1>1 DEF L!Exit, L!Panic, L!CloseChannel
    <3>2. call[k] \in [status : L!Statuses, op : L!Ops, to : Procs \cup {NoProc}]
      BY DEF Known, L!TypeOK
    <3>3. QED
      BY <3>1, <3>2
  <2>3. QED
    BY <2>1, <2>2 DEF Known, L!TypeOK
<1>2. CASE UNCHANGED <<mailbox, call>>
  BY <1>2
<1>3. QED
  BY <1>1, <1>2
     DEF L!Run, L!RunRefused, L!RunAllowed, L!RunCancelled, L!RunInsert, L!Start, L!Timeout, L!Orphaned,
         L!Stop, L!DeregisterMiss, L!DeregisterHit, L!DeregisterRemove, L!Poison, L!Pass

\* The log grows, and nobody reads on.
LEMMA LogGoesOn ==
  ASSUME PubSubAssumption, Known, Known', ForwardInv, UNCHANGED <<reader, next, since, target>>,
         log' = log \/ \E type \in Types : log' = Append(log, type)
  PROVE  Onward
PROOF
<1>1. log \in Seq(Types) /\ Len(log) \in Nat
  BY DEF Known, StreamInv
<1>2. Len(log) <= Len(log') /\ Len(log') \in Nat /\ \A n \in 1 .. Len(log) : log'[n] = log[n]
  <2>1. CASE log' = log
    BY <1>1, <2>1
  <2>2. ASSUME NEW type \in Types, log' = Append(log, type)
        PROVE  Len(log') = Len(log) + 1 /\ \A n \in 1 .. Len(log) : log'[n] = log[n]
    BY <1>1, <2>2, AppendProperties
  <2>3. QED
    BY <1>1, <2>1, <2>2
<1>3. \A r \in Forwarders : next[r] \in Nat /\ since[r] \in Nat
  BY DEF Known, S!TypeOK, S!Readers
<1>4. Reading'
  BY <1>1, <1>2, <1>3 DEF ForwardInv, Reading
<1>5. \A r \in Forwarders : reader[r] # "off" =>
        reader'[r] # "off" /\ since'[r] = since[r] /\ next[r] <= next'[r]
  BY <1>3
<1>6. QED
  BY <1>2, <1>4, <1>5 DEF Onward

\* A reader goes on.
LEMMA ReaderGoesOn ==
  ASSUME PubSubAssumption, Known, Known', ForwardInv, UNCHANGED target, NEW r \in Readers,
         S!Receive(r) \/ S!Lagged(r) \/ S!Check(r) \/ S!Panic(r)
  PROVE  Onward
PROOF
<1>1. /\ UNCHANGED <<log, since>> /\ reader[r] # "off" /\ reader'[r] # "off"
      /\ \A q \in Readers : q # r => reader'[q] = reader[q] /\ next'[q] = next[q]
  BY DEF S!Receive, S!Lagged, S!Check, S!Panic, S!Goto, Known, PubInv, StreamInv
<1>2. S!Oldest \in Nat /\ S!Oldest <= Len(log) /\ Len(log) \in Nat /\ next[r] \in Nat /\ next'[r] \in Nat
  BY PubSubAssumption DEF PubSubAssumption, Known, StreamInv, S!Oldest, S!Sent
<1>3. next[r] <= next'[r] /\ (next[r] <= Len(log) => next'[r] <= Len(log))
  <2>1. CASE next'[r] = next[r] + 1 /\ next[r] < Len(log)
    BY <1>2, <2>1
  <2>2. CASE next'[r] = S!Oldest /\ next[r] < S!Oldest
    BY <1>2, <2>2
  <2>3. CASE UNCHANGED next
    BY <1>2, <2>3
  <2>4. QED
    BY <2>1, <2>2, <2>3 DEF S!Receive, S!Lagged, S!Lags, S!Sent, S!Check, S!Panic, Known, StreamInv
<1>4. ASSUME NEW q \in Forwarders
      PROVE  /\ q \in Readers /\ next[q] \in Nat /\ since[q] \in Nat
             /\ since[q] <= next[q] /\ next[q] <= Len(log)
             /\ reader[q] # "off" => target[q] = Serves[q]
  BY DEF Readers, S!Readers, Known, S!TypeOK, ForwardInv, Reading
<1>5. ASSUME NEW q \in Forwarders
      PROVE  /\ since[q] <= next'[q] /\ next'[q] <= Len(log) /\ next[q] <= next'[q]
             /\ reader'[q] # "off" => target[q] = Serves[q]
             /\ reader[q] # "off" => reader'[q] # "off"
  <2>1. CASE q = r
    BY <1>1, <1>2, <1>3, <1>4, <2>1
  <2>2. CASE q # r
    BY <1>1, <1>4, <2>2
  <2>3. QED
    BY <2>1, <2>2
<1>6. Reading'
  BY <1>1, <1>5 DEF Reading
<1>7. QED
  BY <1>1, <1>5, <1>6 DEF Onward

\* A forwarder reads for the process that has subscribed: it is found under its id.
LEMMA SubscriberGoesOn ==
  ASSUME PubSubAssumption, Known, Known', ForwardInv, NEW r \in Forwarders, Subscribe(r)
  PROVE  Onward
PROOF
<1>1. /\ Serves[r] \in Procs /\ phase[Serves[r]] \in L!UserCode
      /\ target' = [target EXCEPT ![r] = registry[IdOf[Serves[r]]]]
  BY PubSubAssumption DEF PubSubAssumption, Subscribe, L!InUserCode, L!UserCode
<1>2. registry[IdOf[Serves[r]]] = Serves[r]
  BY <1>1 DEF Known, L!LiveIsFindable
<1>3. /\ UNCHANGED log /\ reader[r] = "off" /\ reader' = [reader EXCEPT ![r] = "listening"]
      /\ next' = [next EXCEPT ![r] = Len(log)] /\ since' = [since EXCEPT ![r] = Len(log)]
  BY DEF Subscribe, S!Subscribe, S!Goto, S!Sent
<1>4. /\ Len(log) \in Nat /\ target \in [Forwarders -> Procs \cup {NoProc}]
      /\ \A f \in Forwarders : next[f] \in Nat
      /\ reader \in [S!Readers -> S!States] /\ next \in [S!Readers -> Nat] /\ since \in [S!Readers -> Nat]
      /\ Forwarders \subseteq S!Readers
  <2>1. target \in [Forwarders -> Procs \cup {NoProc}]
    BY DEF Known, PubInv
  <2>2. /\ log \in Seq(Types) /\ reader \in [S!Readers -> S!States]
        /\ next \in [S!Readers -> Nat] /\ since \in [S!Readers -> Nat]
    BY DEF Known, S!TypeOK
  <2>3. Forwarders \subseteq S!Readers
    BY DEF S!Readers
  <2>4. QED
    BY <2>1, <2>2, <2>3
<1>5. Reading'
  BY <1>1, <1>2, <1>3, <1>4 DEF ForwardInv, Reading
<1>6. QED
  BY <1>3, <1>4, <1>5 DEF Onward

\* What a forwarder entrusts is what it has just passed.
LEMMA ForwarderEntrusts ==
  ASSUME PubSubAssumption, Known, Known', ForwardInv, NEW r \in Forwarders, UNCHANGED <<handled, target>>,
         S!Receive(r), got' # got, L!Send(<<r, next'[r]>>, "entrust", target[r])
  PROVE  ForwardInv'
PROOF
<1>1. /\ Serves[r] \in Procs /\ r \in Readers /\ Forwarded \subseteq Calls /\ MaxEvents \in Nat
      /\ next \in [Readers -> Nat] /\ since[r] \in Nat /\ Len(log) \in Nat /\ Len(log) <= MaxEvents
  <2>1. Serves[r] \in Procs /\ r \in Readers /\ Forwarded \subseteq Calls /\ MaxEvents \in Nat
    BY PubSubAssumption DEF PubSubAssumption, Readers
  <2>2. next \in [Readers -> Nat] /\ log \in Seq(Types) /\ Len(log) <= MaxEvents
    BY DEF Known, StreamInv
  <2>3. since[r] \in Nat
    BY DEF Known, S!TypeOK, S!Readers
  <2>4. QED
    BY <2>1, <2>2, <2>3
<1>2. /\ reader[r] = "listening" /\ next[r] < Len(log) /\ next'[r] = next[r] + 1
      /\ log[next[r] + 1] \in Mapped[r] /\ UNCHANGED <<log, since>>
  BY <1>1 DEF S!Receive, S!Resolve, S!Sent
<1>3. target[r] = Serves[r] /\ since[r] <= next[r]
  BY <1>2 DEF ForwardInv, Reading
<1>4. Onward
  BY <1>1, ReaderGoesOn
<1>5. PICK n \in 1 .. MaxEvents : n = next[r] + 1
  BY <1>1, <1>2
<1> DEFINE k == <<r, n>>
<1>6. k \in Forwarded /\ k \in Calls /\ k[1] = r /\ k[2] = n
  BY <1>1, ForwardedIs
<1>7. Passed(r, n)'
  <2>1. reader'[r] # "off"
    BY <1>2, <1>4 DEF Onward
  <2>2. n \in Nat /\ next'[r] = n /\ since[r] < n /\ log[n] \in Mapped[r]
    BY <1>1, <1>2, <1>3, <1>5
  <2>3. QED
    BY <1>2, <2>1, <2>2 DEF Passed
<1>8. L!Send(k, "entrust", Serves[r]) /\ next[r] < n
  BY <1>1, <1>2, <1>3, <1>5
<1> HIDE DEF k
<1>9. QED
  BY <1>1, <1>4, <1>6, <1>7, <1>8, ForwardSent

\* Every step keeps it.
LEMMA ForwardNext ==
  ASSUME PubSubAssumption, Known, Known', ForwardInv, [Next]_vars
  PROVE  ForwardInv'
PROOF
<1>1. Forwarded \subseteq Calls /\ Forwarders \subseteq Readers
  BY PubSubAssumption DEF PubSubAssumption, Readers
<1>2. ASSUME Onward, UNCHANGED handled,
             \A k \in Calls : call'[k].status = "idle" <=> call[k].status = "idle",
             \A q \in Procs : mailbox'[q] = mailbox[q] \/ mailbox'[q] = <<>>
      PROVE  ForwardInv'
  <2>1. NoneEntrusted
    BY <1>1, <1>2 DEF NoneEntrusted
  <2>2. \A p \in Procs : mailbox'[p] = mailbox[p] => \A i \in DOMAIN mailbox[p] :
          mailbox[p][i] \in Forwarded => call'[mailbox[p][i]].status # "idle"
    <3>1. ASSUME NEW p \in Procs, NEW i \in DOMAIN mailbox[p], mailbox[p][i] \in Forwarded
          PROVE  call[mailbox[p][i]].status # "idle" /\ mailbox[p][i] \in Calls
      BY <1>1, <3>1 DEF ForwardInv, Queued
    <3>2. QED
      BY <1>2, <3>1
  <2>3. QED
    BY <1>2, <2>1, <2>2, ForwardStays
<1>3. CASE UNCHANGED vars
  BY <1>2, <1>3, LogGoesOn DEF vars, svars, lvars
<1>4. ASSUME NEW p \in Procs, Spawn(p) \/ Start(p) \/ Leave(p) \/ Poison(p) PROVE ForwardInv'
  <2>1. UNCHANGED <<log, reader, next, since, target, handled>>
    BY <1>4 DEF Spawn, Start, Leave, Poison, Alone, svars
  <2>2. /\ \A k \in Calls : call'[k].status = "idle" <=> call[k].status = "idle"
        /\ \A q \in Procs : mailbox'[q] = mailbox[q] \/ mailbox'[q] = <<>>
    BY <1>4, QuietSteps DEF Spawn, Start, Leave, Poison
  <2>3. QED
    BY <1>2, <2>1, <2>2, LogGoesOn
<1>5. ASSUME NEW p \in Procs, L!Panic(p), Handles(p), UNCHANGED <<log, reader, next, since, target>>
      PROVE  ForwardInv'
  <2>1. /\ \A k \in Calls : call'[k].status = "idle" <=> call[k].status = "idle"
        /\ \A q \in Procs : mailbox'[q] = mailbox[q] \/ mailbox'[q] = <<>>
    BY <1>5, QuietSteps
  <2>2. CASE handled' = handled
    BY <1>2, <1>5, <2>1, <2>2, LogGoesOn
  <2>3. CASE handled' # handled
    <3>1. applied' # applied
      BY <1>5, <2>3 DEF Handles
    <3>2. mailbox[p] # <<>> /\ mailbox' = [mailbox EXCEPT ![p] = <<>>]
      BY <1>5, <3>1 DEF L!Panic, L!CloseChannel, L!InUserCode
    <3>3. QED
      BY <1>5, <2>1, <3>2, ForwardTaken
  <2>4. QED
    BY <2>2, <2>3
<1>6. ASSUME NEW p \in Procs, Publish(p) \/ Dies(p) PROVE ForwardInv'
  <2>1. CASE L!Panic(p) /\ Dies(p)
    BY <1>5, <2>1 DEF Dies, svars
  <2>2. CASE L!Panic(p) /\ Publish(p)
    <3>1. UNCHANGED <<target, reader, next, since>>
      BY <2>2 DEF Publish, S!Publish
    <3>2. ~S!HasReceiver \/ UNCHANGED lvars
      BY <2>2 DEF Publish
    <3>3. CASE ~S!HasReceiver
      <4>1. S!Publish(TypeOf[p]) /\ Handles(p)
        BY <2>2 DEF Publish
      <4>2. UNCHANGED log
        BY <3>3, <4>1, Zenon DEF S!Publish
      <4>3. QED
        BY <1>5, <2>2, <3>1, <4>1, <4>2
    <3>4. CASE UNCHANGED lvars
      <4>1. phase'[p] = "crashed" /\ phase[p] # "crashed"
        BY <2>2 DEF L!Panic, L!CloseChannel, L!Goto, L!InUserCode, Known, L!TypeOK
      <4>2. QED
        BY <3>4, <4>1 DEF lvars
    <3>5. QED
      BY <3>2, <3>3, <3>4
  <2>3. CASE Publish(p) /\ UNCHANGED lvars
    <3>1. p \in Publishers /\ S!Publish(TypeOf[p]) /\ UNCHANGED target /\ Handles(p)
      BY <2>3 DEF Publish
    <3>2. UNCHANGED <<reader, next, since>> /\ (log' = log \/ log' = Append(log, TypeOf[p]))
      BY <3>1, Zenon DEF S!Publish
    <3>3. TypeOf[p] \in Types
      BY <3>1, PubSubAssumption DEF PubSubAssumption
    <3>4. UNCHANGED <<handled, call, mailbox>>
      BY <2>3, <3>1 DEF lvars, Handles
    <3>5. QED
      BY <1>2, <3>1, <3>2, <3>3, <3>4, LogGoesOn
  <2>4. QED
    BY <1>6, <2>1, <2>2, <2>3 DEF Publish, Dies
<1>7. ASSUME NEW p \in Procs, Task(p) PROVE ForwardInv'
  <2>1. /\ UNCHANGED <<log, reader, next, since, target>> /\ Handles(p)
        /\ mailbox[p] # <<>> /\ mailbox' = [mailbox EXCEPT ![p] = Tail(@)]
    BY <1>7 DEF Task, svars, L!Task, L!HandleCommand, L!ApplyEvent, L!EntrustCommand, L!ReceiveMessage, L!Takes
  <2>2. \A j \in Calls : call'[j].status = "idle" <=> call[j].status = "idle"
    <3>1. CASE UNCHANGED call
      BY <3>1
    <3>2. CASE call[Head(mailbox[p])].status = "waiting" /\ call' = [call EXCEPT ![Head(mailbox[p])].status = "ok"]
      BY <3>2 DEF Known, L!TypeOK
    <3>3. QED
      BY <1>7, <3>1, <3>2 DEF Task, L!Task, L!HandleCommand, L!ApplyEvent, L!EntrustCommand, L!ReceiveMessage,
                        L!Reply, L!Settle
  <2>3. QED
    BY <2>1, <2>2, ForwardTaken
<1>8. ASSUME NEW r \in Forwarders, Subscribe(r) PROVE ForwardInv'
  <2>1. UNCHANGED <<handled, mailbox, call>>
    BY <1>8 DEF Subscribe, L!Find
  <2>2. QED
    BY <1>2, <1>8, <2>1, SubscriberGoesOn
<1>9. ASSUME NEW p \in Procs, ClientDrops(p) PROVE ForwardInv'
  BY <1>2, <1>9, LogGoesOn DEF ClientDrops, lvars, svars
<1>10. ASSUME NEW r \in Readers, UNCHANGED <<lvars, target, handled>>,
              S!Receive(r) \/ S!Lagged(r) \/ S!Check(r) \/ S!Panic(r)
       PROVE  ForwardInv'
  BY <1>2, <1>10, ReaderGoesOn DEF lvars
<1>11. ASSUME NEW r \in Forwarders, ForwarderStep(r) PROVE ForwardInv'
  <2>1. CASE S!Receive(r) /\ got' # got /\ L!Send(<<r, next'[r]>>, "entrust", target[r])
             /\ UNCHANGED <<target, handled>>
    BY <2>1, ForwarderEntrusts
  <2>2. QED
    BY <1>1, <1>10, <1>11, <2>1 DEF ForwarderStep, Forward, Lags, Check, ForwarderDies
<1>12. CASE DeadLetterStep
  BY <1>10, <1>12 DEF DeadLetterStep, Readers
<1>13. ASSUME NEW k \in Calls \ Forwarded, NEW op, NEW p \in Procs, ClientCalls(k, op, p)
       PROVE  ForwardInv'
  <2>1. UNCHANGED <<log, reader, next, since, target, handled>> /\ L!Send(k, op, p)
    BY <1>13 DEF ClientCalls, Alone, svars
  <2>2. QED
    BY <1>13, <2>1, LogGoesOn, ForwardSent
<1>14. ASSUME NEW k \in Calls, ClientCancels(k) PROVE ForwardInv'
  <2>1. UNCHANGED <<log, reader, next, since, target, handled, mailbox>>
        /\ call[k].status = "waiting" /\ call' = [call EXCEPT ![k].status = "cancelled"]
    BY <1>14 DEF ClientCancels, Alone, svars, L!Cancel, L!Settle
  <2>2. \A j \in Calls : call'[j].status = "idle" <=> call[j].status = "idle"
    BY <2>1 DEF Known, L!TypeOK
  <2>3. QED
    BY <1>2, <2>1, <2>2, LogGoesOn
<1>15. QED
  BY <1>3, <1>4, <1>6, <1>7, <1>8, <1>9, <1>11, <1>12, <1>13, <1>14 DEF Next, ProcessStep

\* Who has subscribed, and where, as Topic sees it: a process and a forwarder of it.
Joined == [pr \in Procs \X Forwarders |-> Serves[pr[2]] = pr[1] /\ reader[pr[2]] # "off"]
Since == [pr \in Procs \X Forwarders |-> IF Serves[pr[2]] = pr[1] THEN since[pr[2]] ELSE 0]
Handling == [pr \in Procs \X Forwarders |-> Mapped[pr[2]]]

\* A command that is accepted delivers its event.
LEMMA HandlingDelivers ==
  ASSUME PubSubAssumption, Known, ForwardInv, NEW p \in Procs, Handles(p), handled' # handled,
         mailbox[p] # <<>>, UNCHANGED <<log, reader, since>>
  PROVE  \E pr \in Procs \X Forwarders : \E n \in 1 .. Len(log) : T!Deliver(pr, n)
PROOF
<1> DEFINE k == Head(mailbox[p])
<1>1. /\ mailbox[p] \in Seq(Calls) /\ handled \in [Procs \X Forwarders -> Seq(Nat)]
      /\ log \in Seq(Types) /\ Len(log) \in Nat
      /\ k \in Forwarded /\ handled' = [handled EXCEPT ![<<p, k[1]>>] = Append(@, k[2])]
  BY DEF Handles, Known, L!TypeOK, StreamInv, ForwardInv, Queued
<1>2. 1 \in DOMAIN mailbox[p] /\ k = mailbox[p][1]
  BY <1>1, HeadTailProperties, LenProperties, EmptySeq
<1> HIDE DEF k
<1>3. PICK r \in Forwarders, n \in 1 .. MaxEvents : k = <<r, n>> /\ k[1] = r /\ k[2] = n /\ k \in By(r)
  BY <1>1, ForwardedIs
<1> DEFINE pr == <<p, r>>
<1>4. pr \in Procs \X Forwarders /\ pr[1] = p /\ pr[2] = r /\ handled[pr] \in Seq(Nat)
  BY <1>1
<1>5. Serves[r] = p /\ call[k].status # "idle" /\ \A j \in DOMAIN handled[pr] : handled[pr][j] < n
  <2>1. Serves[r] = p /\ call[k].status # "idle"
    <3>1. \A i \in DOMAIN mailbox[p] : mailbox[p][i] \in Forwarded =>
            call[mailbox[p][i]].status # "idle" /\ Serves[mailbox[p][i][1]] = p
      BY DEF ForwardInv, Queued
    <3>2. call[k].status # "idle" /\ Serves[k[1]] = p
      BY <1>1, <1>2, <3>1
    <3>3. QED
      BY <1>3, <3>2
  <2>2. Orderly(mailbox[p], handled[pr], r)
    BY DEF ForwardInv, Queued
  <2>3. \A j \in DOMAIN handled[pr] : handled[pr][j] < k[2]
    BY <1>2, <1>3, <2>2 DEF Orderly
  <2>4. QED
    BY <1>3, <2>1, <2>3
<1>6. Passed(r, n) /\ next[r] \in Nat /\ next[r] <= Len(log) /\ n \in Nat
  BY <1>3, <1>5, PubSubAssumption DEF PubSubAssumption, ForwardInv, EntrustsPassed, Reading,
                                      Known, S!TypeOK, S!Readers
<1>7. n \in 1 .. Len(log) /\ n <= Len(log) /\ since[r] < n /\ log[n] \in Mapped[r] /\ reader[r] # "off"
  BY <1>1, <1>3, <1>6 DEF Passed
<1> HIDE DEF pr
<1>8. /\ Joined[pr] /\ Joined' = Joined /\ Since' = Since /\ Since[pr] = since[r]
      /\ Handling[pr] = Mapped[r]
  BY <1>4, <1>5, <1>7 DEF Joined, Since, Handling
<1>9. T!Position(pr) < n
  <2>1. CASE handled[pr] = <<>>
    BY <1>7, <1>8, <2>1, Zenon DEF T!Position, Since
  <2>2. CASE handled[pr] # <<>>
    <3>1. Len(handled[pr]) \in DOMAIN handled[pr]
      BY <1>4, <2>2, LenProperties, EmptySeq
    <3>2. QED
      BY <1>5, <2>2, <3>1 DEF T!Position
  <2>3. QED
    BY <2>1, <2>2
<1>10. T!Deliver(pr, n)
  <2>1. handled' = [handled EXCEPT ![pr] = Append(@, n)] /\ log[n] \in Handling[pr]
    BY <1>1, <1>3, <1>7, <1>8 DEF pr
  <2>2. QED
    BY <1>7, <1>8, <1>9, <2>1, Zenon DEF T!Deliver, Joined, Since, Handling
<1>11. QED
  BY <1>4, <1>7, <1>10

\* Every step is one of the topic, or none of its business.
LEMMA TopicStep ==
  ASSUME PubSubAssumption, Known, Known', ForwardInv, [Next]_vars
  PROVE  [T!Next]_<<log, Joined, Since, handled>>
PROOF
<1> SUFFICES T!Next \/ UNCHANGED <<log, Joined, Since, handled>>
  OBVIOUS
<1>1. ASSUME UNCHANGED <<since, handled>>, \A r \in Forwarders : (reader'[r] # "off") <=> (reader[r] # "off"),
             log' = log \/ \E type \in Types : log' = Append(log, type)
      PROVE  T!Next \/ UNCHANGED <<log, Joined, Since, handled>>
  <2>1. UNCHANGED <<Joined, Since>>
    BY <1>1 DEF Joined, Since
  <2>2. CASE \E type \in Types : log' = Append(log, type)
    BY <1>1, <2>1, <2>2 DEF T!Next, T!Publish, Joined, Since
  <2>3. QED
    BY <1>1, <2>1, <2>2
<1>2. ASSUME NEW p \in Procs, Spawn(p) \/ Start(p) \/ Leave(p) \/ Poison(p) \/ ClientDrops(p)
      PROVE  T!Next \/ UNCHANGED <<log, Joined, Since, handled>>
  BY <1>1, <1>2 DEF Spawn, Start, Leave, Poison, ClientDrops, Alone, svars
<1>3. ASSUME NEW p \in Procs, Publish(p) PROVE T!Next \/ UNCHANGED <<log, Joined, Since, handled>>
  <2>1. Handles(p) /\ p \in Publishers /\ S!Publish(TypeOf[p]) /\ mailbox[p] # <<>>
    BY <1>3 DEF Publish
  <2>2. UNCHANGED <<reader, since>> /\ (log' = log \/ log' = Append(log, TypeOf[p]))
    BY <2>1, Zenon DEF S!Publish
  <2>3. TypeOf[p] \in Types
    BY <2>1, PubSubAssumption DEF PubSubAssumption
  <2>4. CASE UNCHANGED handled
    BY <1>1, <2>2, <2>3, <2>4
  <2>5. CASE handled' # handled
    <3>1. applied' # applied
      BY <2>1, <2>5 DEF Handles
    <3>2. ~S!HasReceiver
      BY <1>3, <3>1 DEF Publish, lvars
    <3>3. UNCHANGED log
      BY <2>1, <3>2, Zenon DEF S!Publish
    <3>4. QED
      BY <2>1, <2>2, <2>5, <3>3, HandlingDelivers DEF T!Next
  <2>6. QED
    BY <2>4, <2>5
<1>4. ASSUME NEW p \in Procs, Task(p) \/ Dies(p)
      PROVE  T!Next \/ UNCHANGED <<log, Joined, Since, handled>>
  <2>1. UNCHANGED <<log, reader, since>> /\ Handles(p)
    BY <1>4 DEF Task, Dies, svars
  <2>2. CASE handled' = handled
    BY <1>1, <2>1, <2>2
  <2>3. CASE handled' # handled
    <3>1. applied' # applied
      BY <2>1, <2>3 DEF Handles
    <3>2. mailbox[p] # <<>>
      BY <1>4, <3>1 DEF Task, Dies, L!Task, L!HandleCommand, L!ApplyEvent, L!EntrustCommand,
                        L!ReceiveMessage, L!Takes, L!Panic, L!InUserCode
    <3>3. QED
      BY <2>1, <2>3, <3>2, HandlingDelivers DEF T!Next
  <2>4. QED
    BY <2>2, <2>3
<1>5. ASSUME NEW r \in Forwarders, Subscribe(r) PROVE T!Next
  <2> DEFINE at == <<Serves[r], r>>
  <2>1. /\ Serves[r] \in Procs /\ UNCHANGED <<log, handled>> /\ reader[r] = "off"
        /\ reader' = [reader EXCEPT ![r] = "listening"] /\ since' = [since EXCEPT ![r] = Len(log)]
        /\ reader \in [S!Readers -> S!States] /\ since \in [S!Readers -> Nat]
    BY <1>5, PubSubAssumption DEF PubSubAssumption, Subscribe, S!Subscribe, S!Goto, S!Sent, Known, S!TypeOK
  <2>2. at \in Procs \X Forwarders /\ at[1] = Serves[r] /\ at[2] = r /\ Forwarders \subseteq S!Readers
    BY <2>1 DEF S!Readers
  <2>3. ASSUME NEW pr \in Procs \X Forwarders
        PROVE  (pr[2] = r /\ pr[1] = Serves[r] => pr = at) /\ pr[2] \in Forwarders
    OBVIOUS
  <2> HIDE DEF at
  <2>4. ~Joined[at] /\ Joined' = [Joined EXCEPT ![at] = TRUE]
    <3>1. ASSUME NEW pr \in Procs \X Forwarders
          PROVE  (Serves[pr[2]] = pr[1] /\ reader'[pr[2]] # "off")
                   = IF pr = at THEN TRUE ELSE Serves[pr[2]] = pr[1] /\ reader[pr[2]] # "off"
      <4>1. CASE pr = at
        BY <2>1, <2>2, <4>1
      <4>2. CASE pr # at /\ pr[2] = r
        BY <2>3, <4>2
      <4>3. CASE pr[2] # r
        <5>1. reader'[pr[2]] = reader[pr[2]] /\ pr # at
          BY <2>1, <2>2, <2>3, <4>3
        <5>2. QED
          BY <5>1
      <4>4. QED
        BY <4>1, <4>2, <4>3
    <3>2. QED
      BY <2>1, <2>2, <3>1 DEF Joined
  <2>5. Since' = [Since EXCEPT ![at] = Len(log)]
    <3>1. ASSUME NEW pr \in Procs \X Forwarders
          PROVE  (IF Serves[pr[2]] = pr[1] THEN since'[pr[2]] ELSE 0)
                   = IF pr = at THEN Len(log) ELSE IF Serves[pr[2]] = pr[1] THEN since[pr[2]] ELSE 0
      <4>1. CASE pr = at
        BY <2>1, <2>2, <4>1
      <4>2. CASE pr # at /\ pr[2] = r
        BY <2>3, <4>2
      <4>3. CASE pr[2] # r
        BY <2>1, <2>2, <2>3, <4>3
      <4>4. QED
        BY <4>1, <4>2, <4>3
    <3>2. QED
      BY <3>1 DEF Since
  <2>6. T!Join(at)
    BY <2>1, <2>4, <2>5, Zenon DEF T!Join, Joined, Since
  <2>7. QED
    BY <2>2, <2>6 DEF T!Next
<1>6. ASSUME NEW r \in Readers, UNCHANGED handled,
             S!Receive(r) \/ S!Lagged(r) \/ S!Check(r) \/ S!Panic(r)
      PROVE  T!Next \/ UNCHANGED <<log, Joined, Since, handled>>
  <2>1. /\ UNCHANGED <<log, since>> /\ reader[r] # "off" /\ reader'[r] # "off"
        /\ \A q \in Readers : q # r => reader'[q] = reader[q]
    BY <1>6 DEF S!Receive, S!Lagged, S!Check, S!Panic, S!Goto, Known, PubInv
  <2>2. QED
    BY <1>1, <1>6, <2>1 DEF Readers
<1>7. ASSUME NEW r \in Forwarders, ForwarderStep(r)
      PROVE  T!Next \/ UNCHANGED <<log, Joined, Since, handled>>
  BY <1>6, <1>7 DEF ForwarderStep, Forward, Lags, Check, ForwarderDies, Readers
<1>8. CASE DeadLetterStep
  BY <1>6, <1>8 DEF DeadLetterStep, Readers
<1>9. ASSUME NEW k, NEW op, NEW p, ClientCancels(k) \/ ClientCalls(k, op, p)
      PROVE  T!Next \/ UNCHANGED <<log, Joined, Since, handled>>
  BY <1>1, <1>9 DEF ClientCancels, ClientCalls, Alone, svars
<1>10. CASE UNCHANGED vars
  BY <1>1, <1>10 DEF vars, svars
<1>11. QED
  BY <1>2, <1>3, <1>4, <1>5, <1>7, <1>8, <1>9, <1>10 DEF Next, ProcessStep

\* From the apply of one process to the apply of another: for any processes, mappings,
\* capacity and interleaving, a subscriber's entity sees through each of its
\* subscriptions, of which it may have several, events that it maps, that were published
\* after the subscription, in their order and none twice.
THEOREM HandledInOrder == Spec => ImplementsTopic
PROOF
<1>1. Init => ForwardInv
  <2> SUFFICES ASSUME Init PROVE ForwardInv
    OBVIOUS
  <2>1. /\ reader = [r \in S!Readers |-> IF r = DeadLetter THEN "listening" ELSE "off"]
        /\ next = [r \in S!Readers |-> 0] /\ since = [r \in S!Readers |-> 0] /\ log = <<>>
        /\ mailbox = [p \in Procs |-> <<>>] /\ handled = [pr \in Procs \X Forwarders |-> <<>>]
        /\ \A k \in Calls : call[k].status = "idle"
    BY DEF Init, S!Init, L!Init
  <2>2. \A r \in Forwarders : r \in S!Readers /\ reader[r] = "off" /\ next[r] = 0 /\ since[r] = 0
    BY <2>1, PubSubAssumption DEF PubSubAssumption, S!Readers
  <2>3. Reading
    BY <2>1, <2>2 DEF Reading
  <2>4. EntrustsPassed
    BY <2>1, ForwardedIs, PubSubAssumption DEF PubSubAssumption, EntrustsPassed
  <2>5. Queued
    BY <2>1, EmptySeq DEF Queued, Orderly
  <2>6. QED
    BY <2>3, <2>4, <2>5 DEF ForwardInv
<1>2. Init => T!Init
  <2> SUFFICES ASSUME Init PROVE T!Init
    OBVIOUS
  <2>1. /\ \A r \in Forwarders : reader[r] = "off" /\ since[r] = 0
        /\ log = <<>> /\ handled = [pr \in Procs \X Forwarders |-> <<>>]
    BY PubSubAssumption DEF PubSubAssumption, Init, S!Init, S!Readers
  <2>2. Joined = [pr \in Procs \X Forwarders |-> pr = DeadLetter]
    <3>1. \A pr \in Procs \X Forwarders : pr # DeadLetter /\ pr[2] \in Forwarders
      BY PubSubAssumption DEF PubSubAssumption
    <3>2. QED
      BY <2>1, <3>1 DEF Joined
  <2>3. Since = [pr \in Procs \X Forwarders |-> 0]
    BY <2>1 DEF Since
  <2>4. QED
    BY <2>1, <2>2, <2>3, Zenon DEF T!Init, Joined, Since
<1>3. Spec => []Known
  BY PubInvariant, ProcessesStaySound, DeliveryStaysSound, PTL DEF Known
<1>4. Known /\ Known' /\ ForwardInv /\ [Next]_vars => ForwardInv'
  BY PubSubAssumption, ForwardNext
<1>5. Known /\ Known' /\ ForwardInv /\ [Next]_vars => [T!Next]_<<log, Joined, Since, handled>>
  BY PubSubAssumption, TopicStep
<1>6. QED
  BY <1>1, <1>2, <1>3, <1>4, <1>5, PTL DEF Spec, ImplementsTopic, T!Spec, Joined, Since
=============================================================================
