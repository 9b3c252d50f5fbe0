-------------------------- MODULE EventStreamProofs --------------------------
(***************************************************************************)
(* What the model checking of EventStream shows on small instances, proved *)
(* for every channel length, every set of readers and every bound.         *)
(***************************************************************************)
EXTENDS EventStream, SequenceTheorems, TLAPS

USE DEF States

----------------------------------------------------------------------------
(* Type correctness.                                                       *)

LEMMA SentType == TypeOK => Sent \in Nat /\ Oldest \in Nat /\ Oldest <= Sent
PROOF BY StreamAssumption, LenProperties DEF TypeOK, Sent, Oldest

\* Resolving an event leaves the histories well typed.
LEMMA ResolveType ==
  ASSUME TypeOK, NEW r \in Readers, NEW n \in Nat, Resolve(r, n)
  PROVE  got' \in [Readers -> Seq(Nat)] /\ late' \in [Readers -> Nat]
PROOF
<1>1. Append(got[r], n) \in Seq(Nat)
  BY AppendProperties DEF TypeOK
<1>2. QED
  BY <1>1 DEF TypeOK, Resolve

LEMMA TypeInit == Init => TypeOK
PROOF
<1> SUFFICES ASSUME Init PROVE TypeOK
  OBVIOUS
<1>1. log \in Seq(Types) /\ got \in [Readers -> Seq(Nat)]
  BY EmptySeq DEF Init
<1>2. reader \in [Readers -> States]
  BY DEF Init
<1>3. /\ open \in BOOLEAN /\ panicked \in BOOLEAN /\ active \in [Processes -> BOOLEAN]
      /\ next \in [Readers -> Nat] /\ since \in [Readers -> Nat] /\ late \in [Readers -> Nat]
      /\ lost \in [Readers -> SUBSET Nat]
  BY DEF Init
<1>4. QED
  BY <1>1, <1>2, <1>3 DEF TypeOK

LEMMA TypeNext == TypeOK /\ [Next]_vars => TypeOK'
PROOF
<1> SUFFICES ASSUME TypeOK, [Next]_vars PROVE TypeOK'
  OBVIOUS
<1>1. CASE UNCHANGED vars
  BY <1>1 DEF TypeOK, vars
<1>2. ASSUME NEW type \in Types, Publish(type) PROVE TypeOK'
  <2>1. Append(log, type) \in Seq(Types)
    BY AppendProperties DEF TypeOK
  <2>2. QED
    BY <1>2, <2>1 DEF TypeOK, Publish
<1>3. ASSUME NEW r \in Readers, ReaderStep(r) PROVE TypeOK'
  <2>1. CASE Receive(r)
    <3>1. next[r] + 1 \in Nat /\ next' \in [Readers -> Nat]
      BY <2>1 DEF TypeOK, Receive
    <3>2. reader' \in [Readers -> States]
      BY <2>1 DEF TypeOK, Receive, Goto
    <3>3. QED
      BY <2>1, <3>1, <3>2, ResolveType DEF TypeOK, Receive
  <2>2. CASE Lagged(r)
    <3>1. (next[r] + 1 .. Oldest) \subseteq Nat
      BY SentType DEF TypeOK
    <3>2. QED
      BY <2>2, <3>1, SentType DEF TypeOK, Lagged, Goto
  <2>3. CASE Closed(r) \/ Check(r) \/ Panic(r)
    BY <2>3 DEF TypeOK, Closed, Check, Panic, Goto
  <2>4. QED
    BY <1>3, <2>1, <2>2, <2>3 DEF ReaderStep
<1>4. ASSUME NEW r \in Readers, Subscribe(r) PROVE TypeOK'
  BY <1>4, SentType DEF TypeOK, Subscribe, Goto
<1>5. ASSUME NEW p \in Processes, Poison(p) PROVE TypeOK'
  BY <1>5 DEF TypeOK, Poison
<1>6. CASE Close
  BY <1>6 DEF TypeOK, Close
<1>7. QED
  BY <1>1, <1>2, <1>3, <1>4, <1>5, <1>6 DEF Next, Readers

\* Every reachable state is well typed.
THEOREM TypeCorrect == Spec => []TypeOK
PROOF BY TypeInit, TypeNext, PTL DEF Spec

----------------------------------------------------------------------------
(* What a reader has passed, resolved and lost.                            *)

\* InOrder and Accounting with what keeps them: the cursor stays within the log,
\* nothing beyond it counts as lost, and a task not yet spawned has no history.
ReaderInv(r) ==
  /\ since[r] <= next[r] /\ next[r] <= Sent
  /\ reader[r] = "off" => got[r] = <<>> /\ lost[r] = {}
  /\ \A i \in DOMAIN got[r] :
       /\ since[r] < got[r][i] /\ got[r][i] <= next[r]
       /\ \A j \in DOMAIN got[r] : i < j => got[r][i] < got[r][j]
  /\ \A n \in lost[r] : n <= next[r] /\ n <= Sent - Cap
  /\ \A n \in since[r] + 1 .. next[r] :
       log[n] \in Mapped[r] => (n \in Range(got[r]) <=> n \notin lost[r])

DeliveryInv == \A r \in Readers : ReaderInv(r)

\* The log only grows, so that what was true of a reader stays true while the
\* reader does nothing.
LEMMA IdleReader ==
  ASSUME TypeOK, NEW r \in Readers, ReaderInv(r),
         \/ UNCHANGED log
         \/ \E type \in Types : log' = Append(log, type),
         next'[r] = next[r], since'[r] = since[r], got'[r] = got[r], lost'[r] = lost[r],
         reader'[r] = "off" => reader[r] = "off"
  PROVE  ReaderInv(r)'
PROOF
<1>1. Sent \in Nat /\ Sent' \in Nat /\ Sent <= Sent' /\ \A n \in 1 .. Sent : log'[n] = log[n]
  <2>1. CASE UNCHANGED log
    BY <2>1, SentType DEF Sent
  <2>2. ASSUME NEW type \in Types, log' = Append(log, type)
        PROVE  Sent \in Nat /\ Sent' \in Nat /\ Sent <= Sent'
               /\ \A n \in 1 .. Sent : log'[n] = log[n]
    BY <2>2, AppendProperties, SentType DEF TypeOK, Sent
  <2>3. QED
    BY <2>1, <2>2
<1>2. next[r] \in Nat /\ since[r] \in Nat /\ Cap \in Nat /\ lost[r] \subseteq Nat
  BY StreamAssumption DEF TypeOK
<1>3. \A n \in since[r] + 1 .. next[r] : n \in 1 .. Sent /\ log'[n] = log[n]
  BY <1>1, <1>2 DEF ReaderInv
<1>4. QED
  BY <1>1, <1>2, <1>3 DEF ReaderInv

\* The event after the cursor, resolved: the history grows at its end.
LEMMA ReceiveReader ==
  ASSUME TypeOK, NEW r \in Readers, ReaderInv(r), Receive(r)
  PROVE  ReaderInv(r)'
PROOF
<1> DEFINE n == next[r] + 1
<1>1. /\ next[r] \in Nat /\ since[r] \in Nat /\ lost[r] \subseteq Nat /\ got[r] \in Seq(Nat)
      /\ Sent \in Nat /\ Sent' = Sent /\ Cap \in Nat /\ log' = log
  BY StreamAssumption, SentType DEF TypeOK, Receive, Sent
<1>2. /\ next'[r] = n /\ since'[r] = since[r] /\ lost'[r] = lost[r]
      /\ n <= Sent /\ n > since[r] /\ n \notin lost[r] /\ reader'[r] # "off"
  BY <1>1 DEF TypeOK, ReaderInv, Receive, Goto
<1>3. CASE log[n] \in Mapped[r]
  <2>1. got'[r] = Append(got[r], n)
    BY <1>3 DEF TypeOK, Receive, Resolve
  <2>2. /\ DOMAIN got[r] = 1 .. Len(got[r]) /\ Len(got[r]) \in Nat
        /\ DOMAIN got'[r] = 1 .. Len(got[r]) + 1
        /\ \A i \in 1 .. Len(got[r]) : got'[r][i] = got[r][i] /\ got[r][i] \in Nat
        /\ got'[r][Len(got[r]) + 1] = n
    <3>1. n \in Nat
      BY <1>1
    <3>2. Append(got[r], n) \in Seq(Nat)
      BY <1>1, <3>1, AppendProperties
    <3> HIDE DEF n
    <3>3. QED
      BY <1>1, <2>1, <3>1, <3>2, AppendProperties, LenProperties, ElementOfSeq
  <2>3. Range(got'[r]) = Range(got[r]) \cup {n}
    <3> HIDE DEF n
    <3>1. QED
      BY <2>2 DEF Range
  <2>4. \A i \in DOMAIN got'[r] :
          /\ since[r] < got'[r][i] /\ got'[r][i] <= n
          /\ \A j \in DOMAIN got'[r] : i < j => got'[r][i] < got'[r][j]
    <3>1. \A i \in DOMAIN got[r] : since[r] < got[r][i] /\ got[r][i] < n
      BY <1>1, <2>2 DEF ReaderInv
    <3>2. n \in Nat
      BY <1>1
    <3>3. \A i, j \in 1 .. Len(got[r]) : i < j => got[r][i] < got[r][j]
      BY <2>2 DEF ReaderInv
    <3> HIDE DEF n
    <3>4. \A i \in 1 .. Len(got[r]) + 1 : i \in 1 .. Len(got[r]) \/ i = Len(got[r]) + 1
      BY <2>2
    <3>5. ASSUME NEW i \in DOMAIN got'[r] PROVE since[r] < got'[r][i] /\ got'[r][i] <= n
      <4>1. CASE i \in 1 .. Len(got[r])
        <5>1. got'[r][i] = got[r][i] /\ got[r][i] \in Nat
          BY <2>2, <4>1
        <5>2. since[r] < got[r][i] /\ got[r][i] < n
          BY <2>2, <3>1, <4>1
        <5>3. QED
          BY <3>2, <5>1, <5>2
      <4>2. CASE i = Len(got[r]) + 1
        BY <1>2, <2>2, <3>2, <4>2
      <4>3. QED
        BY <2>2, <3>4, <4>1, <4>2
    <3>6. ASSUME NEW i \in DOMAIN got'[r], NEW j \in DOMAIN got'[r], i < j
          PROVE  got'[r][i] < got'[r][j]
      <4>1. i \in 1 .. Len(got[r])
        BY <2>2, <3>6
      <4>2. CASE j \in 1 .. Len(got[r])
        BY <2>2, <3>3, <3>6, <4>1, <4>2
      <4>3. CASE j = Len(got[r]) + 1
        BY <2>2, <3>1, <4>1, <4>3
      <4>4. QED
        BY <2>2, <3>4, <4>2, <4>3
    <3>7. QED
      BY <3>5, <3>6
  <2>5. \A m \in since[r] + 1 .. n :
          log[m] \in Mapped[r] => (m \in Range(got'[r]) <=> m \notin lost[r])
    BY <1>1, <1>2, <2>3 DEF ReaderInv
  <2>6. \A m \in lost[r] : m <= n /\ m <= Sent - Cap
    BY <1>1 DEF ReaderInv
  <2>7. /\ since'[r] <= next'[r] /\ next'[r] <= Sent'
        /\ \A m \in lost'[r] : m <= next'[r] /\ m <= Sent' - Cap
    BY <1>1, <1>2, <2>6
  <2>8. \A m \in since'[r] + 1 .. next'[r] :
          log'[m] \in Mapped[r] => (m \in Range(got'[r]) <=> m \notin lost'[r])
    BY <1>1, <1>2, <2>5
  <2> HIDE DEF n
  <2>9. QED
    BY <1>2, <2>4, <2>7, <2>8 DEF ReaderInv
<1>4. CASE log[n] \notin Mapped[r]
  <2>1. got'[r] = got[r]
    BY <1>4 DEF TypeOK, Receive, Resolve
  <2>2. \A i \in DOMAIN got[r] : got[r][i] \in Nat
    BY <1>1, LenProperties, ElementOfSeq
  <2>3. QED
    BY <1>1, <1>2, <1>4, <2>1, <2>2 DEF ReaderInv
<1>5. QED
  BY <1>3, <1>4

\* A lag: what lies between the cursor and the oldest event is lost, all of it.
LEMMA LaggedReader ==
  ASSUME TypeOK, NEW r \in Readers, ReaderInv(r), Lagged(r)
  PROVE  ReaderInv(r)'
PROOF
<1>1. /\ next[r] \in Nat /\ since[r] \in Nat /\ lost[r] \subseteq Nat /\ got[r] \in Seq(Nat)
      /\ Sent \in Nat /\ Sent' = Sent /\ Cap \in Nat /\ log' = log /\ Oldest \in Nat
      /\ Oldest <= Sent
  BY StreamAssumption, SentType DEF TypeOK, Lagged, Sent
<1>2. next[r] < Oldest /\ Oldest = Sent - Cap
  BY <1>1 DEF Lagged, Lags, Oldest
<1>3. /\ next'[r] = Oldest /\ since'[r] = since[r] /\ got'[r] = got[r]
      /\ lost'[r] = lost[r] \cup (next[r] + 1 .. Oldest) /\ reader'[r] # "off"
  BY DEF TypeOK, Lagged, Goto
<1>4. \A i \in DOMAIN got[r] : got[r][i] \in Nat
  BY <1>1, LenProperties, ElementOfSeq
<1>5. \A n \in next[r] + 1 .. Oldest : n \notin Range(got[r])
  BY <1>1, <1>4 DEF ReaderInv, Range
<1>6. \A n \in since[r] + 1 .. Oldest :
        log[n] \in Mapped[r] => (n \in Range(got[r]) <=> n \notin lost'[r])
  <2> SUFFICES ASSUME NEW n \in since[r] + 1 .. Oldest, log[n] \in Mapped[r]
               PROVE  n \in Range(got[r]) <=> n \notin lost'[r]
    OBVIOUS
  <2>1. CASE n <= next[r]
    BY <1>1, <1>3, <2>1 DEF ReaderInv
  <2>2. CASE n > next[r]
    BY <1>1, <1>3, <1>5, <2>2
  <2>3. QED
    BY <1>1, <2>1, <2>2
<1>7. \A n \in lost'[r] : n <= Oldest /\ n <= Sent - Cap
  BY <1>1, <1>2, <1>3 DEF ReaderInv
<1>8. QED
  BY <1>1, <1>2, <1>3, <1>4, <1>6, <1>7 DEF ReaderInv

LEMMA DeliveryNext == TypeOK /\ DeliveryInv /\ [Next]_vars => DeliveryInv'
PROOF
<1> SUFFICES ASSUME TypeOK, DeliveryInv, [Next]_vars, NEW q \in Readers PROVE ReaderInv(q)'
  BY DEF DeliveryInv
<1>0. ReaderInv(q)
  BY DEF DeliveryInv
<1>1. CASE UNCHANGED vars \/ Close \/ \E p \in Processes : Poison(p)
  BY <1>0, <1>1, IdleReader DEF vars, Close, Poison
<1>2. ASSUME NEW type \in Types, Publish(type) PROVE ReaderInv(q)'
  BY <1>0, <1>2, IdleReader DEF Publish
<1>3. ASSUME NEW r \in Readers, ReaderStep(r) PROVE ReaderInv(q)'
  <2>1. CASE q # r
    <3>1. /\ UNCHANGED log /\ next'[q] = next[q] /\ since'[q] = since[q]
          /\ got'[q] = got[q] /\ lost'[q] = lost[q] /\ reader'[q] = reader[q]
      BY <1>3, <2>1
      DEF TypeOK, ReaderStep, Receive, Resolve, Lagged, Closed, Check, Panic, Goto
    <3>2. QED
      BY <1>0, <3>1, IdleReader
  <2>2. CASE q = r
    <3>1. CASE Receive(r)
      BY <1>0, <2>2, <3>1, ReceiveReader
    <3>2. CASE Lagged(r)
      BY <1>0, <2>2, <3>2, LaggedReader
    <3>3. CASE Closed(r) \/ Check(r) \/ Panic(r)
      <4>1. reader'[q] # "off"
        BY <2>2, <3>3 DEF TypeOK, Closed, Check, Panic, Goto
      <4>2. QED
        BY <1>0, <3>3, <4>1, IdleReader DEF Closed, Check, Panic
    <3>4. QED
      BY <1>3, <3>1, <3>2, <3>3 DEF ReaderStep
  <2>3. QED
    BY <2>1, <2>2
<1>4. ASSUME NEW r \in Readers, Subscribe(r) PROVE ReaderInv(q)'
  <2>1. CASE q # r
    <3>1. /\ UNCHANGED <<log, got, lost>> /\ next'[q] = next[q] /\ since'[q] = since[q]
          /\ reader'[q] = reader[q]
      BY <1>4, <2>1 DEF TypeOK, Subscribe, Goto
    <3>2. QED
      BY <1>0, <3>1, IdleReader
  <2>2. CASE q = r
    <3>1. /\ next'[q] = Sent /\ since'[q] = Sent /\ Sent' = Sent /\ Sent \in Nat
          /\ got'[q] = <<>> /\ lost'[q] = {}
      BY <1>0, <1>4, <2>2, SentType DEF TypeOK, ReaderInv, Subscribe, Sent
    <3>2. QED
      BY <3>1 DEF ReaderInv
  <2>3. QED
    BY <2>1, <2>2
<1>5. QED
  BY <1>1, <1>2, <1>3, <1>4 DEF Next, Readers

LEMMA DeliveryInvariant == Spec => [](TypeOK /\ DeliveryInv)
PROOF
<1>1. Init => DeliveryInv
  BY StreamAssumption DEF Init, DeliveryInv, ReaderInv, Sent
<1>2. QED
  BY <1>1, TypeInit, TypeNext, DeliveryNext, PTL DEF Spec

\* No event a reader has a resolver for goes missing without a report of it.
THEOREM AllAccountedFor == Spec => []Accounting
PROOF
<1>1. DeliveryInv => Accounting
  BY DEF DeliveryInv, ReaderInv, Accounting
<1>2. QED
  BY <1>1, DeliveryInvariant, PTL

\* No reader sees an event twice, out of order, or from before it subscribed.
THEOREM DeliveredInOrder == Spec => []InOrder
PROOF
<1>1. DeliveryInv => InOrder
  BY DEF DeliveryInv, ReaderInv, InOrder
<1>2. QED
  BY <1>1, DeliveryInvariant, PTL

----------------------------------------------------------------------------
(* Events sent to a process that poisoned itself.                          *)

\* The one late event is received by a forwarder that then checks and ends.
LateInv ==
  /\ \A r \in Readers : late[r] <= 1
  /\ \A r \in Forwarders :
       active[Serves[r]] \/ reader[r] \in {"off", "listening"} => late[r] = 0

LEMMA LateNext == TypeOK /\ LateInv /\ [Next]_vars => LateInv'
PROOF
<1> SUFFICES ASSUME TypeOK, LateInv, [Next]_vars PROVE LateInv'
  OBVIOUS
<1> USE StreamAssumption
<1>1. ASSUME UNCHANGED <<reader, active, late>> PROVE LateInv'
  BY <1>1 DEF LateInv
<1>2. ASSUME NEW r \in Readers, NEW state, Goto(r, state), UNCHANGED <<active, late>>,
             state # "off",
             r \in Forwarders /\ state = "listening" /\ ~active[Serves[r]] => reader[r] = "off"
      PROVE  LateInv'
  BY <1>2 DEF TypeOK, LateInv, Goto, Readers
<1>3. ASSUME NEW r \in Readers, Receive(r) PROVE LateInv'
  <2>1. \/ late' = late
        \/ late' = [late EXCEPT ![r] = @ + 1] /\ r \in Forwarders /\ ~active[Serves[r]]
    BY <1>3 DEF TypeOK, Receive, Resolve
  <2>2. CASE r \in Forwarders
    <3>1. /\ reader[r] = "listening" /\ UNCHANGED active /\ reader'[r] = "checking"
          /\ \A q \in Readers : q # r => reader'[q] = reader[q]
      BY <1>3, <2>2 DEF TypeOK, Receive, Goto
    <3>2. late[r] = 0
      BY <2>2, <3>1 DEF LateInv
    <3>3. /\ \A q \in Readers : q # r => late'[q] = late[q]
          /\ late'[r] \in {0, 1} /\ (active[Serves[r]] => late'[r] = 0)
      BY <2>1, <3>2 DEF TypeOK
    <3>4. QED
      BY <2>2, <3>1, <3>3 DEF LateInv, Readers
  <2>3. CASE r \notin Forwarders
    BY <1>1, <1>3, <2>1, <2>3 DEF Receive
  <2>4. QED
    BY <2>2, <2>3
<1>4. ASSUME NEW r \in Readers, Lagged(r) PROVE LateInv'
  BY <1>1, <1>2, <1>4 DEF Lagged
<1>5. ASSUME NEW r \in Readers, Closed(r) \/ Panic(r) PROVE LateInv'
  BY <1>2, <1>5 DEF Closed, Panic
<1>6. ASSUME NEW r \in Readers, Check(r) PROVE LateInv'
  BY <1>2, <1>6 DEF Check
<1>7. ASSUME NEW r \in Readers, Subscribe(r) PROVE LateInv'
  BY <1>2, <1>7 DEF Subscribe
\* Whoever was listening to a process that is active has no late event.
<1>8. ASSUME NEW p \in Processes, Poison(p) PROVE LateInv'
  <2>1. UNCHANGED <<reader, late>>
    BY <1>8 DEF Poison
  <2>2. \A r \in Forwarders : active[Serves[r]]' => active[Serves[r]]
    BY <1>8 DEF Poison, TypeOK
  <2>3. QED
    BY <2>1, <2>2 DEF LateInv
<1>9. QED
  BY <1>1, <1>3, <1>4, <1>5, <1>6, <1>7, <1>8
  DEF Next, vars, Publish, Close, ReaderStep, Readers

\* A forwarder sends the process it serves at most one event after it poisoned itself.
THEOREM OneLateEvent == Spec => []AtMostOneLate
PROOF
<1>1. Init => LateInv
  BY DEF Init, LateInv, Readers
<1>2. TypeOK /\ LateInv => AtMostOneLate
  BY DEF LateInv, AtMostOneLate, Readers
<1>3. QED
  BY <1>1, <1>2, TypeInit, TypeNext, LateNext, PTL DEF Spec

----------------------------------------------------------------------------
(* The stream implements the topic.                                        *)

Joined == [r \in Readers |-> reader[r] # "off"]

\* Where the topic takes a reader to be is no further than its cursor.
LEMMA PositionBound ==
  ASSUME TypeOK, NEW r \in Readers, ReaderInv(r)
  PROVE  T!Position(r) \in Nat /\ T!Position(r) <= next[r]
PROOF
<1>1. CASE got[r] = <<>>
  BY <1>1 DEF TypeOK, ReaderInv, T!Position
<1>2. CASE got[r] # <<>>
  <2>1. got[r] \in Seq(Nat)
    BY DEF TypeOK
  <2>2. Len(got[r]) \in DOMAIN got[r] /\ got[r][Len(got[r])] \in Nat
    BY <1>2, <2>1, EmptySeq, LenProperties, ElementOfSeq
  <2>3. QED
    BY <1>2, <2>2 DEF ReaderInv, T!Position
<1>3. QED
  BY <1>1, <1>2

LEMMA TopicStep ==
  TypeOK /\ DeliveryInv /\ [Next]_vars => [T!Next]_<<log, Joined, since, got>>
PROOF
<1> SUFFICES ASSUME TypeOK, DeliveryInv, [Next]_vars
             PROVE  T!Next \/ UNCHANGED <<log, Joined, since, got>>
  OBVIOUS
<1>1. ASSUME UNCHANGED <<log, reader, since, got>>
      PROVE  UNCHANGED <<log, Joined, since, got>>
  BY <1>1 DEF Joined
<1>2. ASSUME NEW r \in Readers, NEW state, state # "off", reader[r] # "off", Goto(r, state)
      PROVE  UNCHANGED Joined
  BY <1>2 DEF TypeOK, Joined, Goto
<1>3. ASSUME NEW type \in Types, Publish(type)
      PROVE  T!Next \/ UNCHANGED <<log, Joined, since, got>>
  <2>1. CASE HasReceiver
    <3>1. T!Publish(type)
      BY <1>3, <2>1 DEF Publish, T!Publish, Joined
    <3>2. QED
      BY <3>1 DEF T!Next
  <2>2. CASE ~HasReceiver
    BY <1>1, <1>3, <2>2 DEF Publish
  <2>3. QED
    BY <2>1, <2>2
<1>4. ASSUME NEW r \in Readers, Receive(r)
      PROVE  T!Next \/ UNCHANGED <<log, Joined, since, got>>
  <2> DEFINE n == next[r] + 1
  <2>1. UNCHANGED <<log, Joined, since>>
    BY <1>2, <1>4 DEF Receive, Joined
  <2>2. CASE log[n] \in Mapped[r]
    <3>1. T!Position(r) < n /\ n \in 1 .. Len(log)
      BY <1>4, PositionBound, SentType DEF TypeOK, DeliveryInv, Receive, Sent
    <3>2. Joined[r]
      BY <1>4 DEF Receive, Joined
    <3>3. got' = [got EXCEPT ![r] = Append(@, n)]
      BY <1>4, <2>2 DEF Receive, Resolve
    <3>4. T!Deliver(r, n)
      BY <2>1, <2>2, <3>1, <3>2, <3>3 DEF T!Deliver, Joined
    <3>5. QED
      BY <3>1, <3>4 DEF T!Next
  <2>3. CASE log[n] \notin Mapped[r]
    BY <1>4, <2>1, <2>3 DEF Receive, Resolve
  <2>4. QED
    BY <2>2, <2>3
<1>5. ASSUME NEW r \in Readers, Lagged(r) \/ Closed(r) \/ Check(r) \/ Panic(r)
      PROVE  UNCHANGED <<log, Joined, since, got>>
  <2>1. UNCHANGED <<log, since, got>>
    BY <1>5 DEF Lagged, Closed, Check, Panic
  <2>2. UNCHANGED Joined
    BY <1>2, <1>5 DEF Lagged, Closed, Check, Panic, Joined
  <2>3. QED
    BY <2>1, <2>2
<1>6. ASSUME NEW r \in Readers, Subscribe(r) PROVE T!Next
  <2>1. ~Joined[r] /\ Joined' = [Joined EXCEPT ![r] = TRUE]
    BY <1>6 DEF TypeOK, Subscribe, Goto, Joined
  <2>2. T!Join(r)
    BY <1>6, <2>1 DEF Subscribe, Sent, T!Join, Joined
  <2>3. QED
    BY <2>2 DEF T!Next
<1>7. QED
  BY <1>1, <1>3, <1>4, <1>5, <1>6 DEF Next, vars, Close, Poison, ReaderStep, Readers

\* Rings, cursors and lags leave out events and do nothing worse.
THEOREM StreamIsATopic == Spec => ImplementsTopic
PROOF
<1>1. Init => T!Init
  BY DEF Init, T!Init
<1>2. TypeOK /\ DeliveryInv /\ [Next]_vars
        => [T!Next]_<<log, [r \in Readers |-> reader[r] # "off"], since, got>>
  BY TopicStep DEF Joined
<1>3. QED
  BY <1>1, <1>2, DeliveryInvariant, PTL DEF Spec, ImplementsTopic, T!Spec
=============================================================================
