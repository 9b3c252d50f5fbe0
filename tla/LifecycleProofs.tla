--------------------------- MODULE LifecycleProofs ---------------------------
(***************************************************************************)
(* What Lifecycle's model checking shows on small instances, proved for    *)
(* every set of ids, processes and calls.                                  *)
(***************************************************************************)
EXTENDS Lifecycle, SequenceTheorems, TLAPS

USE DEF Ops, Statuses, Unspawned, UserCode, Leaving, Gone, Phases

----------------------------------------------------------------------------
(* The moves.                                                              *)

\* The step a task of the mailbox makes keeps the mailboxes well typed.
LEMMA TakesType ==
  ASSUME TypeOK, NEW p \in Procs, NEW op, Takes(p, op)
  PROVE  /\ Head(mailbox[p]) \in Calls
         /\ mailbox' \in [Procs -> Seq(Calls)]
PROOF
<1>1. mailbox[p] \in Seq(Calls) /\ mailbox[p] # <<>>
  BY DEF TypeOK, Takes
<1>2. Head(mailbox[p]) \in Calls /\ Tail(mailbox[p]) \in Seq(Calls)
  BY <1>1, HeadTailProperties
<1>3. QED
  BY <1>2 DEF TypeOK, Takes

\* The oldest task of a mailbox is a call's.
LEMMA HeadIsCall ==
  ASSUME TypeOK, NEW p \in Procs, mailbox[p] # <<>>
  PROVE  Head(mailbox[p]) \in Calls
PROOF BY HeadTailProperties DEF TypeOK

\* So does ending a task, whatever phase it ends in.
LEMMA CloseChannelType ==
  ASSUME TypeOK, NEW p \in Procs, NEW ph \in Phases, CloseChannel(p, ph)
  PROVE  /\ phase' \in [Procs -> Phases]
         /\ mailbox' \in [Procs -> Seq(Calls)]
         /\ call' \in [Calls -> [status : Statuses, op : Ops, to : Procs \cup {NoProc}]]
PROOF
<1>1. phase' \in [Procs -> Phases]
  BY DEF TypeOK, CloseChannel, Goto
<1>2. <<>> \in Seq(Calls)
  OBVIOUS
<1>3. mailbox' \in [Procs -> Seq(Calls)]
  BY <1>2 DEF TypeOK, CloseChannel
<1>4. call' \in [Calls -> [status : Statuses, op : Ops, to : Procs \cup {NoProc}]]
  BY DEF TypeOK, CloseChannel
<1>5. QED
  BY <1>1, <1>3, <1>4

\* A reply leaves phases and calls well typed.
LEMMA ReplyType ==
  ASSUME TypeOK, NEW p \in Procs, NEW k \in Calls, Reply(p, k)
  PROVE  /\ phase' \in [Procs -> Phases]
         /\ call' \in [Calls -> [status : Statuses, op : Ops, to : Procs \cup {NoProc}]]
PROOF BY DEF TypeOK, Reply, Goto, Settle

\* Applying an event leaves the history well typed.
LEMMA ApplyType ==
  ASSUME TypeOK, NEW p \in Procs, NEW k \in Calls, Apply(p, k)
  PROVE  applied' \in [Procs -> Seq([call : Calls, seq : Int])]
PROOF
<1>1. [call |-> k, seq |-> seq[p]] \in [call : Calls, seq : Int]
  BY DEF TypeOK
<1>2. Append(applied[p], [call |-> k, seq |-> seq[p]]) \in Seq([call : Calls, seq : Int])
  BY <1>1, AppendProperties DEF TypeOK
<1>3. QED
  BY <1>2 DEF TypeOK, Apply

----------------------------------------------------------------------------
(* Type correctness.                                                       *)

LEMMA TypeInit == Init => TypeOK
PROOF BY ProcsAssumption DEF Init, TypeOK

LEMMA TypeNext == TypeOK /\ [Next]_vars => TypeOK'
PROOF
<1> SUFFICES ASSUME TypeOK, [Next]_vars PROVE TypeOK'
  OBVIOUS
<1>1. CASE UNCHANGED vars
  BY <1>1 DEF TypeOK, vars
<1>2. ASSUME NEW p \in Procs, NEW from, NEW to \in Phases, Pass(p, from, to) PROVE TypeOK'
  BY <1>2 DEF TypeOK, Pass, Goto
<1>3. ASSUME NEW p \in Procs, Run(p) PROVE TypeOK'
  <2>1. CASE RunInsert(p)
    BY <2>1, ProcsAssumption DEF TypeOK, RunInsert, Goto
  <2>2. QED
    BY <1>2, <1>3, <2>1 DEF Run, RunRefused, RunAllowed, RunCancelled
<1>4. ASSUME NEW p \in Procs, Task(p) PROVE TypeOK'
  <2>1. CASE HandleCommand(p)
    BY <2>1, TakesType, ReplyType DEF TypeOK, HandleCommand
  <2>2. CASE ApplyEvent(p)
    <3>1. seq' \in [Procs -> Int]
      BY <2>2 DEF TypeOK, ApplyEvent, Advance
    <3>2. QED
      BY <2>2, <3>1, TakesType, ReplyType, ApplyType DEF TypeOK, ApplyEvent
  <2>3. CASE EntrustCommand(p)
    <3>1. seq' \in [Procs -> Int]
      BY <2>3 DEF TypeOK, EntrustCommand, Advance
    <3>2. QED
      BY <2>3, <3>1, TakesType, ApplyType DEF TypeOK, EntrustCommand
  <2>4. CASE ReceiveMessage(p)
    BY <2>4, TakesType DEF TypeOK, ReceiveMessage
  <2>5. QED
    BY <1>4, <2>1, <2>2, <2>3, <2>4 DEF Task
<1>5. ASSUME NEW p \in Procs, ProcessStep(p) PROVE TypeOK'
  <2>1. CASE DeregisterRemove(p)
    BY <2>1 DEF TypeOK, DeregisterRemove, Goto
  <2>2. CASE Exit(p)
    BY <2>2, CloseChannelType DEF TypeOK, Exit
  <2>3. CASE Panic(p)
    <3>1. applied' \in [Procs -> Seq([call : Calls, seq : Int])]
      <4>1. CASE UNCHANGED applied
        BY <4>1 DEF TypeOK
      <4>2. CASE phase[p] = "running" /\ Apply(p, Head(mailbox[p]))
        <5>1. Head(mailbox[p]) \in Calls
          BY <2>3, <4>2, HeadIsCall DEF Panic, InUserCode
        <5>2. QED
          BY <4>2, <5>1, ApplyType
      <4>3. QED
        BY <2>3, <4>1, <4>2 DEF Panic
    <3>2. QED
      BY <2>3, <3>1, CloseChannelType DEF TypeOK, Panic
  <2>4. QED
    BY <1>2, <1>4, <1>5, <2>1, <2>2, <2>3
    DEF ProcessStep, Start, Orphaned, Stop, DeregisterMiss, DeregisterHit
<1>6. ASSUME NEW p \in Procs, Poison(p) \/ Find(p) \/ Drop(p) PROVE TypeOK'
  BY <1>6 DEF TypeOK, Poison, Find, Drop
<1>7. ASSUME NEW k \in Calls, NEW op \in Ops, NEW p \in Procs, Send(k, op, p) PROVE TypeOK'
  <2>1. Append(mailbox[p], k) \in Seq(Calls)
    BY AppendProperties DEF TypeOK
  <2>2. mailbox' \in [Procs -> Seq(Calls)]
    BY <1>7, <2>1 DEF TypeOK, Send
  <2>3. call' \in [Calls -> [status : Statuses, op : Ops, to : Procs \cup {NoProc}]]
    <3>1. ASSUME NEW s \in Statuses, call' = [call EXCEPT ![k] = [status |-> s, op |-> op, to |-> p]]
          PROVE  call' \in [Calls -> [status : Statuses, op : Ops, to : Procs \cup {NoProc}]]
      BY <3>1 DEF TypeOK
    <3>2. CASE Open(p)
      BY <1>7, <3>1, <3>2 DEF Send
    <3>3. CASE ~Open(p)
      BY <1>7, <3>1, <3>3 DEF Send
    <3>4. QED
      BY <3>2, <3>3
  <2>4. QED
    BY <1>7, <2>2, <2>3 DEF TypeOK, Send
<1>8. ASSUME NEW k \in Calls, Cancel(k) PROVE TypeOK'
  BY <1>8 DEF TypeOK, Cancel, Settle
<1>9. QED
  BY <1>1, <1>2, <1>3, <1>5, <1>6, <1>7, <1>8 DEF Next, Timeout

\* Every reachable state is well typed.
THEOREM TypeCorrect == Spec => []TypeOK
PROOF BY TypeInit, TypeNext, PTL DEF Spec

----------------------------------------------------------------------------
(* The registry holds no Receptor of a process that is not there.          *)

LEMMA GhostNext == TypeOK /\ NoGhostEntry /\ [Next]_vars => NoGhostEntry'
PROOF
<1> SUFFICES ASSUME TypeOK, NoGhostEntry, [Next]_vars PROVE NoGhostEntry'
  OBVIOUS
<1> USE ProcsAssumption
\* A process that stays among those that may be registered, or was not one.
<1>1. ASSUME NEW p \in Procs, NEW ph, Goto(p, ph), UNCHANGED registry,
             \/ ph \in UserCode \cup Leaving \cup {"crashed"}
             \/ registry[IdOf[p]] # p
      PROVE  NoGhostEntry'
  BY <1>1 DEF TypeOK, NoGhostEntry, Goto
<1>2. ASSUME UNCHANGED <<phase, registry>> PROVE NoGhostEntry'
  BY <1>2 DEF NoGhostEntry
<1>3. ASSUME NEW p \in Procs, phase[p] \in Unspawned \cup Gone PROVE registry[IdOf[p]] # p
  <2>1. IdOf[p] \in Ids /\ p # NoProc
    OBVIOUS
  <2>2. SUFFICES ASSUME registry[IdOf[p]] = p PROVE FALSE
    OBVIOUS
  <2>3. phase[p] \in UserCode \cup Leaving \cup {"crashed"}
    BY <2>1, <2>2 DEF NoGhostEntry
  <2>4. QED
    BY <1>3, <2>3
<1>4. ASSUME NEW p \in Procs, Run(p) PROVE NoGhostEntry'
  <2>1. CASE RunInsert(p)
    BY <2>1 DEF TypeOK, NoGhostEntry, RunInsert, Goto
  <2>2. QED
    BY <1>1, <1>3, <1>4, <2>1 DEF Run, RunRefused, RunAllowed, RunCancelled, Pass
<1>5. ASSUME NEW p \in Procs, Task(p) PROVE NoGhostEntry'
  <2>1. UNCHANGED registry /\ (UNCHANGED phase \/ Goto(p, "stopping"))
    BY <1>5 DEF Task, HandleCommand, ApplyEvent, EntrustCommand, ReceiveMessage, Reply
  <2>2. QED
    BY <1>1, <1>2, <2>1
<1>6. ASSUME NEW p \in Procs, ProcessStep(p) PROVE NoGhostEntry'
  <2>1. CASE Start(p) \/ Orphaned(p) \/ Stop(p) \/ DeregisterHit(p)
    BY <1>1, <2>1 DEF Start, Orphaned, Stop, DeregisterHit, Pass
  <2>2. CASE DeregisterMiss(p)
    BY <1>1, <2>2 DEF DeregisterMiss, Pass
  <2>3. CASE DeregisterRemove(p)
    BY <2>3 DEF TypeOK, NoGhostEntry, DeregisterRemove, Goto
  <2>4. CASE Exit(p)
    BY <1>1, <1>3, <2>4 DEF Exit, CloseChannel
  <2>5. CASE Panic(p)
    BY <1>1, <2>5 DEF Panic, CloseChannel
  <2>6. QED
    BY <1>5, <1>6, <2>1, <2>2, <2>3, <2>4, <2>5 DEF ProcessStep
<1>7. ASSUME NEW p \in Procs, Timeout(p) PROVE NoGhostEntry'
  BY <1>1, <1>7 DEF Timeout, Pass
<1>8. ASSUME NEW p \in Procs, Poison(p) \/ Find(p) \/ Drop(p) PROVE NoGhostEntry'
  BY <1>2, <1>8 DEF Poison, Find, Drop
<1>9. ASSUME NEW k \in Calls, Cancel(k) \/ \E op \in Ops, p \in Procs : Send(k, op, p)
      PROVE NoGhostEntry'
  BY <1>2, <1>9 DEF Cancel, Send
<1>10. QED
  BY <1>2, <1>4, <1>6, <1>7, <1>8, <1>9 DEF Next, vars

\* Whatever the interleaving of spawns and ends, only panics leave an entry
\* behind for a process that is gone.
THEOREM NoGhosts == Spec => []NoGhostEntry
PROOF
<1>1. Init => NoGhostEntry
  BY DEF Init, NoGhostEntry
<1>2. QED
  BY <1>1, TypeInit, TypeNext, GhostNext, PTL DEF Spec

----------------------------------------------------------------------------
(* Sequence numbers.                                                       *)

\* ConsecutiveSequence, with the number of a process that does not run yet.
SequenceInv ==
  \A p \in Procs :
    /\ \A n \in DOMAIN applied[p] : applied[p][n].seq = StartSeq[p] + n - 1
    /\ phase[p] \in Unspawned \cup {"starting", "running"}
         => seq[p] = StartSeq[p] + Len(applied[p])

\* One more event, applied under the number the context shows, extends the run.
LEMMA ApplySequence ==
  ASSUME TypeOK, SequenceInv, NEW p \in Procs, NEW k \in Calls,
         phase[p] = "running", Apply(p, k)
  PROVE  /\ \A q \in Procs : \A n \in DOMAIN applied'[q] :
              applied'[q][n].seq = StartSeq[q] + n - 1
         /\ Len(applied'[p]) = Len(applied[p]) + 1
         /\ \A q \in Procs : q # p => applied'[q] = applied[q]
PROOF
<1> DEFINE e == [call |-> k, seq |-> seq[p]]
<1> DEFINE Entries == [call : Calls, seq : Int]
<1>1. applied[p] \in Seq(Entries) /\ e \in Entries
  BY DEF TypeOK
<1>2. /\ Len(Append(applied[p], e)) = Len(applied[p]) + 1
      /\ \A n \in 1 .. Len(applied[p]) : Append(applied[p], e)[n] = applied[p][n]
      /\ Append(applied[p], e)[Len(applied[p]) + 1] = e
      /\ DOMAIN Append(applied[p], e) = 1 .. Len(applied[p]) + 1
      /\ DOMAIN applied[p] = 1 .. Len(applied[p])
      /\ Len(applied[p]) \in Nat
  <2> HIDE DEF e, Entries
  <2>1. QED
    BY <1>1, AppendProperties, LenProperties
<1>3. applied'[p] = Append(applied[p], e) /\ \A q \in Procs : q # p => applied'[q] = applied[q]
  BY DEF TypeOK, Apply
<1>4. e.seq = StartSeq[p] + Len(applied[p])
  BY DEF SequenceInv
<1>5. \A n \in DOMAIN applied'[p] : applied'[p][n].seq = StartSeq[p] + n - 1
  <2> SUFFICES ASSUME NEW n \in DOMAIN applied'[p]
               PROVE  applied'[p][n].seq = StartSeq[p] + n - 1
    OBVIOUS
  <2>1. CASE n \in 1 .. Len(applied[p])
    <3> HIDE DEF e
    <3>1. QED
      BY <1>2, <1>3, <2>1 DEF SequenceInv
  <2>2. CASE n = Len(applied[p]) + 1
    <3>1. applied'[p][n] = e
      BY <1>2, <1>3, <2>2
    <3>2. StartSeq[p] \in Int
      BY ProcsAssumption
    <3> HIDE DEF e
    <3>3. QED
      BY <1>2, <1>4, <2>2, <3>1, <3>2
  <2>3. QED
    <3> HIDE DEF e
    <3>1. QED
      BY <1>2, <1>3, <2>1, <2>2
<1>6. QED
  <2> HIDE DEF e
  <2>1. QED
    BY <1>2, <1>3, <1>5 DEF SequenceInv

LEMMA SequenceNext == TypeOK /\ SequenceInv /\ [Next]_vars => SequenceInv'
PROOF
<1> SUFFICES ASSUME TypeOK, SequenceInv, [Next]_vars PROVE SequenceInv'
  OBVIOUS
<1> USE ProcsAssumption
<1>1. ASSUME UNCHANGED <<phase, seq, applied>> PROVE SequenceInv'
  BY <1>1 DEF SequenceInv
\* A move to another phase, never into the loop from behind it.
<1>2. ASSUME NEW p \in Procs, NEW ph, Goto(p, ph), UNCHANGED <<seq, applied>>,
             \/ phase[p] \in Unspawned \cup {"starting", "running"}
             \/ ph \notin Unspawned \cup {"starting", "running"}
      PROVE  SequenceInv'
  BY <1>2 DEF TypeOK, SequenceInv, Goto
<1>3. ASSUME NEW p \in Procs, Run(p) PROVE SequenceInv'
  BY <1>2, <1>3 DEF Run, RunRefused, RunAllowed, RunCancelled, RunInsert, Pass
\* An event applied and counted.
<1>4a. ASSUME NEW p \in Procs, NEW k \in Calls, phase[p] = "running", UNCHANGED phase,
              Apply(p, k), Advance(p)
       PROVE  SequenceInv'
  <2>1. seq'[p] = seq[p] + 1 /\ \A q \in Procs : q # p => seq'[q] = seq[q]
    BY <1>4a DEF TypeOK, Advance
  <2>2. \A q \in Procs : Len(applied[q]) \in Nat /\ StartSeq[q] \in Int
    BY LenProperties DEF TypeOK
  <2>3. /\ \A q \in Procs : \A n \in DOMAIN applied'[q] :
             applied'[q][n].seq = StartSeq[q] + n - 1
        /\ Len(applied'[p]) = Len(applied[p]) + 1
        /\ \A q \in Procs : q # p => applied'[q] = applied[q]
    BY <1>4a, ApplySequence
  <2>4. seq'[p] = StartSeq[p] + Len(applied'[p])
    BY <1>4a, <2>1, <2>2, <2>3 DEF SequenceInv
  <2>5. QED
    BY <1>4a, <2>1, <2>3, <2>4 DEF SequenceInv
<1>4. ASSUME NEW p \in Procs, Task(p) PROVE SequenceInv'
  <2>1. CASE HandleCommand(p)
    BY <1>1, <1>2, <2>1 DEF HandleCommand, Reply
  <2>2. CASE ApplyEvent(p)
    <3> DEFINE k == Head(mailbox[p])
    <3>1. /\ k \in Calls /\ phase[p] = "running" /\ Apply(p, k)
          /\ \/ UNCHANGED phase /\ Advance(p)
             \/ Goto(p, "stopping") /\ UNCHANGED seq
      BY <2>2, TakesType DEF ApplyEvent, Takes, Reply
    <3> HIDE DEF k
    <3>2. CASE UNCHANGED phase /\ Advance(p)
      BY <1>4a, <3>1, <3>2
    <3>3. CASE Goto(p, "stopping") /\ UNCHANGED seq
      <4>1. ASSUME NEW q \in Procs, phase'[q] \in Unspawned \cup {"starting", "running"}
            PROVE  q # p /\ phase'[q] = phase[q]
        BY <3>3, <4>1 DEF TypeOK, Goto
      <4>2. QED
        BY <3>1, <3>3, <4>1, ApplySequence DEF SequenceInv
    <3>4. QED
      BY <3>1, <3>2, <3>3
  <2>3. CASE EntrustCommand(p)
    <3> DEFINE k == Head(mailbox[p])
    <3>1. /\ k \in Calls /\ phase[p] = "running" /\ UNCHANGED phase
          /\ (Apply(p, k) /\ Advance(p)) \/ UNCHANGED <<applied, seq>>
      BY <2>3, TakesType DEF EntrustCommand, Takes
    <3> HIDE DEF k
    <3>2. CASE Apply(p, k) /\ Advance(p)
      BY <1>4a, <3>1, <3>2
    <3>3. QED
      BY <1>1, <3>1, <3>2
  <2>4. CASE ReceiveMessage(p)
    BY <1>1, <2>4 DEF ReceiveMessage
  <2>5. QED
    BY <1>4, <2>1, <2>2, <2>3, <2>4 DEF Task
\* A panic may leave one more event behind, under a number that is not counted.
<1>5a. ASSUME NEW p \in Procs, Panic(p) PROVE SequenceInv'
  <2>1. Goto(p, "crashed") /\ UNCHANGED seq
    BY <1>5a DEF Panic, CloseChannel
  <2>2. CASE UNCHANGED applied
    BY <1>2, <2>1, <2>2
  <2>3. CASE phase[p] = "running" /\ Apply(p, Head(mailbox[p]))
    <3>1. Head(mailbox[p]) \in Calls
      BY <1>5a, <2>3, HeadIsCall DEF Panic, InUserCode
    <3>2. ASSUME NEW q \in Procs, phase'[q] \in Unspawned \cup {"starting", "running"}
          PROVE  q # p /\ phase'[q] = phase[q]
      BY <2>1, <3>2 DEF TypeOK, Goto
    <3>3. QED
      BY <2>1, <2>3, <3>1, <3>2, ApplySequence DEF SequenceInv
  <2>4. QED
    BY <1>5a, <2>2, <2>3 DEF Panic
<1>5. ASSUME NEW p \in Procs, ProcessStep(p) \/ Timeout(p) PROVE SequenceInv'
  BY <1>2, <1>4, <1>5, <1>5a
  DEF ProcessStep, Start, Orphaned, Stop, DeregisterHit, DeregisterMiss, DeregisterRemove,
      Exit, Timeout, Pass, CloseChannel
<1>6. ASSUME NEW p \in Procs, Poison(p) \/ Find(p) \/ Drop(p) PROVE SequenceInv'
  BY <1>1, <1>6 DEF Poison, Find, Drop
<1>7. ASSUME NEW k \in Calls, Cancel(k) \/ \E op \in Ops, p \in Procs : Send(k, op, p)
      PROVE SequenceInv'
  BY <1>1, <1>7 DEF Cancel, Send
<1>8. QED
  BY <1>1, <1>3, <1>5, <1>6, <1>7 DEF Next, vars

\* No number is skipped and none used twice within the life of a process.
THEOREM SequencesAreConsecutive == Spec => []ConsecutiveSequence
PROOF
<1>1. Init => SequenceInv
  BY ProcsAssumption DEF Init, SequenceInv
<1>2. SequenceInv => ConsecutiveSequence
  BY DEF SequenceInv, ConsecutiveSequence
<1>3. QED
  BY <1>1, <1>2, TypeInit, TypeNext, SequenceNext, PTL DEF Spec

----------------------------------------------------------------------------
(* Serial runs.                                                            *)

Present(p) == phase[p] \in UserCode \cup Leaving \cup {"crashed"}

\* A process under way to register finds its id free, and one that is present
\* is registered.  The first conjunct is what a serial run assumes; without it
\* the insert of one process breaks the other two for another.
SerialInv ==
  /\ NoOverlap
  /\ \A p \in Procs : phase[p] = "registering" => registry[IdOf[p]] = NoProc
  /\ \A p \in Procs : Present(p) => registry[IdOf[p]] = p

LEMMA SerialNext == TypeOK /\ SerialInv /\ [Next /\ NoOverlap']_vars => SerialInv'
PROOF
<1> SUFFICES ASSUME TypeOK, SerialInv, [Next /\ NoOverlap']_vars PROVE SerialInv'
  OBVIOUS
<1> USE ProcsAssumption
<1>0. NoOverlap'
  <2>1. CASE UNCHANGED vars
    BY <2>1 DEF SerialInv, NoOverlap, vars
  <2>2. QED
    BY <2>1
<1>1. ASSUME UNCHANGED <<phase, registry>> PROVE SerialInv'
  BY <1>1 DEF SerialInv, Present, NoOverlap
\* A move that leaves the registry alone, and neither claims to find the id free
\* nor makes a process present that was not.
<1>2. ASSUME NEW p \in Procs, NEW ph, Goto(p, ph), UNCHANGED registry,
             ph = "registering" => registry[IdOf[p]] = NoProc,
             ph \in UserCode \cup Leaving \cup {"crashed"} => Present(p)
      PROVE  SerialInv'
  BY <1>0, <1>2 DEF TypeOK, SerialInv, Present, Goto
<1>3. ASSUME NEW p \in Procs, Run(p) PROVE SerialInv'
  <2>1. CASE RunInsert(p)
    <3>1. \A q \in Procs : q # p /\ IdOf[q] = IdOf[p] => phase[q] # "registering" /\ ~Present(q)
      <4> SUFFICES ASSUME NEW q \in Procs, q # p, IdOf[q] = IdOf[p]
                   PROVE  phase[q] # "registering" /\ ~Present(q)
        OBVIOUS
      <4>1. phase[p] = "registering" /\ registry[IdOf[p]] = NoProc
        BY <2>1 DEF SerialInv, RunInsert
      <4>2. phase[q] # "registering"
        BY <4>1 DEF SerialInv, NoOverlap
      <4>3. ~Present(q)
        BY <4>1 DEF SerialInv
      <4>4. QED
        BY <4>2, <4>3
    <3>2. \A q \in Procs : q # p => phase'[q] = phase[q]
      BY <2>1 DEF TypeOK, RunInsert, Goto
    <3>3. /\ registry'[IdOf[p]] = p /\ phase'[p] = "starting"
          /\ \A q \in Procs : IdOf[q] # IdOf[p] => registry'[IdOf[q]] = registry[IdOf[q]]
      BY <2>1 DEF TypeOK, RunInsert, Goto
    <3>4. QED
      BY <1>0, <3>1, <3>2, <3>3 DEF SerialInv, Present
  <2>2. QED
    BY <1>2, <1>3, <2>1 DEF Run, RunRefused, RunAllowed, RunCancelled, Pass, Present
<1>4. ASSUME NEW p \in Procs, Task(p) PROVE SerialInv'
  <2>1. /\ phase[p] = "running" /\ UNCHANGED registry
        /\ UNCHANGED phase \/ Goto(p, "stopping")
    BY <1>4 DEF Task, HandleCommand, ApplyEvent, EntrustCommand, ReceiveMessage, Reply, Takes
  <2>2. QED
    BY <1>1, <1>2, <2>1 DEF Present
<1>5. ASSUME NEW p \in Procs, ProcessStep(p) PROVE SerialInv'
  <2>1. CASE DeregisterRemove(p)
    <3>1. \A q \in Procs : q # p /\ IdOf[q] = IdOf[p] => ~Present(q)
      BY <2>1 DEF SerialInv, Present, DeregisterRemove
    <3>2. /\ registry'[IdOf[p]] = NoProc /\ phase'[p] = "leaving"
          /\ \A q \in Procs : q # p => phase'[q] = phase[q]
          /\ \A q \in Procs : IdOf[q] # IdOf[p] => registry'[IdOf[q]] = registry[IdOf[q]]
      BY <2>1 DEF TypeOK, DeregisterRemove, Goto
    <3>3. QED
      BY <1>0, <3>1, <3>2 DEF SerialInv, Present
  <2>2. QED
    BY <1>2, <1>4, <1>5, <2>1
    DEF ProcessStep, Start, Orphaned, Stop, DeregisterMiss, DeregisterHit, Exit, Panic,
        Pass, CloseChannel, InUserCode, Present
<1>6. ASSUME NEW p \in Procs, Timeout(p) PROVE SerialInv'
  BY <1>2, <1>6 DEF Timeout, Pass, Present
<1>7. ASSUME NEW p \in Procs, Poison(p) \/ Find(p) \/ Drop(p) PROVE SerialInv'
  BY <1>1, <1>7 DEF Poison, Find, Drop
<1>8. ASSUME NEW k \in Calls, Cancel(k) \/ \E op \in Ops, p \in Procs : Send(k, op, p)
      PROVE SerialInv'
  BY <1>1, <1>8 DEF Cancel, Send
<1>9. QED
  BY <1>1, <1>3, <1>5, <1>6, <1>7, <1>8 DEF Next, vars

LEMMA SerialInvariant == SerialSpec => [](TypeOK /\ SerialInv)
PROOF
<1>1. Init => SerialInv
  BY DEF Init, SerialInv, NoOverlap, Present
<1>2. TypeOK /\ [Next /\ NoOverlap']_vars => TypeOK'
  BY TypeNext
<1>3. QED
  BY <1>1, <1>2, TypeInit, SerialNext, PTL DEF SerialSpec

\* When the spawns of an id do not overlap, its processes succeed one another.
THEOREM OneAtATime == SerialSpec => []OneLivePerId
PROOF
<1>1. TypeOK /\ SerialInv => OneLivePerId
  BY DEF SerialInv, OneLivePerId, Present
<1>2. QED
  BY <1>1, SerialInvariant, PTL

\* And a process that executes its entity's code is the one its id leads to.
THEOREM Findable == SerialSpec => []LiveIsFindable
PROOF
<1>1. TypeOK /\ SerialInv => LiveIsFindable
  BY DEF SerialInv, LiveIsFindable, Present
<1>2. QED
  BY <1>1, SerialInvariant, PTL

----------------------------------------------------------------------------
(* Serial runs implement the directory.                                    *)

\* A process that changes phase changes its own membership and nobody else's.
LEMMA MemberMoves ==
  ASSUME TypeOK, NEW p \in Procs, NEW ph \in Phases, Goto(p, ph)
  PROVE  /\ phase'[p] = ph
         /\ \A q \in Procs : q # p => Member(q)' = Member(q)
PROOF BY DEF TypeOK, Goto, Member

LEMMA DirectoryStep ==
  TypeOK /\ SerialInv /\ Next => [D!Next]_<<registry, [p \in Procs |-> Member(p)]>>
PROOF
<1> DEFINE member == [p \in Procs |-> Member(p)]
<1> SUFFICES ASSUME TypeOK, SerialInv, Next
             PROVE  D!Next \/ (UNCHANGED registry /\ member' = member)
  BY DEF D!Next
<1> USE ProcsAssumption
<1>1. ASSUME UNCHANGED <<phase, registry>> PROVE UNCHANGED registry /\ member' = member
  BY <1>1 DEF Member
\* p takes the membership m.
<1>2. ASSUME NEW p \in Procs, NEW ph \in Phases, Goto(p, ph), NEW m, Member(p)' = m
      PROVE  member' = [member EXCEPT ![p] = m]
  BY <1>2, MemberMoves
<1>3. ASSUME NEW p \in Procs, NEW ph \in Phases, Goto(p, ph), Member(p)' = Member(p)
      PROVE  member' = member
  BY <1>3, MemberMoves
<1>4. ASSUME NEW p \in Procs, Run(p)
      PROVE  D!Next \/ (UNCHANGED registry /\ member' = member)
  <2>1. CASE RunRefused(p)
    <3>1. Member(p) = "out" /\ Member(p)' = "refused"
      BY <2>1 DEF TypeOK, RunRefused, Pass, Goto, Member
    <3>2. D!Refuse(p)
      BY <1>2, <2>1, <3>1 DEF D!Refuse, RunRefused, Pass
    <3>3. QED
      BY <3>2 DEF D!Next
  <2>2. CASE RunAllowed(p)
    <3>1. Member(p)' = Member(p)
      BY <2>2 DEF TypeOK, RunAllowed, Pass, Goto, Member
    <3>2. QED
      BY <1>3, <2>2, <3>1 DEF RunAllowed, Pass
  <2>3. CASE RunCancelled(p)
    <3>1. Member(p) = "out" /\ Member(p)' = "refused"
      BY <2>3 DEF TypeOK, RunCancelled, Pass, Goto, Member
    <3>2. D!Withdraw(p)
      BY <1>2, <2>3, <3>1 DEF D!Withdraw, RunCancelled, Pass
    <3>3. QED
      BY <3>2 DEF D!Next
  <2>4. CASE RunInsert(p)
    <3>1. Member(p) = "out" /\ Member(p)' = "in"
      BY <2>4 DEF TypeOK, RunInsert, Goto, Member
    <3>2. registry[IdOf[p]] = NoProc
      BY <2>4 DEF SerialInv, RunInsert
    <3>3. D!Claim(p)
      BY <1>2, <2>4, <3>1, <3>2 DEF D!Claim, RunInsert
    <3>4. QED
      BY <3>3 DEF D!Next
  <2>5. QED
    BY <1>4, <2>1, <2>2, <2>3, <2>4 DEF Run
\* Moves among the phases of a member, present or gone.
<1>5. ASSUME NEW p \in Procs, NEW ph \in Phases, Goto(p, ph), UNCHANGED registry,
             \/ Present(p) /\ ph \in UserCode \cup Leaving \cup {"crashed"}
             \/ phase[p] = "leaving" /\ ph = "exited"
      PROVE  UNCHANGED registry /\ member' = member
  <2>1. Member(p)' = Member(p)
    BY <1>5 DEF TypeOK, Goto, Member, Present
  <2>2. QED
    BY <1>3, <1>5, <2>1
<1>6. ASSUME NEW p \in Procs, Task(p)
      PROVE  UNCHANGED registry /\ member' = member
  <2>1. /\ phase[p] = "running" /\ UNCHANGED registry
        /\ UNCHANGED phase \/ Goto(p, "stopping")
    BY <1>6 DEF Task, HandleCommand, ApplyEvent, EntrustCommand, ReceiveMessage, Reply, Takes
  <2>2. QED
    BY <1>1, <1>5, <2>1 DEF Present
<1>7. ASSUME NEW p \in Procs, ProcessStep(p)
      PROVE  D!Next \/ (UNCHANGED registry /\ member' = member)
  <2>1. CASE DeregisterMiss(p)
    BY <2>1 DEF SerialInv, Present, DeregisterMiss, Pass
  <2>2. CASE DeregisterRemove(p)
    <3>1. Member(p) = "in" /\ Member(p)' = "gone"
      BY <2>2 DEF TypeOK, DeregisterRemove, Goto, Member
    <3>2. registry[IdOf[p]] = p
      BY <2>2 DEF SerialInv, Present, DeregisterRemove
    <3>3. D!Release(p)
      BY <1>2, <2>2, <3>1, <3>2 DEF D!Release, DeregisterRemove
    <3>4. QED
      BY <3>3 DEF D!Next
  <2>3. CASE Task(p)
    BY <1>6, <2>3
  <2>4. QED
    BY <1>5, <1>7, <2>1, <2>2, <2>3
    DEF ProcessStep, Start, Orphaned, Stop, DeregisterHit, Exit, Panic, Pass, CloseChannel,
        InUserCode, Present
<1>8. ASSUME NEW p \in Procs, Timeout(p) PROVE UNCHANGED registry /\ member' = member
  BY <1>5, <1>8 DEF Timeout, Pass, Present
<1>9. QED
  BY <1>1, <1>4, <1>7, <1>8 DEF Next, Poison, Find, Drop, Cancel, Send

\* What the registry does in serial runs is what the directory allows.
THEOREM RegistryIsADirectory == SerialSpec => ImplementsDirectory
PROOF
<1>1. Init => D!Init
  BY DEF Init, D!Init, Member
<1>2. UNCHANGED vars => UNCHANGED <<registry, [p \in Procs |-> Member(p)]>>
  BY DEF vars, Member
<1>3. TypeOK /\ SerialInv /\ [Next /\ NoOverlap']_vars
        => [D!Next]_<<registry, [p \in Procs |-> Member(p)]>>
  BY <1>2, DirectoryStep
<1>4. QED
  BY <1>1, <1>3, SerialInvariant, PTL DEF SerialSpec, ImplementsDirectory, D!Spec
=============================================================================
