--------------------------- MODULE MailboxProofs ---------------------------
(***************************************************************************)
(* What becomes of the calls of a Receptor: theorems about Lifecycle that  *)
(* rest on where the task of each call is.                                 *)
(***************************************************************************)
EXTENDS LifecycleProofs

USE DEF Ops, Statuses, Unspawned, UserCode, Leaving, Gone, Phases

Distinct(s) == \A m, n \in DOMAIN s : s[m] = s[n] => m = n
CallsDistinct(s) == \A m, n \in DOMAIN s : s[m].call = s[n].call => m = n

\* The calls whose tasks wait in p's mailbox, and those whose events p applied.
Queued(p) == {mailbox[p][n] : n \in DOMAIN mailbox[p]}
Done(p) == {applied[p][n].call : n \in DOMAIN applied[p]}

OncePerProc ==
  \A p \in Procs :
    /\ Distinct(mailbox[p])
    /\ CallsDistinct(applied[p])

\* p panicked, and the event of k is the last one it applied.
CrashedIn(k, p) == phase[p] = "crashed" /\ applied[p][Len(applied[p])].call = k

\* The task of a call is in the mailbox of the process it was sent to until it
\* is taken; its event is applied only afterwards, or in the task that panics.
CallInv(k) ==
  /\ \A p \in Procs : k \in Queued(p) =>
       call[k].to = p /\ call[k].status \in {"waiting", "sent", "cancelled"}
  /\ call[k].status = "waiting" =>
       /\ call[k].op \in {"handle", "apply"}
       /\ call[k].to \in Procs
       /\ Open(call[k].to)
       /\ k \in Queued(call[k].to)
  /\ \A p \in Procs : k \in Done(p) =>
       /\ call[k].to = p /\ k \notin Queued(p)
       /\ \/ call[k].status \in {"sent", "cancelled", "ok"}
          \/ call[k].status = "dropped" /\ CrashedIn(k, p)
  /\ call[k].status = "ok" /\ call[k].op = "apply" =>
       call[k].to \in Procs /\ k \in Done(call[k].to)

MailInv == OncePerProc /\ \A k \in Calls : CallInv(k)

----------------------------------------------------------------------------
(* Sequences without repetitions.                                          *)

LEMMA TailDistinct ==
  ASSUME NEW S, NEW s \in Seq(S), s # <<>>, Distinct(s)
  PROVE  /\ Distinct(Tail(s))
         /\ {Tail(s)[n] : n \in DOMAIN Tail(s)} = {s[n] : n \in DOMAIN s} \ {Head(s)}
PROOF
<1>1. /\ DOMAIN s = 1 .. Len(s) /\ Len(s) \in Nat /\ Len(s) > 0
      /\ DOMAIN Tail(s) = 1 .. Len(s) - 1
      /\ \A n \in 1 .. Len(s) - 1 : Tail(s)[n] = s[n + 1]
      /\ Head(s) = s[1]
  BY HeadTailProperties, LenProperties, EmptySeq
<1>2. Distinct(Tail(s))
  BY <1>1 DEF Distinct
<1>3. ASSUME NEW n \in DOMAIN Tail(s) PROVE Tail(s)[n] \in {s[m] : m \in DOMAIN s} \ {Head(s)}
  BY <1>1, <1>3 DEF Distinct
<1>4. ASSUME NEW n \in DOMAIN s, s[n] # Head(s) PROVE \E m \in DOMAIN Tail(s) : Tail(s)[m] = s[n]
  <2>1. n - 1 \in DOMAIN Tail(s) /\ Tail(s)[n - 1] = s[n]
    BY <1>1, <1>4
  <2>2. QED
    BY <2>1
<1>5. QED
  BY <1>2, <1>3, <1>4

LEMMA AppendDistinct ==
  ASSUME NEW S, NEW s \in Seq(S), NEW e \in S
  PROVE  /\ {Append(s, e)[n] : n \in DOMAIN Append(s, e)} = {s[n] : n \in DOMAIN s} \cup {e}
         /\ Distinct(s) /\ e \notin {s[n] : n \in DOMAIN s} => Distinct(Append(s, e))
PROOF
<1>1. /\ DOMAIN s = 1 .. Len(s) /\ Len(s) \in Nat
      /\ DOMAIN Append(s, e) = 1 .. Len(s) + 1
      /\ \A n \in 1 .. Len(s) : Append(s, e)[n] = s[n]
      /\ Append(s, e)[Len(s) + 1] = e
  BY AppendProperties, LenProperties
<1>2. ASSUME NEW n \in DOMAIN Append(s, e) PROVE Append(s, e)[n] \in {s[m] : m \in DOMAIN s} \cup {e}
  BY <1>1
<1>3. ASSUME NEW n \in DOMAIN s PROVE n \in DOMAIN Append(s, e) /\ Append(s, e)[n] = s[n]
  BY <1>1
<1>4. Len(s) + 1 \in DOMAIN Append(s, e)
  BY <1>1
<1>5. {Append(s, e)[n] : n \in DOMAIN Append(s, e)} = {s[n] : n \in DOMAIN s} \cup {e}
  BY <1>1, <1>2, <1>3, <1>4
<1>6. ASSUME Distinct(s), e \notin {s[n] : n \in DOMAIN s} PROVE Distinct(Append(s, e))
  BY <1>1, <1>6 DEF Distinct
<1>7. QED
  BY <1>5, <1>6

\* What taking the oldest task does to the mailboxes.
LEMMA TakesQueue ==
  ASSUME TypeOK, OncePerProc, NEW p \in Procs, NEW op, Takes(p, op)
  PROVE  /\ Head(mailbox[p]) \in Calls /\ Head(mailbox[p]) \in Queued(p)
         /\ Queued(p)' = Queued(p) \ {Head(mailbox[p])}
         /\ \A q \in Procs : Distinct(mailbox'[q]) /\ (q # p => Queued(q)' = Queued(q))
PROOF
<1>1. mailbox[p] \in Seq(Calls) /\ mailbox[p] # <<>> /\ Distinct(mailbox[p])
  BY DEF TypeOK, Takes, OncePerProc
<1>2. mailbox'[p] = Tail(mailbox[p]) /\ \A q \in Procs : q # p => mailbox'[q] = mailbox[q]
  BY DEF TypeOK, Takes
<1>3. /\ Distinct(Tail(mailbox[p]))
      /\ {Tail(mailbox[p])[n] : n \in DOMAIN Tail(mailbox[p])}
           = {mailbox[p][n] : n \in DOMAIN mailbox[p]} \ {Head(mailbox[p])}
  BY <1>1, TailDistinct
<1>4. Head(mailbox[p]) = mailbox[p][1] /\ 1 \in DOMAIN mailbox[p] /\ Head(mailbox[p]) \in Calls
  BY <1>1, HeadTailProperties, LenProperties, EmptySeq
<1>5. Head(mailbox[p]) \in Queued(p)
  BY <1>4 DEF Queued
<1>6. Queued(p)' = Queued(p) \ {Head(mailbox[p])}
  BY <1>2, <1>3 DEF Queued
<1>7. \A q \in Procs : Distinct(mailbox'[q])
  BY <1>2, <1>3 DEF OncePerProc
<1>8. \A q \in Procs : q # p => Queued(q)' = Queued(q)
  BY <1>2 DEF Queued
<1>9. QED
  BY <1>4, <1>5, <1>6, <1>7, <1>8

\* What applying an event does to the histories.
LEMMA ApplyDone ==
  ASSUME TypeOK, NEW p \in Procs, NEW k \in Calls, Apply(p, k)
  PROVE  /\ Done(p)' = Done(p) \cup {k}
         /\ \A q \in Procs : q # p => Done(q)' = Done(q) /\ applied'[q] = applied[q]
         /\ CallsDistinct(applied[p]) /\ k \notin Done(p) => CallsDistinct(applied'[p])
PROOF
<1> DEFINE e == [call |-> k, seq |-> seq[p]]
<1>1. e \in [call : Calls, seq : Int] /\ e.call = k
  BY DEF TypeOK
<1>2. /\ applied[p] \in Seq([call : Calls, seq : Int])
      /\ applied'[p] = Append(applied[p], e)
      /\ \A q \in Procs : q # p => applied'[q] = applied[q]
  BY DEF TypeOK, Apply
<1> HIDE DEF e
<1>3. /\ DOMAIN applied[p] = 1 .. Len(applied[p]) /\ Len(applied[p]) \in Nat
      /\ DOMAIN applied'[p] = 1 .. Len(applied[p]) + 1
      /\ \A n \in 1 .. Len(applied[p]) : applied'[p][n] = applied[p][n]
      /\ applied'[p][Len(applied[p]) + 1] = e
  BY <1>1, <1>2, AppendProperties, LenProperties
<1>4. Done(p)' = {applied'[p][n].call : n \in DOMAIN applied'[p]}
  BY DEF Done
<1>5. ASSUME NEW n \in DOMAIN applied'[p] PROVE applied'[p][n].call \in Done(p) \cup {k}
  BY <1>1, <1>3 DEF Done
<1>6. ASSUME NEW n \in DOMAIN applied[p] PROVE applied[p][n].call \in Done(p)'
  BY <1>3, <1>4
<1>7. k \in Done(p)'
  BY <1>1, <1>3, <1>4
<1>8. Done(p)' = Done(p) \cup {k}
  BY <1>4, <1>5, <1>6, <1>7 DEF Done
<1>9. ASSUME CallsDistinct(applied[p]), k \notin Done(p) PROVE CallsDistinct(applied'[p])
  <2>1. \A n \in DOMAIN applied[p] : applied[p][n].call # k
    BY <1>9 DEF Done
  <2>2. \A n \in DOMAIN applied'[p] :
          \/ n \in DOMAIN applied[p] /\ applied'[p][n].call = applied[p][n].call
          \/ n = Len(applied[p]) + 1 /\ applied'[p][n].call = k
    BY <1>1, <1>3
  <2>3. QED
    BY <1>9, <2>1, <2>2 DEF CallsDistinct
<1>10. \A q \in Procs : q # p => Done(q)' = Done(q) /\ applied'[q] = applied[q]
  BY <1>2 DEF Done
<1>11. QED
  BY <1>8, <1>9, <1>10
----------------------------------------------------------------------------
(* The steps.                                                              *)

\* A step that leaves mailboxes, calls and histories alone, and closes no mailbox.
LEMMA QuietStep ==
  ASSUME MailInv, UNCHANGED <<mailbox, call, applied>>,
         \A p \in Procs : (Open(p) => Open(p)') /\ (phase[p] = "crashed" => phase'[p] = "crashed")
  PROVE  MailInv'
PROOF
<1>1. OncePerProc'
  BY DEF MailInv, OncePerProc, Distinct, CallsDistinct
<1>2. \A p \in Procs : Queued(p)' = Queued(p) /\ Done(p)' = Done(p)
  BY DEF Queued, Done
<1>2a. \A k, p : p \in Procs /\ CrashedIn(k, p) => CrashedIn(k, p)'
  BY DEF CrashedIn
<1>3. ASSUME NEW k \in Calls PROVE CallInv(k)'
  <2>1. CallInv(k)
    BY DEF MailInv
  <2>2. QED
    BY <1>2, <1>2a, <2>1 DEF CallInv
<1>4. QED
  BY <1>1, <1>3 DEF MailInv

\* A task taken and settled, whether or not its event was applied.
LEMMA TakeStep ==
  ASSUME TypeOK, MailInv, NEW p \in Procs, NEW op \in Ops, Takes(p, op),
         \A q \in Procs : (Open(q) => Open(q)') /\ (phase[q] = "crashed" => phase'[q] = "crashed"),
         NEW k, k = Head(mailbox[p]),
         \/ UNCHANGED call /\ call[k].status # "waiting"
         \/ Settle(k, "ok"),
         Apply(p, k) \/ (UNCHANGED applied /\ op # "apply")
  PROVE  MailInv'
PROOF
<1>1. /\ k \in Calls /\ k \in Queued(p) /\ call[k].op = op
      /\ Queued(p)' = Queued(p) \ {k}
      /\ \A q \in Procs : Distinct(mailbox'[q]) /\ (q # p => Queued(q)' = Queued(q))
  BY TakesQueue DEF MailInv, Takes
<1>3. /\ call[k].to = p /\ call[k].status \in {"waiting", "sent", "cancelled"}
      /\ \A q \in Procs : k \notin Done(q)
  <2>1. CallInv(k)
    BY <1>1 DEF MailInv
  <2>2. QED
    BY <1>1, <2>1 DEF CallInv
<1>4. /\ \A q \in Procs : q # p => Done(q)' = Done(q)
      /\ Done(p)' = Done(p) \/ Done(p)' = Done(p) \cup {k}
      /\ op = "apply" => Done(p)' = Done(p) \cup {k}
      /\ \A q \in Procs : CallsDistinct(applied'[q])
  <2>1. CASE Apply(p, k)
    BY <1>1, <1>3, <2>1, ApplyDone DEF MailInv, OncePerProc
  <2>2. CASE UNCHANGED applied /\ op # "apply"
    BY <2>2 DEF Done, MailInv, OncePerProc
  <2>3. QED
    BY <2>1, <2>2
<1>5. /\ call'[k].to = p /\ call'[k].op = op
      /\ call'[k].status \in {"sent", "cancelled", "ok"}
      /\ \A j \in Calls : j # k => call'[j] = call[j]
  <2>1. call \in [Calls -> [status : Statuses, op : Ops, to : Procs \cup {NoProc}]]
    BY DEF TypeOK
  <2>2. CASE UNCHANGED call /\ call[k].status # "waiting"
    BY <1>1, <1>3, <2>2
  <2>3. CASE Settle(k, "ok")
    <3>1. call'[k] = [call[k] EXCEPT !.status = "ok"] /\ \A j \in Calls : j # k => call'[j] = call[j]
      BY <1>1, <2>1, <2>3 DEF Settle
    <3>2. QED
      BY <1>1, <1>3, <2>1, <3>1
  <2>4. QED
    BY <2>2, <2>3
<1>6. ASSUME NEW j \in Calls PROVE CallInv(j)'
  <2>1. CallInv(j)
    BY DEF MailInv
  <2>2. CASE j = k
    BY <1>1, <1>3, <1>4, <1>5, <2>1, <2>2 DEF CallInv
  <2>3. CASE j # k
    <3>1. /\ call'[j] = call[j]
          /\ \A q \in Procs : (j \in Queued(q)' <=> j \in Queued(q)) /\ (j \in Done(q)' <=> j \in Done(q))
      BY <1>1, <1>4, <1>5, <2>3
    <3>2. \A q \in Procs : CrashedIn(j, q) => CrashedIn(j, q)'
      <4>1. \A q \in Procs : q # p => applied'[q] = applied[q]
        BY <1>1, ApplyDone
      <4>2. phase[p] # "crashed"
        BY DEF Takes
      <4>3. QED
        BY <4>1, <4>2 DEF CrashedIn
    <3>3. QED
      BY <2>1, <3>1, <3>2 DEF CallInv
  <2>4. QED
    BY <2>2, <2>3
<1>7. OncePerProc'
  BY <1>1, <1>4 DEF OncePerProc
<1>8. QED
  BY <1>6, <1>7 DEF MailInv

\* The end of a task: the callers in its mailbox are told.  The task it panics in
\* may have applied its event.
LEMMA CloseStep ==
  ASSUME TypeOK, MailInv, NEW p \in Procs, NEW ph, CloseChannel(p, ph), phase[p] # "crashed",
         \/ UNCHANGED applied
         \/ ph = "crashed" /\ mailbox[p] # <<>> /\ Apply(p, Head(mailbox[p]))
  PROVE  MailInv'
PROOF
<1>1. /\ \A q \in Procs : q # p => phase'[q] = phase[q] /\ mailbox'[q] = mailbox[q]
      /\ mailbox'[p] = <<>> /\ phase'[p] = ph
  BY DEF TypeOK, CloseChannel, Goto
<1>2. Range(mailbox[p]) = Queued(p)
  BY DEF Range, Queued
<1>3. \A k \in Calls : call'[k] = IF k \in Queued(p) /\ call[k].status = "waiting"
                                  THEN [call[k] EXCEPT !.status = "dropped"] ELSE call[k]
  BY <1>2 DEF CloseChannel
<1>4. /\ Queued(p)' = {}
      /\ \A q \in Procs : q # p => Queued(q)' = Queued(q) /\ (Open(q) => Open(q)')
  BY <1>1 DEF Queued, Open
\* What is applied besides: nothing, or the event of the task in flight.
<1>5. /\ \A q \in Procs : q # p => Done(q)' = Done(q) /\ applied'[q] = applied[q]
      /\ \A q \in Procs : CallsDistinct(applied'[q])
      /\ \A k \in Calls : k \in Done(p)' => k \in Done(p) \/ (k \in Queued(p) /\ CrashedIn(k, p)')
      /\ Done(p) \subseteq Done(p)'
  <2>1. CASE UNCHANGED applied
    BY <2>1 DEF Done, MailInv, OncePerProc
  <2>2. CASE ph = "crashed" /\ mailbox[p] # <<>> /\ Apply(p, Head(mailbox[p]))
    <3>0. PICK h : h = Head(mailbox[p])
      OBVIOUS
    <3>1. h \in Calls /\ h \in Queued(p)
      <4>1. mailbox[p] \in Seq(Calls)
        BY DEF TypeOK
      <4>2. h = mailbox[p][1] /\ 1 \in DOMAIN mailbox[p] /\ h \in Calls
        BY <2>2, <3>0, <4>1, HeadTailProperties, LenProperties, EmptySeq
      <4>3. QED
        BY <4>2 DEF Queued
    <3>2. h \notin Done(p)
      BY <3>1 DEF MailInv, CallInv
    <3>3. CrashedIn(h, p)'
      <4> DEFINE e == [call |-> h, seq |-> seq[p]]
      <4>1. /\ e \in [call : Calls, seq : Int] /\ e.call = h
            /\ applied[p] \in Seq([call : Calls, seq : Int])
            /\ applied'[p] = Append(applied[p], e)
        BY <2>2, <3>0, <3>1 DEF TypeOK, Apply
      <4> HIDE DEF e
      <4>2. applied'[p][Len(applied'[p])] = e
        BY <4>1, AppendProperties, LenProperties
      <4>3. QED
        BY <1>1, <2>2, <4>1, <4>2 DEF CrashedIn
    <3>4. Apply(p, h)
      BY <2>2, <3>0
    <3>5. QED
      BY <3>1, <3>2, <3>3, <3>4, ApplyDone DEF MailInv, OncePerProc
  <2>3. QED
    BY <2>1, <2>2
<1>6. ASSUME NEW k \in Calls PROVE CallInv(k)'
  <2>1. CallInv(k) /\ call[k] \in [status : Statuses, op : Ops, to : Procs \cup {NoProc}]
    BY DEF MailInv, TypeOK
  <2>2. \A q \in Procs : q # p /\ CrashedIn(k, q) => CrashedIn(k, q)'
    BY <1>1, <1>5 DEF CrashedIn
  <2>3. CASE k \in Queued(p) /\ call[k].status = "waiting"
    <3>1. call'[k] = [call[k] EXCEPT !.status = "dropped"]
      BY <1>3, <2>3
    <3>2. call'[k].status = "dropped" /\ call'[k].to = call[k].to /\ call[k].to = p
      BY <2>1, <2>3, <3>1 DEF CallInv
    <3>3. \A q \in Procs : k \notin Done(q) /\ k \notin Queued(q)'
      BY <1>1, <1>4, <2>1, <2>3, <3>2 DEF CallInv
    <3>4. \A q \in Procs : k \in Done(q)' => q = p /\ CrashedIn(k, p)'
      BY <1>5, <3>3
    <3>5. QED
      BY <1>4, <3>2, <3>3, <3>4 DEF CallInv
  <2>4. CASE ~ (k \in Queued(p) /\ call[k].status = "waiting")
    <3>1. call'[k] = call[k]
      BY <1>3, <2>4
    <3>2. \A q \in Procs : k \in Queued(q)' => k \in Queued(q)
      BY <1>4
    <3>3. call[k].status = "waiting" => call[k].to # p
      BY <2>1, <2>4 DEF CallInv
    \* A call whose event was applied before this step.
    <3>4. ASSUME NEW q \in Procs, k \in Done(q)
          PROVE  /\ call[k].to = q /\ k \notin Queued(q)'
                 /\ \/ call[k].status \in {"sent", "cancelled", "ok"}
                    \/ call[k].status = "dropped" /\ CrashedIn(k, q)'
      <4>1. CrashedIn(k, q) => q # p
        BY DEF CrashedIn
      <4>2. QED
        BY <2>1, <2>2, <3>2, <3>4, <4>1 DEF CallInv
    \* The one whose event this step applies.
    <3>5. ASSUME k \in Done(p)', k \notin Done(p)
          PROVE  /\ call[k].to = p /\ k \notin Queued(p)'
                 /\ call[k].status \in {"sent", "cancelled"}
      BY <1>4, <1>5, <2>1, <2>4, <3>5 DEF CallInv
    <3>6. \A q \in Procs : k \in Done(q)' =>
            /\ call[k].to = q /\ k \notin Queued(q)'
            /\ \/ call[k].status \in {"sent", "cancelled", "ok"}
               \/ call[k].status = "dropped" /\ CrashedIn(k, q)'
      BY <1>5, <3>4, <3>5
    <3>7. call[k].status = "waiting" =>
            /\ call[k].op \in {"handle", "apply"} /\ call[k].to \in Procs
            /\ Open(call[k].to)' /\ k \in Queued(call[k].to)'
      BY <1>4, <2>1, <3>1, <3>3 DEF CallInv
    <3>8. call[k].status = "ok" /\ call[k].op = "apply" =>
            call[k].to \in Procs /\ k \in Done(call[k].to)'
      BY <1>5, <2>1, <3>1 DEF CallInv
    <3>9. \A q \in Procs : k \in Queued(q)' =>
            call[k].to = q /\ call[k].status \in {"waiting", "sent", "cancelled"}
      BY <2>1, <3>2 DEF CallInv
    <3>10. QED
      BY <3>1, <3>6, <3>7, <3>8, <3>9 DEF CallInv
  <2>5. QED
    BY <2>3, <2>4
<1>7. OncePerProc'
  BY <1>1, <1>5 DEF MailInv, OncePerProc, Distinct
<1>8. QED
  BY <1>6, <1>7 DEF MailInv

\* A call that is made or given up.
LEMMA CallerStep ==
  ASSUME TypeOK, MailInv, NEW k \in Calls,
         Cancel(k) \/ \E op \in Ops, p \in Procs : Send(k, op, p)
  PROVE  MailInv'
PROOF
<1>1. CallInv(k)
  BY DEF MailInv
<1>2. ASSUME UNCHANGED <<phase, applied>>, OncePerProc', CallInv(k)',
             \A j \in Calls : j # k => call'[j] = call[j],
             \A j \in Calls, q \in Procs : j # k => (j \in Queued(q)' <=> j \in Queued(q))
      PROVE  MailInv'
  <2>1. /\ \A q \in Procs : Done(q)' = Done(q) /\ Open(q)' = Open(q)
        /\ \A j \in Calls, q \in Procs : CrashedIn(j, q)' = CrashedIn(j, q)
    BY <1>2 DEF Done, Open, CrashedIn
  <2>2. ASSUME NEW j \in Calls, j # k PROVE CallInv(j)'
    <3>1. CallInv(j)
      BY DEF MailInv
    <3>2. call'[j] = call[j] /\ \A q \in Procs : j \in Queued(q)' <=> j \in Queued(q)
      BY <1>2, <2>2
    <3>3. QED
      BY <2>1, <3>1, <3>2 DEF CallInv
  <2>3. QED
    BY <1>2, <2>2 DEF MailInv
<1>3. CASE Cancel(k)
  <2>1. /\ UNCHANGED <<phase, mailbox, applied>>
        /\ call'[k].status = "cancelled" /\ call'[k].to = call[k].to
        /\ \A j \in Calls : j # k => call'[j] = call[j]
    BY <1>3 DEF Cancel, Settle, TypeOK
  <2>2. \A q \in Procs : Queued(q)' = Queued(q) /\ Done(q)' = Done(q)
    BY <2>1 DEF Queued, Done
  <2>3. OncePerProc'
    BY <2>1 DEF MailInv, OncePerProc
  <2>4. CallInv(k)'
    BY <1>1, <1>3, <2>1, <2>2 DEF CallInv, Cancel
  <2>5. QED
    BY <1>2, <2>1, <2>2, <2>3, <2>4
<1>4. ASSUME NEW op \in Ops, NEW p \in Procs, Send(k, op, p) PROVE MailInv'
  <2>1. /\ UNCHANGED <<phase, applied>> /\ call[k].status = "idle"
        /\ \A j \in Calls : j # k => call'[j] = call[j]
    BY <1>4 DEF Send, TypeOK
  <2>2. \A q \in Procs : Done(q)' = Done(q) /\ k \notin Done(q) /\ k \notin Queued(q)
    BY <1>1, <2>1 DEF Done, CallInv
  <2>3. CASE Open(p)
    <3>1. /\ mailbox'[p] = Append(mailbox[p], k)
          /\ \A q \in Procs : q # p => mailbox'[q] = mailbox[q]
          /\ call'[k] = [status |-> IF op \in {"handle", "apply"} THEN "waiting" ELSE "sent",
                         op |-> op, to |-> p]
      BY <1>4, <2>3 DEF Send, TypeOK
    <3>2. /\ {Append(mailbox[p], k)[n] : n \in DOMAIN Append(mailbox[p], k)}
               = {mailbox[p][n] : n \in DOMAIN mailbox[p]} \cup {k}
          /\ Distinct(mailbox[p]) /\ k \notin {mailbox[p][n] : n \in DOMAIN mailbox[p]}
             => Distinct(Append(mailbox[p], k))
      BY AppendDistinct DEF TypeOK
    <3>3. Queued(p)' = Queued(p) \cup {k} /\ \A q \in Procs : q # p => Queued(q)' = Queued(q)
      BY <3>1, <3>2 DEF Queued
    <3>4. Distinct(mailbox'[p])
      BY <2>2, <3>1, <3>2 DEF Queued, MailInv, OncePerProc
    <3>5. OncePerProc'
      BY <2>1, <3>1, <3>4 DEF MailInv, OncePerProc
    <3>6. CallInv(k)'
      <4>1. /\ call'[k].to = p /\ call'[k].op = op
            /\ call'[k].status = IF op \in {"handle", "apply"} THEN "waiting" ELSE "sent"
        BY <3>1
      <4>2. Open(p)'
        BY <2>1, <2>3 DEF Open
      <4>3. QED
        BY <2>2, <3>3, <4>1, <4>2 DEF CallInv
    <3>7. QED
      BY <1>2, <2>1, <3>3, <3>5, <3>6
  <2>4. CASE ~Open(p)
    <3>1. UNCHANGED mailbox /\ call'[k] = [status |-> "dropped", op |-> op, to |-> p]
      BY <1>4, <2>4 DEF Send, TypeOK
    <3>2. OncePerProc' /\ \A q \in Procs : Queued(q)' = Queued(q)
      BY <2>1, <3>1 DEF MailInv, OncePerProc, Queued
    <3>3. CallInv(k)'
      BY <2>2, <3>1, <3>2 DEF CallInv
    <3>4. QED
      BY <1>2, <2>1, <3>2, <3>3
  <2>5. QED
    BY <2>3, <2>4
<1>5. QED
  BY <1>3, <1>4

LEMMA MailNext == TypeOK /\ MailInv /\ [Next]_vars => MailInv'
PROOF
<1> SUFFICES ASSUME TypeOK, MailInv, [Next]_vars PROVE MailInv'
  OBVIOUS
\* The moves of a process that is not at its end keep its mailbox open.
<1>1. ASSUME NEW p \in Procs, NEW ph, Goto(p, ph), UNCHANGED <<mailbox, call, applied>>,
             phase[p] # "crashed", ~Open(p) \/ ph \in UserCode \cup Leaving \cup {"leaving"}
      PROVE  MailInv'
  <2>1. \A q \in Procs : (Open(q) => Open(q)') /\ (phase[q] = "crashed" => phase'[q] = "crashed")
    BY <1>1 DEF TypeOK, Goto, Open
  <2>2. QED
    BY <1>1, <2>1, QuietStep DEF Open
<1>2. ASSUME NEW p \in Procs, Run(p) PROVE MailInv'
  <2>1. \E ph : Goto(p, ph) /\ UNCHANGED <<mailbox, call, applied>>
    BY <1>2 DEF Run, RunRefused, RunAllowed, RunCancelled, RunInsert, Pass
  <2>2. ~Open(p) /\ phase[p] # "crashed"
    BY <1>2 DEF Run, RunRefused, RunAllowed, RunCancelled, RunInsert, Pass, Open
  <2>3. QED
    BY <1>1, <2>1, <2>2
<1>3. ASSUME NEW p \in Procs, Task(p) PROVE MailInv'
  <2> DEFINE k == Head(mailbox[p])
  <2>1. ASSUME Reply(p, k), phase[p] = "running"
        PROVE  /\ \A q \in Procs : (Open(q) => Open(q)')
                                    /\ (phase[q] = "crashed" => phase'[q] = "crashed")
               /\ \/ UNCHANGED call /\ call[k].status # "waiting"
                  \/ Settle(k, "ok")
    <3>1. CASE UNCHANGED phase
      BY <2>1, <3>1 DEF Reply, Open
    <3>2. CASE Goto(p, "stopping") /\ phase[p] = "running"
      BY <2>1, <3>2 DEF Reply, Goto, Open, TypeOK
    <3>3. QED
      BY <2>1, <3>1, <3>2 DEF Reply
  <2>2. ASSUME UNCHANGED phase
        PROVE  \A q \in Procs : (Open(q) => Open(q)') /\ (phase[q] = "crashed" => phase'[q] = "crashed")
    BY <2>2 DEF Open
  <2>3. ASSUME Takes(p, "entrust") \/ Takes(p, "send") PROVE call[k].status # "waiting"
    <3>1. k \in Calls /\ call[k].op \notin {"handle", "apply"}
      BY <2>3, TakesType DEF Takes
    <3>2. QED
      BY <3>1 DEF MailInv, CallInv
  <2> HIDE DEF k
  <2>4. CASE HandleCommand(p)
    <3>1. Takes(p, "handle") /\ Reply(p, k) /\ UNCHANGED applied /\ phase[p] = "running"
      BY <2>4 DEF HandleCommand, Takes, k
    <3>2. QED
      BY <2>1, <3>1, TakeStep DEF k, Open
  <2>5. CASE ApplyEvent(p)
    <3>1. Takes(p, "apply") /\ Reply(p, k) /\ Apply(p, k) /\ phase[p] = "running"
      BY <2>5 DEF ApplyEvent, Takes, k
    <3>2. QED
      BY <2>1, <3>1, TakeStep DEF k, Open
  <2>6. CASE EntrustCommand(p)
    <3>1. /\ Takes(p, "entrust") /\ UNCHANGED <<phase, call>>
          /\ Apply(p, k) \/ UNCHANGED applied
      BY <2>6 DEF EntrustCommand, k
    <3>2. QED
      BY <2>2, <2>3, <3>1, TakeStep DEF k, Open
  <2>7. CASE ReceiveMessage(p)
    <3>1. Takes(p, "send") /\ UNCHANGED <<phase, call, applied>>
      BY <2>7 DEF ReceiveMessage
    <3>2. QED
      BY <2>2, <2>3, <3>1, TakeStep DEF k, Open
  <2>8. QED
    BY <1>3, <2>4, <2>5, <2>6, <2>7 DEF Task
<1>4. ASSUME NEW p \in Procs, ProcessStep(p) \/ Timeout(p) PROVE MailInv'
  <2>1. CASE Exit(p) \/ Panic(p)
    BY <2>1, CloseStep DEF Exit, Panic, InUserCode
  <2>2. CASE DeregisterRemove(p)
    BY <1>1, <2>2 DEF DeregisterRemove
  <2>3. ASSUME Start(p) \/ Orphaned(p) \/ Timeout(p) \/ Stop(p) \/ DeregisterMiss(p) \/ DeregisterHit(p)
        PROVE  MailInv'
    <3>1. /\ \/ Goto(p, "running") \/ Goto(p, "stopping") \/ Goto(p, "deregistering")
             \/ Goto(p, "leaving") \/ Goto(p, "removing")
          /\ UNCHANGED <<mailbox, call, applied>> /\ phase[p] # "crashed"
      BY <2>3 DEF Start, Orphaned, Timeout, Stop, DeregisterMiss, DeregisterHit, Pass
    <3>2. QED
      BY <1>1, <3>1
  <2>4. QED
    BY <1>3, <1>4, <2>1, <2>2, <2>3 DEF ProcessStep
<1>5. ASSUME NEW p \in Procs, Poison(p) \/ Find(p) \/ Drop(p) PROVE MailInv'
  BY <1>5, QuietStep DEF Poison, Find, Drop, Open
<1>6. CASE UNCHANGED vars
  BY <1>6, QuietStep DEF vars, Open
<1>7. QED
  BY <1>2, <1>4, <1>5, <1>6, CallerStep DEF Next

LEMMA MailInvariant == Spec => [](TypeOK /\ MailInv)
PROOF
<1>1. Init => MailInv
  BY DEF Init, MailInv, OncePerProc, Distinct, CallsDistinct, CallInv, Queued, Done
<1>2. QED
  BY <1>1, TypeInit, TypeNext, MailNext, PTL DEF Spec

----------------------------------------------------------------------------
\* Whoever waits has a task in a mailbox that is going to be emptied.
THEOREM NobodyStranded == Spec => []NoStrandedCaller
PROOF
<1>1. MailInv => NoStrandedCaller
  <2> SUFFICES ASSUME MailInv, NEW k \in Calls, call[k].status = "waiting"
               PROVE  /\ Open(call[k].to)
                      /\ \E n \in DOMAIN mailbox[call[k].to] : mailbox[call[k].to][n] = k
    BY DEF NoStrandedCaller
  <2>1. CallInv(k)
    BY DEF MailInv
  <2>2. QED
    BY <2>1 DEF CallInv, Queued
<1>2. QED
  BY <1>1, MailInvariant, PTL

\* The outcome a caller sees is the effect its call had.
THEOREM CallersAreTold == Spec => []OutcomeMatchesEffect
PROOF
<1>1. TypeOK /\ MailInv => OutcomeMatchesEffect
  <2> SUFFICES ASSUME TypeOK, MailInv, NEW k \in Calls
      PROVE  /\ call[k].status = "ok" /\ call[k].op = "apply" =>
                  \E n \in DOMAIN applied[call[k].to] : applied[call[k].to][n].call = k
             /\ \A p \in Procs : \A n \in DOMAIN applied[p] : applied[p][n].call = k =>
                  /\ call[k].status # "idle" /\ call[k].to = p
                  /\ call[k].status = "dropped" => phase[p] = "crashed" /\ n = Len(applied[p])
                  /\ \A m \in DOMAIN applied[p] : applied[p][m].call = k => m = n
    BY DEF OutcomeMatchesEffect
  <2>1. CallInv(k)
    BY DEF MailInv
  <2>2. call[k].status = "ok" /\ call[k].op = "apply" =>
          \E n \in DOMAIN applied[call[k].to] : applied[call[k].to][n].call = k
    BY <2>1 DEF CallInv, Done
  <2>3. ASSUME NEW p \in Procs, NEW n \in DOMAIN applied[p], applied[p][n].call = k
        PROVE  /\ call[k].status # "idle" /\ call[k].to = p
               /\ call[k].status = "dropped" => phase[p] = "crashed" /\ n = Len(applied[p])
               /\ \A m \in DOMAIN applied[p] : applied[p][m].call = k => m = n
    <3>1. k \in Done(p)
      BY <2>3 DEF Done
    <3>2. /\ call[k].to = p
          /\ \/ call[k].status \in {"sent", "cancelled", "ok"}
             \/ call[k].status = "dropped" /\ CrashedIn(k, p)
      BY <2>1, <3>1 DEF CallInv
    <3>3. \A m \in DOMAIN applied[p] : applied[p][m].call = k => m = n
      BY <2>3 DEF MailInv, OncePerProc, CallsDistinct
    <3>4. Len(applied[p]) \in DOMAIN applied[p]
      <4>1. applied[p] \in Seq([call : Calls, seq : Int])
        BY DEF TypeOK
      <4>2. DOMAIN applied[p] = 1 .. Len(applied[p]) /\ Len(applied[p]) \in Nat
        BY <4>1, LenProperties
      <4>3. QED
        BY <2>3, <4>2
    <3>5. CrashedIn(k, p) => phase[p] = "crashed" /\ n = Len(applied[p])
      BY <3>3, <3>4 DEF CrashedIn
    <3>6. QED
      BY <3>2, <3>3, <3>5
  <2>4. QED
    BY <2>2, <2>3
<1>2. QED
  BY <1>1, MailInvariant, PTL
=============================================================================
