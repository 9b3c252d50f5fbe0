------------------------------ MODULE Payloads ------------------------------
(***************************************************************************)
(* The payloads of one entity, the order a BTreeSet keeps them in, and     *)
(* what replaying them makes of an entity.  The entity's state is the list *)
(* of the events it consists of, which is the most that replaying can get  *)
(* right or wrong.                                                         *)
(***************************************************************************)
EXTENDS Integers, FiniteSets, Sequences, SequencesExt

\* Mutant: payloads are compared by their time alone.
BeforeByTime(a, b) == a.created_at < b.created_at

\* Payload::cmp and FixtureParts::cmp, for the payloads of one entity.
Before(a, b) ==
  \/ a.sequence_id < b.sequence_id
  \/ a.sequence_id = b.sequence_id /\ a.created_at < b.created_at

\* Of payloads that compare equal a BTreeSet keeps one.
Distinct(payloads) ==
  {CHOOSE b \in payloads : ~Before(a, b) /\ ~Before(b, a) : a \in payloads}

\* The order in which a BTreeSet is walked.
Ordered(payloads) ==
  [n \in 1 .. Cardinality(payloads) |->
     CHOOSE a \in payloads : Cardinality({b \in payloads : Before(b, a)}) = n - 1]

\* Mutant: the payload with the start value is left out.
ReadAfter(payloads, from) == Distinct({a \in payloads : a.sequence_id > from})

\* read_to_latest.
Read(payloads, from) == Distinct({a \in payloads : a.sequence_id >= from})

\* Mutant: the sequence is that of the last event replayed.
PatchLast(start, parts) ==
  LET ordered == Ordered(parts) IN
  [entity |-> start.entity \o [n \in DOMAIN ordered |-> ordered[n].event],
   seq    |-> IF parts = {} THEN start.seq ELSE Last(ordered).sequence_id]

\* patch: the events in order, and the sequence advanced by one for each.
Patch(start, parts) ==
  LET ordered == Ordered(parts) IN
  [entity |-> start.entity \o [n \in DOMAIN ordered |-> ordered[n].event],
   seq    |-> start.seq + Len(ordered)]
=============================================================================
