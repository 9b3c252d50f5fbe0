-------------------------------- MODULE Topic --------------------------------
(***************************************************************************)
(* What the event stream promises its readers: each sees, in the order of  *)
(* publication, some of the events it has a resolver for that were         *)
(* published after it joined.  Delivery is at most once.                   *)
(***************************************************************************)
EXTENDS Integers, Sequences

CONSTANTS Readers, DeadLetter, Types, Mapped

VARIABLES
  log,        \* the types of the events published, in order
  joined,     \* the readers that have subscribed
  since,      \* how many events had been published when a reader joined
  got         \* the numbers of the events each reader was given

Init ==
  /\ log = <<>> /\ joined = [r \in Readers |-> r = DeadLetter]
  /\ since = [r \in Readers |-> 0] /\ got = [r \in Readers |-> <<>>]

\* The number of the last event r was given, or could have missed by joining late.
Position(r) == IF got[r] = <<>> THEN since[r] ELSE got[r][Len(got[r])]

Publish(type) ==
  /\ log' = Append(log, type)
  /\ UNCHANGED <<joined, since, got>>

Join(r) ==
  /\ ~joined[r]
  /\ joined' = [joined EXCEPT ![r] = TRUE]
  /\ since' = [since EXCEPT ![r] = Len(log)]
  /\ UNCHANGED <<log, got>>

Deliver(r, n) ==
  /\ joined[r] /\ Position(r) < n /\ n <= Len(log) /\ log[n] \in Mapped[r]
  /\ got' = [got EXCEPT ![r] = Append(@, n)]
  /\ UNCHANGED <<log, joined, since>>

Next ==
  \/ \E type \in Types : Publish(type)
  \/ \E r \in Readers : Join(r) \/ \E n \in 1 .. Len(log) : Deliver(r, n)

Spec == Init /\ [][Next]_<<log, joined, since, got>>
=============================================================================
