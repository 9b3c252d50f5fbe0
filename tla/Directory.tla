------------------------------ MODULE Directory ------------------------------
(***************************************************************************)
(* What the ProcessRegistry promises the callers of spawn and find: an id  *)
(* is owned by at most one process; a process owns its id from the moment  *)
(* it is admitted until it gives the id up itself; admission is refused    *)
(* only while the id is owned.                                             *)
(***************************************************************************)
CONSTANTS Ids, Procs, IdOf, NoProc

VARIABLES
  owner,      \* the process each id belongs to, or NoProc
  member      \* where each process stands: "out", "refused", "in", "gone"

Init ==
  /\ owner = [i \in Ids |-> NoProc] /\ member = [p \in Procs |-> "out"]

Claim(p) ==
  /\ member[p] = "out" /\ owner[IdOf[p]] = NoProc
  /\ owner' = [owner EXCEPT ![IdOf[p]] = p]
  /\ member' = [member EXCEPT ![p] = "in"]

Refuse(p) ==
  /\ member[p] = "out" /\ owner[IdOf[p]] # NoProc
  /\ member' = [member EXCEPT ![p] = "refused"]
  /\ UNCHANGED owner

\* The caller gives up before it was answered.
Withdraw(p) ==
  /\ member[p] = "out"
  /\ member' = [member EXCEPT ![p] = "refused"]
  /\ UNCHANGED owner

Release(p) ==
  /\ member[p] = "in" /\ owner[IdOf[p]] = p
  /\ owner' = [owner EXCEPT ![IdOf[p]] = NoProc]
  /\ member' = [member EXCEPT ![p] = "gone"]

Next == \E p \in Procs : Claim(p) \/ Refuse(p) \/ Withdraw(p) \/ Release(p)

Spec == Init /\ [][Next]_<<owner, member>>
=============================================================================
