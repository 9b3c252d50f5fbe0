----------------------------- MODULE MCCallGraph -----------------------------
(* Two processes that may deadlock for good, one of them also with itself, and  *)
(* a third that may get into a cycle with it but bounds what it awaits.  Any may *)
(* tell any.                                                                     *)
EXTENDS CallGraph

CONSTANTS a, b, c, k1, k2, k3

MCMayAsk == [p \in Procs |-> CASE p = a -> {b} [] p = b -> {a, b, c} [] p = c -> {b}]
MCTypeOf == [p \in Procs |-> IF p = c THEN "other" ELSE "one"]

\* Every method; each call may be an awaited one.
MCOpsOf ==
  [k \in Calls |-> CASE k = k1 -> {"handle", "entrust"} [] k = k2 -> {"apply"} [] k = k3 -> {"handle", "send"}]
=============================================================================
