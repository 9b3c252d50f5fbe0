---------------------------- MODULE MCLifecycle ----------------------------
(* Small instances of Lifecycle: one id over which all processes compete, and *)
(* two calls, of which the first is awaited.                                  *)
EXTENDS Lifecycle

CONSTANTS id, p1, p2, k1

MCIdOf == [p \in Procs |-> id]
MCStartSeq == [p \in Procs |-> IF p = p1 THEN 0 ELSE 5]
MCOpsOf == [k \in Calls |-> IF k = k1 THEN {"handle", "apply"} ELSE {"apply", "entrust", "send"}]
MCAnyOps == [k \in Calls |-> Ops]
============================================================================
