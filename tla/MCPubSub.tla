------------------------------ MODULE MCPubSub ------------------------------
(* A process that subscribes twice to what it publishes itself.  An apply makes *)
(* the first event, what a subscription entrusts to it the second, so that the  *)
(* channel of one lags.                                                         *)
EXTENDS PubSub

CONSTANTS p1, k1

MCIdOf == [p \in Procs |-> p]
MCStartSeq == [p \in Procs |-> 0]
MCTypeOf == [p \in Publishers |-> "mapped"]
MCMapped == [r \in Readers |-> IF r = DeadLetter THEN {} ELSE {"mapped"}]
MCServes == [r \in Forwarders |-> p1]
MCCalls == {k1} \cup Forwarded
MCOpsOf == [k \in MCCalls |-> IF k = k1 THEN {"apply"} ELSE {"entrust"}]
=============================================================================
