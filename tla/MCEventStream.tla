---------------------------- MODULE MCEventStream ----------------------------
(* Small instances of EventStream: a subscriber and the forwarders of one      *)
(* process, which all have a resolver for the events, and the dead-letter      *)
(* reader, which has none.                                                     *)
EXTENDS EventStream

CONSTANTS wanted, p1

MCMapped == [r \in Readers |-> IF r = DeadLetter THEN {} ELSE {wanted}]
MCServes == [r \in Forwarders |-> p1]
==============================================================================
