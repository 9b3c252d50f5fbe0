---------------------------- MODULE MCProjection ----------------------------
(* Small instances of Projection: from nothing, and from an entity that has   *)
(* one event.                                                                  *)
EXTENDS Projection

MCStarts ==
  {[present |-> FALSE, entity |-> <<>>, seq |-> 0], [present |-> TRUE, entity |-> <<1>>, seq |-> 1]}
=============================================================================
