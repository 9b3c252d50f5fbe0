SPECIFICATION FairSpec
CONSTANTS
  wanted = wanted
  p1 = p1
  Processes = {p1}
  Serves <- MCServes
  Subscribers = {s1}
  Forwarders = {f1}
  DeadLetter = DeadLetter
  Types = {wanted}
  Mapped <- MCMapped
  Cap = 2
  MaxEvents = 4
INVARIANTS Accounting InOrder AtMostOneLate
PROPERTIES ImplementsTopic CatchesUp ReadersEnd
CHECK_DEADLOCK FALSE
