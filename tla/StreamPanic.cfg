SPECIFICATION Spec
CONSTANTS
  wanted = wanted
  p1 = p1
  Processes = {p1}
  Serves <- MCServes
  Subscribers = {s1}
  Forwarders = {}
  DeadLetter = DeadLetter
  Types = {wanted}
  Mapped <- MCMapped
  Cap = 2
  MaxEvents = 4
INVARIANTS PublishFindsReceiver
CHECK_DEADLOCK FALSE
