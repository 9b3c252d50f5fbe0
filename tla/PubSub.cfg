SPECIFICATION FairSpec
CONSTANTS
  p1 = p1
  k1 = k1
  Ids = {p1}
  Procs = {p1}
  IdOf <- MCIdOf
  StartSeq <- MCStartSeq
  Timed = {}
  Calls <- MCCalls
  OpsOf <- MCOpsOf
  NoProc = NoProc
  DeadLetter = DeadLetter
  Types = {"mapped"}
  Mapped <- MCMapped
  Cap = 1
  MaxEvents = 2
  Publishers = {p1}
  Forwarders = {f1, f2}
  Serves <- MCServes
  TypeOf <- MCTypeOf
PROPERTIES ImplementsLifecycle ImplementsTopic EventsSettle PoisonedForwarderEnds
CHECK_DEADLOCK FALSE
