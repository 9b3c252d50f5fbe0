SPECIFICATION SerialSpec
CONSTANTS
  id = id
  p1 = p1
  p2 = p2
  Ids = {id}
  Procs = {p1, p2, p3}
  NoProc = NoProc
  Timed = {p2}
  Calls = {k1}
  k1 = k1
  OpsOf <- MCAnyOps
  IdOf <- MCIdOf
  StartSeq <- MCStartSeq
INVARIANTS OneLivePerId LiveIsFindable
PROPERTIES ImplementsDirectory
CHECK_DEADLOCK FALSE
