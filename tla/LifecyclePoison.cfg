SPECIFICATION FairSpec
CONSTANTS
  id = id
  p1 = p1
  p2 = p2
  Ids = {id}
  Procs = {p1}
  NoProc = NoProc
  Timed = {}
  Calls = {k1}
  k1 = k1
  OpsOf <- MCAnyOps
  IdOf <- MCIdOf
  StartSeq <- MCStartSeq
PROPERTIES PoisonEnds
CHECK_DEADLOCK FALSE
