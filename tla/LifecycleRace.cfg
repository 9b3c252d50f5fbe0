SPECIFICATION FairSpec
CONSTANTS
  id = id
  p1 = p1
  p2 = p2
  Ids = {id}
  Procs = {p1, p2}
  NoProc = NoProc
  Timed = {p2}
  Calls = {k1, k2}
  k1 = k1
  OpsOf <- MCOpsOf
  IdOf <- MCIdOf
  StartSeq <- MCStartSeq
INVARIANTS TypeOK NoGhostEntry ConsecutiveSequence OutcomeMatchesEffect NoStrandedCaller
PROPERTIES CallsAnswered LeaversReleaseTheirId TimedProcessesEnd OrphansEnd
CHECK_DEADLOCK FALSE
