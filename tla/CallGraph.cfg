SPECIFICATION FairSpec
CONSTANTS
  a = a
  b = b
  c = c
  Procs = {a, b, c}
  Timed = {c}
  Bounded = {a}
  Hooked = {c}
  TypeOf <- MCTypeOf
  MayAsk <- MCMayAsk
  k1 = k1
  k2 = k2
  k3 = k3
  Calls = {k1, k2, k3}
  OpsOf <- MCOpsOf
  Client = Client
  NoCall = NoCall
INVARIANTS EntrustIsAtomic StallIsDeadlock
PROPERTIES DeadlockIsForGood AnsweredUnlessDeadlocked
CHECK_DEADLOCK FALSE
