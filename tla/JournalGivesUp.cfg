SPECIFICATION Spec
CONSTANTS
  Retry = 3
  Refusals = 3
  AckLost = FALSE
  MaxEvents = 3
  MaxSpawns = 2
INVARIANTS SequenceNeverReused
CHECK_DEADLOCK FALSE
