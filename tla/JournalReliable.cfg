SPECIFICATION CarefulSpec
CONSTANTS
  Retry = 3
  Refusals = 2
  AckLost = TRUE
  MaxEvents = 3
  MaxSpawns = 2
INVARIANTS SequenceNeverReused MemoryIsJournal ResumeIsReplay AnsweredIsDurable
PROPERTIES ReplayOnlyGrows
CHECK_DEADLOCK FALSE
