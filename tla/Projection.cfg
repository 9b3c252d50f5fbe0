SPECIFICATION Spec
CONSTANTS
  Types = {mapped, other}
  Starts <- MCStarts
  MaxRegistrations = 2
  MaxPayloads = 3
INVARIANTS FindsTheLast ResultIsReplay CompatibleBeforeUse
CHECK_DEADLOCK FALSE
