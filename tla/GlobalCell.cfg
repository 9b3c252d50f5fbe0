SPECIFICATION Spec
CONSTANTS
  Setters = {s1, s2, s3}
  Getters = {g1, g2, g3}
  None = None
  Torn = Torn
INVARIANTS NoRace OneInstance
PROPERTIES InstalledIsSeen
CHECK_DEADLOCK FALSE
