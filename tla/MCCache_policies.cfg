\* Every policy, on sizes below, at and above the interesting ones.
SPECIFICATION Spec
CONSTANTS
  Items = {a, b, c, d, e}
  Sizes <- MCSizes
  Policies = {"F", "L", "C"}
  MaxMisses = 7
INVARIANTS
  TypeOK
  SizeRespected
  MissesClassified
  ClockDrift
  KeepsNewest
PROPERTIES
  LastUsedStays
CHECK_DEADLOCK FALSE
