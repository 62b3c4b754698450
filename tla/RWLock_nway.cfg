\* A lock of two-way turns; the counter is wide enough not to wrap.
SPECIFICATION Spec
CONSTANTS
  Threads = {t1, t2, t3}
  Priorities = {"N_WAY"}
  NArgs = {2}
  UintMod = 16
PROPERTIES
  NWayTakesTurns
