\* Every priority, locks deleted and built again, a counter of two bits, fair.
SPECIFICATION FairSpec
CONSTANTS
  Threads = {t1, t2, t3, t4}
  Priorities = {"READERS", "WRITERS", "N_WAY"}
  NArgs = {0, 2}
  UintMod = 4
INVARIANTS
  TypeOK
  CountersAgree
  Exclusion
  NoLostWakeup
PROPERTIES
  Refinement
  WritersProgress
  ReadersFollow
