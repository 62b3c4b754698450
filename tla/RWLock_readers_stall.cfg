\* The reader-priority lock loses a wakeup.
SPECIFICATION FairSpec
CONSTANTS
  Threads = {t1, t2, t3}
  Priorities = {"READERS"}
  NArgs = {0}
  UintMod = 2
PROPERTIES
  ReadersProgress
