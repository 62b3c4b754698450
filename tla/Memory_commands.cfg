\* Chunks of three bytes of two-byte pointers, inputs of up to two chunks and
\* a bit, and up to two writes that fall short or fail.
SPECIFICATION FairSpec
CONSTANTS
  Chunk = 3
  PtrSize = 2
  Totals = {0, 1, 3, 4, 7}
  Announced = {0, 1, 2, 4, 6}
  MaxFaults = 2
INVARIANTS
  TypeOK
  CopiesPrefix
  SetWritesEnough
  GetLosesNothing
PROPERTIES
  CommandEnds
CHECK_DEADLOCK FALSE
