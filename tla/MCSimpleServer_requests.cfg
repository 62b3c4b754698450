\* Three connections one after the other, descriptors for two that are lost.
SPECIFICATION FairSpec
CONSTANTS
  u1 = u1
  Conns = {c1, c2, c3}
  Nobody = Nobody
  Uris = {u1, u2}
  Initials <- MCInitials
  MaxBody = 2
  MaxFds = 3
INVARIANTS
  TypeOK
  DescriptorsAccounted
  GetAnsweredTruly
  PutStored
PROPERTIES
  AnsweredOrStuck
CHECK_DEADLOCK FALSE
