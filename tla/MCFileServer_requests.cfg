\* Three connections, names that have a lock each or share one, a map that the
\* third name resizes; every kind of request.
SPECIFICATION FairSpec
CONSTANTS
  u1 = u1
  u2 = u2
  Workers = {w1, w2}
  Uris = {u1, u2, u3}
  Bucket <- OneBucket
  Size = 2
  Conns = {1, 2, 3}
  Nobody = Nobody
  QueueSize = 1
  Initials <- Mixed
  Methods = {"GET", "PUT", "OTHER", "BAD"}
INVARIANTS
  TypeOK
  LogIsLinearization
  IdleUntilResized
  PutsAlone
  DescriptorsClosed
PROPERTIES
  EveryConnectionClosed
CHECK_DEADLOCK FALSE
