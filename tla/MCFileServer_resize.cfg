\* More names than the map has room for: the unlock of a PUT misses its lock
\* in the chain that another worker relinks.
SPECIFICATION Spec
CONSTANTS
  u1 = u1
  u2 = u2
  Workers = {w1, w2}
  Uris = {u1, u2, u3, u4}
  Bucket <- OneBucket
  Size = 3
  Conns = {1, 2, 3, 4}
  Nobody = Nobody
  QueueSize = 4
  Initials <- Empty
  Methods = {"PUT"}
SYMMETRY Symmetry
INVARIANTS
  IdleHoldsNothing
CHECK_DEADLOCK FALSE
