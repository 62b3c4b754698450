\* One queue, built once, with pushers and poppers that outnumber its slots.
SPECIFICATION FairSpec
CONSTANTS
  Queues = {q1}
  Threads = {t1, t2, t3}
  Values = {a, b}
  Nothing = Nothing
  Sizes = {1, 2}
  MaxNews = 1
INVARIANTS
  TypeOK
  SlotsAccounted
PROPERTIES
  Refinement
  ItemTaken
  RoomUsed
CHECK_DEADLOCK FALSE
