\* Two queues, or one built a second time, share the indices in and out.
SPECIFICATION Spec
CONSTANTS
  Queues = {q1, q2}
  Threads = {t1}
  Values = {a}
  Nothing = Nothing
  Sizes = {2}
  MaxNews = 2
INVARIANTS
  PopGivesElement
CHECK_DEADLOCK FALSE
