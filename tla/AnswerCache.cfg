\* Three questions, of which q1 and q2, and q2 and q3, are close; an LRU of three
\* entries, or a Redis that fails once.
SPECIFICATION Spec
CONSTANTS
  q1 = q1  q2 = q2  q3 = q3
  Queries <- MCQueries
  Sim <- MCSim
  Threshold = 2
  t1 = t1  t2 = t2
  Threads <- MCThreads
  Backends <- Both
  ExactTtl = 3
  SemanticTtl = 2
  MaxSize = 3
  ZCap = 3
  ZCount = 2
  Nothing = Nothing
  MaxNow = 6
  MaxVersion = 2
  MaxAsks = 3
  MaxRaises = 1
SYMMETRY Symmetry
\* The instance stops when its requests are used up.
CHECK_DEADLOCK FALSE
INVARIANTS TypeOK ServedClose StalenessBounded EntriesIndexed
