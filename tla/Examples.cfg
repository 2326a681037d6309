SPECIFICATION ExamplesSpec
CONSTANTS
  t1 = t1
  t2 = t2
  t3 = t3
  Threads = {t1, t2, t3}
  Mutexes = {"lock", "lock1", "lock2"}
  Semaphores = {"semP", "semC"}
  Cells = {"done", "stock_count", "counter", "i", "s", "g"}
  Free = Free
  stock_max_limit = 5
  SemRounds = 6
  RaceLimit = 4
  Priorities = {0, 1, 2}
  mq_maxmsg = 2
  MaxMails = 3
  NumberOfShm = 5
  k1 = k1
  k2 = k2
  u1 = u1
  u2 = u2
  NULL = NULL
  Addrs = {1, 2, 3}
  AddedRows <- ListRows
  Beginnings <- NameBeginnings
INVARIANTS
  StockWithinLimit
  JobNumbersMatch
  RaceBounds
  IncrementBounds
  OnlyOvertakenLost
  ParentPrintsAll
  FifoDelivers
  NodesAccounted
PROPERTIES
  OneSideEnds
  EndsUnlessCrossed
  MainEnds
  PipeDelivers
  MailEnds
  ListImplemented
CHECK_DEADLOCK FALSE
