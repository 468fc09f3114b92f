SPECIFICATION FairSpec
CHECK_DEADLOCK FALSE
PROPERTIES
  ImplementsTaskPool
  AcceptedRuns
  CallsReturn
CONSTANTS
  t1 = t1  t2 = t2  p1 = p1  p2 = p2
  Threads = {t1, t2}
  Producers = {p1, p2}
  Capacity = 2
  MaxTasks = 2
