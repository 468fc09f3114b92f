SPECIFICATION ServerSpec
CHECK_DEADLOCK FALSE
INVARIANT
  NoDispatchAfterContext
CONSTANTS
  t1 = t1  t2 = t2  n1 = n1  n2 = n2  m = m  c1 = c1  c2 = c2
  Threads = {t1}
  NetThreads = {n1, n2}
  maintenance = m
  Producers = {n1, n2, m}
  Conns = {c1, c2}
  Capacity = 1
  MaxTasks = 1
