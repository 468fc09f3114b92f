SPECIFICATION MCSpec
CHECK_DEADLOCK FALSE
INVARIANTS
  NetworkTypeOK
  QueueAtDestruction
  RegistryExact
  OutboundOvershoot
  SessionsAttended
  TwoWindowsBound
  MigrationWhole
  ServingReady
PROPERTIES
  RequestsAnswered
  StopsOrSleeps
CONSTANTS
  t1 = t1  t2 = t2  n1 = n1  n2 = n2  m = m  c1 = c1  c2 = c2
  ws1 = ws1  ws2 = ws2  d = d  p = p  x = x  addr = addr  Garbled = Garbled  q1 = q1  q2 = q2
  Threads = {t1}
  NetThreads = {n1, n2}
  maintenance = m
  Producers = {n1, n2, m}
  Conns = {c1, c2}
  Capacity = 1
  MaxTasks = 1
  Sessions = {ws1, ws2}
  Devices = {d}
  Device <- MCDevice
  Bearer = {ws2}
  IoThreads = {n1, n2}
  Notifiers = {p}
  Messages = {x}
  To <- MCTo
  MaxOutbound = 1
  MaxPushes = 2
  Keys = {addr}
  Callers = {t1, t2}
  MaxEvents = 2
  Window = 2
  MaxTime = 4
  MaxCalls = 7
  Processes = {q1, q2}
  DeviceRows = {d}
  MaxAttempts = 2
  MaxStops = 2
