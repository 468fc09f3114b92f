SPECIFICATION WsSpec
CHECK_DEADLOCK FALSE
INVARIANT
  FramesIntact
CONSTANTS
  s1 = s1  s2 = s2  d = d  n1 = n1  n2 = n2  p = p  m = m
  Garbled = Garbled
  Sessions = {s1, s2}
  Devices = {d}
  Device <- MCDevice
  Bearer = {s2}
  IoThreads = {n1, n2}
  Notifiers = {p}
  Messages = {m}
  MaxPushes = 2
  To <- MCTo
  MaxOutbound = 1
