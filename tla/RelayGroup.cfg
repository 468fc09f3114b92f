SPECIFICATION Spec
CONSTANTS
  u1 = u1  u2 = u2  u3 = u3  u4 = u4  d1 = d1  d1b = d1b  d2 = d2
  e1 = e1  e2 = e2  g = g  ch = ch  w1 = w1  w2 = w2
  Users = {u1, u2}
  Devices = {d1, d1b, d2}
  Owner <- MCOwner
  Conversations = {g}
  ConvType <- MCConvType
  CreatedBy <- MCCreatedBy
  Envelopes = {e1, e2}
  EnvConv <- MCEnvConv
  EnvSender <- MCEnvSender
  Workers = {w1, w2}
  Requests <- GroupRequests
  InitMembers <- MCInitMembers
  InitDevices = {d1, d1b, d2}
  Revocable = {}
  Deletable = {}
  WsDevices = {d2}
  Retention = 0
  MaxQueue = 1
  MaxGroup = 2
  MaxChannel = 2
  MaxVersion = 6
  MaxClock = 0
  MaxCrashes = 1
INVARIANTS
  TypeOK
  GivenOnce
  StillHeld
  RemovalPurges
