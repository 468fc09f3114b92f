SPECIFICATION FairSpec
CONSTANTS
  u1 = u1  u2 = u2  u3 = u3  u4 = u4  d1 = d1  d1b = d1b  d2 = d2
  e1 = e1  e2 = e2  g = g  ch = ch  w1 = w1  w2 = w2
  Users = {u1, u2, u3, u4}
  Devices = {d1, d2}
  Owner <- MCOwner
  Conversations = {g}
  ConvType <- MCConvType
  CreatedBy <- MCCreatedBy
  Envelopes = {e1}
  EnvConv <- MCEnvConv
  EnvSender <- MCEnvSender
  Workers = {w1, w2}
  Requests <- JoinRequests
  InitMembers <- CreatorOnly
  InitDevices = {d1, d2}
  Revocable = {}
  Deletable = {u2}
  WsDevices = {}
  Retention = 1
  MaxQueue = 0
  MaxGroup = 2
  MaxChannel = 2
  MaxVersion = 4
  MaxClock = 2
  MaxCrashes = 1
INVARIANTS
  RowsRefer
PROPERTIES
  HandlersReturn
  StoredReaches
