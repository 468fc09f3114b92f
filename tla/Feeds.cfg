SPECIFICATION MCSpec
CHECK_DEADLOCK FALSE
INVARIANTS
  FeedsTypeOK
  NoLostUpdate
  PagesComplete
PROPERTY
  RecordSeen
CONSTANTS
  ca = ca  cb = cb  ra = ra  rb = rb
  ur = ur  us = us  dr = dr  ds = ds  cv = cv
  Records = {ra, rb}
  Clients = {ca, cb}
  Restarters = {cb}
  Limits = {0, 1, 2}
  Writes = {1, 2, 3}
  Users = {ur, us}
  Devices = {dr, ds}
  Owner <- MCOwner
  Conversations = {cv}
  ConvType <- MCConvType
  CreatedBy <- MCCreatedBy
  Envelopes <- MCEnvelopes
  EnvConv <- MCEnvConv
  EnvSender <- MCEnvSender
  Retention = 1
  Reader = dr
  PageLimits = {0, 1, 2, 6, 7}
  SizeMod = 8
  Senders = 2
  MaxClock = 3
