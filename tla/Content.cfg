SPECIFICATION MCSpec
CONSTANTS
  u1 = u1  u2 = u2  u3 = u3  u4 = u4  u5 = u5  d1 = d1  d2 = d2
  dm = dm  g = g  ch = ch  w1 = w1  w2 = w2  a1 = a1  a2 = a2  a3 = a3  a4 = a4  k1 = k1  k2 = k2
  Users = {u1, u2, u3, u4, u5}
  InitUsers = {u1, u2, u3, u4}
  Devices = {d1, d2}
  Owner <- MCOwner
  Conversations = {dm, g, ch}
  ConvType <- MCConvType
  CreatedBy <- MCCreatedBy
  Envelopes = {}
  EnvConv <- NoFunction
  EnvSender <- NoFunction
  Retention = 0
  MaxQueue = 0
  Workers = {w1, w2}
  Requests <- MCRequests
  MaxGroup = 2
  MaxChannel = 3
  MaxVersion = 7
  Deletable = {u3}
  CreateRequests <- MCCreateRequests
  MaxCreations = 1
  MaxCrashes = 1
  Uploads = {a1, a2, a3, a4}
  Uploader <- MCUploader
  Size <- MCSize
  Chunks = {k1, k2}
  MaxUpload = 2
  Quota = 3
  BlobRetention = 1
  Undeletable = {a2}
  Removable = {u1}
  UploadThreads = {w1, w2}
  MaxClock = 2
  MaxKills = 1
CHECK_DEADLOCK FALSE
SYMMETRY MCSymmetry
INVARIANTS
  ContentTypeOK
  CreationWhole
  CreationOvershoot
  NewestAnnounced
  CompleteHasBlob
  QuotaOvershoot
  ChunksKept
