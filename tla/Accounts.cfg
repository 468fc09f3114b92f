SPECIFICATION MCSpec
CHECK_DEADLOCK FALSE
SYMMETRY MCSymmetry
INVARIANTS
  AccountsTypeOK
  OneLivePerLogin
  TablesConsistent
  HandedOnce
  
PROPERTIES
  RevokedSilent
CONSTANTS
  ua = ua  ub = ub  uc = uc  da = da  db = db  dc = dc  dd = dd  w1 = w1  w2 = w2
  s1 = s1  s2 = s2  s3 = s3  t1 = t1  t2 = t2  r1 = r1
  ka = ka  kb = kb  old = old  new = new
  Users = {ua, ub, uc}
  Devices = {da, db, dc, dd}
  Username <- MCUsername
  Owner <- MCOwner
  SessionIds = {s1, s2, s3, t1, t2, r1}
  SessionDevice <- MCSessionDevice
  AccessLifetime = 1
  RefreshLifetime = 1
  Workers = {w1, w2}
  LoginDevices = {da, db, dc}
  InitUsers = {}
  InitDevices = {}
  InitSessions = {}
  Deletable = {ua}
  MaxClock = 1
  MaxCrashes = 1
  Prekeys = {ka, kb}
  Batches = {{ka}, {ka, kb}}
  Fetchers = {w1, w2}
  FirstDevices = {da, dd}
  Passwords = {old, new}
  First = old
  Handlers = {w1, w2}
  MaxRequests = 4
  MaxKills = 1
