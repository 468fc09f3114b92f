SPECIFICATION FairSpec
PROPERTY
  ChangesSeen
CONSTANTS
  ca = ca  cb = cb  ra = ra  rb = rb
  Records = {ra, rb}
  Clients = {ca, cb}
  Restarters = {}
  Limits = {0, 1, 2}
  Writes = {1, 2}
