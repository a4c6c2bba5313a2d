\* Two clients that come at the same time.
CONSTANTS
  h1 = h1
  h2 = h2
  u1 = u1
  p1 = p1
  ch1 = ch1
  s1 = s1
  r1 = r1
  Handlers = {h1, h2}
  Ids = {1, 2}
  Users = {u1}
  Passcodes = {p1}
  Channels = {}
  SubIds = {}
  Receipts = {r1}
  Frames <- SessionFrames
  Scripts <- LoginScripts
  Rest <- RestOfFrame
  Empty = Empty
  Null = Null
  Buffers = {1, 2, 3, 4}
SPECIFICATION Safety
INVARIANTS
  UniqueIds
CHECK_DEADLOCK FALSE
