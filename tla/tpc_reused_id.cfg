\* One client uses a subscription id for two channels.
CONSTANTS
  u1 = u1
  u2 = u2
  p1 = p1
  p2 = p2
  ch1 = ch1
  ch2 = ch2
  s1 = s1
  s2 = s2
  r1 = r1
  Handlers = {h1}
  Ids = {0}
  Users = {u1}
  Passcodes = {p1, p2}
  Channels = {ch1, ch2}
  SubIds = {s1, s2}
  Receipts = {r1}
  Frames <- ReuseFrames
  Empty = Empty
  Null = Null
  Capacity = 1
  MaxFrames = 6
SYMMETRY Symmetry
SPECIFICATION Safety
INVARIANTS
  LogoutClean
\* All clients have come and gone: nothing is left to do.
CHECK_DEADLOCK FALSE
