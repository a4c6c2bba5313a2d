\* Two connections, two users, one channel, three frames each, refused ones too.
CONSTANTS
  u1 = u1
  u2 = u2
  p1 = p1
  p2 = p2
  ch1 = ch1
  ch2 = ch2
  s1 = s1
  s2 = s2
  r1 = r1
  Handlers = {h1, h2}
  Ids = {0, 1}
  Users = {u1, u2}
  Passcodes = {p1, p2}
  Channels = {ch1}
  SubIds = {s1}
  Receipts = {r1}
  Frames <- MixedFrames
  Empty = Empty
  Null = Null
  Capacity = 1
  MaxFrames = 3
SYMMETRY Symmetry
SPECIFICATION Safety
INVARIANTS
  TypeOK
  LogoutClean
  MembershipAgrees
  OneSessionPerUser
  AuthenticatedAtLogin
  SessionInv
PROPERTIES
  ImplementsStompService
\* All clients have come and gone: nothing is left to do.
CHECK_DEADLOCK FALSE
