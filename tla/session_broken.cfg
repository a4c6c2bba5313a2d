\* Two logins of one user.  Keep one of the two properties to see its counterexample.
CONSTANTS
  p1 = p1
  p2 = p2
  ch1 = ch1
  u1 = u1
  pass1 = pass1
  Objects = {p1, p2}
  Keyboard = Keyboard
  Channels = {ch1}
  Messages <- ServerMessages
  MaxCommands = 3
  MaxEvents = 1
  Null = Null
  Users = {u1}
  Passcodes = {pass1}
  SubIds = {1, 2, 3}
  Receipts = {0, 1, 2, 3}
  Ids = {0, 1}
  Empty = Empty
  Capacity = 2
  MaxFrames = 6
SPECIFICATION SpecBoth
INVARIANTS
  LoginAfterLogout
PROPERTIES
  ReaderCloses
CHECK_DEADLOCK FALSE
