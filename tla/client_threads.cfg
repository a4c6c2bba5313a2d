\* The user's commands against a server that sends anything.
CONSTANTS
  p1 = p1
  p2 = p2
  ch1 = ch1
  Objects = {p1, p2}
  Keyboard = Keyboard
  Channels = {ch1}
  Messages <- ServerMessages
  MaxCommands = 4
  MaxEvents = 2
  Null = Null
SPECIFICATION Spec
INVARIANTS
  DisconnectOnce
  LogoutIsLast
PROPERTIES
  EveryCommandReturns
CHECK_DEADLOCK FALSE
