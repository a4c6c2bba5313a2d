\* The user's commands against a server that sends anything.
CONSTANTS
  p1 = p1
  p2 = p2
  ch1 = ch1
  Objects = {p1, p2}
  Keyboard = Keyboard
  Channels = {ch1}
  Messages <- TalkativeMessages
  MaxCommands = 3
  MaxEvents = 1
  Null = Null
SPECIFICATION Safety
INVARIANTS
  OnlyErrorsDisconnect
CHECK_DEADLOCK FALSE
