\* Four promises the client does not keep: leave one to see its counterexample.
CONSTANTS
  p1 = p1
  p2 = p2
  ch1 = ch1
  Objects = {p1, p2}
  Keyboard = Keyboard
  Channels = {ch1}
  Messages <- ServerMessages
  MaxCommands = 3
  MaxEvents = 1
  Null = Null
SPECIFICATION Safety
INVARIANTS
  LoginHasReader
  UniqueReceipts
  FramesWhole
  TerminatesGracefully
CHECK_DEADLOCK FALSE
