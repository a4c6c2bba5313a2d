\* Chunks, exceptions and logouts on one connection while another arrives.
CONSTANTS
  h1 = h1
  h2 = h2
  u1 = u1
  p1 = p1
  ch1 = ch1
  s1 = s1
  r1 = r1
  Handlers = {h1, h2}
  Ids = {1, 2}
  Users = {u1}
  Passcodes = {p1}
  Channels = {ch1}
  SubIds = {s1}
  Receipts = {r1}
  Frames <- ClientFrames
  Scripts <- MixedScripts
  Rest <- RestOfFrame
  Empty = Empty
  Null = Null
  Buffers = {1, 2}
SPECIFICATION SpacedSpec
INVARIANTS
  NoLostWakeup
PROPERTIES
  FramesInOrder
  TornOnlyByThrow
  EveryFrameProcessed
CHECK_DEADLOCK FALSE
