\* Some 24000 calls on documents, values to write and streams of bytes to read.
CONSTANTS
  MaxUnsigned = 1000
  MinInteger <- MCMin
  MaxMagnitude = 9
  MaxExp = 15
  Calls <- MCCalls
  Pointers <- MCPointers
  Tasks <- MCTasks
  Streams <- MCStreams
  Trailers = {0, 78, 93, 255}
  CutEdge = 3
SPECIFICATION DataSpec
INVARIANTS
  TargetReached
  PointersAgree
  UnflattenInverts
  WrittenReadsBack
  DamagedIsRefused
  SizesExact
PROPERTIES
  PatchStepsExact
\* A call returns, and a value is written and read, once.
CHECK_DEADLOCK FALSE
