\* Files with every construct of JSON, whole and broken.
CONSTANTS
  Inputs <- MCInputs
  MaxUnsigned = 255
  MinInteger <- MCMinInteger
  MaxMagnitude = 9
  MaxExp = 5
  IntBits = 7
SPECIFICATION Spec
INVARIANTS
  ReadsTheGrammar
  PositionExact
  StackAgrees
  EventsExact
  DumpReadsBack
