\* Two callers submit three tasks on two acts to two workers.
CONSTANTS
  Acts = {a1, a2}
  Tasks = {t1, t2, t3}
  Submitters = {s1, s2}
  Workers = {w1, w2}
  Null = Null
SPECIFICATION Spec
PROPERTIES
  ImplementsSerialActors
  EveryTaskRuns
  NothingStartsWhenDown
INVARIANTS
  NothingStranded
  IndInv
  MutualExclusion
\* All tasks submitted and run: nothing is left to do.
CHECK_DEADLOCK FALSE
