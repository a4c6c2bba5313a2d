---------------------------- MODULE MCActorPool -----------------------------
(* Instances of ActorPool for TLC. *)
EXTENDS ActorPool, TLC

\* Acts, tasks and threads of one kind are interchangeable (safety only).
Symmetry ==
  Permutations(Acts) \cup Permutations(Tasks)
    \cup Permutations(Submitters) \cup Permutations(Workers)
=============================================================================
