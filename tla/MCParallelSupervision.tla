----------------------- MODULE MCParallelSupervision -----------------------
(* Instances of ParallelSupervision for TLC. *)
EXTENDS ParallelSupervision, TLC

\* Overlapping starts with failures and crashes, and merges that wait.
StartsAndMerges ==
  {[calls |-> 2, runs |-> 1, merges |-> 0, faults |-> TRUE],
   [calls |-> 1, runs |-> 2, merges |-> 0, faults |-> TRUE],
   [calls |-> 1, runs |-> 1, merges |-> 1, faults |-> FALSE]}

\* No action and no property distinguishes one task from another.
TaskSymmetry == Permutations(Tasks)
=============================================================================
