--------------------------- MODULE MCScheduledJobs ---------------------------
(* ScheduledJobs with model values; the replicas and the runs of each job  *)
(* type are interchangeable.                                               *)
EXTENDS ScheduledJobs, TLC

CONSTANTS a, b, i1, i2, i3, j1, j2

Symmetry == Permutations(Replicas) \union Permutations(Runs)
              \union Permutations(Jobs)
=============================================================================
