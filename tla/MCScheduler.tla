---------------------------- MODULE MCScheduler ----------------------------
(* Instances of Scheduler for TLC.                                         *)
EXTENDS Scheduler, TLC

\* Queries are not interchangeable when some have no result; tasks never are,
\* since NextTaskID chooses among them.
Threads == Permutations(Compers)
Symmetry == Threads \cup Permutations(Queries)
=============================================================================
