----------------------------- MODULE MCTaskProg -----------------------------
(* Instances of TaskProg for TLC.                                          *)
EXTENDS TaskProg, TLC

Symmetry == Permutations(Compers) \cup Permutations(Tasks)
              \cup Permutations(Queries)
=============================================================================
