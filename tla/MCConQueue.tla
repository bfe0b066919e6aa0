----------------------------- MODULE MCConQueue -----------------------------
(* Instances of ConQueue for TLC.                                          *)
EXTENDS ConQueue, TLC

Symmetry == Permutations(Producers) \cup Permutations(Consumers)
              \cup Permutations(Values) \cup Permutations(Nodes)
=============================================================================
