--------------------------- MODULE MCNodeHandler ---------------------------
(* Instances of NodeHandler for TLC. Threads are interchangeable, and so     *)
(* are instances.                                                            *)
EXTENDS NodeHandler, TLC

Symmetry == Permutations(Threads) \cup Permutations(Instances)
=============================================================================
