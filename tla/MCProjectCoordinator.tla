------------------------- MODULE MCProjectCoordinator -------------------------
(* ProjectCoordinator on small instances.                                    *)
EXTENDS ProjectCoordinator, TLC

Symmetry == Permutations(Drains) \cup Permutations(Handled)
===============================================================================
