-------------------------- MODULE MCStoreTransactions --------------------------
(* StoreTransactions on small instances.                                     *)
EXTENDS StoreTransactions, TLC

Symmetry == Permutations(Plain) \cup Permutations(Locked)
===============================================================================
