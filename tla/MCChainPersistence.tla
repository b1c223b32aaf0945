------------------------- MODULE MCChainPersistence -------------------------
(* An instance of ChainPersistence for TLC.                                *)
EXTENDS ChainPersistence, TLC

Symmetry == Permutations(Chain) \cup Permutations(Link)
=============================================================================
