--------------------------- MODULE MCMinedShares ----------------------------
(* MinedShares on a small instance. *)
EXTENDS MinedShares, TLC

Symmetry == Permutations(Procs) \union Permutations(Shares)
=============================================================================
