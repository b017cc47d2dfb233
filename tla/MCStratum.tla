----------------------------- MODULE MCStratum ------------------------------
(* Stratum on a small instance. *)
EXTENDS Stratum, TLC

\* The seed changes with the second task and stays with the third.
MCSeedOf == <<1, 2, 2>>

\* Two workers of one address.
MCAddressOf == [u \in Uids |-> "address"]

Symmetry == Permutations(Sessions) \union Permutations(Uids)
=============================================================================
