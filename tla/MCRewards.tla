----------------------------- MODULE MCRewards ------------------------------
(* Rewards on a small instance. *)
EXTENDS Rewards, TLC

\* The logins and the key of the job.
MCMiners == Logins \union {JobKey}

Symmetry == Permutations(Conns) \union Permutations(Logins)
=============================================================================
