---------------------------- MODULE MCSettlement ----------------------------
(* Settlement on a small instance. *)
EXTENDS Settlement, TLC

\* The logins and the key of the job.
MCMiners == Logins \union {JobKey}

Symmetry == Permutations(Conns) \union Permutations(Logins)
=============================================================================
