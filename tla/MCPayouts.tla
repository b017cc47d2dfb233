----------------------------- MODULE MCPayouts ------------------------------
(* Payouts on a small instance. *)
EXTENDS Payouts, TLC

\* A negative threshold lets accounts that are owed nothing into the round.
NegativeAndOne == {-1, 1}
=============================================================================
