----------------------------- MODULE Settlement -----------------------------
(***************************************************************************)
(* The message goroutine and the payment task over one ledger: what        *)
(* Rewards credits in kvrocks, Payouts reads and pays, each at its own     *)
(* pace, and a process that stops takes both with it.  Neither waits for   *)
(* the other and no transaction of the one guards against the other's.     *)
(*                                                                         *)
(* Payouts takes rewards to be won at any moment and credited up to what   *)
(* was won.  Here they come out of the division of a reward, so that this  *)
(* is no longer an assumption but a claim about Rewards.                   *)
(***************************************************************************)
EXTENDS Rewards

CONSTANTS BadAddresses, ChunkSize, Thresholds

VARIABLES
    pc, site, threshold, toScan, owed, todo, batch,   \* a round of payments
    chain, unsure, payFaults, bad

taskVars == <<pc, site, threshold, toScan, owed, todo, batch, chain, unsure, payFaults, bad>>
settlementVars == <<rewardsVars, taskVars>>

\* What was won and not yet credited is no variable of the program.
Undivided == pool.rewards - Total(reward)

Task == INSTANCE Payouts
            WITH toRead <- toScan, faults <- payFaults, undivided <- Undivided,
                 MaxReward <- Amount

SettlementInit == RewardsInit /\ Task!PayoutsInit

\* The goroutines that find and divide rewards.
Dividing ==
    /\ (\E c \in Conns : ProcessShare(c)) \/ ProcessReward
    /\ UNCHANGED taskVars

\* The payment task.
Paying ==
    /\ Task!PaymentStep
    /\ UNCHANGED <<inputVars, shareVars, stage, winner, readVars, boundVars, lateShares, late>>

\* The process stops in the middle of a reward, of a round, or of both.
Stop ==
    \/ Crash /\ pc = "idle" /\ UNCHANGED taskVars
    \/ Crash /\ Task!Crash
    \/ Task!Crash /\ stage = "idle" /\ Quiet /\ UNCHANGED rewardsVars

SettlementNext == Dividing \/ Paying \/ Stop

SettlementSpec == SettlementInit /\ [][SettlementNext]_settlementVars

-----------------------------------------------------------------------------
(* Properties *)

\* What ProcessReward does to the accounts is what the payment task is modelled
\* against in Payouts: rewards are won within a bound, and credited in amounts
\* that are not negative and no more than was won.  Only credits of a division
\* that is out of proportion (its sum read as 0, or shares recorded between its
\* reads) may be others.
CreditsAsAssumed ==
    [][ \/ Task!PayoutsNext
        \/ OutOfProportion /\ \E m \in Miners : Credit(m) /\ UNCHANGED taskVars
      ]_<<ledgerVars, taskVars>>
=============================================================================
