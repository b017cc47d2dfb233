------------------------------- MODULE Ledger -------------------------------
(***************************************************************************)
(* The accounts the pool keeps in kvrocks: one hash xdag:account:<miner>   *)
(* per miner with the counters reward, unpaid and payment, and one hash    *)
(* xdag:pool:account with rewards, unpaid and payment.  kvstore/kvrocks.go *)
(* changes them only through the three MULTI/EXEC transactions below; each *)
(* is one atomic step.  All counters are int64 in units of 10^-9 XDAG and  *)
(* are abstracted to small integers.  An account that was never credited   *)
(* is not stored; it is modelled as an account of zeros, which every       *)
(* reader of the accounts treats alike.                                    *)
(*                                                                         *)
(* The list records the same transactions add (rewards:, balance:,         *)
(* payment:, pool:rewards, pool:donate) are read only by the query API and *)
(* are left out here.                                                      *)
(***************************************************************************)
EXTENDS Integers, FiniteSetsExt

CONSTANTS
    Miners    \* the miners (base58 addresses) that have an account

ASSUME MinersFinite == IsFiniteSet(Miners)

VARIABLES
    reward,   \* xdag:account:<m> "reward": all that was ever credited
    unpaid,   \* xdag:account:<m> "unpaid"
    payment,  \* xdag:account:<m> "payment": all that was ever debited
    pool      \* xdag:pool:account

ledgerVars == <<reward, unpaid, payment, pool>>

ZeroForAll == [m \in Miners |-> 0]

\* The sum of f over all miners.
Total(f) == MapThenSumSet(LAMBDA m : f[m], Miners)

LedgerInit ==
    /\ reward = ZeroForAll
    /\ unpaid = ZeroForAll
    /\ payment = ZeroForAll
    /\ pool = [rewards |-> 0, unpaid |-> 0, payment |-> 0]

LedgerTypeOK ==
    /\ reward \in [Miners -> Int]
    /\ unpaid \in [Miners -> Int]
    /\ payment \in [Miners -> Int]

-----------------------------------------------------------------------------
(* Transactions *)

\* The pool won amount a with one of its shares.
SetWinReward(a) ==
    /\ pool' = [pool EXCEPT !.rewards = @ + a, !.unpaid = @ + a]
    /\ UNCHANGED <<reward, unpaid, payment>>

\* Miner m is credited with a.
SetMinerReward(m, a) ==
    /\ reward' = [reward EXCEPT ![m] = @ + a]
    /\ unpaid' = [unpaid EXCEPT ![m] = @ + a]
    /\ UNCHANGED <<payment, pool>>

\* Mutant: the pool account's unpaid is not debited with the miners'.
SetChunkPaymentSkipsPool(logins, payments) ==
    LET paid == [m \in Miners |-> IF m \in logins THEN payments[m] ELSE 0]
    IN  /\ pool' = [pool EXCEPT !.payment = @ + Total(paid)]
        /\ payment' = [m \in Miners |-> payment[m] + paid[m]]
        /\ unpaid' = [m \in Miners |-> unpaid[m] - paid[m]]
        /\ UNCHANGED reward

\* Every miner of logins was paid payments[m]; miners outside it keep theirs.
SetChunkPayment(logins, payments) ==
    LET paid  == [m \in Miners |-> IF m \in logins THEN payments[m] ELSE 0]
        total == Total(paid)
    IN  /\ pool' = [pool EXCEPT !.payment = @ + total, !.unpaid = @ - total]
        /\ payment' = [m \in Miners |-> payment[m] + paid[m]]
        /\ unpaid' = [m \in Miners |-> unpaid[m] - paid[m]]
        /\ UNCHANGED reward
=============================================================================
