--------------------------- MODULE PaymentPromise ---------------------------
(***************************************************************************)
(* What the pool promises its miners about money, without a word on how    *)
(* payments are collected, sent or recorded.  What a miner earned only     *)
(* grows.  Coins are sent to several miners at once, never to more than    *)
(* one block can hold.  A debt is written off in the books only for coins  *)
(* that were really sent, and never beyond what the miner earned.          *)
(***************************************************************************)
EXTENDS Integers, FiniteSets

CONSTANTS Payees, MaxOutputs

VARIABLES
    earned,   \* what each payee earned
    sent,     \* what was sent to each payee
    settled   \* what of its earnings the books show as paid

promiseVars == <<earned, sent, settled>>

PromiseInit ==
    /\ earned = [p \in Payees |-> 0]
    /\ sent = [p \in Payees |-> 0]
    /\ settled = [p \in Payees |-> 0]

\* f grows to g for the payees of one block.
PaysOneBlock(f, g) ==
    \E S \in SUBSET Payees :
        /\ Cardinality(S) <= MaxOutputs
        /\ \A p \in Payees \ S : g[p] = f[p]
        /\ \A p \in S : g[p] > f[p]

Earn ==
    /\ \A p \in Payees : earned'[p] >= earned[p]
    /\ UNCHANGED <<sent, settled>>

Send ==
    /\ PaysOneBlock(sent, sent')
    /\ UNCHANGED <<earned, settled>>

Settle ==
    /\ PaysOneBlock(settled, settled')
    /\ \A p \in Payees : settled'[p] <= earned[p] /\ settled'[p] <= sent[p]
    /\ UNCHANGED <<earned, sent>>

PromiseNext == Earn \/ Send \/ Settle

PromiseSpec == PromiseInit /\ [][PromiseNext]_promiseVars
=============================================================================
