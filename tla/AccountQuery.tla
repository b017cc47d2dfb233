---------------------------- MODULE AccountQuery ----------------------------
(***************************************************************************)
(* xdag_minerAccount (stratum/api.go): GetMinerAccount of kvstore/query.go *)
(* reads the three counters of an account with three HGETs, while credits  *)
(* and payments change them in transactions of their own.  A read that     *)
(* fails ends the call with the counters read so far, and no error.        *)
(***************************************************************************)
EXTENDS Ledger, Sequences

CONSTANTS
    Asker,      \* the miner whose account is asked for
    MaxCredits, \* bound: credits
    MaxAmount   \* bound: amount of a credit

ASSUME AskerAssumption == Asker \in Miners
ASSUME AmountAssumption == MaxAmount \in Nat

VARIABLES
    next,     \* the counter the call reads next; past the last when it has answered
    told,     \* what it has read
    credits,  \* credits so far
    moved,    \* history: what the account was credited and paid since the call started
    cutShort  \* history: a read failed, and the answer is what was read before it

queryVars == <<ledgerVars, next, told, credits, moved, cutShort>>

\* Mutant: the payments are read before what is owed.
CountersPaidFirst == <<"reward", "payment", "unpaid">>

\* The counters in the order they are read.
Counters == <<"reward", "unpaid", "payment">>

CounterOf(c) ==
    CASE c = "reward" -> reward[Asker]
      [] c = "unpaid" -> unpaid[Asker]
      [] c = "payment" -> payment[Asker]

QueryInit ==
    /\ LedgerInit
    /\ next = 1
    /\ told = [reward |-> 0, unpaid |-> 0, payment |-> 0]
    /\ credits = 0
    /\ moved = 0 /\ cutShort = FALSE

Moves(m, a) == moved' = IF m = Asker /\ next # 1 THEN moved + a ELSE moved

Credit(m, a) ==
    /\ credits < MaxCredits
    /\ credits' = credits + 1
    /\ SetMinerReward(m, a)
    /\ Moves(m, a)
    /\ UNCHANGED <<next, told, cutShort>>

\* A payment round pays what the account holds.
Pay(m) ==
    /\ unpaid[m] > 0
    /\ SetChunkPayment({m}, unpaid)
    /\ Moves(m, unpaid[m])
    /\ UNCHANGED <<next, told, credits, cutShort>>

\* A counter that was never written: HGET answers nil, which is an error.
Absent(c) == IF c = "payment" THEN payment[Asker] = 0 ELSE reward[Asker] = 0

\* An HGET; after one that answers nil the rest is not read.
ReadCounter ==
    /\ next \in 1..Len(Counters)
    /\ LET c == Counters[next]
       IN  IF Absent(c) THEN next' = Len(Counters) + 1 /\ UNCHANGED told
           ELSE next' = next + 1 /\ told' = [told EXCEPT ![c] = CounterOf(c)]
    /\ UNCHANGED <<ledgerVars, credits, moved, cutShort>>

\* An HGET fails.  Its error is only logged: the caller is answered, and the
\* counters that were not read are 0 in the answer.
ReadFails ==
    /\ next \in 1..Len(Counters)
    /\ next' = Len(Counters) + 1
    /\ cutShort' = TRUE
    /\ UNCHANGED <<ledgerVars, told, credits, moved>>

QueryNext ==
    \/ \E m \in Miners : Pay(m) \/ \E a \in 1..MaxAmount : Credit(m, a)
    \/ ReadCounter \/ ReadFails

QuerySpec == QueryInit /\ [][QueryNext]_queryVars

-----------------------------------------------------------------------------

\* The answer never shows more owed and paid than it shows earned, but for what
\* moved during the call; and unless one of its reads failed it hides no money:
\* what it shows owed and paid covers what it shows earned.
AccountCovers ==
    next > Len(Counters) =>
        LET shown == told.unpaid + told.payment
        IN  /\ ~cutShort => told.reward <= shown
            /\ shown <= told.reward + moved
=============================================================================
