------------------------------- MODULE Rewards ------------------------------
(***************************************************************************)
(* One job, from the shares found for it to the division of its reward.    *)
(*                                                                         *)
(* Connection goroutines (stratum/miner.go, processShare) compare a share  *)
(* with the lowest hash of the job so far (IsMinShare: a read, a           *)
(* transaction and a trim of the sorted set, nothing of it under a lock),  *)
(* send it to the node if it is lower (ws.Submit), and add its difficulty  *)
(* to the job's sums (WriteBlock).  The goroutine that handles the node's  *)
(* messages recognises the reward of a share the pool sent, books it and   *)
(* divides it (payouts/reward.go, kvstore/kvrocks.go).  All of it meets    *)
(* only in kvrocks, where each command or transaction is one step.         *)
(*                                                                         *)
(* A connection submits at most one share here, so a connection stands for *)
(* its share.  Every share adds the same difficulty, 1.  Left out are the  *)
(* expiry of the job's keys after 30 minutes and a share submitted a       *)
(* second time: it is compared, remembered and sent like a new one, and    *)
(* only WriteBlock, which comes last, turns it away (ShareExist).          *)
(***************************************************************************)
EXTENDS Ledger

CONSTANTS
    Conns,        \* connections, each with one share of the job
    Logins,       \* the miners' addresses
    JobKey,       \* the kvrocks key xdag:job:<jobHash>, taken for an address
    Hashes,       \* the high 8 bytes of a share's RandomX hash
    NoOne,        \* no share and no miner
    Modes,        \* values of payout.mode
    Amount, PoolFee, RewardFee, DirectFee,  \* of the reward, by the ratios
    Huge,         \* stands for the magnitude of int64(+Inf)
    MaxMessages,  \* bound: how often the reward's message is delivered
    MaxFaults,    \* bound: how many calls fail or processes stop
    FewShares     \* bound: of more shares than this nothing fails or is repeated

ASSUME MinersAssumption == Miners = Logins \union {JobKey} /\ JobKey \notin Logins
ASSUME NoShareAssumption == NoOne \notin Conns
ASSUME HashesAssumption == Hashes \subseteq Nat \ {0}
ASSUME ModesAssumption == Modes \subseteq {"solo", "equal"}
\* The ratios are not more than 100% (nothing in the code checks it).
ASSUME FeesAssumption ==
    /\ {Amount, PoolFee, RewardFee, DirectFee} \subseteq Nat
    /\ PoolFee + RewardFee + DirectFee <= Amount
ASSUME HugeAssumption == Huge \in Nat

VARIABLES
    mode,      \* payout.mode
    login,     \* the miner of each connection, NoOne if it submits no share
    hash,      \* the hash of each connection's share
    at,        \* where each connection is in processShare
    submit,    \* xdag:submit:<job>: the shares remembered as sent to the node
    mini,      \* xdag:mini:<job>: score by miner, 0 for no member
    sent,      \* the shares the node has received
    poolDiff,  \* xdag:pool:<job> "diff"
    jobDiff,   \* xdag:job:<job>: field by miner, 0 for no field
    stage,     \* where the message goroutine is in ProcessReward
    winner,    \* the share the node rewards: one of those sent, once it has
    finder,    \* SetFinderReward's raw[0]
    readPool,  \* GetProportion's poolDiff
    heads,     \* the number of miners to divide among
    toRead,    \* miners GetProportion has yet to read
    parts,     \* the amount to credit, for the miners already read
    toCredit,  \* miners yet to be credited
    messages, faults,
    lateShares,\* history: shares recorded while the proportions were read
    late,      \* history: a share was recorded after its job was rewarded
    divisor    \* history: the sum the reward is divided by, 1 before it is

shareVars == <<at, submit, mini, sent, poolDiff, jobDiff>>
readVars == <<finder, readPool, heads, toRead, parts, toCredit, divisor>>
inputVars == <<mode, login, hash>>
boundVars == <<messages, faults>>
rewardsVars ==
    <<ledgerVars, inputVars, shareVars, stage, winner, readVars, boundVars, lateShares, late>>

RewardsInit ==
    /\ LedgerInit
    /\ mode \in Modes /\ login \in [Conns -> Logins \union {NoOne}]
    /\ hash \in [Conns -> Hashes]
    /\ \A c \in Conns : login[c] = NoOne => \A h \in Hashes : hash[c] <= h
    /\ at = [c \in Conns |-> IF login[c] = NoOne THEN "done" ELSE "compare"]
    /\ submit = {} /\ mini = ZeroForAll /\ sent = {}
    /\ poolDiff = 0 /\ jobDiff = ZeroForAll
    /\ stage = "idle" /\ winner = NoOne
    /\ finder = NoOne /\ readPool = 0 /\ heads = 0 /\ toRead = {}
    /\ parts = ZeroForAll /\ toCredit = {}
    /\ messages = 0 /\ faults = 0
    /\ lateShares = 0 /\ late = FALSE /\ divisor = 1

Few     == Cardinality({c \in Conns : login[c] # NoOne}) <= FewShares
Fault   == Few /\ faults < MaxFaults /\ faults' = faults + 1 /\ UNCHANGED messages
NoFault == UNCHANGED boundVars

\* The members of a sorted set at rank 0 (of equal scores, any may be first).
Members(z)  == {m \in Miners : z[m] # 0}
AtRank0(z)  == {m \in Members(z) : \A n \in Members(z) : z[m] <= z[n]}

Goes(c, to) == at' = [at EXCEPT ![c] = to]
Elsewhere   == UNCHANGED <<ledgerVars, inputVars, stage, winner, readVars>>

-----------------------------------------------------------------------------
(* processShare *)

\* IsMinShare's ZRANGE and the decision on it.
Compare(c) ==
    /\ at[c] = "compare"
    /\ IF \A m \in AtRank0(mini) : mini[m] > hash[c]
       THEN Goes(c, "store")
       ELSE Goes(c, "write")
    /\ NoFault
    /\ UNCHANGED <<submit, mini, sent, poolDiff, jobDiff, lateShares, late>> /\ Elsewhere

\* The ZRANGE fails: the share is taken not to be the lowest.
CompareFails(c) ==
    /\ at[c] = "compare"
    /\ Goes(c, "write")
    /\ Fault
    /\ UNCHANGED <<submit, mini, sent, poolDiff, jobDiff, lateShares, late>> /\ Elsewhere

\* Mutant: only the job's first share is remembered as sent.
StoreFirstOnly(c) ==
    /\ at[c] = "store"
    /\ submit' = IF submit = {} THEN {c} ELSE submit
    /\ mini' = [mini EXCEPT ![login[c]] = hash[c]]
    /\ Goes(c, "trim")
    /\ NoFault
    /\ UNCHANGED <<sent, poolDiff, jobDiff, lateShares, late>> /\ Elsewhere

\* The transaction: the score replaces an older one of the same miner.
Store(c) ==
    /\ at[c] = "store"
    /\ submit' = submit \union {c}
    /\ mini' = [mini EXCEPT ![login[c]] = hash[c]]
    /\ Goes(c, "trim")
    /\ NoFault
    /\ UNCHANGED <<sent, poolDiff, jobDiff, lateShares, late>> /\ Elsewhere

\* Its error is only logged.
StoreFails(c) ==
    /\ at[c] = "store"
    /\ Goes(c, "trim")
    /\ Fault
    /\ UNCHANGED <<submit, mini, sent, poolDiff, jobDiff, lateShares, late>> /\ Elsewhere

\* Mutant: all but the last rank are removed.
TrimKeepsLast(c) ==
    /\ at[c] = "trim"
    /\ \/ /\ Members(mini) = {} /\ UNCHANGED mini
       \/ \E m \in Members(mini) :
             /\ \A n \in Members(mini) : mini[n] <= mini[m]
             /\ mini' = [n \in Miners |-> IF n = m THEN mini[n] ELSE 0]
    /\ Goes(c, "send")
    /\ NoFault
    /\ UNCHANGED <<submit, sent, poolDiff, jobDiff, lateShares, late>> /\ Elsewhere

\* ZREMRANGEBYRANK 1 -1, whose error is dropped.
Trim(c) ==
    /\ at[c] = "trim"
    /\ \/ /\ Members(mini) = {} /\ UNCHANGED mini
       \/ \E m \in AtRank0(mini) :
             mini' = [n \in Miners |-> IF n = m THEN mini[n] ELSE 0]
    /\ Goes(c, "send")
    /\ NoFault
    /\ UNCHANGED <<submit, sent, poolDiff, jobDiff, lateShares, late>> /\ Elsewhere

TrimFails(c) ==
    /\ at[c] = "trim"
    /\ Goes(c, "send")
    /\ Fault
    /\ UNCHANGED <<submit, mini, sent, poolDiff, jobDiff, lateShares, late>> /\ Elsewhere

\* ws.Submit; without a connection to the node it returns an error, which is
\* only logged.
Send(c) ==
    /\ at[c] = "send"
    /\ sent' \in {sent, sent \union {c}}
    /\ Goes(c, "write")
    /\ NoFault
    /\ UNCHANGED <<submit, mini, poolDiff, jobDiff, lateShares, late>> /\ Elsewhere

\* WriteBlock's transaction.
Write(c) ==
    /\ at[c] = "write"
    /\ poolDiff' = poolDiff + 1
    /\ jobDiff' = [jobDiff EXCEPT ![login[c]] = @ + 1]
    /\ lateShares' = lateShares + (IF stage \in {"keys", "diffs"} THEN 1 ELSE 0)
    /\ late' = (late \/ winner # NoOne)
    /\ Goes(c, "done")
    /\ NoFault
    /\ UNCHANGED <<submit, mini, sent>> /\ Elsewhere

\* Its error is only logged; the share counts in the miner's statistics only.
WriteFails(c) ==
    /\ at[c] = "write"
    /\ Goes(c, "done")
    /\ Fault
    /\ UNCHANGED <<submit, mini, sent, poolDiff, jobDiff, lateShares, late>> /\ Elsewhere

-----------------------------------------------------------------------------
(* ProcessReward *)

\* Mutant: what was still to be credited outlives the call.
ReturnKeepsMiners ==
    /\ stage' = "idle"
    /\ finder' = NoOne /\ readPool' = 0 /\ heads' = 0 /\ toRead' = {}
    /\ parts' = ZeroForAll /\ UNCHANGED <<toCredit, divisor>>

\* ProcessReward returns; its local variables are gone.
Return ==
    /\ stage' = "idle"
    /\ finder' = NoOne /\ readPool' = 0 /\ heads' = 0 /\ toRead' = {}
    /\ parts' = ZeroForAll /\ toCredit' = {} /\ UNCHANGED divisor

StageTo(s) == stage' = s /\ UNCHANGED readVars
Around     == UNCHANGED <<inputVars, at, mini, sent, poolDiff, jobDiff, lateShares, late>>

\* The node's message arrives and the share is looked up (IsPoolShare).  The
\* node may repeat the message.
Deliver(c) ==
    /\ stage = "idle" /\ messages < (IF Few THEN MaxMessages ELSE 1)
    /\ c \in sent /\ winner \in {NoOne, c}
    /\ winner' = c
    /\ messages' = messages + 1 /\ UNCHANGED faults
    /\ IF c \in submit THEN StageTo("win") ELSE StageTo("idle")
    /\ UNCHANGED <<ledgerVars, submit>> /\ Around

\* The lookup fails: the share is taken not to be the pool's.
LookupFails(c) ==
    /\ stage = "idle" /\ c \in sent /\ winner \in {NoOne, c}
    /\ winner' = c
    /\ StageTo("idle")
    /\ Fault
    /\ UNCHANGED <<ledgerVars, submit>> /\ Around

\* Mutant: the submit set is left in place.
WinKeepsSubmit ==
    /\ stage = "win"
    /\ SetWinReward(Amount)
    /\ StageTo("finder")
    /\ NoFault
    /\ UNCHANGED <<submit, winner>> /\ Around

\* SetWinReward: the pool's account and the end of the job's submit set.
Win ==
    /\ stage = "win"
    /\ SetWinReward(Amount)
    /\ submit' = {}
    /\ StageTo("finder")
    /\ NoFault
    /\ UNCHANGED winner /\ Around

\* It returns an error, executed or not: nothing is divided.
WinFails ==
    /\ stage = "win"
    /\ \/ UNCHANGED <<ledgerVars, submit>>
       \/ SetWinReward(Amount) /\ submit' = {}
    /\ Return
    /\ Fault
    /\ UNCHANGED winner /\ Around

FinderFee == IF mode = "solo" THEN Amount - PoolFee - DirectFee ELSE RewardFee

\* Mutant: the finder's reward is not taken off.
DividedWithFinders == Amount - PoolFee - DirectFee

Divided == Amount - PoolFee - DirectFee - RewardFee

\* dividend, after the finder's reward.
GoesOnDividing ==
    \/ mode = "equal" /\ StageTo("pool")
    \/ mode = "solo" /\ DirectFee > 0 /\ StageTo("names")
    \/ mode = "solo" /\ DirectFee = 0 /\ Return

\* SetFinderReward's ZRANGE.
FindFinder ==
    /\ stage = "finder"
    /\ \/ /\ FinderFee < 1 \/ Members(mini) = {}
          /\ GoesOnDividing
       \/ /\ FinderFee >= 1
          /\ finder' \in AtRank0(mini)
          /\ stage' = "creditFinder"
          /\ UNCHANGED <<readPool, heads, toRead, parts, toCredit, divisor>>
    /\ NoFault
    /\ UNCHANGED <<ledgerVars, submit, winner>> /\ Around

\* Mutant: after the finder nobody else is credited.
CreditFinderOnly ==
    /\ stage = "creditFinder"
    /\ SetMinerReward(finder, FinderFee)
    /\ Return
    /\ NoFault
    /\ UNCHANGED <<submit, winner>> /\ Around

CreditFinder ==
    /\ stage = "creditFinder"
    /\ SetMinerReward(finder, FinderFee)
    /\ GoesOnDividing
    /\ NoFault
    /\ UNCHANGED <<submit, winner>> /\ Around

\* The ZRANGE or the credit fails: it is logged and dividing goes on.
FinderFails ==
    /\ stage \in {"finder", "creditFinder"}
    /\ GoesOnDividing
    /\ Fault
    /\ UNCHANGED <<ledgerVars, submit, winner>> /\ Around

\* DivideSolo: GetMinerName scans for the key of the job and returns it.
ReadNames ==
    /\ stage = "names"
    /\ IF poolDiff = 0
       THEN Return
       ELSE /\ stage' = "credit"
            /\ heads' = 1 /\ toCredit' = {JobKey}
            /\ parts' = [parts EXCEPT ![JobKey] = DirectFee]
            /\ UNCHANGED <<finder, readPool, toRead, divisor>>
    /\ NoFault
    /\ UNCHANGED <<ledgerVars, submit, winner>> /\ Around

\* Its scan fails: no account is found.
NamesFail ==
    /\ stage = "names"
    /\ Return
    /\ Fault
    /\ UNCHANGED <<ledgerVars, submit, winner>> /\ Around

\* DivideEqual, GetProportion: the sum, then the miners, then each miner's part.
PoolRead(sum) ==
    /\ stage = "pool"
    /\ readPool' = sum
    /\ stage' = "keys"
    /\ UNCHANGED <<finder, heads, toRead, parts, toCredit, divisor>>
    /\ UNCHANGED <<ledgerVars, submit, winner>> /\ Around

ReadPool == PoolRead(poolDiff) /\ NoFault

\* The HGET fails, and its error is dropped.
PoolFails == PoolRead(0) /\ Fault

ReadKeys ==
    /\ stage = "keys"
    /\ IF Members(jobDiff) = {}
       THEN Return
       ELSE /\ toRead' = Members(jobDiff)
            /\ heads' = Cardinality(toRead')
            /\ stage' = "diffs"
            /\ divisor' = readPool
            /\ UNCHANGED <<finder, readPool, parts, toCredit>>
    /\ NoFault
    /\ UNCHANGED <<ledgerVars, submit, winner>> /\ Around

\* The HKEYS fails: there is nobody to divide among.
KeysFail ==
    /\ stage = "keys"
    /\ Return
    /\ Fault
    /\ UNCHANGED <<ledgerVars, submit, winner>> /\ Around

\* int64(ratio*amount + fee/len(miners)) for a miner's difficulty d.  A sum of
\* 0 makes it infinite or no number at all, and what int64 does to that depends
\* on the machine.
PartOf(d) ==
    IF readPool # 0
    THEN {(heads * d * Divided + readPool * DirectFee) \div (heads * readPool)}
    ELSE {-Huge, IF d = 0 \/ Divided = 0 THEN 0 ELSE Huge}

DiffRead(m, d) ==
    /\ stage = "diffs" /\ m \in toRead
    /\ toRead' = toRead \ {m} /\ toCredit' = toCredit \union {m}
    /\ \E p \in PartOf(d) : parts' = [parts EXCEPT ![m] = p]
    /\ stage' = IF toRead' = {} THEN "credit" ELSE "diffs"
    /\ UNCHANGED <<finder, readPool, heads, divisor>>
    /\ UNCHANGED <<ledgerVars, submit, winner>> /\ Around

ReadDiff(m) == DiffRead(m, jobDiff[m]) /\ NoFault

\* The HGET fails, and its error is dropped.
DiffFails(m) == DiffRead(m, 0) /\ Fault

\* One SetMinerReward of the loop over the miners; the last one ends it.
CreditedNext(m) ==
    IF toCredit = {m}
    THEN Return
    ELSE toCredit' = toCredit \ {m}
         /\ UNCHANGED <<stage, finder, readPool, heads, toRead, parts, divisor>>

Credit(m) ==
    /\ stage = "credit" /\ m \in toCredit
    /\ SetMinerReward(m, parts[m])
    /\ CreditedNext(m)
    /\ NoFault
    /\ UNCHANGED <<submit, winner>> /\ Around

\* Its error is logged and the loop goes on.
CreditFails(m) ==
    /\ stage = "credit" /\ m \in toCredit
    /\ CreditedNext(m)
    /\ Fault
    /\ UNCHANGED <<ledgerVars, submit, winner>> /\ Around

\* The process stops: what the goroutines were doing is lost, kvrocks stays.
Crash ==
    /\ stage # "idle" \/ \E c \in Conns : at[c] \notin {"compare", "done"}
    /\ at' = [c \in Conns |-> IF at[c] = "compare" THEN "compare" ELSE "done"]
    /\ Return
    /\ Fault
    /\ UNCHANGED <<ledgerVars, inputVars, submit, mini, sent, poolDiff, jobDiff, winner,
                   lateShares, late>>

-----------------------------------------------------------------------------
ProcessShare(c) ==
    \/ Compare(c) \/ CompareFails(c) \/ Store(c) \/ StoreFails(c) \/ Trim(c)
    \/ TrimFails(c) \/ Send(c) \/ Write(c) \/ WriteFails(c)

ProcessReward ==
    \/ \E c \in Conns : Deliver(c) \/ LookupFails(c)
    \/ Win \/ WinFails
    \/ FindFinder \/ CreditFinder \/ FinderFails
    \/ ReadNames \/ NamesFail \/ ReadPool \/ PoolFails \/ ReadKeys \/ KeysFail
    \/ \E m \in Miners : ReadDiff(m) \/ DiffFails(m) \/ Credit(m) \/ CreditFails(m)

RewardsNext == (\E c \in Conns : ProcessShare(c)) \/ ProcessReward \/ Crash

RewardsSpec == RewardsInit /\ [][RewardsNext]_rewardsVars
-----------------------------------------------------------------------------
(* Properties *)

RewardsTypeOK ==
    /\ LedgerTypeOK
    /\ mode \in Modes /\ login \in [Conns -> Logins \union {NoOne}]
    /\ hash \in [Conns -> Hashes]
    /\ at \in [Conns -> {"compare", "store", "trim", "send", "write", "done"}]
    /\ submit \in SUBSET Conns /\ sent \in SUBSET Conns
    /\ mini \in [Miners -> Hashes \union {0}]
    /\ poolDiff \in Nat /\ jobDiff \in [Miners -> Nat] /\ poolDiff = Total(jobDiff)
    /\ stage \in {"idle", "win", "finder", "creditFinder", "names", "pool", "keys",
                  "diffs", "credit"}
    /\ winner \in Conns \union {NoOne} /\ finder \in Logins \union {NoOne}
    /\ readPool \in Nat /\ heads \in Nat
    /\ toRead \in SUBSET Miners /\ toCredit \in SUBSET Miners
    /\ parts \in [Miners -> Int] /\ divisor \in Nat /\ lateShares \in Nat
    /\ stage = "diffs" <=> toRead # {}
    /\ toCredit # {} => stage \in {"diffs", "credit"}

\* A reward is booked at most once however often its message arrives, whatever
\* transaction fails and wherever the process stops.
WonOnce == pool.rewards \in {0, Amount}

\* What the miners are credited beyond the reward without the pool's fee.
Excess == Total(reward) - (IF pool.rewards = 0 THEN 0 ELSE Amount - PoolFee)

\* The miners are never credited more than the reward without the pool's fee,
\* whatever fails, but for the share that difficulty recorded between the reads
\* of GetProportion has in the sum it divides by; and a sum read as 0, because
\* the read failed or nothing was there yet, bounds nothing.
NeverOverDistributed == divisor # 0 => divisor * Excess <= lateShares * Divided

\* GetProportion divides by a sum that is not that of the miners it reads.
OutOfProportion == divisor = 0 \/ lateShares # 0

Quiet == \A c \in Conns : at[c] \in {"compare", "done"}

\* When nothing fails and no share is late, the whole reward is divided, but
\* for less than one unit per miner lost in rounding.
FullyDistributed ==
    /\ faults = 0 /\ ~late /\ Quiet
    /\ stage = "idle" /\ pool.rewards # 0
    => Total(reward) + PoolFee + Cardinality(Members(jobDiff)) > Amount

\* A share is sent to the node only when it is remembered, so that its reward
\* is recognised.
SentIsKnown == faults = 0 /\ pool.rewards = 0 => sent \subseteq submit

Lowest == {c \in submit : \A d \in submit : hash[c] <= hash[d]}

Settled == /\ faults = 0 /\ pool.rewards = 0 /\ submit # {}
           /\ \A c \in Conns : at[c] \notin {"store", "trim"}

\* "redis zset store min rxhash of a job" (store.txt): when all updates are
\* done, the one member of mini is the miner with the lowest share stored.
LowestKept == Settled => \E c \in Lowest : Members(mini) = {login[c]}

\* The same, as far as it holds: for miners that stored one share only.
LowestOfSingleShareKept ==
    (\A c \in Lowest, d \in submit : login[c] = login[d] => c = d) => LowestKept

\* "get all miners addresses which participated in a job" (kvrocks.go): what
\* is divided goes to the accounts of miners that found shares.
OnlyMinersCredited == \A m \in Miners : reward[m] # 0 => m \in Logins
=============================================================================
