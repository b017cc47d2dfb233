------------------------------ MODULE Payouts -------------------------------
(***************************************************************************)
(* The payment task (payouts/payment.go, pay_chunk.go): a goroutine that   *)
(* on every tick scans the accounts, collects the miners that are owed     *)
(* more than the threshold, and pays them in chunks: one transaction block *)
(* sent to the node by RPC, then one kvrocks transaction that records the  *)
(* payment.  Meanwhile the goroutine that handles the node's messages      *)
(* credits the same accounts.  A transfer may be refused, may be accepted  *)
(* with the answer lost (the HTTP client gives up after 20 s), the record  *)
(* may fail, and the process may stop anywhere and start again.            *)
(*                                                                         *)
(* A batch is the set of the addresses in batchAddress: an address occurs  *)
(* at most once in it, and batchAmount holds the amount quoted for each,   *)
(* which is owed[m].                                                       *)
(***************************************************************************)
EXTENDS Ledger

CONSTANTS
    BadAddresses,  \* accounts whose key may be no address the node takes
    ChunkSize,     \* outputs of a block: 10 with a remark, 11 without
    Thresholds,    \* the values payout.threshold takes in the configuration
    MaxReward,     \* bound: all the rewards the pool ever wins
    MaxFaults      \* bound: how many calls fail or processes stop

ASSUME ChunkSizeAssumption == ChunkSize \in Nat \ {0}
ASSUME ThresholdsAssumption == Thresholds \subseteq Int
ASSUME BoundsAssumption == MaxReward \in Nat /\ MaxFaults \in Nat

VARIABLES
    pc,         \* where the payment goroutine is
    site,       \* whether PayChunk is called in the loop or after it
    threshold,  \* batchPayMiners' copy of the configured threshold
    toRead,     \* accounts GetMinersToPay has yet to read
    owed,       \* the unpaid amount read for a miner of this round
    todo,       \* miners the loop over GetMinersToPay's map has yet to visit
    batch,      \* batchAddress
    undivided,  \* rewards won and not yet credited to a miner
    chain,      \* what the node's chain transferred to each miner
    unsure,     \* of it, what the pool has no record of and never will
    faults,     \* failures so far
    bad         \* the accounts whose name is no address

roundVars == <<pc, site, threshold, toRead, owed, todo, batch>>
payVars == <<ledgerVars, roundVars, undivided, chain, unsure, faults, bad>>

PayoutsInit ==
    /\ LedgerInit
    /\ pc = "idle" /\ site = "loop"
    /\ threshold \in Thresholds
    /\ toRead = {} /\ todo = {} /\ batch = {}
    /\ owed = ZeroForAll
    /\ undivided = 0
    /\ chain = ZeroForAll /\ unsure = ZeroForAll
    /\ faults = 0 /\ bad \in SUBSET BadAddresses

\* What the batch in hand pays each miner.
Quoted == [m \in Miners |-> IF m \in batch THEN owed[m] ELSE 0]

AddQuoted(f) == [m \in Miners |-> f[m] + Quoted[m]]

\* A failure happens; without one, the count stays.
Fault == faults < MaxFaults /\ faults' = faults + 1 /\ UNCHANGED bad

\* Mutant: the slices outlive the round.
EndRoundKeepsBatch ==
    /\ pc' = "idle" /\ site' = "loop"
    /\ toRead' = {} /\ todo' = {} /\ batch' = batch
    /\ owed' = ZeroForAll
    /\ UNCHANGED threshold

\* batchPayMiners returns; its local variables are gone.
EndRound ==
    /\ pc' = "idle" /\ site' = "loop"
    /\ toRead' = {} /\ todo' = {} /\ batch' = {}
    /\ owed' = ZeroForAll
    /\ UNCHANGED threshold

\* PayChunk returns with batch b: back into the loop, or out of the round.
PayChunkReturns(b) ==
    \/ /\ site = "after"
       /\ EndRound
    \/ /\ site = "loop"
       /\ pc' = "loop" /\ batch' = b
       /\ UNCHANGED <<site, threshold, toRead, owed, todo>>

-----------------------------------------------------------------------------
(* Crediting, by the goroutine that handles the node's messages *)

Win(a) ==
    /\ pool.rewards + a <= MaxReward
    /\ SetWinReward(a)
    /\ undivided' = undivided + a
    /\ UNCHANGED <<roundVars, chain, unsure, faults, bad>>

Credit(m, a) ==
    /\ a <= undivided
    /\ SetMinerReward(m, a)
    /\ undivided' = undivided - a
    /\ UNCHANGED <<roundVars, chain, unsure, faults, bad>>

-----------------------------------------------------------------------------
(* GetMinersToPay *)

\* The ticker fires; the threshold is copied under the configuration's lock.
Tick ==
    /\ pc = "idle"
    /\ pc' = "read"
    /\ threshold' \in Thresholds
    /\ toRead' = Miners
    /\ UNCHANGED <<ledgerVars, site, owed, todo, batch, undivided, chain, unsure, faults, bad>>

\* Mutant: a miner owed exactly the threshold is paid too.
ReadUnpaidAtThreshold(m) ==
    /\ pc = "read" /\ m \in toRead
    /\ toRead' = toRead \ {m}
    /\ IF unpaid[m] >= threshold
       THEN /\ todo' = todo \union {m}
            /\ owed' = [owed EXCEPT ![m] = unpaid[m]]
       ELSE UNCHANGED <<todo, owed>>
    /\ UNCHANGED <<ledgerVars, pc, site, threshold, batch, undivided, chain, unsure, faults, bad>>

\* One HGET of the scan.
ReadUnpaid(m) ==
    /\ pc = "read" /\ m \in toRead
    /\ toRead' = toRead \ {m}
    /\ IF unpaid[m] > threshold
       THEN /\ todo' = todo \union {m}
            /\ owed' = [owed EXCEPT ![m] = unpaid[m]]
       ELSE UNCHANGED <<todo, owed>>
    /\ UNCHANGED <<ledgerVars, pc, site, threshold, batch, undivided, chain, unsure, faults, bad>>

\* The HGET fails: it is logged and the account skipped.
ReadFails(m) ==
    /\ pc = "read" /\ m \in toRead
    /\ Fault
    /\ toRead' = toRead \ {m}
    /\ UNCHANGED <<ledgerVars, pc, site, threshold, owed, todo, batch, undivided, chain, unsure>>

\* The scan itself fails: nobody is paid in this round.
ScanFails ==
    /\ pc = "read"
    /\ Fault
    /\ EndRound
    /\ UNCHANGED <<ledgerVars, undivided, chain, unsure>>

ReadDone ==
    /\ pc = "read" /\ toRead = {}
    /\ pc' = "loop"
    /\ UNCHANGED <<ledgerVars, site, threshold, toRead, owed, todo, batch, undivided,
                   chain, unsure, faults, bad>>

-----------------------------------------------------------------------------
(* batchPayMiners' loop, in the random order of a Go map *)

TakeMiner(m) ==
    /\ pc = "loop" /\ m \in todo
    /\ todo' = todo \ {m}
    /\ batch' = IF owed[m] > 0 THEN batch \union {m} ELSE batch
    /\ pc' = IF Cardinality(batch') = ChunkSize THEN "pay" ELSE "loop"
    /\ UNCHANGED <<ledgerVars, site, threshold, toRead, owed, undivided, chain, unsure, faults, bad>>

\* Mutant: a last chunk that is not full is not paid.
LoopEndsDropsRest ==
    /\ pc = "loop" /\ todo = {}
    /\ EndRound
    /\ UNCHANGED <<ledgerVars, undivided, chain, unsure, faults, bad>>

\* After the loop what is left in the batch is paid too.
LoopEnds ==
    /\ pc = "loop" /\ todo = {}
    /\ \/ batch = {} /\ EndRound
       \/ /\ batch # {}
          /\ pc' = "pay" /\ site' = "after"
          /\ UNCHANGED <<threshold, toRead, owed, todo, batch>>
    /\ UNCHANGED <<ledgerVars, undivided, chain, unsure, faults, bad>>

-----------------------------------------------------------------------------
(* PayChunk: transfer2chunk, then SetChunkPayment.  When the transfer     *)
(* returns an error the batch is NOT emptied: it grows on, or is tried    *)
(* again after the loop.                                                   *)

\* Mutant: the number of outputs is not checked.
SendableAnySize == batch \intersect bad = {}

Sendable == Cardinality(batch) <= ChunkSize /\ batch \intersect bad = {}

\* Mutant: an impossible transfer is tried again at once.
TransferImpossibleRetries ==
    /\ pc = "pay" /\ ~Sendable
    /\ UNCHANGED payVars

\* The batch is too long or holds a bad address: no block can be built.
TransferImpossible ==
    /\ pc = "pay" /\ ~Sendable
    /\ PayChunkReturns(batch)
    /\ UNCHANGED <<ledgerVars, undivided, chain, unsure, faults, bad>>

TransferAccepted ==
    /\ pc = "pay" /\ Sendable
    /\ chain' = AddQuoted(chain)
    /\ pc' = "record"
    /\ UNCHANGED <<ledgerVars, site, threshold, toRead, owed, todo, batch, undivided,
                   unsure, faults, bad>>

\* Mutant: the error of the transfer is logged and the payment recorded.
TransferRefusedIgnored ==
    /\ pc = "pay" /\ Sendable
    /\ Fault
    /\ pc' = "record"
    /\ UNCHANGED <<ledgerVars, site, threshold, toRead, owed, todo, batch, undivided,
                   chain, unsure>>

\* The node does not take the block.
TransferRefused ==
    /\ pc = "pay" /\ Sendable
    /\ Fault
    /\ PayChunkReturns(batch)
    /\ UNCHANGED <<ledgerVars, undivided, chain, unsure>>

\* The node answers with a text of 32 characters that is no address: the loop
\* of Address2Hash that reads its characters never ends.
TransferHangs ==
    /\ pc = "pay" /\ Sendable
    /\ Fault
    /\ pc' = "hung"
    /\ UNCHANGED <<ledgerVars, site, threshold, toRead, owed, todo, batch, undivided,
                   chain, unsure>>

\* The node takes the block, but its answer is late, lost or unreadable.
TransferUnanswered ==
    /\ pc = "pay" /\ Sendable
    /\ Fault
    /\ chain' = AddQuoted(chain)
    /\ unsure' = AddQuoted(unsure)
    /\ PayChunkReturns(batch)
    /\ UNCHANGED <<ledgerVars, undivided>>

\* Mutant: the batch is not emptied after it was paid.
RecordKeepsBatch ==
    /\ pc = "record"
    /\ SetChunkPayment(batch, owed)
    /\ PayChunkReturns(batch)
    /\ UNCHANGED <<undivided, chain, unsure, faults, bad>>

\* SetChunkPayment is executed; that its answer may be lost changes nothing,
\* because the error is only logged.
Record ==
    /\ pc = "record"
    /\ SetChunkPayment(batch, owed)
    /\ PayChunkReturns({})
    /\ UNCHANGED <<undivided, chain, unsure, faults, bad>>

\* SetChunkPayment is not executed; the error is logged, the batch emptied.
RecordFails ==
    /\ pc = "record"
    /\ Fault
    /\ unsure' = AddQuoted(unsure)
    /\ PayChunkReturns({})
    /\ UNCHANGED <<ledgerVars, undivided, chain>>

\* The process stops in a round and is started again: kvrocks keeps the
\* ledger, everything else is lost.
Crash ==
    /\ pc # "idle"
    /\ Fault
    /\ unsure' = IF pc = "record" THEN AddQuoted(unsure) ELSE unsure
    /\ EndRound
    /\ UNCHANGED <<ledgerVars, undivided, chain>>

-----------------------------------------------------------------------------
\* What the payment goroutine does by itself: it is never blocked.
PaymentStep ==
    \/ Tick
    \/ \E m \in Miners : ReadUnpaid(m) \/ ReadFails(m) \/ TakeMiner(m)
    \/ ScanFails \/ ReadDone \/ LoopEnds
    \/ TransferImpossible \/ TransferAccepted
    \/ TransferRefused \/ TransferUnanswered \/ TransferHangs
    \/ Record \/ RecordFails

PayoutsNext ==
    \/ \E a \in 1..MaxReward : Win(a)
    \/ \E m \in Miners, a \in 0..MaxReward : Credit(m, a)
    \/ PaymentStep
    \/ Crash

PayoutsSpec == PayoutsInit /\ [][PayoutsNext]_payVars

\* The ticker keeps firing and the goroutine is scheduled; the environment
\* owes nothing.
FairPayoutsSpec == PayoutsSpec /\ WF_payVars(PaymentStep)

-----------------------------------------------------------------------------
(* Properties *)

\* The types of the variables, and where the round's variables are empty:
\* nothing of a round survives it.
PayoutsTypeOK ==
    /\ LedgerTypeOK
    /\ pc \in {"idle", "read", "loop", "pay", "record", "hung"}
    /\ site \in {"loop", "after"} /\ threshold \in Thresholds
    /\ toRead \in SUBSET Miners /\ todo \in SUBSET Miners /\ batch \in SUBSET Miners
    /\ owed \in [Miners -> Int]
    /\ undivided \in Nat
    /\ chain \in [Miners -> Int] /\ unsure \in [Miners -> Int]
    /\ faults \in 0..MaxFaults /\ bad \in SUBSET BadAddresses
    /\ pc \in {"idle", "read"} => batch = {} /\ site = "loop"
    /\ pc = "idle" => todo = {} /\ toRead = {}

\* Every counter of a miner's account and of the pool's account adds up:
\* SetChunkPayment debits both sides by what it pays, SetMinerReward credits
\* both, and what the miners are owed is what the pool owes them.
LedgerBalanced ==
    /\ \A m \in Miners : unpaid[m] = reward[m] - payment[m]
    /\ pool.unpaid = pool.rewards - pool.payment
    /\ pool.payment = Total(payment)
    /\ pool.rewards = Total(reward) + undivided

\* The amount read for a miner at the start of the round is still owed when
\* the round comes to pay it, although it is used long after it was read and
\* rewards are credited meanwhile: nothing else debits the account.
QuoteStillOwed == \A m \in todo \union batch : owed[m] <= unpaid[m]

\* No account is ever debited below zero (SetChunkPayment does not look).
UnpaidNeverNegative == \A m \in Miners : unpaid[m] >= 0

\* The books never show a payment that the chain has not made.
LedgerNeverAhead ==
    \A m \in Miners :
        payment[m] + (IF pc = "record" THEN Quoted[m] ELSE 0) <= chain[m]

\* A miner gets more than it earned only after a transfer whose outcome the
\* pool does not know or could not record.
NoOverpaymentUnlessUnsure ==
    \A m \in Miners : unsure[m] = 0 => chain[m] <= reward[m]

\* What a step adds to a miner's coins on the chain is above the threshold.
ChainGrowsAboveThreshold ==
    \A m \in Miners :
        chain'[m] # chain[m] => /\ chain'[m] - chain[m] > threshold
                                /\ chain'[m] > chain[m]

\* A transfer pays a miner nothing or more than the threshold in force.
PaysAboveThreshold == [][ChainGrowsAboveThreshold]_payVars

\* A round always comes to its end, however many transfers fail and whatever
\* addresses it meets: no failed chunk is tried for ever.  The one way to hang
\* is an answer whose check does not end.
RoundEnds == pc # "idle" ~> pc \in {"idle", "hung"}

\* Once failures have ceased, a miner that is owed more than any threshold is
\* paid all it was owed at that time, whatever rounds and chunks it takes, if
\* no account spoils its chunks.
DebtsArePaid ==
    \A m \in Miners, r \in 1..MaxReward :
        (bad = {} /\ reward[m] = r /\ \A t \in Thresholds : unpaid[m] > t)
            ~> (pc = "hung" \/ payment[m] >= r \/ \E t \in Thresholds : unpaid[m] <= t)

Promise == INSTANCE PaymentPromise
               WITH Payees <- Miners, MaxOutputs <- ChunkSize,
                    earned <- reward, sent <- chain, settled <- payment

\* The payment task keeps the promise to the miners.
KeepsPromise == Promise!PromiseSpec
=============================================================================
