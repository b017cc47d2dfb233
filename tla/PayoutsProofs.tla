--------------------------- MODULE PayoutsProofs ----------------------------
(***************************************************************************)
(* Proofs about the payment task, for every set of miners, chunk size,     *)
(* set of thresholds and number of failures.  Everything rests on one      *)
(* inductive invariant, PayInv; the safety properties of Payouts are its   *)
(* consequences, and with it every step is a step of PaymentPromise.       *)
(*                                                                         *)
(* The pool's own account is about sums over all miners, which only three  *)
(* steps change; it is kept apart in PoolBooks and rests on LedgerProofs.  *)
(***************************************************************************)
EXTENDS Payouts, LedgerProofs

\* What a miner is owed is what it was credited and not yet debited.
AccountBalanced == \A m \in Miners : unpaid[m] = reward[m] - payment[m]

\* The miners in the round are owed, by the quote, enough to be paid; a miner
\* is either still to be visited or in the batch, so it is debited once.
QuotesPayable ==
    /\ \A m \in todo \union batch : owed[m] > threshold
    /\ \A m \in batch : owed[m] > 0
    /\ todo \intersect batch = {}
    /\ pc = "record" => Sendable

InFlight(m) == IF pc = "record" THEN Quoted[m] ELSE 0

\* Every coin on the chain is in the books, unsure, or about to be recorded.
ChainAccounted ==
    \A m \in Miners : /\ chain[m] = payment[m] + unsure[m] + InFlight(m)
                      /\ unsure[m] >= 0

PayInv ==
    /\ PayoutsTypeOK
    /\ AccountBalanced
    /\ QuoteStillOwed
    /\ UnpaidNeverNegative
    /\ QuotesPayable
    /\ ChainAccounted

-----------------------------------------------------------------------------
(* Lemmas about the steps' parts *)

\* The batch's quotes are added to a counter miner by miner.
LEMMA QuotedType ==
    ASSUME PayoutsTypeOK
    PROVE  /\ Quoted \in [Miners -> Int]
           /\ \A f \in [Miners -> Int] : AddQuoted(f) \in [Miners -> Int]
BY DEF PayoutsTypeOK, LedgerTypeOK, Quoted, AddQuoted

\* Nothing of the round is left after it, so its end keeps what concerns the
\* round.
LEMMA EndRoundInv ==
    ASSUME PayInv, EndRound
    PROVE  /\ pc' = "idle" /\ site' = "loop" /\ threshold' \in Thresholds
           /\ todo' = {} /\ batch' = {} /\ toRead' = {}
           /\ owed' \in [Miners -> Int]
BY DEF PayInv, PayoutsTypeOK, EndRound, ZeroForAll

\* PayChunk returns to one of two places, in neither of which a payment is in
\* flight, and never with more in the batch than it was given.
LEMMA PayChunkReturnsInv ==
    ASSUME PayInv, pc \in {"pay", "record"},
           NEW b \in SUBSET batch, PayChunkReturns(b)
    PROVE  /\ pc' \in {"idle", "loop"}
           /\ site' = "loop"
           /\ threshold' = threshold
           /\ pc' = "idle" => todo' = {} /\ toRead' = {} /\ batch' = {}
           /\ pc' = "loop" => owed' = owed
           /\ toRead' \in SUBSET Miners
           /\ todo' \subseteq todo /\ batch' \subseteq b
           /\ owed' \in [Miners -> Int]
BY DEF PayInv, PayoutsTypeOK, PayChunkReturns, EndRound, ZeroForAll

-----------------------------------------------------------------------------
(* The invariant is inductive: one lemma per action *)

LEMMA InitInv == PayoutsInit => PayInv
BY BoundsAssumption
   DEF PayoutsInit, LedgerInit, ZeroForAll, PayInv, PayoutsTypeOK, LedgerTypeOK,
       AccountBalanced, QuoteStillOwed, UnpaidNeverNegative, QuotesPayable,
       ChainAccounted, InFlight

LEMMA WinInv == ASSUME PayInv, NEW a \in 1..MaxReward, Win(a) PROVE PayInv'
BY BoundsAssumption
   DEF Win, SetWinReward, roundVars, PayInv, PayoutsTypeOK, LedgerTypeOK,
       AccountBalanced, QuoteStillOwed, UnpaidNeverNegative, QuotesPayable, Sendable,
       ChainAccounted, InFlight, Quoted

LEMMA CreditInv ==
    ASSUME PayInv, NEW m \in Miners, NEW a \in 0..MaxReward, Credit(m, a)
    PROVE  PayInv'
BY BoundsAssumption
   DEF Credit, SetMinerReward, roundVars, PayInv, PayoutsTypeOK, LedgerTypeOK,
       AccountBalanced, QuoteStillOwed, UnpaidNeverNegative, QuotesPayable, Sendable,
       ChainAccounted, InFlight, Quoted

LEMMA TickInv == ASSUME PayInv, Tick PROVE PayInv'
BY DEF Tick, ledgerVars, PayInv, PayoutsTypeOK, LedgerTypeOK,
       AccountBalanced, QuoteStillOwed, UnpaidNeverNegative, QuotesPayable, Sendable,
       ChainAccounted, InFlight, Quoted

LEMMA ReadUnpaidInv == ASSUME PayInv, NEW m \in Miners, ReadUnpaid(m) PROVE PayInv'
BY DEF ReadUnpaid, ledgerVars, PayInv, PayoutsTypeOK, LedgerTypeOK,
       AccountBalanced, QuoteStillOwed, UnpaidNeverNegative, QuotesPayable, Sendable,
       ChainAccounted, InFlight, Quoted

LEMMA ReadFailsInv == ASSUME PayInv, NEW m \in Miners, ReadFails(m) PROVE PayInv'
BY BoundsAssumption
   DEF ReadFails, Fault, ledgerVars, PayInv, PayoutsTypeOK, LedgerTypeOK,
       AccountBalanced, QuoteStillOwed, UnpaidNeverNegative, QuotesPayable, Sendable,
       ChainAccounted, InFlight, Quoted

LEMMA ScanFailsInv == ASSUME PayInv, ScanFails PROVE PayInv'
BY BoundsAssumption, EndRoundInv
   DEF ScanFails, Fault, ledgerVars, PayInv, PayoutsTypeOK, LedgerTypeOK,
       AccountBalanced, QuoteStillOwed, UnpaidNeverNegative, QuotesPayable, Sendable,
       ChainAccounted, InFlight, Quoted

LEMMA ReadDoneInv == ASSUME PayInv, ReadDone PROVE PayInv'
BY DEF ReadDone, ledgerVars, PayInv, PayoutsTypeOK, LedgerTypeOK,
       AccountBalanced, QuoteStillOwed, UnpaidNeverNegative, QuotesPayable, Sendable,
       ChainAccounted, InFlight, Quoted

LEMMA TakeMinerInv == ASSUME PayInv, NEW m \in Miners, TakeMiner(m) PROVE PayInv'
BY DEF TakeMiner, ledgerVars, PayInv, PayoutsTypeOK, LedgerTypeOK,
       AccountBalanced, QuoteStillOwed, UnpaidNeverNegative, QuotesPayable, Sendable,
       ChainAccounted, InFlight, Quoted

LEMMA LoopEndsInv == ASSUME PayInv, LoopEnds PROVE PayInv'
BY EndRoundInv
   DEF LoopEnds, ledgerVars, PayInv, PayoutsTypeOK, LedgerTypeOK,
       AccountBalanced, QuoteStillOwed, UnpaidNeverNegative, QuotesPayable, Sendable,
       ChainAccounted, InFlight, Quoted

LEMMA TransferImpossibleInv == ASSUME PayInv, TransferImpossible PROVE PayInv'
BY PayChunkReturnsInv
   DEF TransferImpossible, ledgerVars, PayInv, PayoutsTypeOK, LedgerTypeOK,
       AccountBalanced, QuoteStillOwed, UnpaidNeverNegative, QuotesPayable, Sendable,
       ChainAccounted, InFlight, Quoted

LEMMA TransferAcceptedInv == ASSUME PayInv, TransferAccepted PROVE PayInv'
BY QuotedType
   DEF TransferAccepted, AddQuoted, ledgerVars, PayInv, PayoutsTypeOK, LedgerTypeOK,
       AccountBalanced, QuoteStillOwed, UnpaidNeverNegative, QuotesPayable, Sendable,
       ChainAccounted, InFlight, Quoted

LEMMA TransferRefusedInv == ASSUME PayInv, TransferRefused PROVE PayInv'
BY BoundsAssumption, PayChunkReturnsInv
   DEF TransferRefused, Fault, ledgerVars, PayInv, PayoutsTypeOK, LedgerTypeOK,
       AccountBalanced, QuoteStillOwed, UnpaidNeverNegative, QuotesPayable, Sendable,
       ChainAccounted, InFlight, Quoted

LEMMA TransferHangsInv == ASSUME PayInv, TransferHangs PROVE PayInv'
BY BoundsAssumption
   DEF TransferHangs, Fault, ledgerVars, PayInv, PayoutsTypeOK, LedgerTypeOK,
       AccountBalanced, QuoteStillOwed, UnpaidNeverNegative, QuotesPayable, Sendable,
       ChainAccounted, InFlight, Quoted

LEMMA TransferUnansweredInv == ASSUME PayInv, TransferUnanswered PROVE PayInv'
BY BoundsAssumption, PayChunkReturnsInv
   DEF TransferUnanswered, Fault, AddQuoted, ledgerVars, PayInv, PayoutsTypeOK, LedgerTypeOK,
       AccountBalanced, QuoteStillOwed, UnpaidNeverNegative, QuotesPayable, Sendable,
       ChainAccounted, InFlight, Quoted

\* The step all the rest is for: the debit is no more than what is owed,
\* because the quote was still owed, and a recorded miner is in nothing the
\* round still has to pay, because the batch is emptied.
LEMMA RecordInv == ASSUME PayInv, Record PROVE PayInv'
<1>1. /\ payment' = AddQuoted(payment)
      /\ unpaid' = [m \in Miners |-> unpaid[m] - Quoted[m]]
      /\ reward' = reward
  BY DEF Record, SetChunkPayment, AddQuoted, Quoted, PayInv, PayoutsTypeOK
<1>2. /\ Quoted \in [Miners -> Int]
      /\ \A m \in Miners : Quoted[m] <= unpaid[m]
  BY QuotedType DEF PayInv, PayoutsTypeOK, QuoteStillOwed, UnpaidNeverNegative, Quoted
<1>3. /\ pc' \in {"idle", "loop"} /\ site' = "loop" /\ threshold' = threshold
      /\ batch' = {} /\ todo' \subseteq todo /\ toRead' \in SUBSET Miners
      /\ pc' = "idle" => todo' = {} /\ toRead' = {}
      /\ pc' = "loop" => owed' = owed
      /\ owed' \in [Miners -> Int]
  BY PayChunkReturnsInv DEF Record
<1>4. PayoutsTypeOK'
  BY <1>1, <1>2, <1>3 DEF Record, AddQuoted, PayInv, PayoutsTypeOK, LedgerTypeOK
<1>5. AccountBalanced' /\ UnpaidNeverNegative'
  BY <1>1, <1>2
     DEF AddQuoted, PayInv, PayoutsTypeOK, LedgerTypeOK, AccountBalanced, UnpaidNeverNegative
<1>6. QuoteStillOwed'
  <2>1. \A m \in todo : Quoted[m] = 0
    BY DEF PayInv, PayoutsTypeOK, QuotesPayable, Quoted
  <2>2. \A m \in todo : unpaid'[m] = unpaid[m]
    BY <1>1, <2>1 DEF PayInv, PayoutsTypeOK, LedgerTypeOK
  <2> QED
    BY <1>3, <2>2 DEF PayInv, PayoutsTypeOK, QuoteStillOwed
<1>7. QuotesPayable'
  BY <1>3 DEF PayInv, QuotesPayable
<1>8. ChainAccounted'
  BY <1>1, <1>2, <1>3
     DEF Record, AddQuoted, InFlight, PayInv, PayoutsTypeOK, LedgerTypeOK, ChainAccounted
<1> QED
  BY <1>4, <1>5, <1>6, <1>7, <1>8 DEF PayInv

LEMMA RecordFailsInv == ASSUME PayInv, RecordFails PROVE PayInv'
BY BoundsAssumption, PayChunkReturnsInv
   DEF RecordFails, Fault, AddQuoted, ledgerVars, PayInv, PayoutsTypeOK, LedgerTypeOK,
       AccountBalanced, QuoteStillOwed, UnpaidNeverNegative, QuotesPayable, Sendable,
       ChainAccounted, InFlight, Quoted

LEMMA CrashInv == ASSUME PayInv, Crash PROVE PayInv'
BY BoundsAssumption, EndRoundInv
   DEF Crash, Fault, AddQuoted, ledgerVars, PayInv, PayoutsTypeOK, LedgerTypeOK,
       AccountBalanced, QuoteStillOwed, UnpaidNeverNegative, QuotesPayable, Sendable,
       ChainAccounted, InFlight, Quoted

LEMMA StutterInv == ASSUME PayInv, UNCHANGED payVars PROVE PayInv'
BY DEF payVars, ledgerVars, roundVars, PayInv, PayoutsTypeOK, LedgerTypeOK,
       AccountBalanced, QuoteStillOwed, UnpaidNeverNegative, QuotesPayable, Sendable,
       ChainAccounted, InFlight, Quoted

LEMMA NextInv == ASSUME PayInv, [PayoutsNext]_payVars PROVE PayInv'
<1>1. ASSUME PaymentStep PROVE PayInv'
  BY <1>1, TickInv, ReadUnpaidInv, ReadFailsInv, ScanFailsInv, ReadDoneInv, TakeMinerInv,
     LoopEndsInv, TransferImpossibleInv, TransferAcceptedInv, TransferRefusedInv,
     TransferUnansweredInv, TransferHangsInv, RecordInv, RecordFailsInv
     DEF PaymentStep
<1> QED
  BY <1>1, WinInv, CreditInv, CrashInv, StutterInv DEF PayoutsNext

-----------------------------------------------------------------------------
(* The pool's account: what LedgerBalanced says of all miners together *)

PoolBooks ==
    /\ pool \in [rewards : Int, unpaid : Int, payment : Int]
    /\ pool.unpaid = pool.rewards - pool.payment
    /\ pool.payment = Total(payment)
    /\ pool.rewards = Total(reward) + undivided

\* The pool's account, counter by counter.
LEMMA PoolCounters ==
    ASSUME PoolBooks
    PROVE  /\ pool = [rewards |-> pool.rewards, unpaid |-> pool.unpaid, payment |-> pool.payment]
           /\ pool.rewards \in Int /\ pool.unpaid \in Int /\ pool.payment \in Int
BY DEF PoolBooks

LEMMA PoolBooksInit == PayoutsInit => PoolBooks
<1> SUFFICES ASSUME PayoutsInit PROVE PoolBooks
  OBVIOUS
<1>1. ZeroForAll \in [Miners -> Int] /\ \A m \in Miners : ZeroForAll[m] = 0
  BY DEF ZeroForAll
<1>2. Total(ZeroForAll) = 0
  BY <1>1, TotalZero
<1> QED
  BY <1>2 DEF PayoutsInit, LedgerInit, PoolBooks

\* A reward goes to the pool and to what is not yet divided.
LEMMA WinBooks == ASSUME PayInv, PoolBooks, NEW a \in 1..MaxReward, Win(a) PROVE PoolBooks'
<1>1. a \in Int /\ undivided \in Int /\ Total(reward) \in Int
  BY TotalType, BoundsAssumption DEF PayInv, PayoutsTypeOK, LedgerTypeOK
<1>2. /\ reward' = reward /\ payment' = payment
      /\ undivided' = undivided + a
      /\ pool' = [pool EXCEPT !.rewards = @ + a, !.unpaid = @ + a]
  BY DEF Win, SetWinReward
<1>3. pool' = [rewards |-> pool.rewards + a, unpaid |-> pool.unpaid + a, payment |-> pool.payment]
  BY <1>2, PoolCounters
<1>4. /\ pool'.rewards = pool.rewards + a /\ pool'.unpaid = pool.unpaid + a
      /\ pool'.payment = pool.payment
      /\ pool' \in [rewards : Int, unpaid : Int, payment : Int]
  BY <1>1, <1>3, PoolCounters
<1> QED
  BY <1>1, <1>2, <1>4, PoolCounters DEF PoolBooks

\* A credit moves an amount from what is not yet divided to one miner.
LEMMA CreditBooks ==
    ASSUME PayInv, PoolBooks, NEW m \in Miners, NEW a \in 0..MaxReward, Credit(m, a)
    PROVE  PoolBooks'
<1>1. a \in Int /\ undivided \in Int /\ Total(reward) \in Int
  BY TotalType, BoundsAssumption DEF PayInv, PayoutsTypeOK, LedgerTypeOK
<1>2. /\ pool' = pool /\ payment' = payment
      /\ undivided' = undivided - a
      /\ reward' = [reward EXCEPT ![m] = @ + a]
  BY DEF Credit, SetMinerReward
<1>3. Total(reward') = Total(reward) + a
  BY <1>1, <1>2, TotalAt DEF PayInv, PayoutsTypeOK, LedgerTypeOK
<1> QED
  BY <1>1, <1>2, <1>3 DEF PoolBooks

\* The pool is debited by the sum of what the miners are.
LEMMA RecordBooks == ASSUME PayInv, PoolBooks, Record PROVE PoolBooks'
<1> DEFINE total == Total(Quoted)
<1>1. /\ Quoted \in [Miners -> Int] /\ payment \in [Miners -> Int]
      /\ AddQuoted(payment) \in [Miners -> Int]
  BY QuotedType DEF PayInv, PayoutsTypeOK, LedgerTypeOK
<1>2. /\ reward' = reward /\ undivided' = undivided
      /\ payment' = AddQuoted(payment)
      /\ pool' = [pool EXCEPT !.payment = @ + total, !.unpaid = @ - total]
  BY DEF Record, SetChunkPayment, AddQuoted, Quoted
<1>3. \A m \in Miners : AddQuoted(payment)[m] = payment[m] + Quoted[m]
  BY DEF AddQuoted
<1>4. total \in Int /\ Total(payment') = Total(payment) + total
  BY <1>1, <1>2, <1>3, TotalAdd, TotalType
<1> HIDE DEF total
<1>5. pool' = [rewards |-> pool.rewards, unpaid |-> pool.unpaid - total,
               payment |-> pool.payment + total]
  BY <1>2, PoolCounters
<1>6. /\ pool'.rewards = pool.rewards /\ pool'.unpaid = pool.unpaid - total
      /\ pool'.payment = pool.payment + total
      /\ pool' \in [rewards : Int, unpaid : Int, payment : Int]
  BY <1>4, <1>5, PoolCounters
<1> QED
  BY <1>2, <1>4, <1>6, PoolCounters DEF PoolBooks

LEMMA PoolBooksNext ==
    ASSUME PayInv, PoolBooks, [PayoutsNext]_payVars PROVE PoolBooks'
<1>1. CASE \/ Tick \/ ScanFails \/ ReadDone \/ LoopEnds \/ Crash
           \/ \E m \in Miners : ReadUnpaid(m) \/ ReadFails(m) \/ TakeMiner(m)
           \/ TransferImpossible \/ TransferAccepted \/ TransferRefused
           \/ TransferUnanswered \/ TransferHangs \/ RecordFails
           \/ UNCHANGED payVars
  <2>1. UNCHANGED <<reward, payment, pool, undivided>>
    BY <1>1
       DEF Tick, ScanFails, ReadDone, LoopEnds, Crash, ReadUnpaid, ReadFails, TakeMiner,
           TransferImpossible, TransferAccepted, TransferRefused, TransferUnanswered,
           TransferHangs, RecordFails, ledgerVars, payVars
  <2> QED
    BY <2>1 DEF PoolBooks
<1> QED
  BY <1>1, WinBooks, CreditBooks, RecordBooks DEF PayoutsNext, PaymentStep

-----------------------------------------------------------------------------
(* Theorems *)

\* The invariant the other theorems rest on: what the round holds is payable,
\* and every coin on the chain is accounted for (batchPayMiners, PayChunk).
THEOREM PayoutsInvariant == PayoutsSpec => []PayInv
<1>1. PayoutsInit => PayInv
  BY InitInv
<1>2. PayInv /\ [PayoutsNext]_payVars => PayInv'
  BY NextInv
<1> QED
  BY <1>1, <1>2, PTL DEF PayoutsSpec

\* Type correctness of the payment task's state.
THEOREM PayoutsTypeCorrect == PayoutsSpec => []PayoutsTypeOK
<1>1. PayInv => PayoutsTypeOK
  BY DEF PayInv
<1> QED
  BY <1>1, PayoutsInvariant, PTL

\* SetChunkPayment never debits an account below zero, for any number of
\* miners, chunk size and failures.
THEOREM NeverNegative == PayoutsSpec => []UnpaidNeverNegative
<1>1. PayInv => UnpaidNeverNegative
  BY DEF PayInv
<1> QED
  BY <1>1, PayoutsInvariant, PTL

\* The books of kvrocks.go add up, miner by miner and for the pool: the three
\* transactions keep the pool's account the sum of the miners' and of what
\* is won and not yet divided, for any number of miners.
THEOREM BooksBalance == PayoutsSpec => []LedgerBalanced
<1>1. PayoutsInit => PoolBooks
  BY PoolBooksInit
<1>2. PayInv /\ PoolBooks /\ [PayoutsNext]_payVars => PoolBooks'
  BY PoolBooksNext
<1>3. PayInv /\ PoolBooks => LedgerBalanced
  BY DEF PayInv, AccountBalanced, PoolBooks, LedgerBalanced
<1> QED
  BY <1>1, <1>2, <1>3, PayoutsInvariant, PTL DEF PayoutsSpec

\* What GetMinersToPay read is still owed whenever the round uses it.
THEOREM QuotesStayOwed == PayoutsSpec => []QuoteStillOwed
<1>1. PayInv => QuoteStillOwed
  BY DEF PayInv
<1> QED
  BY <1>1, PayoutsInvariant, PTL

\* The books record only payments that are on the chain.
THEOREM BooksBehindChain == PayoutsSpec => []LedgerNeverAhead
<1>1. ASSUME PayInv PROVE LedgerNeverAhead
  <2>1. \A m \in Miners : InFlight(m) \in Int /\ payment[m] \in Int /\ unsure[m] \in Int
    BY <1>1, QuotedType DEF PayInv, PayoutsTypeOK, LedgerTypeOK, InFlight
  <2> QED
    BY <1>1, <2>1 DEF PayInv, ChainAccounted, LedgerNeverAhead, InFlight
<1> QED
  BY <1>1, PayoutsInvariant, PTL

\* Without a transfer of unknown or unrecorded outcome, no miner is ever paid
\* more than it earned: neither the retry of a failed chunk nor the next
\* round pays twice.
THEOREM NoOverpayment == PayoutsSpec => []NoOverpaymentUnlessUnsure
<1>1. ASSUME PayInv PROVE NoOverpaymentUnlessUnsure
  <2>1. \A m \in Miners : InFlight(m) \in Int /\ InFlight(m) <= unpaid[m]
    BY <1>1, QuotedType
       DEF PayInv, PayoutsTypeOK, LedgerTypeOK, InFlight, Quoted, QuoteStillOwed,
           UnpaidNeverNegative
  <2> QED
    BY <1>1, <2>1
       DEF PayInv, PayoutsTypeOK, LedgerTypeOK, ChainAccounted, AccountBalanced,
           NoOverpaymentUnlessUnsure
<1> QED
  BY <1>1, PayoutsInvariant, PTL

\* Only batches of quotes are sent, and every quote is above the threshold the
\* round started with.
THEOREM TransfersAboveThreshold == PayoutsSpec => PaysAboveThreshold
<1>1. ASSUME PayInv, [PayoutsNext]_payVars, NEW m \in Miners, chain'[m] # chain[m]
      PROVE  chain'[m] - chain[m] > threshold /\ chain'[m] > chain[m]
  <2>1. chain' = AddQuoted(chain)
    BY <1>1
       DEF PayoutsNext, PaymentStep, payVars, Win, Credit, Crash, Tick, ReadUnpaid, ReadFails,
           ScanFails, ReadDone, TakeMiner, LoopEnds, TransferImpossible, TransferAccepted,
           TransferRefused, TransferUnanswered, TransferHangs, Record, RecordFails
  <2>2. m \in batch /\ chain'[m] = chain[m] + owed[m]
    BY <1>1, <2>1 DEF AddQuoted, Quoted, PayInv, PayoutsTypeOK
  <2> QED
    BY <1>1, <2>2, ThresholdsAssumption DEF PayInv, PayoutsTypeOK, QuotesPayable
<1>2. PayInv /\ [PayoutsNext]_payVars => [ChainGrowsAboveThreshold]_payVars
  BY <1>1 DEF ChainGrowsAboveThreshold
<1> QED
  BY <1>2, PayoutsInvariant, PTL DEF PayoutsSpec, PaysAboveThreshold

\* The payment task implements PaymentPromise: coins leave in blocks of at most
\* ChunkSize outputs, and a debt is written off only against coins sent and
\* never beyond what was earned.
THEOREM PromiseKept == PayoutsSpec => KeepsPromise
<1>1. PayoutsInit => Promise!PromiseInit
  BY DEF PayoutsInit, LedgerInit, ZeroForAll, Promise!PromiseInit
<1>2. ASSUME PayInv, [PayoutsNext]_payVars
      PROVE  [Promise!PromiseNext]_<<reward, chain, payment>>
  <2> USE <1>2
  <2>1. ASSUME NEW m \in Miners, NEW a \in 0..MaxReward, Credit(m, a)
        PROVE  Promise!Earn
    BY <2>1, BoundsAssumption
       DEF Credit, SetMinerReward, PayInv, PayoutsTypeOK, LedgerTypeOK, Promise!Earn
  <2>2. ASSUME NEW f \in [Miners -> Int], pc \in {"pay", "record"}, Sendable
        PROVE  Promise!PaysOneBlock(f, AddQuoted(f))
    <3>1. Promise!Cardinality(batch) = Cardinality(batch)
      BY Zenon DEF Cardinality, Promise!Cardinality
    <3>2. /\ \A m \in Miners \ batch : AddQuoted(f)[m] = f[m]
          /\ \A m \in batch : AddQuoted(f)[m] > f[m]
      BY <2>2 DEF PayInv, PayoutsTypeOK, QuotesPayable, AddQuoted, Quoted
    <3>3. batch \in SUBSET Miners /\ Cardinality(batch) <= ChunkSize
      BY <2>2 DEF PayInv, PayoutsTypeOK, Sendable
    <3> QED
      BY <3>1, <3>2, <3>3 DEF Promise!PaysOneBlock
  <2>3. ASSUME TransferAccepted \/ TransferUnanswered PROVE Promise!Send
    BY <2>2, <2>3
       DEF TransferAccepted, TransferUnanswered, ledgerVars, PayInv, PayoutsTypeOK,
           Promise!Send
  <2>4. ASSUME Record PROVE Promise!Settle
    <3>1. payment' = AddQuoted(payment) /\ UNCHANGED <<reward, chain>>
      BY <2>4 DEF Record, SetChunkPayment, AddQuoted, Quoted, PayInv, PayoutsTypeOK
    <3>2. Promise!PaysOneBlock(payment, payment')
      BY <2>2, <2>4, <3>1 DEF Record, PayInv, PayoutsTypeOK, LedgerTypeOK, QuotesPayable
    <3>3. \A m \in Miners : payment'[m] <= reward[m] /\ payment'[m] <= chain[m]
      BY <2>4, <3>1, QuotedType
         DEF Record, AddQuoted, Quoted, InFlight, PayInv, PayoutsTypeOK, LedgerTypeOK,
             AccountBalanced, QuoteStillOwed, UnpaidNeverNegative, ChainAccounted
    <3> QED
      BY <3>1, <3>2, <3>3 DEF Promise!Settle
  <2>5. CASE \/ \E a \in 1..MaxReward : Win(a)
             \/ Tick \/ ScanFails \/ ReadDone \/ LoopEnds \/ Crash
             \/ \E m \in Miners : ReadUnpaid(m) \/ ReadFails(m) \/ TakeMiner(m)
             \/ TransferImpossible \/ TransferRefused \/ TransferHangs \/ RecordFails
             \/ UNCHANGED payVars
    BY <2>5
       DEF Win, SetWinReward, Tick, ScanFails, ReadDone, LoopEnds, Crash, ReadUnpaid,
           ReadFails, TakeMiner, TransferImpossible, TransferRefused, TransferHangs,
           RecordFails, ledgerVars, payVars
  <2> QED
    BY <2>1, <2>3, <2>4, <2>5 DEF PayoutsNext, PaymentStep, Promise!PromiseNext
<1> QED
  BY <1>1, <1>2, PayoutsInvariant, PTL
     DEF PayoutsSpec, KeepsPromise, Promise!PromiseSpec, Promise!promiseVars

=============================================================================
