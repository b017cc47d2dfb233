---------------------------- MODULE RewardsProofs ---------------------------
(***************************************************************************)
(* Theorems about one job: its reward is booked once, a share is sent only *)
(* when it is remembered, the lowest share of miners that have one is kept *)
(* in spite of the races of IsMinShare, the parts of a reward come to more *)
(* than it by no more than shares recorded between GetProportion's reads   *)
(* have in the sum it divides by (a sum read as 0 bounds nothing), and     *)
(* they come to all of it when nothing fails.  All are invariants of       *)
(* RewardsSpec for any connections, miners, hashes and ratios; the sums    *)
(* over the miners are those of LedgerProofs.                              *)
(***************************************************************************)
EXTENDS Settlement, LedgerProofs

Places == {"compare", "store", "trim", "send", "write", "done"}

ShareType ==
    /\ login \in [Conns -> Logins \union {NoOne}] /\ hash \in [Conns -> Nat \ {0}]
    /\ at \in [Conns -> Places]
    /\ submit \subseteq Conns /\ sent \subseteq Conns
    /\ mini \in [Miners -> Nat]
    /\ faults \in Nat
    /\ pool \in [rewards : Nat, unpaid : Int, payment : Int]
    /\ \A c \in Conns : at[c] # "done" \/ c \in submit => login[c] \in Logins

\* A share that was sent is past its transaction, so it is not remembered again
\* after its reward has been booked; and only one remembered is booked.
BookedInv ==
    /\ \A c \in sent : at[c] \notin {"compare", "store"}
    /\ stage = "win" => winner \in submit /\ winner \in sent /\ pool.rewards = 0
    /\ pool.rewards # 0 => winner \in sent /\ winner \notin submit
    /\ WonOnce

Undisturbed == faults = 0 /\ pool.rewards = 0

\* Between its transaction and its sending a share is remembered.
RememberedInv ==
    Undisturbed => \A c \in Conns : at[c] \in {"trim", "send"} \/ c \in sent => c \in submit

\* Every score is one of a remembered share; more than one is left only while
\* someone is about to trim; and unless a miner has remembered another share
\* next to a lowest one, the score of a lowest share is there.
SingleShares == \A c \in Lowest, d \in submit : login[c] = login[d] => c = d

ScoresInv ==
    Undisturbed =>
        /\ \A m \in Members(mini) : \E c \in submit : login[c] = m /\ hash[c] = mini[m]
        /\ (\A m, n \in Members(mini) : m = n) \/ \E d \in Conns : at[d] = "trim"
        /\ submit # {} /\ SingleShares => \E c \in Lowest : mini[login[c]] = hash[c]

RewardsInv == ShareType /\ BookedInv /\ RememberedInv /\ ScoresInv

-----------------------------------------------------------------------------

LEMMA RewardsInitInv == RewardsInit => RewardsInv
<1> SUFFICES ASSUME RewardsInit PROVE RewardsInv
  OBVIOUS
<1>1. ShareType
  <2>1. \A c \in Conns : at[c] # "done" \/ c \in submit => login[c] \in Logins
    BY DEF RewardsInit
  <2>2. hash \in [Conns -> Nat \ {0}]
    BY HashesAssumption DEF RewardsInit
  <2>3. at \in [Conns -> Places]
    BY DEF RewardsInit, Places
  <2>4. mini \in [Miners -> Nat] /\ pool \in [rewards : Nat, unpaid : Int, payment : Int]
    BY DEF RewardsInit, LedgerInit, ZeroForAll
  <2> QED
    BY <2>1, <2>2, <2>3, <2>4 DEF RewardsInit, ShareType
<1>2. submit = {} /\ sent = {} /\ Members(mini) = {} /\ stage = "idle" /\ pool.rewards = 0
  BY DEF RewardsInit, LedgerInit, ZeroForAll, Members
<1>3. \A c \in Conns : at[c] \notin {"trim", "send"}
  BY DEF RewardsInit
<1> QED
  BY <1>1, <1>2, <1>3 DEF RewardsInv, BookedInv, WonOnce, RememberedInv, ScoresInv

\* Steps that leave the shares, the scores and the pool's account alone, and
\* do not begin to book.
LEMMA Elsewhere1 ==
    ASSUME RewardsInv, faults' \in Nat, faults' >= faults,
           UNCHANGED <<login, hash, at, submit, sent, mini, winner, pool>>,
           stage' # "win" \/ stage' = stage
    PROVE  RewardsInv'
<1>1. faults' = 0 => faults = 0
  BY DEF RewardsInv, ShareType
<1>2. ShareType' /\ BookedInv'
  BY DEF RewardsInv, ShareType, BookedInv, WonOnce
<1>3. RememberedInv'
  BY <1>1 DEF RewardsInv, RememberedInv, Undisturbed
<1>4. Lowest' = Lowest /\ SingleShares' = SingleShares /\ Members(mini)' = Members(mini)
  BY DEF Lowest, SingleShares, Members
<1>5. ScoresInv'
  BY <1>1, <1>4 DEF RewardsInv, ScoresInv, Undisturbed
<1> QED
  BY <1>2, <1>3, <1>5 DEF RewardsInv

\* Steps of a connection that leave the transaction's data alone: from one
\* place to another that is not "store" or "trim", with its share sent or not.
LEMMA Onward ==
    ASSUME RewardsInv, NEW c \in Conns, NEW to \in {"store", "write", "done"},
           Goes(c, to), at[c] # "trim", at[c] # "done",
           c \notin sent \/ to # "store",
           faults' \in Nat, faults' >= faults,
           UNCHANGED <<login, hash, submit, mini, winner, pool, stage>>,
           sent' \in {sent, sent \union {c}}, sent' # sent => at[c] = "send" /\ to = "write"
    PROVE  RewardsInv'
<1>1. faults' = 0 => faults = 0
  BY DEF RewardsInv, ShareType
<1>2. \A d \in Conns : at'[d] = IF d = c THEN to ELSE at[d]
  BY DEF Goes, RewardsInv, ShareType
<1>3. at' \in [Conns -> Places]
  BY DEF Goes, RewardsInv, ShareType, Places
<1>4. ShareType'
  BY <1>2, <1>3 DEF RewardsInv, ShareType
<1>5. BookedInv'
  BY <1>2 DEF RewardsInv, BookedInv, WonOnce, ShareType
<1>6. RememberedInv'
  BY <1>1, <1>2 DEF RewardsInv, RememberedInv, Undisturbed, ShareType
<1>7. Lowest' = Lowest /\ SingleShares' = SingleShares /\ Members(mini)' = Members(mini)
  BY DEF Lowest, SingleShares, Members
<1>8. \A d \in Conns : at[d] = "trim" => at'[d] = "trim"
  BY <1>2
<1>9. ScoresInv'
  BY <1>1, <1>7, <1>8 DEF RewardsInv, ScoresInv, Undisturbed
<1> QED
  BY <1>4, <1>5, <1>6, <1>9 DEF RewardsInv

-----------------------------------------------------------------------------
(* processShare *)

LEMMA FaultGrows == ASSUME ShareType, Fault PROVE faults' \in Nat /\ faults' >= faults /\ faults' # 0
BY DEF Fault, ShareType

LEMMA NoFaultStays == ASSUME ShareType, NoFault PROVE faults' \in Nat /\ faults' = faults
BY DEF NoFault, boundVars, ShareType

LEMMA PassByInv ==
    ASSUME RewardsInv, NEW c \in Conns,
           \/ Compare(c) \/ CompareFails(c) \/ Send(c) \/ Write(c) \/ WriteFails(c)
    PROVE  RewardsInv'
<1>1. faults' \in Nat /\ faults' >= faults
  BY FaultGrows, NoFaultStays
     DEF RewardsInv, ShareType, Compare, CompareFails, Send, Write, WriteFails
<1>2. UNCHANGED <<login, hash, submit, mini, winner, pool, stage>>
  BY DEF Compare, CompareFails, Send, Write, WriteFails, Elsewhere, ledgerVars, inputVars
<1>3. CASE Compare(c) \/ CompareFails(c)
  <2>1. c \notin sent /\ sent' = sent /\ at[c] = "compare"
    BY <1>3 DEF Compare, CompareFails, RewardsInv, BookedInv
  <2>2. Goes(c, "store") \/ Goes(c, "write")
    BY <1>3 DEF Compare, CompareFails
  <2> QED
    BY <1>1, <1>2, <2>1, <2>2, Onward
<1>4. CASE Send(c)
  BY <1>1, <1>2, <1>4, Onward DEF Send
<1>5. CASE Write(c) \/ WriteFails(c)
  <2>1. sent' = sent /\ at[c] = "write" /\ Goes(c, "done")
    BY <1>5 DEF Write, WriteFails
  <2> QED
    BY <1>1, <1>2, <2>1, Onward
<1> QED
  BY <1>3, <1>4, <1>5

\* A transaction or a trim that failed counts as a fault.
LEMMA StoreFailsInv ==
    ASSUME RewardsInv, NEW c \in Conns, StoreFails(c) \/ TrimFails(c) PROVE RewardsInv'
<1>1. /\ \/ at[c] = "store" /\ at' = [at EXCEPT ![c] = "trim"]
         \/ at[c] = "trim" /\ at' = [at EXCEPT ![c] = "send"]
      /\ UNCHANGED <<login, hash, submit, sent, mini, winner, pool, stage>>
  BY DEF StoreFails, TrimFails, Goes, Elsewhere, ledgerVars, inputVars
<1>2. faults' \in Nat /\ faults' # 0
  BY FaultGrows DEF StoreFails, TrimFails, RewardsInv
<1>3. ShareType'
  BY <1>1, <1>2 DEF RewardsInv, ShareType, Places
<1>4. BookedInv'
  BY <1>1 DEF RewardsInv, BookedInv, WonOnce, ShareType
<1> QED
  BY <1>2, <1>3, <1>4 DEF RewardsInv, RememberedInv, ScoresInv, Undisturbed

\* The transaction of d.  If d is among the lowest shares now, it is the
\* witness; if not, the lowest ones are those there were, none of the miner
\* of d, whose score alone has changed.
LEMMA StoreInv == ASSUME RewardsInv, NEW d \in Conns, Store(d) PROVE RewardsInv'
<1>1. /\ at[d] = "store" /\ at' = [at EXCEPT ![d] = "trim"]
      /\ submit' = submit \union {d} /\ mini' = [mini EXCEPT ![login[d]] = hash[d]]
      /\ UNCHANGED <<login, hash, sent, winner, pool, stage>>
  BY DEF Store, Goes, Elsewhere, ledgerVars, inputVars
<1>2. faults' = faults /\ faults' \in Nat
  BY NoFaultStays DEF Store, RewardsInv
<1>3. login[d] \in Logins /\ login[d] \in Miners /\ hash[d] \in Nat \ {0}
  BY <1>1, MinersAssumption DEF RewardsInv, ShareType
<1>4. ShareType'
  BY <1>1, <1>2, <1>3 DEF RewardsInv, ShareType, Places
<1>5. \A c \in Conns : at'[c] = IF c = d THEN "trim" ELSE at[c]
  BY <1>1 DEF RewardsInv, ShareType
<1>6. BookedInv'
  BY <1>1, <1>5 DEF RewardsInv, BookedInv, WonOnce, ShareType
<1>7. RememberedInv'
  BY <1>1, <1>2, <1>5 DEF RewardsInv, RememberedInv, Undisturbed
<1>8. \A m \in Miners : mini'[m] = IF m = login[d] THEN hash[d] ELSE mini[m]
  BY <1>1, <1>3 DEF RewardsInv, ShareType
<1>9. ScoresInv'
  <2> SUFFICES ASSUME Undisturbed' PROVE ScoresInv!2'
    BY DEF ScoresInv
  <2>1. Undisturbed
    BY <1>1, <1>2 DEF Undisturbed
  <2>2. ASSUME NEW m \in Members(mini)' PROVE \E c \in submit' : login[c] = m /\ hash[c] = mini'[m]
    <3>1. CASE m = login[d]
      BY <1>1, <1>8, <2>2, <3>1 DEF Members
    <3>2. CASE m # login[d]
      BY <1>1, <1>8, <2>1, <2>2, <3>2 DEF Members, RewardsInv, ScoresInv
    <3> QED
      BY <3>1, <3>2
  <2>3. \E c \in Conns : at'[c] = "trim"
    BY <1>5
  <2>4. ASSUME SingleShares' PROVE \E c \in Lowest' : mini'[login[c]] = hash[c]
    <3>1. CASE d \in Lowest'
      BY <1>3, <1>8, <3>1
    <3>2. CASE d \notin Lowest'
      <4>1. PICK e \in submit : ~(hash[d] <= hash[e])
        BY <1>1, <1>3, <3>2 DEF Lowest
      <4>2. \A c \in Lowest : c \in Lowest'
        <5> TAKE c \in Lowest
        <5>1. c \in submit /\ \A x \in submit : hash[c] <= hash[x]
          BY DEF Lowest
        <5>2. hash[c] \in Nat /\ hash[e] \in Nat /\ hash[d] \in Nat
          BY <5>1 DEF RewardsInv, ShareType
        <5>3. hash[c] <= hash[d]
          BY <4>1, <5>1, <5>2
        <5> QED
          BY <1>1, <5>1, <5>3 DEF Lowest
      <4>3. SingleShares
        BY <1>1, <2>4, <4>2 DEF SingleShares
      <4>4. PICK c \in Lowest : mini[login[c]] = hash[c]
        BY <2>1, <4>1, <4>3 DEF RewardsInv, ScoresInv
      <4>5. login[c] # login[d]
        BY <1>1, <2>4, <3>2, <4>2, <4>4 DEF SingleShares
      <4>6. login[c] \in Miners \/ mini'[login[c]] = mini[login[c]]
        BY <1>1, <4>5
      <4> QED
        BY <1>1, <1>8, <4>2, <4>4, <4>5, <4>6
    <3> QED
      BY <3>1, <3>2
  <2> QED
    BY <1>1, <2>2, <2>3, <2>4
<1> QED
  BY <1>4, <1>6, <1>7, <1>9 DEF RewardsInv

\* The one score that is kept is no higher than any: if that of a lowest share
\* was there, it is one of theirs.
LEMMA TrimInv == ASSUME RewardsInv, NEW d \in Conns, Trim(d) PROVE RewardsInv'
<1>1. /\ at[d] = "trim" /\ at' = [at EXCEPT ![d] = "send"]
      /\ UNCHANGED <<login, hash, submit, sent, winner, pool, stage>>
  BY DEF Trim, Goes, Elsewhere, ledgerVars, inputVars
<1>2. faults' = faults /\ faults' \in Nat
  BY NoFaultStays DEF Trim, RewardsInv
<1>3. \/ Members(mini) = {} /\ mini' = mini
      \/ \E m \in AtRank0(mini) : mini' = [n \in Miners |-> IF n = m THEN mini[n] ELSE 0]
  BY DEF Trim
<1>4. mini' \in [Miners -> Nat] /\ \A n \in Miners : mini'[n] \in {0, mini[n]}
  BY <1>3 DEF RewardsInv, ShareType
<1>5. at' \in [Conns -> Places] /\ \A c \in Conns : at'[c] = IF c = d THEN "send" ELSE at[c]
  BY <1>1 DEF RewardsInv, ShareType, Places
<1>6. ShareType'
  BY <1>1, <1>2, <1>4, <1>5 DEF RewardsInv, ShareType
<1>7. BookedInv'
  BY <1>1, <1>5 DEF RewardsInv, BookedInv, WonOnce, ShareType
<1>8. RememberedInv'
  BY <1>1, <1>2, <1>5 DEF RewardsInv, RememberedInv, Undisturbed
<1>9. Lowest' = Lowest /\ SingleShares' = SingleShares
  BY <1>1 DEF Lowest, SingleShares
<1>10. ASSUME Undisturbed', NEW m \in Members(mini)'
       PROVE  \E c \in submit' : login[c] = m /\ hash[c] = mini'[m]
  BY <1>1, <1>2, <1>4, <1>10 DEF Members, RewardsInv, ScoresInv, Undisturbed
<1>11. \A m, n \in Members(mini)' : m = n
  BY <1>3 DEF Members
<1>12. ASSUME Undisturbed', submit' # {}, SingleShares' PROVE \E c \in Lowest' : mini'[login[c]] = hash[c]
  <2>1. Undisturbed
    BY <1>1, <1>2, <1>12 DEF Undisturbed
  <2>2. PICK c \in Lowest : mini[login[c]] = hash[c]
    BY <1>1, <1>9, <1>12, <2>1 DEF RewardsInv, ScoresInv
  <2>3. CASE mini' = mini
    BY <1>9, <2>2, <2>3
  <2>4. ASSUME NEW m \in AtRank0(mini), mini' = [n \in Miners |-> IF n = m THEN mini[n] ELSE 0]
        PROVE  \E e \in Lowest' : mini'[login[e]] = hash[e]
    <3>1. m \in Members(mini) /\ m \in Miners /\ \A n \in Members(mini) : mini[m] <= mini[n]
      BY DEF AtRank0, Members
    <3>2. PICK e \in submit : login[e] = m /\ hash[e] = mini[m]
      BY <2>1, <3>1 DEF RewardsInv, ScoresInv
    <3>3. c \in submit /\ hash[c] \in Nat \ {0} /\ hash[e] \in Nat /\ \A x \in submit : hash[c] <= hash[x]
      BY <3>2 DEF Lowest, RewardsInv, ShareType
    <3>4. CASE login[c] \in Miners
      <4>1. login[c] \in Members(mini)
        BY <2>2, <3>3, <3>4 DEF Members
      <4>2. hash[e] <= hash[c]
        BY <2>2, <3>1, <3>2, <4>1
      <4>3. hash[e] = hash[c]
        BY <3>2, <3>3, <4>2
      <4>4. e \in Lowest
        BY <3>2, <3>3, <4>3 DEF Lowest
      <4>5. mini'[login[e]] = hash[e]
        BY <2>4, <3>1, <3>2
      <4> QED
        BY <1>9, <4>4, <4>5
    <3>5. login[c] \in Miners
      BY <3>3, MinersAssumption DEF RewardsInv, ShareType
    <3> QED
      BY <3>4, <3>5
  <2> QED
    BY <1>3, <2>3, <2>4
<1>13. ScoresInv'
  BY <1>10, <1>11, <1>12, <1>1 DEF ScoresInv
<1> QED
  BY <1>6, <1>7, <1>8, <1>13 DEF RewardsInv

-----------------------------------------------------------------------------
(* ProcessReward *)

LEMMA DeliverInv ==
    ASSUME RewardsInv, NEW c \in Conns, Deliver(c) \/ LookupFails(c) PROVE RewardsInv'
<1>1. /\ UNCHANGED <<login, hash, at, submit, sent, mini, pool>>
      /\ winner' = c /\ winner \in {NoOne, c} /\ c \in sent /\ stage = "idle"
      /\ (stage' = "win" /\ c \in submit) \/ stage' = "idle"
  BY DEF Deliver, LookupFails, StageTo, Around, ledgerVars, inputVars
<1>2. pool.rewards # 0 => winner = c
  BY <1>1, NoShareAssumption DEF RewardsInv, BookedInv, ShareType
<1>3. faults' \in Nat /\ faults' >= faults
  BY FaultGrows DEF Deliver, LookupFails, RewardsInv, ShareType
<1>4. ShareType'
  BY <1>1, <1>3 DEF RewardsInv, ShareType
<1>5. BookedInv'
  BY <1>1, <1>2 DEF RewardsInv, BookedInv, WonOnce
<1>6. Lowest' = Lowest /\ SingleShares' = SingleShares /\ Members(mini)' = Members(mini)
  BY <1>1 DEF Lowest, SingleShares, Members
<1>7. Undisturbed' => Undisturbed
  BY <1>1, <1>3 DEF Undisturbed, RewardsInv, ShareType
<1> QED
  BY <1>1, <1>4, <1>5, <1>6, <1>7 DEF RewardsInv, RememberedInv, ScoresInv

\* Booking: the submit set is gone with it, and nothing is sent a second time.
\* A reward of nothing is the one that leaves no trace in the pool's account.
LEMMA BookInv ==
    ASSUME RewardsInv, stage = "win", Amount # 0, stage' # "win",
           \/ SetWinReward(Amount) /\ submit' = {} /\ faults' = faults
           \/ SetWinReward(Amount) /\ submit' = {} /\ faults' # 0
           \/ UNCHANGED <<ledgerVars, submit>> /\ faults' # 0,
           faults' \in Nat, UNCHANGED <<login, hash, at, sent, mini, winner>>
    PROVE  RewardsInv'
<1>1. Amount \in Nat
  BY FeesAssumption
<1>2. pool.rewards = 0 /\ winner \in sent
  BY DEF RewardsInv, BookedInv
<1>3. CASE SetWinReward(Amount) /\ submit' = {}
  <2>1. pool'.rewards = Amount /\ pool' \in [rewards : Nat, unpaid : Int, payment : Int]
    <3>1. pool \in [rewards : Nat, unpaid : Int, payment : Int]
      BY DEF RewardsInv, ShareType
    <3>2. pool' = [pool EXCEPT !.rewards = pool.rewards + Amount, !.unpaid = pool.unpaid + Amount]
      BY <1>3 DEF SetWinReward
    <3>3. pool' = [rewards |-> Amount, unpaid |-> pool.unpaid + Amount, payment |-> pool.payment]
      <4>1. pool = [rewards |-> pool.rewards, unpaid |-> pool.unpaid, payment |-> pool.payment]
        BY <3>1
      <4>2. pool' = [rewards |-> pool.rewards + Amount, unpaid |-> pool.unpaid + Amount,
                     payment |-> pool.payment]
        BY <3>2, <4>1
      <4> QED
        BY <1>1, <1>2, <4>2
    <3>4. pool.unpaid \in Int /\ pool.payment \in Int /\ pool.unpaid + Amount \in Int
      BY <1>1, <3>1
    <3> QED
      BY <1>1, <3>3, <3>4
  <2>2. ShareType'
    BY <1>3, <2>1 DEF RewardsInv, ShareType
  <2>3. BookedInv'
    BY <1>2, <1>3, <2>1 DEF RewardsInv, BookedInv, WonOnce
  <2> QED
    BY <2>1, <2>2, <2>3 DEF RewardsInv, RememberedInv, ScoresInv, Undisturbed
<1>4. CASE UNCHANGED <<ledgerVars, submit>> /\ faults' # 0
  <2>1. ShareType' /\ BookedInv'
    BY <1>4 DEF RewardsInv, ShareType, BookedInv, WonOnce, ledgerVars
  <2> QED
    BY <1>4, <2>1 DEF RewardsInv, RememberedInv, ScoresInv, Undisturbed
<1> QED
  BY <1>3, <1>4

LEMMA WinInv == ASSUME RewardsInv, Amount # 0, Win \/ WinFails PROVE RewardsInv'
<1>1. CASE Win
  BY <1>1, BookInv, NoFaultStays DEF Win, StageTo, Around, inputVars, RewardsInv
<1>2. CASE WinFails
  BY <1>2, BookInv, FaultGrows DEF WinFails, Return, Around, inputVars, RewardsInv
<1> QED
  BY <1>1, <1>2

\* Dividing reads the scores and credits miners; it changes neither.
LEMMA DividingInv ==
    ASSUME RewardsInv,
           \/ FindFinder \/ CreditFinder \/ FinderFails \/ ReadNames \/ NamesFail
           \/ ReadPool \/ PoolFails \/ ReadKeys \/ KeysFail
           \/ \E m \in Miners : ReadDiff(m) \/ DiffFails(m) \/ Credit(m) \/ CreditFails(m)
    PROVE  RewardsInv'
<1>1. /\ UNCHANGED <<login, hash, at, submit, sent, mini, winner, pool>>
      /\ stage' # "win" \/ stage' = stage
      /\ NoFault \/ Fault
  <2>1. CASE FindFinder \/ CreditFinder \/ FinderFails
    <3>1. GoesOnDividing => stage' # "win"
      BY DEF GoesOnDividing, StageTo, Return
    <3>2. stage' # "win"
      BY <2>1, <3>1 DEF FindFinder, CreditFinder, FinderFails
    <3>3. UNCHANGED pool
      BY <2>1 DEF FindFinder, CreditFinder, FinderFails, ledgerVars, SetMinerReward
    <3>4. UNCHANGED <<login, hash, at, submit, sent, mini, winner>> /\ (NoFault \/ Fault)
      BY <2>1 DEF FindFinder, CreditFinder, FinderFails, Around, inputVars
    <3> QED
      BY <3>2, <3>3, <3>4
  <2>2. CASE ReadNames \/ NamesFail \/ ReadPool \/ PoolFails \/ ReadKeys \/ KeysFail
    BY <2>2 DEF ReadNames, NamesFail, ReadPool, PoolFails, PoolRead, ReadKeys, KeysFail, Return,
                Around, inputVars, ledgerVars
  <2>3. ASSUME NEW m \in Miners, ReadDiff(m) \/ DiffFails(m) \/ Credit(m) \/ CreditFails(m)
        PROVE  /\ UNCHANGED <<login, hash, at, submit, sent, mini, winner, pool>>
               /\ stage' # "win" \/ stage' = stage
               /\ NoFault \/ Fault
    BY <2>3 DEF ReadDiff, DiffFails, DiffRead, Credit, CreditFails, CreditedNext, Return, Around,
                inputVars, ledgerVars, SetMinerReward
  <2> QED
    BY <2>1, <2>2, <2>3
<1>2. faults' \in Nat /\ faults' >= faults
  BY <1>1, FaultGrows, NoFaultStays DEF RewardsInv, ShareType
<1> QED
  BY <1>1, <1>2, Elsewhere1

LEMMA CrashInv == ASSUME RewardsInv, Crash PROVE RewardsInv'
<1>1. /\ at' = [c \in Conns |-> IF at[c] = "compare" THEN "compare" ELSE "done"]
      /\ stage' = "idle" /\ UNCHANGED <<pool, login, hash, submit, mini, sent, winner>>
  BY DEF Crash, Return, ledgerVars, inputVars
<1>2. faults' \in Nat /\ faults' # 0
  BY FaultGrows DEF Crash, RewardsInv
<1>3. ShareType'
  BY <1>1, <1>2 DEF RewardsInv, ShareType, Places
<1>4. BookedInv'
  BY <1>1 DEF RewardsInv, BookedInv, WonOnce, ShareType
<1> QED
  BY <1>2, <1>3, <1>4 DEF RewardsInv, RememberedInv, ScoresInv, Undisturbed

-----------------------------------------------------------------------------

LEMMA RewardsNextInv ==
    ASSUME Amount # 0, RewardsInv, [RewardsNext]_rewardsVars PROVE RewardsInv'
<1>1. ASSUME NEW c \in Conns, ProcessShare(c) PROVE RewardsInv'
  BY <1>1, PassByInv, StoreFailsInv, StoreInv, TrimInv DEF ProcessShare
<1>2. CASE ProcessReward
  BY <1>2, DeliverInv, WinInv, DividingInv DEF ProcessReward
<1>3. CASE UNCHANGED rewardsVars
  BY <1>3, Elsewhere1 DEF rewardsVars, ledgerVars, inputVars, shareVars, boundVars, RewardsInv, ShareType
<1> QED
  BY <1>1, <1>2, <1>3, CrashInv DEF RewardsNext

\* The invariant of a job with a reward that is not nothing.
THEOREM RewardsInvariant == ASSUME Amount # 0 PROVE RewardsSpec => []RewardsInv
<1>1. RewardsInit => RewardsInv
  BY RewardsInitInv
<1>2. RewardsInv /\ [RewardsNext]_rewardsVars => RewardsInv'
  BY RewardsNextInv
<1> QED
  BY <1>1, <1>2, PTL DEF RewardsSpec

\* A reward is booked at most once, however often its message arrives, whatever
\* fails and wherever the process stops.
THEOREM BookedOnce == ASSUME Amount # 0 PROVE RewardsSpec => []WonOnce
BY RewardsInvariant, PTL DEF RewardsInv, BookedInv

\* Until its reward is booked, and as long as no call fails, a share is sent to
\* the node only when it is remembered, so that its reward is recognised.
THEOREM SentSharesKnown == ASSUME Amount # 0 PROVE RewardsSpec => []SentIsKnown
<1>1. RewardsInv => SentIsKnown
  BY DEF RewardsInv, ShareType, RememberedInv, Undisturbed, SentIsKnown
<1> QED
  BY <1>1, RewardsInvariant, PTL

\* Connections may interleave in IsMinShare as they like: when all are through,
\* the one score left is that of a lowest share remembered, unless a miner of
\* a lowest share has remembered another one.
THEOREM LowestShareKept == ASSUME Amount # 0 PROVE RewardsSpec => []LowestOfSingleShareKept
<1>1. RewardsInv => LowestOfSingleShareKept
  <2> SUFFICES ASSUME RewardsInv, SingleShares, Settled
               PROVE  \E c \in Lowest : Members(mini) = {login[c]}
    BY DEF LowestOfSingleShareKept, LowestKept, SingleShares
  <2>1. Undisturbed /\ submit # {} /\ ~\E d \in Conns : at[d] = "trim"
    BY DEF Settled, Undisturbed
  <2>2. PICK c \in Lowest : mini[login[c]] = hash[c]
    BY <2>1 DEF RewardsInv, ScoresInv
  <2>3. c \in submit /\ login[c] \in Miners /\ hash[c] # 0
    BY MinersAssumption DEF Lowest, RewardsInv, ShareType
  <2>4. login[c] \in Members(mini)
    BY <2>2, <2>3 DEF Members
  <2>5. \A m, n \in Members(mini) : m = n
    BY <2>1 DEF RewardsInv, ScoresInv
  <2> QED
    BY <2>4, <2>5
<1> QED
  BY <1>1, RewardsInvariant, PTL

-----------------------------------------------------------------------------
(* What is divided: the types, and what every stage has read *)

StageInv ==
    /\ Members(mini) \subseteq Logins
    /\ stage # "idle" => winner \in sent
    /\ stage \notin {"idle", "win"} => pool.rewards = Amount
    /\ lateShares # 0 => late
    /\ late \in BOOLEAN
    /\ stage = "names" => mode = "solo" /\ DirectFee > 0
    /\ stage \in {"pool", "keys", "diffs"} => mode = "equal"
    /\ stage = "creditFinder" => finder \in Logins
    /\ stage = "diffs" => heads # 0

TypeInv == RewardsTypeOK /\ StageInv

LEMMA TypeInit == RewardsInit => TypeInv
<1> SUFFICES ASSUME RewardsInit PROVE TypeInv
  OBVIOUS
<1>1. ZeroForAll \in [Miners -> Nat] /\ ZeroForAll \in [Miners -> Int]
      /\ \A m \in Miners : ZeroForAll[m] = 0
  BY DEF ZeroForAll
<1>2. Total(ZeroForAll) = 0
  BY <1>1, TotalZero
<1>3. LedgerTypeOK
  BY <1>1 DEF RewardsInit, LedgerInit, LedgerTypeOK
<1>4. mini \in [Miners -> Hashes \union {0}] /\ Members(mini) = {}
  BY DEF RewardsInit, ZeroForAll, Members
<1>5. at \in [Conns -> {"compare", "store", "trim", "send", "write", "done"}]
  BY DEF RewardsInit
<1>6. RewardsTypeOK
  BY <1>1, <1>2, <1>3, <1>4, <1>5 DEF RewardsInit, RewardsTypeOK
<1> QED
  BY <1>4, <1>6 DEF RewardsInit, TypeInv, StageInv

LEMMA CompareTypes ==
    ASSUME RewardsInv, TypeInv, NEW c \in Conns,
           \/ Compare(c) \/ CompareFails(c) \/ StoreFails(c) \/ TrimFails(c)
           \/ Send(c) \/ WriteFails(c)
    PROVE  TypeInv'
<1>1. UNCHANGED <<ledgerVars, inputVars, stage, winner, readVars, submit, mini, poolDiff, jobDiff,
                  lateShares, late>>
  BY DEF Compare, CompareFails, StoreFails, TrimFails, Send, WriteFails, Elsewhere
<1>2. at' \in [Conns -> {"compare", "store", "trim", "send", "write", "done"}]
  BY DEF Compare, CompareFails, StoreFails, TrimFails, Send, WriteFails, Goes, TypeInv, RewardsTypeOK
<1>3. sent' \in SUBSET Conns /\ sent \subseteq sent'
  BY DEF Compare, CompareFails, StoreFails, TrimFails, Send, WriteFails, TypeInv, RewardsTypeOK
<1>4. LedgerTypeOK'
  BY <1>1 DEF TypeInv, RewardsTypeOK, LedgerTypeOK, ledgerVars
<1>5. RewardsTypeOK'
  BY <1>1, <1>2, <1>3, <1>4 DEF TypeInv, RewardsTypeOK, inputVars, readVars
<1>6. Members(mini)' = Members(mini)
  BY <1>1 DEF Members
<1>7. StageInv'
  BY <1>1, <1>3, <1>6 DEF TypeInv, StageInv, ledgerVars, inputVars, readVars
<1> QED
  BY <1>5, <1>7 DEF TypeInv

LEMMA ScoreTypes ==
    ASSUME RewardsInv, TypeInv, NEW c \in Conns, Store(c) \/ Trim(c)
    PROVE  TypeInv'
<1>1. UNCHANGED <<ledgerVars, inputVars, stage, winner, readVars, poolDiff, jobDiff, sent,
                  lateShares, late>>
  BY DEF Store, Trim, Elsewhere
<1>2. /\ at' \in [Conns -> {"compare", "store", "trim", "send", "write", "done"}]
      /\ submit' \in SUBSET Conns
  BY DEF Store, Trim, Goes, TypeInv, RewardsTypeOK
<1>3. mini' \in [Miners -> Hashes \union {0}] /\ Members(mini') \subseteq Logins
  <2>1. CASE Store(c)
    <3>1. login[c] \in Logins /\ hash[c] \in Hashes
      BY <2>1 DEF Store, RewardsInv, ShareType, TypeInv, RewardsTypeOK
    <3>2. \A m \in Miners : mini'[m] = IF m = login[c] THEN hash[c] ELSE mini[m]
      BY <2>1 DEF Store, TypeInv, RewardsTypeOK
    <3>3. mini' \in [Miners -> Hashes \union {0}]
      BY <2>1, <3>1 DEF Store, TypeInv, RewardsTypeOK
    <3> QED
      BY <3>1, <3>2, <3>3 DEF TypeInv, StageInv, Members
  <2>2. CASE Trim(c)
    <3>1. \/ mini' = mini
          \/ \E m \in AtRank0(mini) : mini' = [n \in Miners |-> IF n = m THEN mini[n] ELSE 0]
      BY <2>2 DEF Trim
    <3> QED
      BY <3>1 DEF TypeInv, RewardsTypeOK, StageInv, Members
  <2> QED
    BY <2>1, <2>2
<1>4. LedgerTypeOK'
  BY <1>1 DEF TypeInv, RewardsTypeOK, LedgerTypeOK, ledgerVars
<1>5. RewardsTypeOK'
  BY <1>1, <1>2, <1>3, <1>4 DEF TypeInv, RewardsTypeOK, inputVars, readVars
<1>6. StageInv'
  BY <1>1, <1>3 DEF TypeInv, StageInv, ledgerVars, inputVars, readVars, Members
<1> QED
  BY <1>5, <1>6 DEF TypeInv

\* Both of the job's sums grow by the share's difficulty.
LEMMA WriteTypes == ASSUME RewardsInv, TypeInv, NEW c \in Conns, Write(c) PROVE TypeInv'
<1>1. /\ UNCHANGED <<ledgerVars, inputVars, stage, winner, readVars, submit, mini, sent>>
      /\ poolDiff' = poolDiff + 1
      /\ jobDiff' = [jobDiff EXCEPT ![login[c]] = @ + 1]
      /\ at' = [at EXCEPT ![c] = "done"]
      /\ lateShares' = lateShares + (IF stage \in {"keys", "diffs"} THEN 1 ELSE 0)
      /\ late' = (late \/ winner # NoOne)
      /\ login[c] \in Miners
  BY MinersAssumption DEF Write, Goes, Elsewhere, RewardsInv, ShareType
<1>2. jobDiff' \in [Miners -> Nat] /\ jobDiff \in [Miners -> Int]
  BY <1>1 DEF TypeInv, RewardsTypeOK
<1>3. poolDiff' \in Nat /\ poolDiff' = Total(jobDiff')
  <2>1. PICK m \in Miners, a \in Int : m = login[c] /\ a = 1
    BY <1>1
  <2>2. jobDiff' = [jobDiff EXCEPT ![m] = @ + a]
    BY <1>1, <2>1
  <2>3. Total(jobDiff') = Total(jobDiff) + a
    BY <1>2, <2>2, TotalAt
  <2> QED
    BY <1>1, <2>1, <2>3 DEF TypeInv, RewardsTypeOK
<1>4. LedgerTypeOK'
  BY <1>1 DEF TypeInv, RewardsTypeOK, LedgerTypeOK, ledgerVars
<1>5. at' \in [Conns -> {"compare", "store", "trim", "send", "write", "done"}]
  BY <1>1 DEF TypeInv, RewardsTypeOK
<1>6. RewardsTypeOK'
  BY <1>1, <1>2, <1>3, <1>4, <1>5 DEF TypeInv, RewardsTypeOK, inputVars, readVars
<1>7. lateShares' # 0 => late'
  <2>1. stage \in {"keys", "diffs"} => winner # NoOne
    BY NoShareAssumption DEF TypeInv, StageInv, RewardsTypeOK
  <2>2. stage \notin {"keys", "diffs"} => lateShares' = lateShares
    BY <1>1 DEF TypeInv, RewardsTypeOK
  <2> QED
    BY <1>1, <2>1, <2>2 DEF TypeInv, StageInv
<1>8. Members(mini)' = Members(mini) /\ late' \in BOOLEAN
  BY <1>1 DEF Members
<1>9. StageInv'
  BY <1>1, <1>7, <1>8 DEF TypeInv, StageInv, ledgerVars, inputVars, readVars
<1> QED
  BY <1>6, <1>9 DEF TypeInv

\* The part of the types that dividing works on.
ReadsOK ==
    /\ stage \in {"idle", "win", "finder", "creditFinder", "names", "pool", "keys",
                  "diffs", "credit"}
    /\ winner \in Conns \union {NoOne} /\ finder \in Logins \union {NoOne}
    /\ readPool \in Nat /\ heads \in Nat
    /\ toRead \in SUBSET Miners /\ toCredit \in SUBSET Miners
    /\ parts \in [Miners -> Int] /\ divisor \in Nat
    /\ stage = "diffs" <=> toRead # {}
    /\ toCredit # {} => stage \in {"diffs", "credit"}

StageOK ==
    /\ stage # "idle" => winner \in sent
    /\ stage \notin {"idle", "win"} => pool.rewards = Amount
    /\ stage = "names" => mode = "solo" /\ DirectFee > 0
    /\ stage \in {"pool", "keys", "diffs"} => mode = "equal"
    /\ stage = "creditFinder" => finder \in Logins
    /\ stage = "diffs" => heads # 0

LEMMA AroundTypes ==
    ASSUME TypeInv, Around, LedgerTypeOK', submit' \in SUBSET Conns, ReadsOK', StageOK'
    PROVE  TypeInv'
<1>1. Members(mini)' = Members(mini)
  BY DEF Around, Members
<1>2. RewardsTypeOK'
  BY DEF Around, inputVars, ReadsOK, TypeInv, RewardsTypeOK
<1>3. StageInv'
  BY <1>1 DEF Around, inputVars, StageOK, TypeInv, StageInv
<1> QED
  BY <1>2, <1>3 DEF TypeInv

\* ProcessReward's return leaves nothing behind.
LEMMA ReturnTypes ==
    ASSUME TypeInv, Return, Around, LedgerTypeOK', submit' \in SUBSET Conns, winner' = winner
    PROVE  TypeInv'
<1>1. ReadsOK'
  BY DEF Return, ReadsOK, TypeInv, RewardsTypeOK, ZeroForAll
<1>2. StageOK'
  BY DEF Return, StageOK
<1> QED
  BY <1>1, <1>2, AroundTypes

LEMMA DeliverTypes ==
    ASSUME RewardsInv, TypeInv, NEW c \in Conns, Deliver(c) \/ LookupFails(c) PROVE TypeInv'
<1>1. /\ UNCHANGED <<ledgerVars, submit, readVars>> /\ Around
      /\ winner' = c /\ c \in sent /\ stage = "idle"
      /\ stage' = "win" \/ stage' = "idle"
  BY DEF Deliver, LookupFails, StageTo
<1>2. LedgerTypeOK'
  BY <1>1 DEF ledgerVars, TypeInv, RewardsTypeOK, LedgerTypeOK
<1>3. ReadsOK'
  BY <1>1 DEF readVars, ReadsOK, TypeInv, RewardsTypeOK
<1>4. StageOK'
  BY <1>1 DEF StageOK, Around
<1> QED
  BY <1>1, <1>2, <1>3, <1>4, AroundTypes DEF TypeInv, RewardsTypeOK

LEMMA BookTypes ==
    ASSUME RewardsInv, RewardsInv', TypeInv, Amount # 0, Win \/ WinFails PROVE TypeInv'
<1>1. LedgerTypeOK'
  BY DEF Win, WinFails, SetWinReward, ledgerVars, TypeInv, RewardsTypeOK, LedgerTypeOK
<1>2. submit' \in SUBSET Conns /\ winner' = winner /\ Around /\ stage = "win"
  BY DEF Win, WinFails, TypeInv, RewardsTypeOK
<1>3. CASE Win
  <2>1. ReadsOK'
    BY <1>3 DEF Win, StageTo, readVars, ReadsOK, TypeInv, RewardsTypeOK
  <2>2. pool'.rewards = Amount
    <3>1. /\ pool.rewards = 0 /\ pool \in [rewards : Nat, unpaid : Int, payment : Int]
          /\ Amount \in Nat
      BY <1>2, FeesAssumption DEF RewardsInv, BookedInv, ShareType
    <3>2. pool = [rewards |-> pool.rewards, unpaid |-> pool.unpaid, payment |-> pool.payment]
      BY <3>1
    <3>3. pool' = [rewards |-> pool.rewards + Amount, unpaid |-> pool.unpaid + Amount,
                   payment |-> pool.payment]
      BY <1>3, <3>2 DEF Win, SetWinReward
    <3> QED
      BY <3>1, <3>3
  <2>3. StageOK'
    BY <1>2, <1>3, <2>2 DEF Win, StageTo, StageOK, TypeInv, StageInv, Around
  <2> QED
    BY <1>1, <1>2, <2>1, <2>3, AroundTypes
<1>4. CASE WinFails
  BY <1>1, <1>2, <1>4, ReturnTypes DEF WinFails
<1> QED
  BY <1>3, <1>4

\* What comes after the finder, for whichever mode.
LEMMA GoesOnTypes ==
    ASSUME TypeInv, GoesOnDividing, Around, LedgerTypeOK', submit' = submit, winner' = winner,
           pool' = pool, stage \in {"finder", "creditFinder"}
    PROVE  TypeInv'
<1>1. submit' \in SUBSET Conns
  BY DEF TypeInv, RewardsTypeOK
<1>2. CASE Return
  BY <1>1, <1>2, ReturnTypes
<1>3. CASE \/ mode = "equal" /\ StageTo("pool")
           \/ mode = "solo" /\ DirectFee > 0 /\ StageTo("names")
  <2>1. ReadsOK'
    BY <1>3 DEF StageTo, readVars, ReadsOK, TypeInv, RewardsTypeOK
  <2>2. StageOK'
    BY <1>3 DEF StageTo, StageOK, TypeInv, StageInv, Around, inputVars
  <2> QED
    BY <1>1, <2>1, <2>2, AroundTypes
<1> QED
  BY <1>2, <1>3 DEF GoesOnDividing

LEMMA SetMinerRewardTypes ==
    ASSUME LedgerTypeOK, NEW m \in Miners, NEW a \in Int, SetMinerReward(m, a)
    PROVE  LedgerTypeOK'
BY DEF SetMinerReward, LedgerTypeOK

LEMMA FeeTypes == FinderFee \in Nat /\ Divided \in Nat /\ DirectFee \in Nat
                  /\ (mode = "solo" => FinderFee + DirectFee + PoolFee = Amount)
                  /\ (mode # "solo" => FinderFee + Divided + DirectFee + PoolFee = Amount)
BY FeesAssumption DEF FinderFee, Divided

LEMMA FinderTypes ==
    ASSUME RewardsInv, TypeInv, FindFinder \/ CreditFinder \/ FinderFails PROVE TypeInv'
<1>1. Around /\ submit' = submit /\ winner' = winner /\ stage \in {"finder", "creditFinder"}
  BY DEF FindFinder, CreditFinder, FinderFails
<1>2. LedgerTypeOK' /\ pool' = pool
  <2>1. CASE UNCHANGED ledgerVars
    BY <2>1 DEF ledgerVars, TypeInv, RewardsTypeOK, LedgerTypeOK
  <2>2. CASE CreditFinder
    <3>1. finder \in Miners /\ FinderFee \in Int
      BY <2>2, MinersAssumption, FeeTypes DEF CreditFinder, TypeInv, StageInv
    <3> QED
      BY <2>2, <3>1, SetMinerRewardTypes DEF CreditFinder, SetMinerReward, TypeInv, RewardsTypeOK
  <2> QED
    BY <2>1, <2>2 DEF FindFinder, FinderFails
<1>3. CASE GoesOnDividing
  BY <1>1, <1>2, <1>3, GoesOnTypes
<1>4. CASE /\ finder' \in AtRank0(mini) /\ stage' = "creditFinder" /\ stage = "finder"
           /\ UNCHANGED <<readPool, heads, toRead, parts, toCredit, divisor>>
  <2>1. finder' \in Logins
    BY <1>4 DEF AtRank0, TypeInv, StageInv
  <2>2. ReadsOK'
    BY <1>1, <1>4, <2>1 DEF ReadsOK, TypeInv, RewardsTypeOK
  <2>3. StageOK'
    BY <1>1, <1>2, <1>4, <2>1 DEF StageOK, TypeInv, StageInv, Around
  <2> QED
    BY <1>1, <1>2, <2>2, <2>3, AroundTypes DEF TypeInv, RewardsTypeOK
<1> QED
  BY <1>3, <1>4 DEF FindFinder, CreditFinder, FinderFails

LEMMA MembersCounted == \A z : IsFiniteSet(Members(z)) /\ Cardinality(Members(z)) \in Nat
BY MinersFinite, FS_Subset, FS_CardinalityType DEF Members

LEMMA ReadTypes ==
    ASSUME RewardsInv, TypeInv,
           ReadNames \/ NamesFail \/ ReadPool \/ PoolFails \/ ReadKeys \/ KeysFail
    PROVE  TypeInv'
<1>1. Around /\ UNCHANGED <<ledgerVars, submit, winner>> /\ submit' \in SUBSET Conns
  BY DEF ReadNames, NamesFail, ReadPool, PoolFails, PoolRead, ReadKeys, KeysFail, TypeInv,
         RewardsTypeOK
<1>2. LedgerTypeOK'
  BY <1>1 DEF ledgerVars, TypeInv, RewardsTypeOK, LedgerTypeOK
<1>3. CASE Return
  BY <1>1, <1>2, <1>3, ReturnTypes
<1>4. CASE ~Return
  <2>1. ReadsOK'
    <3>1. CASE ReadNames
      BY <1>1, <1>4, <3>1, FeesAssumption, MinersAssumption
         DEF ReadNames, ReadsOK, TypeInv, RewardsTypeOK
    <3>2. CASE ReadPool \/ PoolFails
      <4>1. readPool' \in Nat
        BY <3>2 DEF ReadPool, PoolFails, PoolRead, TypeInv, RewardsTypeOK
      <4> QED
        BY <1>1, <3>2, <4>1 DEF ReadPool, PoolFails, PoolRead, ReadsOK, TypeInv, RewardsTypeOK
    <3>3. CASE ReadKeys
      <4>1. Members(jobDiff) # {} /\ Members(jobDiff) \in SUBSET Miners
        BY <1>4, <3>3 DEF ReadKeys, Members
      <4> QED
        BY <1>1, <1>4, <3>3, <4>1, MembersCounted DEF ReadKeys, ReadsOK, TypeInv, RewardsTypeOK
    <3> QED
      BY <1>4, <3>1, <3>2, <3>3 DEF NamesFail, KeysFail
  <2>2. StageOK'
    <3>1. ReadKeys => heads' # 0
      <4> SUFFICES ASSUME ReadKeys PROVE heads' # 0
        OBVIOUS
      <4>1. Members(jobDiff) # {} /\ heads' = Cardinality(Members(jobDiff))
        BY <1>4 DEF ReadKeys
      <4> QED
        BY <4>1, MembersCounted, FS_EmptySet
    <3> QED
      BY <1>1, <1>4, <3>1
         DEF ReadNames, NamesFail, ReadPool, PoolFails, PoolRead, ReadKeys, KeysFail, StageOK,
             TypeInv, StageInv, Around, inputVars, ledgerVars
  <2> QED
    BY <1>1, <1>2, <2>1, <2>2, AroundTypes
<1> QED
  BY <1>3, <1>4

LEMMA PartTypes ==
    ASSUME TypeInv, stage = "diffs", NEW d \in Nat, NEW p \in PartOf(d) PROVE p \in Int
<1>1. /\ readPool \in Nat /\ heads \in Nat \ {0}
      /\ Divided \in Nat /\ DirectFee \in Nat
  BY FeeTypes DEF TypeInv, RewardsTypeOK, StageInv
<1>2. CASE readPool = 0
  BY <1>2, HugeAssumption DEF PartOf
<1>3. CASE readPool # 0
  <2>1. \A x, y \in Nat : x * y \in Nat
    OBVIOUS
  <2>2. \A x, y \in Nat \ {0} : x * y # 0
    OBVIOUS
  <2>3. \A n \in Int, k \in Nat \ {0} : n \div k \in Int
    OBVIOUS
  <2>4. heads * readPool \in Nat \ {0}
    BY <1>1, <1>3, <2>1, <2>2
  <2>5. heads * d \in Nat /\ readPool * DirectFee \in Nat
    BY <1>1, <2>1
  <2>6. heads * d * Divided \in Nat
    BY <1>1, <2>1, <2>5
  <2>7. heads * d * Divided + readPool * DirectFee \in Int
    BY <2>5, <2>6
  <2>8. (heads * d * Divided + readPool * DirectFee) \div (heads * readPool) \in Int
    BY <2>3, <2>4, <2>7
  <2> QED
    BY <1>3, <2>8 DEF PartOf
<1> QED
  BY <1>2, <1>3

\* What GetProportion takes for a miner's difficulty.
LEMMA DiffsRead ==
    ASSUME RewardsInv, TypeInv, NEW m \in Miners, ReadDiff(m) \/ DiffFails(m)
    PROVE  \E d \in Nat : /\ d <= jobDiff[m] /\ DiffRead(m, d)
                          /\ (ReadDiff(m) /\ d = jobDiff[m]) \/ faults' # 0
<1>1. jobDiff[m] \in Nat
  BY DEF TypeInv, RewardsTypeOK
<1>2. CASE ReadDiff(m)
  BY <1>1, <1>2 DEF ReadDiff
<1>3. CASE DiffFails(m)
  <2>1. 0 \in Nat /\ 0 <= jobDiff[m] /\ DiffRead(m, 0) /\ Fault
    BY <1>1, <1>3 DEF DiffFails
  <2> QED
    BY <2>1, FaultGrows DEF RewardsInv
<1> QED
  BY <1>2, <1>3

LEMMA DiffTypes ==
    ASSUME RewardsInv, TypeInv, NEW m \in Miners, ReadDiff(m) \/ DiffFails(m) PROVE TypeInv'
<1>0. PICK d \in Nat : DiffRead(m, d)
  BY DiffsRead
<1>1. /\ Around /\ UNCHANGED <<ledgerVars, submit, winner>> /\ submit' \in SUBSET Conns
      /\ UNCHANGED <<finder, readPool, heads, divisor>>
      /\ stage = "diffs" /\ toRead' = toRead \ {m} /\ toCredit' = toCredit \union {m}
      /\ stage' = IF toRead' = {} THEN "credit" ELSE "diffs"
      /\ m \in toRead
  BY <1>0 DEF DiffRead, TypeInv, RewardsTypeOK
<1>2. LedgerTypeOK'
  BY <1>1 DEF ledgerVars, TypeInv, RewardsTypeOK, LedgerTypeOK
<1>3. parts' \in [Miners -> Int]
  <2>1. PICK p \in PartOf(d) : parts' = [parts EXCEPT ![m] = p]
    BY <1>0 DEF DiffRead
  <2>2. p \in Int
    BY <1>1, PartTypes
  <2> QED
    BY <2>1, <2>2 DEF TypeInv, RewardsTypeOK
<1>4. ReadsOK'
  BY <1>1, <1>3 DEF ReadsOK, TypeInv, RewardsTypeOK
<1>5. StageOK'
  BY <1>1 DEF StageOK, TypeInv, StageInv, Around, inputVars, ledgerVars
<1> QED
  BY <1>1, <1>2, <1>4, <1>5, AroundTypes

LEMMA CreditTypes ==
    ASSUME RewardsInv, TypeInv, NEW m \in Miners, Credit(m) \/ CreditFails(m) PROVE TypeInv'
<1>1. /\ Around /\ UNCHANGED <<submit, winner>> /\ submit' \in SUBSET Conns
      /\ stage = "credit" /\ m \in toCredit /\ CreditedNext(m)
  BY DEF Credit, CreditFails, TypeInv, RewardsTypeOK
<1>2. LedgerTypeOK' /\ pool' = pool
  <2>1. CASE Credit(m)
    <3>1. parts[m] \in Int /\ LedgerTypeOK
      BY DEF TypeInv, RewardsTypeOK
    <3> QED
      BY <2>1, <3>1, SetMinerRewardTypes DEF Credit, SetMinerReward
  <2>2. CASE CreditFails(m)
    BY <2>2 DEF CreditFails, ledgerVars, TypeInv, RewardsTypeOK, LedgerTypeOK
  <2> QED
    BY <2>1, <2>2
<1>3. CASE Return
  BY <1>1, <1>2, <1>3, ReturnTypes
<1>4. CASE toCredit' = toCredit \ {m}
           /\ UNCHANGED <<stage, finder, readPool, heads, toRead, parts, divisor>>
  <2>1. ReadsOK'
    BY <1>1, <1>4 DEF ReadsOK, TypeInv, RewardsTypeOK
  <2>2. StageOK'
    BY <1>1, <1>2, <1>4 DEF StageOK, TypeInv, StageInv, Around, inputVars
  <2> QED
    BY <1>1, <1>2, <2>1, <2>2, AroundTypes
<1> QED
  BY <1>1, <1>3, <1>4 DEF CreditedNext

LEMMA CrashTypes == ASSUME RewardsInv, TypeInv, Crash PROVE TypeInv'
<1>1. /\ UNCHANGED <<ledgerVars, inputVars, submit, mini, sent, poolDiff, jobDiff, winner,
                     lateShares, late>>
      /\ Return
      /\ at' = [c \in Conns |-> IF at[c] = "compare" THEN "compare" ELSE "done"]
  BY DEF Crash
<1>2. LedgerTypeOK' /\ Members(mini)' = Members(mini)
  BY <1>1 DEF ledgerVars, TypeInv, RewardsTypeOK, LedgerTypeOK, Members
<1>3. at' \in [Conns -> {"compare", "store", "trim", "send", "write", "done"}]
  BY <1>1
<1>4. RewardsTypeOK'
  BY <1>1, <1>2, <1>3 DEF Return, ZeroForAll, inputVars, TypeInv, RewardsTypeOK
<1>5. StageInv'
  BY <1>1, <1>2 DEF Return, inputVars, TypeInv, StageInv
<1> QED
  BY <1>4, <1>5 DEF TypeInv

LEMMA TypeNext ==
    ASSUME Amount # 0, RewardsInv, RewardsInv', TypeInv, [RewardsNext]_rewardsVars PROVE TypeInv'
<1>1. ASSUME NEW c \in Conns, ProcessShare(c) PROVE TypeInv'
  BY <1>1, CompareTypes, ScoreTypes, WriteTypes DEF ProcessShare
<1>2. CASE ProcessReward
  BY <1>2, DeliverTypes, BookTypes, FinderTypes, ReadTypes, DiffTypes, CreditTypes
     DEF ProcessReward
<1>3. CASE UNCHANGED rewardsVars
  BY <1>3
     DEF rewardsVars, ledgerVars, inputVars, shareVars, readVars, boundVars, TypeInv, StageInv,
         RewardsTypeOK, LedgerTypeOK, Members
<1> QED
  BY <1>1, <1>2, <1>3, CrashTypes DEF RewardsNext

\* Type correctness of one job's state, the pool's sum being that of the miners'.
THEOREM RewardsTypeCorrect == ASSUME Amount # 0 PROVE RewardsSpec => []RewardsTypeOK
<1>1. RewardsInit => TypeInv
  BY TypeInit
<1>2. RewardsInv /\ RewardsInv' /\ TypeInv /\ [RewardsNext]_rewardsVars => TypeInv'
  BY TypeNext
<1>3. TypeInv => RewardsTypeOK
  BY DEF TypeInv
<1> QED
  BY <1>1, <1>2, <1>3, RewardsInvariant, PTL DEF RewardsSpec

-----------------------------------------------------------------------------
(* What a share leaves behind when nothing fails: a score when it is sent, *)
(* and its difficulty when it is written.                                  *)

TracesInv ==
    faults = 0 =>
        \A c \in Conns :
            /\ at[c] \in {"trim", "send"} \/ c \in sent => Members(mini) # {}
            /\ c \in sent /\ at[c] = "done" => login[c] \in Logins /\ jobDiff[login[c]] # 0

LEMMA TracesInit == RewardsInit => TracesInv
BY DEF RewardsInit, TracesInv

\* What fails, fails for good.
LEMMA FaultsStay ==
    ASSUME RewardsInv, Amount # 0, [RewardsNext]_rewardsVars
    PROVE  faults \in Nat /\ faults' \in Nat /\ faults' >= faults
<1>1. faults \in Nat
  BY DEF RewardsInv, ShareType
<1>2. Fault \/ UNCHANGED faults
  BY DEF RewardsNext, ProcessShare, ProcessReward, Compare, CompareFails, Store, StoreFails, Trim,
         TrimFails, Send, Write, WriteFails, Deliver, LookupFails, Win, WinFails, FindFinder,
         CreditFinder, FinderFails, ReadNames, NamesFail, ReadPool, PoolFails, ReadKeys, KeysFail,
         ReadDiff, DiffFails, Credit, CreditFails, Crash, NoFault, rewardsVars, boundVars
<1> QED
  BY <1>1, <1>2, FaultGrows DEF RewardsInv

LEMMA TracesShare ==
    ASSUME RewardsInv, TypeInv, TracesInv, NEW c \in Conns, ProcessShare(c) PROVE TracesInv'
<1>1. CASE CompareFails(c) \/ StoreFails(c) \/ TrimFails(c) \/ WriteFails(c)
  BY <1>1, FaultGrows DEF CompareFails, StoreFails, TrimFails, WriteFails, RewardsInv, TracesInv
<1>2. CASE Compare(c) \/ Store(c) \/ Trim(c) \/ Send(c) \/ Write(c)
  <2> SUFFICES ASSUME faults = 0, NEW d \in Conns
               PROVE  /\ at'[d] \in {"trim", "send"} \/ d \in sent' => Members(mini') # {}
                      /\ d \in sent' /\ at'[d] = "done"
                            => login'[d] \in Logins /\ jobDiff'[login'[d]] # 0
    BY <1>2, NoFaultStays DEF Compare, Store, Trim, Send, Write, RewardsInv, TracesInv
  <2>1. \A x \in Conns : at'[x] # at[x] => x = c
    BY <1>2 DEF Compare, Store, Trim, Send, Write, Goes, TypeInv, RewardsTypeOK
  <2>2. login' = login
    BY <1>2 DEF Compare, Store, Trim, Send, Write, Elsewhere, inputVars
  <2>3. CASE Compare(c)
    <3>1. at'[c] \in {"store", "write"} /\ UNCHANGED <<mini, sent, jobDiff>>
      BY <2>3 DEF Compare, Goes, TypeInv, RewardsTypeOK
    <3> QED
      BY <2>1, <2>2, <3>1 DEF TracesInv, Members
  <2>4. CASE Store(c)
    <3>1. at'[c] = "trim" /\ UNCHANGED <<sent, jobDiff>> /\ at[c] = "store"
      BY <2>4 DEF Store, Goes, TypeInv, RewardsTypeOK
    <3>2. login[c] \in Miners /\ mini'[login[c]] = hash[c] /\ hash[c] # 0
      BY <2>4, <3>1, MinersAssumption DEF Store, RewardsInv, ShareType
    <3>3. Members(mini') # {}
      BY <3>2 DEF Members
    <3> QED
      BY <2>1, <2>2, <3>1, <3>3 DEF TracesInv
  <2>5. CASE Trim(c)
    <3>1. at'[c] = "send" /\ UNCHANGED <<sent, jobDiff>> /\ at[c] = "trim"
      BY <2>5 DEF Trim, Goes, TypeInv, RewardsTypeOK
    <3>2. Members(mini) # {}
      BY <3>1 DEF TracesInv
    <3>3. PICK m \in AtRank0(mini) : mini' = [n \in Miners |-> IF n = m THEN mini[n] ELSE 0]
      BY <2>5, <3>2 DEF Trim
    <3>4. m \in Members(mini')
      BY <3>3 DEF AtRank0, Members
    <3> QED
      BY <2>1, <2>2, <3>1, <3>4 DEF TracesInv
  <2>6. CASE Send(c)
    <3>1. /\ at'[c] = "write" /\ UNCHANGED <<mini, jobDiff>> /\ at[c] = "send"
          /\ sent' \subseteq sent \union {c}
      BY <2>6 DEF Send, Goes, TypeInv, RewardsTypeOK
    <3> QED
      BY <2>1, <2>2, <3>1 DEF TracesInv, Members
  <2>7. CASE Write(c)
    <3>1. at'[c] = "done" /\ UNCHANGED <<sent, mini>> /\ at[c] = "write"
      BY <2>7 DEF Write, Goes, TypeInv, RewardsTypeOK
    <3>2. /\ login[c] \in Logins
          /\ \A m \in Miners : jobDiff'[m] = IF m = login[c] THEN jobDiff[m] + 1 ELSE jobDiff[m]
          /\ \A m \in Miners : jobDiff[m] \in Nat
          /\ \A m \in Logins : m \in Miners
      BY <2>7, <3>1, MinersAssumption DEF Write, RewardsInv, ShareType, TypeInv, RewardsTypeOK
    <3>3. \A m \in Logins : jobDiff[m] # 0 \/ m = login[c] => jobDiff'[m] # 0
      BY <3>2
    <3> QED
      BY <2>1, <2>2, <3>1, <3>2, <3>3 DEF TracesInv, Members
  <2> QED
    BY <1>2, <2>3, <2>4, <2>5, <2>6, <2>7
<1> QED
  BY <1>1, <1>2 DEF ProcessShare

LEMMA TracesNext ==
    ASSUME Amount # 0, RewardsInv, TypeInv, TracesInv, [RewardsNext]_rewardsVars PROVE TracesInv'
<1>1. CASE \E c \in Conns : ProcessShare(c)
  BY <1>1, TracesShare
<1>2. CASE Crash
  BY <1>2, FaultGrows DEF Crash, RewardsInv, TracesInv
<1>3. CASE ProcessReward \/ UNCHANGED rewardsVars
  <2>1. UNCHANGED <<login, at, sent, mini, jobDiff>>
    BY <1>3
       DEF ProcessReward, Deliver, LookupFails, Win, WinFails, FindFinder, CreditFinder,
           FinderFails, ReadNames, NamesFail, ReadPool, PoolFails, PoolRead, ReadKeys, KeysFail,
           ReadDiff, DiffFails, DiffRead, Credit, CreditFails, Around, inputVars, rewardsVars,
           shareVars
  <2>2. faults' = 0 => faults = 0
    BY FaultsStay
  <2> QED
    BY <2>1, <2>2 DEF TracesInv, Members
<1> QED
  BY <1>1, <1>2, <1>3 DEF RewardsNext

-----------------------------------------------------------------------------
(* GetProportion's arithmetic *)

LEMMA FactorLe ==
    ASSUME NEW k \in Nat \ {0}, NEW a \in Int, NEW b \in Int, k * a <= k * b PROVE a <= b
OBVIOUS

LEMMA FactorLess ==
    ASSUME NEW k \in Nat \ {0}, NEW a \in Int, NEW b \in Int, k * a < k * b PROVE a < b
OBVIOUS

LEMMA DivBounds ==
    ASSUME NEW n \in Int, NEW k \in Nat \ {0}
    PROVE  n \div k \in Int /\ k * (n \div k) <= n /\ n < k * (n \div k) + k
OBVIOUS

\* A job in which somebody found a share has a sum.
LEMMA SumPositive ==
    ASSUME NEW d \in [Miners -> Nat], Members(d) # {}
    PROVE  Total(d) \in Nat \ {0}
<1> DEFINE one == [n \in Miners |-> IF n \in Members(d) THEN 1 ELSE 0]
<1>1. Total(one) = Cardinality(Members(d))
  BY TotalIndicator DEF Members
<1>2. Cardinality(Members(d)) \in Nat \ {0}
  BY MembersCounted, FS_EmptySet
<1>3. d \in [Miners -> Int] /\ one \in [Miners -> Int] /\ \A m \in Miners : one[m] <= d[m]
  BY DEF Members
<1> HIDE DEF one
<1>4. Total(one) <= Total(d) /\ Total(d) \in Int
  BY <1>3, TotalMono, TotalType
<1> QED
  BY <1>1, <1>2, <1>4

\* The parts of DivideEqual: of what is divided by difficulty (D) and by heads
\* (F) each miner gets its part, rounded down.
Part(d, D, F, m) ==
    LET P == Total(d)
        H == Cardinality(Members(d))
    IN  (H * d[m] * D + P * F) \div (H * P)

Parts(d, D, F) == [m \in Miners |-> IF m \in Members(d) THEN Part(d, D, F, m) ELSE 0]

\* They add up to D + F but for less than one unit per miner.
LEMMA PartsAddUp ==
    ASSUME NEW d \in [Miners -> Nat], NEW D \in Nat, NEW F \in Nat, Members(d) # {}
    PROVE  /\ Parts(d, D, F) \in [Miners -> Int]
           /\ Total(Parts(d, D, F)) <= D + F
           /\ Total(Parts(d, D, F)) + Cardinality(Members(d)) > D + F
           /\ \A m \in Miners : Parts(d, D, F)[m] >= 0
<1> DEFINE P    == Total(d)
           H    == Cardinality(Members(d))
           k    == H * P
           q    == Parts(d, D, F)
           one  == [m \in Miners |-> IF m \in Members(d) THEN 1 ELSE 0]
           byD  == [m \in Miners |-> (H * D) * d[m]]
           byF  == [m \in Miners |-> (P * F) * one[m]]
           up   == [m \in Miners |-> byD[m] + byF[m]]
           low  == [m \in Miners |-> up[m] + one[m]]
           kq   == [m \in Miners |-> k * q[m]]
           kOne == [m \in Miners |-> k * one[m]]
           high == [m \in Miners |-> kq[m] + kOne[m]]
<1>1. /\ \A x, y \in Nat : x * y \in Nat
      /\ \A x, y \in Nat \ {0} : x * y # 0
      /\ \A x, y \in Int : x * y \in Int
  OBVIOUS
<1>2. P \in Nat \ {0} /\ H \in Nat \ {0}
  BY SumPositive, MembersCounted, FS_EmptySet
<1>3. \A m \in Miners : q[m] = IF m \in Members(d) THEN (H * d[m] * D + P * F) \div (H * P) ELSE 0
  BY DEF Parts, Part
<1>4. q = [m \in Miners |-> q[m]]
  BY DEF Parts
<1>5. Total(one) = H
  BY TotalIndicator DEF Members
<1> HIDE DEF P, H, q
<1>6. k \in Nat \ {0} /\ H * D \in Nat /\ P * F \in Nat
  BY <1>1, <1>2
<1>7. d \in [Miners -> Int] /\ one \in [Miners -> Int] /\ \A m \in Miners : one[m] \in {0, 1}
  OBVIOUS
<1>8. ASSUME NEW m \in Miners
      PROVE  /\ q[m] \in Int /\ q[m] >= 0
             /\ kq[m] <= up[m] /\ low[m] <= high[m]
  <2>1. CASE m \in Members(d)
    <3> DEFINE n == (H * D) * d[m] + P * F
    <3>1. H * d[m] * D = (H * D) * d[m]
      BY <1>2
    <3>2. q[m] = n \div k
      BY <1>3, <2>1, <3>1
    <3>3. n \in Nat /\ up[m] = n /\ low[m] = n + 1 /\ high[m] = k * q[m] + k /\ kq[m] = k * q[m]
      <4>1. one[m] = 1 /\ d[m] \in Nat
        BY <2>1
      <4>2. (H * D) * d[m] \in Nat
        BY <1>1, <1>6, <4>1
      <4> HIDE DEF k, one
      <4> QED
        BY <1>6, <4>1, <4>2
    <3> HIDE DEF n, k, up, low, high, kq
    <3>4. q[m] \in Int /\ k * q[m] <= n /\ n < k * q[m] + k
      BY <1>6, <3>2, <3>3, DivBounds
    <3>5. q[m] >= 0
      <4>1. k * (-1) < k * q[m]
        BY <1>6, <3>3, <3>4
      <4> QED
        BY <1>6, <3>4, <4>1, FactorLess
    <3>6. k * q[m] \in Int
      BY <1>1, <1>6, <3>4
    <3> QED
      BY <1>6, <3>3, <3>4, <3>5, <3>6
  <2>2. CASE m \notin Members(d)
    <3>1. q[m] = 0 /\ d[m] = 0 /\ one[m] = 0
      BY <1>3, <2>2 DEF Members
    <3>2. \A x \in Int : x * 0 = 0
      OBVIOUS
    <3>3. up[m] = 0 /\ low[m] = 0 /\ kq[m] = 0 /\ high[m] = 0
      <4> HIDE DEF k, one
      <4> QED
        BY <1>6, <3>1, <3>2
    <3> QED
      BY <3>1, <3>3
  <2> QED
    BY <2>1, <2>2
<1>9. q \in [Miners -> Int]
  BY <1>4, <1>8
<1>10. /\ byD \in [Miners -> Int] /\ byF \in [Miners -> Int] /\ up \in [Miners -> Int]
       /\ low \in [Miners -> Int] /\ kq \in [Miners -> Int] /\ kOne \in [Miners -> Int]
       /\ high \in [Miners -> Int]
  <2> HIDE DEF k, one
  <2>1. \A m \in Miners : /\ (H * D) * d[m] \in Int /\ (P * F) * one[m] \in Int
                          /\ k * q[m] \in Int /\ k * one[m] \in Int /\ one[m] \in Int
    BY <1>1, <1>6, <1>7, <1>9
  <2> QED
    BY <2>1
<1>11. Total(byD) = (H * D) * P
  <2>1. PICK c \in Int : c = H * D
    BY <1>6
  <2>2. \A m \in Miners : byD[m] = c * d[m]
    BY <2>1
  <2> HIDE DEF byD
  <2>3. Total(byD) = c * Total(d)
    BY <1>7, <1>10, <2>2, TotalScale
  <2> QED
    BY <2>1, <2>3 DEF P
<1>12. Total(byF) = (P * F) * H
  <2>1. PICK c \in Int : c = P * F
    BY <1>6
  <2>2. \A m \in Miners : byF[m] = c * one[m]
    BY <2>1
  <2> HIDE DEF byF, one
  <2>3. Total(byF) = c * Total(one)
    BY <1>7, <1>10, <2>2, TotalScale
  <2> QED
    BY <1>5, <2>1, <2>3
<1>13. Total(up) = k * (D + F)
  <2>1. \A m \in Miners : up[m] = byD[m] + byF[m]
    OBVIOUS
  <2> HIDE DEF up, byD, byF
  <2>2. Total(up) = Total(byD) + Total(byF)
    BY <1>10, <2>1, TotalAdd
  <2>3. (H * D) * P + (P * F) * H = (H * P) * (D + F)
    BY <1>2
  <2> QED
    BY <1>11, <1>12, <2>2, <2>3
<1>14. Total(low) = Total(up) + H
  <2>1. \A m \in Miners : low[m] = up[m] + one[m]
    OBVIOUS
  <2> HIDE DEF low, up, one
  <2>2. Total(low) = Total(up) + Total(one)
    BY <1>7, <1>10, <2>1, TotalAdd
  <2> QED
    BY <1>5, <2>2
<1>15. Total(kq) = k * Total(q)
  <2>1. \A m \in Miners : kq[m] = k * q[m]
    OBVIOUS
  <2>2. k \in Int
    BY <1>6
  <2> HIDE DEF kq, k
  <2> QED
    BY <1>9, <1>10, <2>1, <2>2, TotalScale
<1>16. Total(high) = k * (Total(q) + H)
  <2>1. /\ \A m \in Miners : high[m] = kq[m] + kOne[m]
        /\ \A m \in Miners : kOne[m] = k * one[m]
    OBVIOUS
  <2>2. k \in Int /\ H \in Int /\ Total(q) \in Int
    BY <1>2, <1>6, <1>9, TotalType
  <2> HIDE DEF high, kq, kOne, k, one
  <2>3. Total(kOne) = k * Total(one)
    BY <1>7, <1>10, <2>1, <2>2, TotalScale
  <2>4. Total(high) = Total(kq) + Total(kOne)
    BY <1>10, <2>1, TotalAdd
  <2>5. \A x, y, z \in Int : x * y + x * z = x * (y + z)
    OBVIOUS
  <2> QED
    BY <1>5, <1>15, <2>2, <2>3, <2>4, <2>5
<1> HIDE DEF k, one, byD, byF, up, low, kq, kOne, high
<1>17. Total(q) \in Int /\ D + F \in Int /\ Total(q) + H \in Int
  BY <1>2, <1>9, TotalType
<1>18. Total(q) <= D + F
  <2>1. k * Total(q) <= k * (D + F)
    BY <1>8, <1>10, <1>13, <1>15, TotalMono
  <2> QED
    BY <1>6, <1>17, <2>1, FactorLe
<1>19. D + F < Total(q) + H
  <2>1. k * (D + F) + H <= k * (Total(q) + H)
    BY <1>8, <1>10, <1>13, <1>14, <1>16, TotalMono
  <2>2. k * (D + F) \in Int /\ k * (Total(q) + H) \in Int
    BY <1>1, <1>6, <1>17
  <2>3. k * (D + F) < k * (Total(q) + H)
    BY <1>2, <2>1, <2>2
  <2> QED
    BY <1>6, <1>17, <2>3, FactorLess
<1>20. Total(q) + H > D + F
  BY <1>17, <1>19
<1> QED
  BY <1>8, <1>9, <1>18, <1>20 DEF q, H

-----------------------------------------------------------------------------
(* What the parts may come to when the sum was read before the difficulties *)

Divisible == Amount - PoolFee

\* n exceeds what can be divided by no more than l late shares of 1 have in a
\* sum v.
Within(v, l, n) == v * (n - Divisible) <= l * Divided

\* The part p of a difficulty d, of a sum r and h heads, is not rounded up.
Fits(h, r, p, d) == p >= 0 /\ (h * r) * p <= (h * Divided) * d + r * DirectFee

LEMMA WithinBelow ==
    ASSUME NEW v \in Nat, NEW l \in Nat, NEW n \in Int, n <= Divisible PROVE Within(v, l, n)
<1>1. Divided \in Nat /\ Divisible \in Int
  BY FeesAssumption DEF Divided, Divisible
<1>2. \A x \in Nat, y \in Int : y <= 0 => x * y <= 0
  OBVIOUS
<1>3. \A x, y \in Nat : 0 <= x * y
  OBVIOUS
<1>4. v * (n - Divisible) <= 0 /\ v * (n - Divisible) \in Int
  BY <1>1, <1>2
<1>5. 0 <= l * Divided /\ l * Divided \in Int
  BY <1>1, <1>3
<1> QED
  BY <1>4, <1>5 DEF Within

LEMMA WithinLess ==
    ASSUME NEW v \in Nat, NEW l \in Nat, NEW n \in Int, NEW k \in Int, k <= n, Within(v, l, n)
    PROVE  Within(v, l, k)
<1>1. Divided \in Nat /\ Divisible \in Int
  BY FeesAssumption DEF Divided, Divisible
<1>2. \A x \in Nat, y, z \in Int : y <= z => x * y <= x * z
  OBVIOUS
<1>3. k - Divisible \in Int /\ n - Divisible \in Int /\ k - Divisible <= n - Divisible
  BY <1>1
<1>4. v * (k - Divisible) <= v * (n - Divisible)
  BY <1>2, <1>3
<1>5. v * (k - Divisible) \in Int /\ v * (n - Divisible) \in Int /\ l * Divided \in Int
  BY <1>1, <1>3
<1> QED
  BY <1>4, <1>5 DEF Within

LEMMA WithinMeans ==
    ASSUME NEW v \in Nat \ {0}, NEW n \in Int, Within(v, 0, n) PROVE n <= Divisible
<1>1. Divided \in Nat /\ Divisible \in Int /\ n - Divisible \in Int
  BY FeesAssumption DEF Divided, Divisible
<1>2. v * (n - Divisible) <= v * 0
  BY <1>1 DEF Within
<1>3. n - Divisible <= 0
  BY <1>1, <1>2, FactorLe
<1> QED
  BY <1>1, <1>3

LEMMA FitsMore ==
    ASSUME NEW h \in Nat, NEW r \in Nat, NEW p \in Int, NEW d \in Nat, NEW e \in Nat, d <= e,
           Fits(h, r, p, d)
    PROVE  Fits(h, r, p, e)
<1>1. Divided \in Nat /\ DirectFee \in Nat
  BY FeesAssumption DEF Divided
<1>2. \A x, y \in Nat : x * y \in Nat
  OBVIOUS
<1>3. \A x, y, z \in Nat : y <= z => x * y <= x * z
  OBVIOUS
<1>4. h * Divided \in Nat /\ h * r \in Nat /\ r * DirectFee \in Nat
  BY <1>1, <1>2
<1>5. (h * Divided) * d <= (h * Divided) * e
  BY <1>3, <1>4
<1>6. (h * Divided) * d \in Nat /\ (h * Divided) * e \in Nat /\ (h * r) * p \in Int
  BY <1>2, <1>4
<1> QED
  BY <1>4, <1>5, <1>6 DEF Fits

LEMMA PartFits ==
    ASSUME readPool \in Nat \ {0}, heads \in Nat \ {0}, NEW d \in Nat, NEW p \in PartOf(d)
    PROVE  Fits(heads, readPool, p, d)
<1> DEFINE k == heads * readPool
           n == (heads * Divided) * d + readPool * DirectFee
<1>1. Divided \in Nat /\ DirectFee \in Nat
  BY FeesAssumption DEF Divided
<1>2. /\ \A x, y \in Nat : x * y \in Nat
      /\ \A x, y \in Nat \ {0} : x * y # 0
  OBVIOUS
<1>3. k \in Nat \ {0}
  BY <1>2
<1>4. n \in Nat
  <2>1. heads * Divided \in Nat /\ readPool * DirectFee \in Nat
    BY <1>1, <1>2
  <2>2. (heads * Divided) * d \in Nat
    BY <1>2, <2>1
  <2> QED
    BY <2>1, <2>2
<1>5. p = n \div k
  <2>1. heads * d * Divided = (heads * Divided) * d
    BY <1>1
  <2> QED
    BY <2>1 DEF PartOf
<1>6. Fits(heads, readPool, p, d) <=> p >= 0 /\ k * p <= n
  BY DEF Fits
<1> HIDE DEF k, n
<1>7. p \in Int /\ k * p <= n /\ n < k * p + k
  BY <1>3, <1>4, <1>5, DivBounds
<1>8. p >= 0
  <2>1. k * p \in Int /\ k * (p + 1) = k * p + k
    BY <1>3, <1>7
  <2>2. k * 0 < k * (p + 1)
    BY <1>3, <1>4, <1>7, <2>1
  <2>3. 0 < p + 1
    BY <1>3, <1>7, <2>2, FactorLess
  <2> QED
    BY <1>7, <2>3
<1> QED
  BY <1>6, <1>7, <1>8

\* Parts that fit, of difficulties that come to r and l more, come to no more
\* than what is divided and l's part of it in r.
LEMMA PartsFit ==
    ASSUME NEW S \in SUBSET Miners, S # {},
           NEW d \in [Miners -> Nat], NEW q \in [Miners -> Int],
           NEW r \in Nat, NEW l \in Nat, Total(d) = r + l,
           \A m \in S : Fits(Cardinality(S), r, q[m], d[m]),
           \A m \in Miners \ S : q[m] = 0
    PROVE  r * Total(q) <= r * (Divided + DirectFee) + l * Divided
<1> DEFINE D    == Divided
           F    == DirectFee
           H    == Cardinality(S)
           k    == H * r
           one  == [m \in Miners |-> IF m \in S THEN 1 ELSE 0]
           byD  == [m \in Miners |-> (H * D) * d[m]]
           byF  == [m \in Miners |-> (r * F) * one[m]]
           up   == [m \in Miners |-> byD[m] + byF[m]]
           kq   == [m \in Miners |-> k * q[m]]
<1>1. /\ \A x, y \in Nat : x * y \in Nat
      /\ \A x, y \in Int : x * y \in Int
  OBVIOUS
<1>2. H \in Nat \ {0}
  BY MinersFinite, FS_Subset, FS_CardinalityType, FS_EmptySet
<1>3. D \in Nat /\ F \in Nat
  BY FeesAssumption DEF Divided
<1>4. Total(one) = H
  BY TotalIndicator
<1>5. \A m \in S : k * q[m] <= (H * D) * d[m] + r * F
  BY DEF Fits
<1> HIDE DEF H, D, F
<1>6. k \in Nat /\ H * D \in Nat /\ r * F \in Nat
  BY <1>1, <1>2, <1>3
<1>7. d \in [Miners -> Int] /\ one \in [Miners -> Int]
  OBVIOUS
<1>8. ASSUME NEW m \in Miners PROVE kq[m] <= up[m]
  <2>1. (H * D) * d[m] \in Nat /\ k * q[m] \in Int
    BY <1>1, <1>6
  <2>2. CASE m \in S
    <3>1. one[m] = 1 /\ k * q[m] <= (H * D) * d[m] + r * F
      BY <1>5, <2>2
    <3>2. (r * F) * 1 = r * F
      BY <1>6
    <3> HIDE DEF k, one
    <3> QED
      BY <1>6, <2>1, <3>1, <3>2
  <2>3. CASE m \notin S
    <3>1. one[m] = 0 /\ q[m] = 0
      BY <2>3
    <3>2. \A x \in Int : x * 0 = 0
      OBVIOUS
    <3> HIDE DEF k, one
    <3> QED
      BY <1>6, <2>1, <3>1, <3>2
  <2> QED
    BY <2>2, <2>3
<1>9. /\ byD \in [Miners -> Int] /\ byF \in [Miners -> Int] /\ up \in [Miners -> Int]
      /\ kq \in [Miners -> Int]
  <2> HIDE DEF k, one
  <2>1. \A m \in Miners : (H * D) * d[m] \in Int /\ (r * F) * one[m] \in Int /\ k * q[m] \in Int
    BY <1>1, <1>6, <1>7
  <2> QED
    BY <2>1
<1>10. Total(byD) = (H * D) * (r + l)
  <2>1. PICK c \in Int : c = H * D
    BY <1>6
  <2>2. \A m \in Miners : byD[m] = c * d[m]
    BY <2>1
  <2> HIDE DEF byD
  <2>3. Total(byD) = c * Total(d)
    BY <1>7, <1>9, <2>2, TotalScale
  <2> QED
    BY <2>1, <2>3
<1>11. Total(byF) = (r * F) * H
  <2>1. PICK c \in Int : c = r * F
    BY <1>6
  <2>2. \A m \in Miners : byF[m] = c * one[m]
    BY <2>1
  <2> HIDE DEF byF, one
  <2>3. Total(byF) = c * Total(one)
    BY <1>7, <1>9, <2>2, TotalScale
  <2> QED
    BY <1>4, <2>1, <2>3
<1>12. Total(up) = (H * D) * (r + l) + (r * F) * H
  <2>1. \A m \in Miners : up[m] = byD[m] + byF[m]
    OBVIOUS
  <2> HIDE DEF up, byD, byF
  <2> QED
    BY <1>9, <1>10, <1>11, <2>1, TotalAdd
<1>13. Total(kq) = k * Total(q)
  <2>1. (\A m \in Miners : kq[m] = k * q[m]) /\ k \in Int
    BY <1>6
  <2> HIDE DEF kq, k
  <2> QED
    BY <1>9, <2>1, TotalScale
<1>14. Total(kq) <= Total(up)
  <2> HIDE DEF kq, up
  <2> QED
    BY <1>8, <1>9, TotalMono
<1>15. PICK t \in Int : t = Total(q)
  BY TotalType
<1>16. (H * r) * t <= (H * D) * (r + l) + (r * F) * H
  BY <1>12, <1>13, <1>14, <1>15
<1>17. (H * r) * t = H * (r * t) /\ (H * D) * (r + l) + (r * F) * H = H * (r * (D + F) + l * D)
  BY <1>2, <1>3
<1>18. r * t \in Int /\ r * (D + F) + l * D \in Int
  BY <1>1, <1>3
<1>19. r * t <= r * (D + F) + l * D
  <2>1. PICK a \in Int, b \in Int : a = r * t /\ b = r * (D + F) + l * D
    BY <1>18
  <2>2. H * a <= H * b
    BY <1>16, <1>17, <2>1
  <2> QED
    BY <1>2, <2>1, <2>2, FactorLe
<1> QED
  BY <1>15, <1>19 DEF D, F

-----------------------------------------------------------------------------
(* The division: how much has been credited at every stage of it *)

Remaining == [m \in Miners |-> IF m \in toCredit THEN parts[m] ELSE 0]

\* Nothing has failed and no share has come in after the reward.
Calm == faults = 0 /\ ~late

\* What GetProportion has read: a sum that only late shares take apart from the
\* miners' difficulties, and parts of it that fit; while nothing happens the
\* very parts that are due.
ReadInv ==
    /\ pool.rewards = 0 \/ stage \in {"win", "finder", "creditFinder", "names", "pool"} =>
          lateShares = 0 /\ divisor = 1
    /\ stage = "keys" => divisor = 1
    /\ stage \in {"keys", "diffs"} /\ (faults = 0 \/ readPool # 0) =>
          poolDiff = readPool + lateShares
    /\ stage = "diffs" => divisor = readPool /\ heads = Cardinality(toRead \union toCredit)
    /\ stage = "diffs" /\ readPool # 0 =>
          \A m \in toCredit : Fits(heads, readPool, parts[m], jobDiff[m])
    /\ stage = "diffs" /\ Calm =>
          /\ toRead \union toCredit = Members(jobDiff)
          /\ \A m \in toCredit : parts[m] = Part(jobDiff, Divided, DirectFee, m)

\* What is credited, and is to be credited, is within the reward but for what
\* late shares had of it.
CreditedInv ==
    /\ pool.rewards = 0 \/ stage \in {"finder", "creditFinder"} => Total(reward) = 0
    /\ stage \in {"names", "pool", "keys", "diffs"} => Total(reward) <= FinderFee
    /\ stage = "credit" /\ divisor # 0 =>
          /\ Within(divisor, lateShares, Total(reward) + Total(Remaining))
          /\ \A m \in toCredit : parts[m] >= 0
    /\ stage = "idle" /\ divisor # 0 => Within(divisor, lateShares, Total(reward))

\* And when nothing goes wrong, it is all of it but for the rounding.
Clean == Calm /\ winner \in Conns /\ at[winner] = "done"

NearlyAll(n) == n + PoolFee + Cardinality(Members(jobDiff)) > Amount

WholeInv ==
    Clean =>
        /\ stage \in {"names", "pool", "keys", "diffs"} => Total(reward) = FinderFee
        /\ stage = "credit" => NearlyAll(Total(reward) + Total(Remaining))
        /\ stage = "idle" /\ pool.rewards # 0 => NearlyAll(Total(reward))

MoneyInv == ReadInv /\ CreditedInv /\ WholeInv

DivisionInv == RewardsInv /\ TypeInv /\ TracesInv /\ MoneyInv

LEMMA MoneyInit == RewardsInit => MoneyInv
<1> SUFFICES ASSUME RewardsInit PROVE MoneyInv
  OBVIOUS
<1>1. ZeroForAll \in [Miners -> Int] /\ \A m \in Miners : ZeroForAll[m] = 0
  BY DEF ZeroForAll
<1>2. /\ Total(reward) = 0 /\ stage = "idle" /\ pool.rewards = 0
      /\ lateShares = 0 /\ divisor = 1
  BY <1>1, TotalZero DEF RewardsInit, LedgerInit
<1>3. Divisible \in Nat
  BY FeesAssumption DEF Divisible
<1>4. Within(divisor, lateShares, Total(reward))
  BY <1>2, <1>3, WithinBelow
<1> QED
  BY <1>2, <1>4 DEF MoneyInv, ReadInv, CreditedInv, WholeInv

LEMMA Sums ==
    ASSUME TypeInv
    PROVE  /\ Total(reward) \in Int /\ Remaining \in [Miners -> Int] /\ Total(Remaining) \in Int
           /\ Cardinality(Members(jobDiff)) \in Nat
<1>1. reward \in [Miners -> Int] /\ Remaining \in [Miners -> Int]
  BY DEF TypeInv, RewardsTypeOK, LedgerTypeOK, Remaining
<1> QED
  BY <1>1, TotalType, MembersCounted

\* The numbers that Within is about.
LEMMA Numbers ==
    ASSUME TypeInv
    PROVE  /\ divisor \in Nat /\ lateShares \in Nat /\ poolDiff \in Nat /\ readPool \in Nat
           /\ FinderFee \in Nat /\ FinderFee <= Divisible /\ Divisible \in Nat
           /\ Total(reward) \in Int
<1>1. /\ divisor \in Nat /\ lateShares \in Nat /\ poolDiff \in Nat /\ readPool \in Nat
      /\ Total(reward) \in Int
  BY Sums DEF TypeInv, RewardsTypeOK
<1> QED
  BY <1>1, FeeTypes, FeesAssumption DEF Divisible, FinderFee

\* The winner's share has left its difficulty.
LEMMA CleanMembers ==
    ASSUME RewardsInv, TypeInv, TracesInv, Clean, winner \in sent
    PROVE  Members(jobDiff) # {} /\ Cardinality(Members(jobDiff)) \in Nat \ {0} /\ poolDiff # 0
<1>1. login[winner] \in Miners /\ jobDiff[login[winner]] # 0
  BY MinersAssumption DEF Clean, Calm, TracesInv
<1>2. Members(jobDiff) # {}
  BY <1>1 DEF Members
<1>3. Cardinality(Members(jobDiff)) # 0
  BY <1>2, MembersCounted, FS_EmptySet
<1>4. poolDiff # 0
  BY <1>2, SumPositive DEF TypeInv, RewardsTypeOK
<1> QED
  BY <1>2, <1>3, <1>4, MembersCounted

-----------------------------------------------------------------------------

\* Steps that leave the job's sums and the division alone.
LEMMA MoneyElsewhere ==
    ASSUME MoneyInv, Clean' => Clean, Calm' => Calm, faults' = 0 => faults = 0,
           UNCHANGED <<ledgerVars, inputVars, stage, readVars, poolDiff, jobDiff, lateShares>>
    PROVE  MoneyInv'
<1>1. Members(jobDiff)' = Members(jobDiff) /\ Remaining' = Remaining /\ FinderFee' = FinderFee
  BY DEF Members, Remaining, FinderFee, readVars, inputVars
<1>2. ReadInv'
  BY <1>1 DEF MoneyInv, ReadInv, readVars, ledgerVars
<1>3. CreditedInv'
  BY <1>1 DEF MoneyInv, CreditedInv, readVars, ledgerVars
<1>4. WholeInv'
  BY <1>1 DEF MoneyInv, WholeInv, NearlyAll, ledgerVars
<1> QED
  BY <1>2, <1>3, <1>4 DEF MoneyInv

\* A share that is recorded makes the miners' difficulties grow, the sum read
\* with them only before it is read.
LEMMA MoneyWrite ==
    ASSUME DivisionInv, Amount # 0, NEW c \in Conns, Write(c) PROVE MoneyInv'
<1>1. /\ UNCHANGED <<ledgerVars, inputVars, stage, winner, readVars, faults>>
      /\ lateShares' = lateShares + (IF stage \in {"keys", "diffs"} THEN 1 ELSE 0)
      /\ late' = (late \/ winner # NoOne)
      /\ poolDiff' = poolDiff + 1 /\ jobDiff' = [jobDiff EXCEPT ![login[c]] = @ + 1]
  BY DEF Write, Elsewhere, NoFault, boundVars
<1>2. ~Clean'
  BY <1>1, NoShareAssumption DEF Clean, Calm
<1>3. /\ UNCHANGED <<reward, pool, readPool, heads, toRead, parts, toCredit, divisor, mode>>
      /\ Remaining' = Remaining /\ FinderFee' = FinderFee
  BY <1>1 DEF Remaining, FinderFee, readVars, inputVars, ledgerVars
<1>4. CASE stage \in {"keys", "diffs"}
  <2>1. lateShares' = lateShares + 1 /\ pool.rewards # 0 /\ ~Calm'
    BY <1>1, <1>4, NoShareAssumption DEF DivisionInv, TypeInv, StageInv, RewardsTypeOK, Calm
  <2>2. readPool \in Nat /\ lateShares \in Nat /\ poolDiff \in Nat
    BY Numbers DEF DivisionInv
  <2>3. faults = 0 \/ readPool # 0 => poolDiff' = readPool + lateShares'
    BY <1>1, <1>4, <2>1, <2>2 DEF DivisionInv, MoneyInv, ReadInv
  <2>4. ASSUME stage = "diffs", readPool # 0, NEW m \in toCredit
        PROVE  Fits(heads, readPool, parts[m], jobDiff'[m])
    <3>1. /\ heads \in Nat /\ m \in Miners /\ parts[m] \in Int
          /\ jobDiff[m] \in Nat /\ jobDiff'[m] \in Nat /\ jobDiff[m] <= jobDiff'[m]
      BY <1>1 DEF DivisionInv, TypeInv, RewardsTypeOK
    <3>2. Fits(heads, readPool, parts[m], jobDiff[m])
      BY <2>4 DEF DivisionInv, MoneyInv, ReadInv
    <3> QED
      BY <2>2, <3>1, <3>2, FitsMore
  <2>5. ReadInv'
    BY <1>1, <1>3, <1>4, <2>1, <2>3, <2>4 DEF DivisionInv, MoneyInv, ReadInv
  <2>6. CreditedInv'
    BY <1>1, <1>3, <1>4, <2>1 DEF DivisionInv, MoneyInv, CreditedInv
  <2> QED
    BY <1>2, <2>5, <2>6 DEF MoneyInv, WholeInv
<1>5. CASE stage \notin {"keys", "diffs"}
  <2>1. lateShares' = lateShares
    BY <1>1, <1>5, Numbers DEF DivisionInv
  <2>2. ReadInv'
    BY <1>1, <1>3, <1>5, <2>1 DEF DivisionInv, MoneyInv, ReadInv
  <2>3. CreditedInv'
    BY <1>1, <1>3, <2>1 DEF DivisionInv, MoneyInv, CreditedInv
  <2> QED
    BY <1>2, <2>2, <2>3 DEF MoneyInv, WholeInv
<1> QED
  BY <1>4, <1>5

LEMMA MoneyShare ==
    ASSUME DivisionInv, Amount # 0, NEW c \in Conns, ProcessShare(c) PROVE MoneyInv'
<1>1. CASE ~Write(c)
  <2>1. /\ UNCHANGED <<ledgerVars, inputVars, stage, winner, readVars, poolDiff, jobDiff>>
        /\ UNCHANGED <<lateShares, late>>
    BY <1>1
       DEF ProcessShare, Compare, CompareFails, Store, StoreFails, Trim, TrimFails, Send,
           WriteFails, Elsewhere
  <2>2. faults' = 0 => faults = 0 /\ ~WriteFails(c)
    BY <1>1, FaultGrows, NoFaultStays
       DEF ProcessShare, Compare, CompareFails, Store, StoreFails, Trim, TrimFails, Send,
           WriteFails, DivisionInv, RewardsInv
  <2>3. ~WriteFails(c) => \A d \in Conns : at'[d] = "done" => at[d] = "done"
    BY <1>1
       DEF ProcessShare, Compare, CompareFails, Store, StoreFails, Trim, TrimFails, Send, Goes,
           DivisionInv, TypeInv, RewardsTypeOK
  <2>4. (Calm' => Calm) /\ (Clean' => Clean)
    BY <2>1, <2>2, <2>3 DEF Clean, Calm
  <2> QED
    BY <2>1, <2>2, <2>4, MoneyElsewhere DEF DivisionInv
<1> QED
  BY <1>1, MoneyWrite

\* A job whose reward is booked stays with the share it was booked for.
LEMMA MoneyDeliver ==
    ASSUME DivisionInv, NEW c \in Conns, Deliver(c) \/ LookupFails(c) PROVE MoneyInv'
<1>1. /\ UNCHANGED <<ledgerVars, submit, readVars, lateShares, late, at, jobDiff, poolDiff>>
      /\ winner' = c /\ winner \in {NoOne, c} /\ stage = "idle"
      /\ stage' = "win" \/ stage' = "idle"
  BY DEF Deliver, LookupFails, StageTo, Around
<1>2. stage' = "win" => pool'.rewards = 0
  BY DeliverInv DEF DivisionInv, RewardsInv, BookedInv
<1>3. pool.rewards # 0 => winner = c
  BY <1>1, NoShareAssumption DEF DivisionInv, RewardsInv, BookedInv, ShareType
<1>4. faults' = 0 => faults = 0
  BY FaultGrows DEF Deliver, LookupFails, DivisionInv, RewardsInv, ShareType
<1>5. pool.rewards # 0 => (Clean' => Clean)
  BY <1>1, <1>3, <1>4 DEF Clean, Calm
<1>6. Members(jobDiff)' = Members(jobDiff)
  BY <1>1 DEF Members
<1>7. ReadInv'
  BY <1>1, <1>2 DEF DivisionInv, MoneyInv, ReadInv, ledgerVars, readVars
<1>8. CreditedInv'
  BY <1>1 DEF DivisionInv, MoneyInv, CreditedInv, ledgerVars, readVars
<1>9. WholeInv'
  BY <1>1, <1>5, <1>6 DEF DivisionInv, MoneyInv, WholeInv, NearlyAll, ledgerVars
<1> QED
  BY <1>7, <1>8, <1>9 DEF MoneyInv

\* The reward is booked before anything of it is credited.
LEMMA MoneyBook ==
    ASSUME DivisionInv, Amount # 0, Win \/ WinFails PROVE MoneyInv'
<1>1. /\ stage = "win" /\ UNCHANGED <<reward, lateShares, late, divisor>>
      /\ (stage' = "finder") \/ (stage' = "idle" /\ Fault)
  BY DEF Win, WinFails, StageTo, Return, Around, SetWinReward, ledgerVars, readVars
<1>2. Total(reward') = 0 /\ lateShares = 0 /\ divisor = 1
  BY <1>1 DEF DivisionInv, RewardsInv, BookedInv, MoneyInv, CreditedInv, ReadInv
<1>3. Within(divisor', lateShares', Total(reward'))
  BY <1>1, <1>2, WithinBelow, FeesAssumption DEF Divisible
<1>4. ReadInv'
  BY <1>1, <1>2 DEF ReadInv
<1>5. CreditedInv'
  BY <1>1, <1>2, <1>3 DEF CreditedInv
<1>6. stage' = "idle" => ~Clean'
  BY <1>1, FaultGrows DEF Clean, Calm, DivisionInv, RewardsInv
<1>7. WholeInv'
  BY <1>1, <1>6 DEF WholeInv
<1> QED
  BY <1>4, <1>5, <1>7 DEF MoneyInv

\* Nothing of the job changes while a reward is handled.
LEMMA AroundMoney ==
    ASSUME DivisionInv, Amount # 0, [RewardsNext]_rewardsVars, Around, winner' = winner
    PROVE  /\ Members(jobDiff)' = Members(jobDiff)
           /\ (Clean' => Clean) /\ (Calm' => Calm) /\ (faults' = 0 => faults = 0)
           /\ FinderFee' = FinderFee
           /\ UNCHANGED <<poolDiff, jobDiff, lateShares, late, mode>>
           /\ \A n : NearlyAll(n)' = NearlyAll(n)
<1>1. UNCHANGED <<at, late, jobDiff, mode, lateShares, poolDiff>>
  BY DEF Around, inputVars
<1>2. faults' = 0 => faults = 0
  BY FaultsStay DEF DivisionInv
<1>3. Members(jobDiff)' = Members(jobDiff)
  BY <1>1 DEF Members
<1> QED
  BY <1>1, <1>2, <1>3 DEF Clean, Calm, FinderFee, NearlyAll

\* What comes after the finder.
LEMMA MoneyGoesOn ==
    ASSUME DivisionInv, Amount # 0, [RewardsNext]_rewardsVars, Around, winner' = winner,
           stage \in {"finder", "creditFinder"}, pool' = pool, GoesOnDividing,
           Total(reward') \in Int, Total(reward') <= FinderFee,
           Clean' => Total(reward') = FinderFee
    PROVE  MoneyInv'
<1>1. pool.rewards = Amount /\ winner \in sent
  BY DEF DivisionInv, TypeInv, StageInv
<1>2. FinderFee' = FinderFee /\ FinderFee \in Nat /\ FinderFee <= Divisible
  BY AroundMoney, FeeTypes, FeesAssumption DEF Divisible, FinderFee
<1>3. lateShares' = 0 /\ divisor' = 1
  BY AroundMoney
     DEF GoesOnDividing, StageTo, Return, readVars, DivisionInv, MoneyInv, ReadInv
<1>4. Within(divisor', lateShares', Total(reward'))
  <2>1. Total(reward') <= Divisible
    BY <1>2, FeesAssumption DEF Divisible
  <2> QED
    BY <1>3, <2>1, WithinBelow
<1>5. CASE mode = "solo" /\ DirectFee = 0 /\ Return
  <2>1. stage' = "idle" /\ FinderFee = Divisible
    BY <1>5, FeesAssumption DEF Return, FinderFee, Divisible
  <2>2. Clean' => Cardinality(Members(jobDiff)) \in Nat \ {0}
    BY <1>1, AroundMoney, CleanMembers DEF DivisionInv
  <2>3. Clean' => NearlyAll(Total(reward'))
    BY <2>1, <2>2, FeesAssumption DEF NearlyAll, Divisible
  <2>4. WholeInv'
    BY <2>1, <2>3, AroundMoney DEF WholeInv
  <2> QED
    BY <1>1, <1>2, <1>3, <1>4, <2>1, <2>4 DEF MoneyInv, ReadInv, CreditedInv
<1>6. CASE \/ mode = "equal" /\ StageTo("pool")
           \/ mode = "solo" /\ DirectFee > 0 /\ StageTo("names")
  <2>1. stage' \in {"pool", "names"}
    BY <1>6 DEF StageTo
  <2> QED
    BY <1>1, <1>2, <1>3, <2>1 DEF MoneyInv, ReadInv, CreditedInv, WholeInv
<1> QED
  BY <1>5, <1>6 DEF GoesOnDividing

LEMMA MoneyFinder ==
    ASSUME DivisionInv, Amount # 0, [RewardsNext]_rewardsVars, FindFinder \/ CreditFinder \/ FinderFails
    PROVE  MoneyInv'
<1>1. Around /\ winner' = winner /\ stage \in {"finder", "creditFinder"} /\ Total(reward) = 0
  BY DEF FindFinder, CreditFinder, FinderFails, DivisionInv, MoneyInv, CreditedInv
<1>2. FinderFee \in Nat
  BY FeeTypes
<1>3. CASE CreditFinder
  <2>1. /\ reward' = [reward EXCEPT ![finder] = @ + FinderFee] /\ pool' = pool /\ GoesOnDividing
        /\ finder \in Miners
    BY <1>3, MinersAssumption DEF CreditFinder, SetMinerReward, DivisionInv, TypeInv, StageInv
  <2>2. Total(reward') = FinderFee
    <3>1. reward \in [Miners -> Int]
      BY DEF DivisionInv, TypeInv, RewardsTypeOK, LedgerTypeOK
    <3>2. PICK a \in Int : a = FinderFee
      BY <1>2
    <3>3. reward' = [reward EXCEPT ![finder] = @ + a]
      BY <2>1, <3>2
    <3>4. Total(reward') = Total(reward) + a
      BY <2>1, <3>1, <3>3, TotalAt
    <3> QED
      BY <1>1, <3>2, <3>4
  <2> QED
    BY <1>1, <1>2, <2>1, <2>2, MoneyGoesOn
<1>4. CASE FinderFails
  <2>1. reward' = reward /\ pool' = pool /\ GoesOnDividing /\ ~Clean'
    BY <1>4, FaultGrows DEF FinderFails, ledgerVars, Clean, Calm, DivisionInv, RewardsInv
  <2> QED
    BY <1>1, <1>2, <2>1, MoneyGoesOn
<1>5. CASE FindFinder /\ GoesOnDividing
  <2>1. /\ reward' = reward /\ pool' = pool /\ stage = "finder"
    BY <1>5 DEF FindFinder, ledgerVars
  <2>2. FinderFee < 1 \/ Members(mini) = {}
    <3>1. stage' # "creditFinder"
      BY <1>5 DEF GoesOnDividing, StageTo, Return
    <3> QED
      BY <1>5, <3>1 DEF FindFinder
  <2>3. Clean' => FinderFee = 0
    <3>1. Clean' => Clean
      BY <1>1, AroundMoney
    <3>2. winner \in sent
      BY <1>1 DEF DivisionInv, TypeInv, StageInv
    <3>3. Clean => Members(mini) # {}
      BY <3>2 DEF Clean, Calm, DivisionInv, TracesInv
    <3> QED
      BY <1>2, <2>2, <3>1, <3>3
  <2> QED
    BY <1>1, <1>2, <1>5, <2>1, <2>3, MoneyGoesOn
<1>6. CASE FindFinder /\ ~GoesOnDividing
  <2>1. stage' = "creditFinder" /\ reward' = reward /\ divisor' = divisor
    BY <1>6 DEF FindFinder, ledgerVars
  <2>2. pool' = pool /\ pool.rewards = Amount /\ lateShares' = lateShares
    BY <1>1, <1>6 DEF FindFinder, ledgerVars, DivisionInv, TypeInv, StageInv, Around
  <2> QED
    BY <1>1, <2>1, <2>2 DEF DivisionInv, MoneyInv, ReadInv, CreditedInv, WholeInv
<1> QED
  BY <1>3, <1>4, <1>5, <1>6

\* The division ends before anything but the finder's reward is credited.
LEMMA MoneyEnds ==
    ASSUME DivisionInv, Amount # 0, [RewardsNext]_rewardsVars, Around, winner' = winner,
           UNCHANGED ledgerVars, stage \in {"names", "keys"}, Return, ~Clean'
    PROVE  MoneyInv'
<1>1. /\ stage' = "idle" /\ divisor' = 1 /\ reward' = reward /\ pool' = pool
      /\ pool.rewards = Amount /\ lateShares' = lateShares
  BY DEF Return, Around, ledgerVars, DivisionInv, TypeInv, StageInv, MoneyInv, ReadInv
<1>2. Within(divisor', lateShares', Total(reward'))
  <2>1. /\ Total(reward) <= Divisible /\ Total(reward) \in Int /\ lateShares \in Nat
    BY Numbers DEF DivisionInv, MoneyInv, CreditedInv
  <2> QED
    BY <1>1, <2>1, WithinBelow
<1> QED
  BY <1>1, <1>2 DEF MoneyInv, ReadInv, CreditedInv, WholeInv

\* Solo: the one account found gets the whole direct fee.
LEMMA MoneyNames ==
    ASSUME DivisionInv, Amount # 0, [RewardsNext]_rewardsVars, ReadNames \/ NamesFail
    PROVE  MoneyInv'
<1>1. /\ Around /\ winner' = winner /\ UNCHANGED ledgerVars /\ stage = "names" /\ mode = "solo"
      /\ Total(reward) <= FinderFee /\ Total(reward) \in Int
      /\ pool.rewards = Amount /\ winner \in sent
      /\ lateShares = 0 /\ divisor = 1
  BY Sums DEF ReadNames, NamesFail, DivisionInv, MoneyInv, CreditedInv, ReadInv, TypeInv, StageInv
<1>2. /\ FinderFee \in Nat /\ DirectFee \in Nat /\ FinderFee + DirectFee = Divisible
      /\ {Amount, PoolFee} \subseteq Nat /\ Divisible + PoolFee = Amount
  BY <1>1, FeeTypes, FeesAssumption DEF Divisible, FinderFee
<1>3. Clean' => /\ Total(reward) = FinderFee /\ poolDiff # 0
                /\ Cardinality(Members(jobDiff)) \in Nat \ {0}
  BY <1>1, AroundMoney, CleanMembers DEF DivisionInv, MoneyInv, WholeInv
<1>4. /\ reward' = reward /\ pool' = pool /\ lateShares' = lateShares
      /\ \A n : NearlyAll(n)' = NearlyAll(n)
  BY <1>1, AroundMoney DEF ledgerVars
<1>5. CASE NamesFail \/ poolDiff = 0
  <2>1. Return
    BY <1>5 DEF ReadNames, NamesFail
  <2>2. ~Clean'
    BY <1>3, <1>5, FaultGrows DEF NamesFail, Clean, Calm, DivisionInv, RewardsInv
  <2> QED
    BY <1>1, <2>1, <2>2, MoneyEnds
<1>6. CASE ReadNames /\ poolDiff # 0
  <2>1. /\ stage' = "credit" /\ toCredit' = {JobKey} /\ parts' = [parts EXCEPT ![JobKey] = DirectFee]
        /\ JobKey \in Miners /\ divisor' = divisor
    BY <1>6, MinersAssumption DEF ReadNames
  <2>2. \A m \in Miners : Remaining'[m] = IF m = JobKey THEN DirectFee ELSE 0
    BY <2>1 DEF Remaining, DivisionInv, TypeInv, RewardsTypeOK
  <2>3. Remaining' \in [Miners -> Int]
    <3>1. Remaining' = [m \in Miners |-> Remaining'[m]]
      BY DEF Remaining
    <3> QED
      BY <1>2, <2>2, <3>1
  <2>4. Total(Remaining') = DirectFee
    BY <2>1, <2>2, <2>3, TotalOne
  <2>5. \A m \in toCredit' : parts'[m] >= 0
    BY <1>2, <2>1 DEF DivisionInv, TypeInv, RewardsTypeOK
  <2>6. Within(divisor', lateShares', Total(reward') + Total(Remaining'))
    <3>1. Total(reward) + DirectFee <= Divisible /\ Total(reward) + DirectFee \in Int
      BY <1>1, <1>2
    <3> QED
      BY <1>1, <1>4, <2>1, <2>4, <3>1, WithinBelow
  <2>7. CreditedInv'
    BY <1>1, <1>4, <2>1, <2>5, <2>6 DEF CreditedInv
  <2>8. Clean' => NearlyAll(Total(reward) + DirectFee)
    BY <1>2, <1>3 DEF NearlyAll
  <2>9. WholeInv'
    BY <1>4, <2>1, <2>4, <2>8 DEF WholeInv
  <2>10. ReadInv'
    BY <1>1, <1>4, <2>1 DEF ReadInv
  <2> QED
    BY <2>7, <2>9, <2>10 DEF MoneyInv
<1> QED
  BY <1>5, <1>6

LEMMA MoneyPool ==
    ASSUME DivisionInv, Amount # 0, [RewardsNext]_rewardsVars, ReadPool \/ PoolFails
    PROVE  MoneyInv'
<1>1. /\ Around /\ winner' = winner /\ UNCHANGED ledgerVars
      /\ stage = "pool" /\ stage' = "keys" /\ divisor' = divisor
      /\ pool.rewards = Amount
      /\ readPool' = poolDiff \/ (readPool' = 0 /\ faults' # 0)
  BY FaultGrows
     DEF ReadPool, PoolFails, PoolRead, DivisionInv, RewardsInv, TypeInv, StageInv
<1>2. /\ reward' = reward /\ pool' = pool /\ poolDiff' = poolDiff /\ FinderFee' = FinderFee
      /\ (Clean' => Clean) /\ lateShares' = lateShares
  BY <1>1, AroundMoney DEF ledgerVars
<1>3. lateShares = 0 /\ divisor = 1 /\ poolDiff \in Nat
  BY <1>1, Numbers DEF DivisionInv, MoneyInv, ReadInv
<1>4. ReadInv'
  BY <1>1, <1>2, <1>3 DEF ReadInv
<1>5. CreditedInv'
  BY <1>1, <1>2 DEF DivisionInv, MoneyInv, CreditedInv
<1>6. WholeInv'
  BY <1>1, <1>2 DEF DivisionInv, MoneyInv, WholeInv
<1> QED
  BY <1>4, <1>5, <1>6 DEF MoneyInv

LEMMA MoneyKeys ==
    ASSUME DivisionInv, Amount # 0, [RewardsNext]_rewardsVars, ReadKeys \/ KeysFail
    PROVE  MoneyInv'
<1>1. /\ Around /\ winner' = winner /\ UNCHANGED ledgerVars
      /\ stage = "keys" /\ pool.rewards = Amount /\ winner \in sent
  BY DEF ReadKeys, KeysFail, DivisionInv, TypeInv, StageInv
<1>2. /\ reward' = reward /\ pool' = pool /\ FinderFee' = FinderFee /\ (Clean' => Clean)
      /\ Members(jobDiff)' = Members(jobDiff) /\ (faults' = 0 => faults = 0)
      /\ UNCHANGED <<poolDiff, jobDiff, lateShares>>
  BY <1>1, AroundMoney DEF ledgerVars
<1>3. CASE KeysFail \/ Members(jobDiff) = {}
  <2>1. Return
    BY <1>3 DEF ReadKeys, KeysFail
  <2>2. ~Clean'
    BY <1>1, <1>2, <1>3, FaultGrows, CleanMembers
       DEF KeysFail, DivisionInv, RewardsInv, Clean, Calm
  <2> QED
    BY <1>1, <2>1, <2>2, MoneyEnds
<1>4. CASE ReadKeys /\ Members(jobDiff) # {}
  <2>1. /\ stage' = "diffs" /\ toRead' = Members(jobDiff) /\ heads' = Cardinality(Members(jobDiff))
        /\ divisor' = readPool /\ UNCHANGED <<readPool, toCredit>>
    BY <1>4 DEF ReadKeys
  <2>2. toCredit = {}
    BY <1>1 DEF DivisionInv, TypeInv, RewardsTypeOK
  <2>3. ReadInv'
    BY <1>1, <1>2, <2>1, <2>2 DEF DivisionInv, RewardsInv, BookedInv, MoneyInv, ReadInv
  <2>4. CreditedInv'
    BY <1>1, <1>2, <2>1 DEF CreditedInv, DivisionInv, MoneyInv
  <2>5. WholeInv'
    BY <1>1, <1>2, <2>1 DEF DivisionInv, MoneyInv, WholeInv
  <2> QED
    BY <2>3, <2>4, <2>5 DEF MoneyInv
<1> QED
  BY <1>3, <1>4

\* What is divided and its late shares' part, next to the finder's reward.
LEMMA WithinParts ==
    ASSUME NEW r \in Nat, NEW l \in Nat, NEW x \in Int, NEW t \in Int, x <= FinderFee,
           FinderFee \in Nat, FinderFee + Divided + DirectFee = Divisible,
           r * t <= r * (Divided + DirectFee) + l * Divided
    PROVE  Within(r, l, x + t)
<1>1. Divided \in Nat /\ DirectFee \in Nat /\ Divisible \in Nat
  BY FeeTypes, FeesAssumption DEF Divisible
<1>2. PICK g \in Nat, y \in Nat : g = Divided + DirectFee /\ y = FinderFee - x
  BY <1>1
<1>3. x + t - Divisible = t - g - y
  BY <1>1, <1>2
<1>4. /\ \A a \in Nat, b, c, d \in Int : a * (b - c - d) = a * b - a * c - a * d
      /\ \A a, b \in Nat : a * b \in Nat
      /\ \A a \in Nat, b \in Int : a * b \in Int
  OBVIOUS
<1>5. r * (t - g - y) = r * t - r * g - r * y /\ r * y \in Nat /\ r * t \in Int /\ r * g \in Int
  BY <1>4
<1>6. r * t <= r * g + l * Divided /\ l * Divided \in Int
  BY <1>1, <1>2, <1>4
<1>7. r * (t - g - y) <= l * Divided
  BY <1>5, <1>6
<1>8. r * ((x + t) - Divisible) <= l * Divided
  <2>1. PICK n \in Int : n = (x + t) - Divisible
    BY <1>1
  <2>2. n = t - g - y
    BY <1>1, <1>3, <2>1
  <2>3. r * n <= l * Divided
    BY <1>7, <2>2
  <2> QED
    BY <2>1, <2>3
<1> QED
  BY <1>8 DEF Within

\* What a miner's part is, once it is read.
LEMMA PartRead ==
    ASSUME DivisionInv, stage = "diffs", NEW m \in toRead, NEW d \in Nat, d <= jobDiff[m],
           NEW p \in PartOf(d), parts' = [parts EXCEPT ![m] = p],
           UNCHANGED <<readPool, heads, jobDiff>>, toCredit' = toCredit \union {m}
    PROVE  /\ p \in Int
           /\ readPool # 0 =>
                 \A n \in toCredit' : Fits(heads, readPool, parts'[n], jobDiff[n])
           /\ Calm /\ d = jobDiff[m] =>
                 /\ readPool = Total(jobDiff)
                 /\ \A n \in toCredit' : parts'[n] = Part(jobDiff, Divided, DirectFee, n)
<1>1. /\ jobDiff \in [Miners -> Nat] /\ parts \in [Miners -> Int] /\ toRead \subseteq Miners
      /\ toCredit \subseteq Miners /\ poolDiff = Total(jobDiff)
      /\ readPool \in Nat /\ heads \in Nat \ {0} /\ lateShares \in Nat
  BY DEF DivisionInv, TypeInv, StageInv, RewardsTypeOK
<1>2. p \in Int
  BY PartTypes DEF DivisionInv
<1>3. \A n \in Miners : parts'[n] = IF n = m THEN p ELSE parts[n]
  BY <1>1, <1>2
<1>4. ASSUME readPool # 0
      PROVE  \A n \in toCredit' : Fits(heads, readPool, parts'[n], jobDiff[n])
  <2>1. Fits(heads, readPool, p, d)
    BY <1>1, <1>4, PartFits
  <2>2. Fits(heads, readPool, p, jobDiff[m])
    BY <1>1, <1>2, <2>1, FitsMore
  <2>3. \A n \in toCredit : Fits(heads, readPool, parts[n], jobDiff[n])
    BY <1>4 DEF DivisionInv, MoneyInv, ReadInv
  <2> QED
    BY <1>1, <1>3, <2>2, <2>3
<1>5. ASSUME Calm, d = jobDiff[m]
      PROVE  /\ readPool = Total(jobDiff)
             /\ \A n \in toCredit' : parts'[n] = Part(jobDiff, Divided, DirectFee, n)
  <2>1. /\ readPool = Total(jobDiff)
        /\ heads = Cardinality(Members(jobDiff))
        /\ \A n \in toCredit : parts[n] = Part(jobDiff, Divided, DirectFee, n)
    <3>1. lateShares = 0 /\ faults = 0
      BY <1>5 DEF Calm, DivisionInv, TypeInv, StageInv
    <3>2. /\ poolDiff = readPool + lateShares
          /\ heads = Cardinality(toRead \union toCredit)
          /\ toRead \union toCredit = Members(jobDiff)
          /\ \A n \in toCredit : parts[n] = Part(jobDiff, Divided, DirectFee, n)
      BY <1>5, <3>1 DEF DivisionInv, MoneyInv, ReadInv
    <3> QED
      BY <1>1, <3>1, <3>2
  <2>2. readPool # 0
    <3>1. m \in Miners /\ jobDiff[m] # 0
      BY <1>1, <1>5, <2>1 DEF Members, DivisionInv, MoneyInv, ReadInv
    <3> QED
      BY <1>1, <2>1, <3>1, SumPositive DEF Members
  <2>3. p = Part(jobDiff, Divided, DirectFee, m)
    BY <1>5, <2>1, <2>2 DEF PartOf, Part
  <2> QED
    BY <1>1, <1>3, <2>1, <2>3
<1> QED
  BY <1>2, <1>4, <1>5

\* The last miner's part completes what PartsFit and PartsAddUp are about.
LEMMA MoneyDiff ==
    ASSUME DivisionInv, Amount # 0, [RewardsNext]_rewardsVars, NEW m \in Miners,
           ReadDiff(m) \/ DiffFails(m)
    PROVE  MoneyInv'
<1>1. PICK d \in Nat : /\ d <= jobDiff[m] /\ DiffRead(m, d)
                       /\ (ReadDiff(m) /\ d = jobDiff[m]) \/ faults' # 0
  BY DiffsRead DEF DivisionInv
<1>2. /\ Around /\ winner' = winner /\ UNCHANGED ledgerVars
      /\ stage = "diffs" /\ mode = "equal" /\ pool.rewards = Amount /\ winner \in sent
      /\ UNCHANGED <<readPool, heads, divisor>>
      /\ m \in toRead /\ toRead' = toRead \ {m} /\ toCredit' = toCredit \union {m}
      /\ stage' = IF toRead' = {} THEN "credit" ELSE "diffs"
  BY <1>1 DEF DiffRead, DivisionInv, TypeInv, StageInv
<1>3. /\ reward' = reward /\ pool' = pool /\ FinderFee' = FinderFee
      /\ (Clean' => Clean) /\ (Calm' => Calm) /\ (faults' = 0 => faults = 0)
      /\ Members(jobDiff)' = Members(jobDiff)
      /\ UNCHANGED <<poolDiff, jobDiff, lateShares, late>>
      /\ \A n : NearlyAll(n)' = NearlyAll(n)
  BY <1>2, AroundMoney DEF ledgerVars
<1>4. /\ Total(reward) <= FinderFee /\ Total(reward) \in Int /\ FinderFee \in Nat
      /\ FinderFee + Divided + DirectFee = Divisible
      /\ Divided \in Nat /\ DirectFee \in Nat
      /\ {Amount, PoolFee, Divisible} \subseteq Nat /\ Divisible + PoolFee = Amount
  BY <1>2, Sums, FeeTypes, FeesAssumption DEF DivisionInv, MoneyInv, CreditedInv, Divisible
<1>5. /\ jobDiff \in [Miners -> Nat] /\ parts \in [Miners -> Int] /\ toRead \subseteq Miners
      /\ toCredit \subseteq Miners /\ poolDiff = Total(jobDiff)
      /\ readPool \in Nat /\ lateShares \in Nat
  BY DEF DivisionInv, TypeInv, RewardsTypeOK
<1>6. PICK p \in PartOf(d) : parts' = [parts EXCEPT ![m] = p]
  BY <1>1 DEF DiffRead
<1>7. /\ p \in Int
      /\ readPool # 0 => \A n \in toCredit' : Fits(heads, readPool, parts'[n], jobDiff[n])
      /\ Calm' => /\ readPool = Total(jobDiff)
                  /\ \A n \in toCredit' : parts'[n] = Part(jobDiff, Divided, DirectFee, n)
  <2>1. Calm' => Calm /\ d = jobDiff[m]
    BY <1>1, <1>3 DEF Calm
  <2>2. UNCHANGED <<readPool, heads, jobDiff>>
    BY <1>2, <1>3
  <2> QED
    BY <1>1, <1>2, <1>6, <2>1, <2>2, PartRead
<1>8. /\ divisor = readPool /\ heads = Cardinality(toRead' \union toCredit')
      /\ toRead' \union toCredit' = toRead \union toCredit
      /\ readPool # 0 => poolDiff = readPool + lateShares
      /\ faults = 0 => poolDiff = readPool + lateShares
      /\ Calm => toRead \union toCredit = Members(jobDiff)
  <2>1. toRead' \union toCredit' = toRead \union toCredit
    BY <1>2
  <2> QED
    BY <1>2, <2>1 DEF DivisionInv, MoneyInv, ReadInv
<1>9. CASE toRead' # {}
  <2>1. stage' = "diffs"
    BY <1>2, <1>9
  <2>2. \A n : Part(jobDiff, Divided, DirectFee, n)' = Part(jobDiff, Divided, DirectFee, n)
    BY <1>3 DEF Part
  <2>3. ReadInv'
    <3>1. pool'.rewards # 0
      BY <1>2, <1>3
    <3> QED
      BY <1>2, <1>3, <1>7, <1>8, <2>1, <2>2, <3>1 DEF ReadInv
  <2>4. CreditedInv'
    BY <1>2, <1>3, <1>4, <2>1 DEF CreditedInv, DivisionInv, MoneyInv
  <2>5. WholeInv'
    BY <1>2, <1>3, <2>1 DEF DivisionInv, MoneyInv, WholeInv
  <2> QED
    BY <2>3, <2>4, <2>5 DEF MoneyInv
<1>10. CASE toRead' = {}
  <2>1. stage' = "credit" /\ toCredit' = toRead \union toCredit
    BY <1>2, <1>8, <1>10
  <2>2. Remaining' \in [Miners -> Int] /\ Total(Remaining') \in Int
    <3>1. Remaining' \in [Miners -> Int]
      BY <1>5, <1>6, <1>7 DEF Remaining
    <3> QED
      BY <3>1, TotalType
  <2>3. ASSUME readPool # 0
        PROVE  /\ Within(divisor', lateShares', Total(reward') + Total(Remaining'))
               /\ \A n \in toCredit' : parts'[n] >= 0
    <3>1. PICK q \in [Miners -> Int] : q = Remaining'
      BY <2>2
    <3>2. /\ \A n \in toCredit' : q[n] = parts'[n]
          /\ \A n \in Miners \ toCredit' : q[n] = 0
          /\ toCredit' \in SUBSET Miners /\ toCredit' # {}
      BY <1>2, <1>5, <3>1 DEF Remaining
    <3>3. heads = Cardinality(toCredit') /\ Total(jobDiff) = readPool + lateShares
      BY <1>5, <1>8, <1>10, <2>3
    <3>4. \A n \in toCredit' : Fits(Cardinality(toCredit'), readPool, q[n], jobDiff[n])
      BY <1>7, <2>3, <3>2, <3>3
    <3>5. readPool * Total(q) <= readPool * (Divided + DirectFee) + lateShares * Divided
      BY <1>5, <3>2, <3>3, <3>4, PartsFit
    <3>6. Within(readPool, lateShares, Total(reward) + Total(q))
      BY <1>4, <1>5, <2>2, <3>1, <3>5, WithinParts
    <3>7. \A n \in toCredit' : parts'[n] >= 0
      BY <1>7, <2>3 DEF Fits
    <3> QED
      BY <1>2, <1>3, <1>8, <3>1, <3>6, <3>7
  <2>4. ASSUME Clean'
        PROVE  NearlyAll(Total(reward) + Total(Remaining'))
    <3>1. Calm' /\ Calm /\ Total(reward) = FinderFee
      BY <1>2, <1>3, <2>4 DEF Clean, DivisionInv, MoneyInv, WholeInv
    <3>2. toCredit' = Members(jobDiff) /\ Members(jobDiff) # {}
      BY <1>2, <1>8, <2>1, <3>1
    <3>3. Remaining' = Parts(jobDiff, Divided, DirectFee)
      BY <1>7, <3>1, <3>2 DEF Remaining, Parts
    <3>4. Total(Remaining') + Cardinality(Members(jobDiff)) > Divided + DirectFee
      BY <1>4, <1>5, <3>2, <3>3, PartsAddUp
    <3> QED
      BY <1>4, <2>2, <3>1, <3>4, MembersCounted DEF NearlyAll
  <2>5. ReadInv'
    BY <1>2, <1>3, <2>1 DEF ReadInv
  <2>6. CreditedInv'
    BY <1>2, <1>3, <1>8, <2>1, <2>3 DEF CreditedInv
  <2>7. WholeInv'
    BY <1>3, <2>1, <2>4 DEF WholeInv
  <2> QED
    BY <2>5, <2>6, <2>7 DEF MoneyInv
<1> QED
  BY <1>9, <1>10

\* A credit moves a part from what remains to what is credited; one that
\* fails drops it.
LEMMA MoneyCredit ==
    ASSUME DivisionInv, Amount # 0, [RewardsNext]_rewardsVars, NEW m \in Miners,
           Credit(m) \/ CreditFails(m)
    PROVE  MoneyInv'
<1>1. /\ Around /\ winner' = winner /\ pool' = pool
      /\ stage = "credit" /\ pool.rewards = Amount /\ m \in toCredit /\ CreditedNext(m)
  BY DEF Credit, CreditFails, DivisionInv, TypeInv, StageInv, SetMinerReward, ledgerVars
<1>2. /\ (Clean' => Clean) /\ UNCHANGED <<lateShares, divisor>> /\ pool'.rewards # 0
      /\ \A n : NearlyAll(n)' = NearlyAll(n)
  BY <1>1, AroundMoney DEF CreditedNext, Return
<1>3. /\ reward \in [Miners -> Int] /\ parts \in [Miners -> Int] /\ parts[m] \in Int
      /\ Remaining \in [Miners -> Int] /\ Total(Remaining) \in Int /\ Total(reward) \in Int
      /\ Divisible \in Int
  BY Sums, FeesAssumption DEF DivisionInv, TypeInv, RewardsTypeOK, LedgerTypeOK, Divisible
<1> DEFINE rest == [n \in Miners |-> IF n \in toCredit \ {m} THEN parts[n] ELSE 0]
<1>4. rest \in [Miners -> Int]
  BY <1>3
<1>5. Total(Remaining) = Total(rest) + parts[m]
  <2>1. \A n \in Miners : Remaining[n] = [rest EXCEPT ![m] = @ + parts[m]][n]
    BY <1>1, <1>3 DEF Remaining
  <2>2. Remaining = [rest EXCEPT ![m] = @ + parts[m]]
    BY <1>3, <1>4, <2>1
  <2>3. PICK a \in Int : a = parts[m]
    BY <1>3
  <2>4. Remaining = [rest EXCEPT ![m] = @ + a]
    BY <2>2, <2>3
  <2> HIDE DEF rest
  <2>5. Total(Remaining) = Total(rest) + a
    BY <1>4, <2>4, TotalAt
  <2> QED
    BY <2>3, <2>5
<1>6. Total(rest) \in Int
  <2> HIDE DEF rest
  <2> QED
    BY <1>4, TotalType
<1>7. \/ Credit(m) /\ Total(reward') = Total(reward) + parts[m]
      \/ CreditFails(m) /\ Total(reward') = Total(reward) /\ faults' # 0
  <2>1. CASE Credit(m)
    <3>1. PICK a \in Int : a = parts[m]
      BY <1>3
    <3>2. reward' = [reward EXCEPT ![m] = @ + a]
      BY <2>1, <3>1 DEF Credit, SetMinerReward
    <3>3. Total(reward') = Total(reward) + a
      BY <1>3, <3>2, TotalAt
    <3> QED
      BY <2>1, <3>1, <3>3
  <2>2. CASE CreditFails(m)
    BY <2>2, FaultGrows DEF CreditFails, ledgerVars, DivisionInv, RewardsInv
  <2> QED
    BY <2>1, <2>2
<1>8. ASSUME divisor # 0
      PROVE  /\ Within(divisor, lateShares, Total(reward') + Total(rest))
             /\ \A n \in toCredit : parts[n] >= 0
             /\ Total(rest) >= 0
  <2>1. /\ Within(divisor, lateShares, Total(reward) + Total(Remaining))
        /\ \A n \in toCredit : parts[n] >= 0
    BY <1>1, <1>8 DEF DivisionInv, MoneyInv, CreditedInv
  <2>2. parts[m] >= 0 /\ divisor \in Nat /\ lateShares \in Nat
    BY <1>1, <2>1, Numbers DEF DivisionInv
  <2>3. Total(rest) >= 0
    <3> DEFINE zero == [n \in Miners |-> 0]
    <3>1. /\ zero \in [Miners -> Int] /\ \A n \in Miners : zero[n] = 0
          /\ \A n \in Miners : zero[n] <= rest[n]
      BY <2>1
    <3> HIDE DEF rest, zero
    <3>2. Total(zero) = 0
      BY <3>1, TotalZero
    <3>3. Total(zero) <= Total(rest)
      BY <1>4, <3>1, TotalMono
    <3> QED
      BY <3>2, <3>3
  <2> HIDE DEF rest
  <2>4. /\ Total(reward') + Total(rest) <= Total(reward) + Total(Remaining)
        /\ Total(reward') + Total(rest) \in Int /\ Total(reward) + Total(Remaining) \in Int
    BY <1>3, <1>5, <1>6, <1>7, <2>2
  <2> QED
    BY <2>1, <2>2, <2>3, <2>4, WithinLess
<1>9. Clean' => NearlyAll(Total(reward') + Total(rest))
  <2> SUFFICES ASSUME Clean' PROVE NearlyAll(Total(reward') + Total(rest))
    OBVIOUS
  <2>1. NearlyAll(Total(reward) + Total(Remaining))
    BY <1>1, <1>2 DEF DivisionInv, MoneyInv, WholeInv
  <2>2. Total(reward') = Total(reward) + parts[m]
    BY <1>7 DEF Clean, Calm
  <2>3. Total(reward') + Total(rest) = Total(reward) + Total(Remaining)
    <3> HIDE DEF rest
    <3> QED
      BY <1>3, <1>5, <1>6, <2>2
  <2> QED
    BY <2>1, <2>3
<1>10. CASE toCredit = {m}
  <2>1. stage' = "idle"
    BY <1>1, <1>10 DEF CreditedNext, Return
  <2>2. Total(rest) = 0
    <3>1. \A n \in Miners : rest[n] = 0
      BY <1>10
    <3> HIDE DEF rest
    <3> QED
      BY <1>4, <3>1, TotalZero
  <2>3. Total(reward') \in Int
    BY <1>3, <1>7
  <2> HIDE DEF rest
  <2>4. CreditedInv'
    BY <1>1, <1>2, <1>8, <2>1, <2>2, <2>3 DEF CreditedInv
  <2>5. WholeInv'
    BY <1>2, <1>9, <2>1, <2>2, <2>3 DEF WholeInv
  <2> QED
    BY <1>1, <1>2, <2>1, <2>4, <2>5 DEF MoneyInv, ReadInv
<1>11. CASE toCredit # {m}
  <2>1. stage' = "credit" /\ toCredit' = toCredit \ {m} /\ parts' = parts
    BY <1>1, <1>11 DEF CreditedNext
  <2>2. Remaining' = rest
    BY <2>1 DEF Remaining
  <2> HIDE DEF rest
  <2>3. CreditedInv'
    BY <1>1, <1>2, <1>8, <2>1, <2>2 DEF CreditedInv
  <2>4. WholeInv'
    BY <1>2, <1>9, <2>1, <2>2 DEF WholeInv
  <2> QED
    BY <1>1, <1>2, <2>1, <2>3, <2>4 DEF MoneyInv, ReadInv
<1> QED
  BY <1>10, <1>11

\* At no stage has more been credited than that.
LEMMA WithinReward ==
    ASSUME DivisionInv, divisor # 0 PROVE Within(divisor, lateShares, Total(reward))
<1>1. /\ divisor \in Nat /\ lateShares \in Nat /\ FinderFee \in Nat /\ FinderFee <= Divisible
      /\ Divisible \in Nat /\ Total(reward) \in Int /\ Total(Remaining) \in Int
  BY Numbers, Sums DEF DivisionInv
<1>2. CASE stage = "credit"
  <2>1. /\ Within(divisor, lateShares, Total(reward) + Total(Remaining))
        /\ \A n \in toCredit : parts[n] >= 0
    BY <1>2 DEF DivisionInv, MoneyInv, CreditedInv
  <2> DEFINE zero == [n \in Miners |-> 0]
  <2>2. /\ zero \in [Miners -> Int] /\ \A n \in Miners : zero[n] = 0
        /\ \A n \in Miners : zero[n] <= Remaining[n]
    BY <2>1 DEF Remaining
  <2> HIDE DEF zero
  <2>3. Total(zero) = 0
    BY <2>2, TotalZero
  <2>4. Total(zero) <= Total(Remaining)
    BY <2>2, Sums, TotalMono DEF DivisionInv
  <2>5. /\ Total(reward) <= Total(reward) + Total(Remaining)
        /\ Total(reward) + Total(Remaining) \in Int
    BY <1>1, <2>3, <2>4
  <2> QED
    BY <1>1, <2>1, <2>5, WithinLess
<1>3. CASE stage \notin {"credit", "idle"}
  <2>1. Total(reward) <= Divisible
    BY <1>1, <1>3
       DEF DivisionInv, MoneyInv, CreditedInv, RewardsInv, BookedInv, TypeInv, RewardsTypeOK
  <2> QED
    BY <1>1, <2>1, WithinBelow
<1>4. CASE stage = "idle"
  BY <1>4 DEF DivisionInv, MoneyInv, CreditedInv
<1> QED
  BY <1>2, <1>3, <1>4

\* So wherever the process stops, it leaves no more than that.
LEMMA MoneyCrash == ASSUME DivisionInv, Amount # 0, Crash PROVE MoneyInv'
<1>1. stage' = "idle" /\ UNCHANGED <<ledgerVars, lateShares, divisor>>
  BY DEF Crash, Return
<1>2. ~Clean'
  BY FaultGrows DEF Crash, DivisionInv, RewardsInv, Clean, Calm
<1>3. CreditedInv'
  BY <1>1, WithinReward DEF CreditedInv, DivisionInv, MoneyInv, ledgerVars
<1>4. ReadInv'
  BY <1>1 DEF ReadInv, DivisionInv, MoneyInv, ledgerVars
<1> QED
  BY <1>2, <1>3, <1>4 DEF MoneyInv, WholeInv

LEMMA MoneyNext ==
    ASSUME Amount # 0, DivisionInv, [RewardsNext]_rewardsVars PROVE MoneyInv'
<1>1. ASSUME NEW c \in Conns, ProcessShare(c) PROVE MoneyInv'
  BY <1>1, MoneyShare
<1>2. CASE ProcessReward
  BY <1>2, MoneyDeliver, MoneyBook, MoneyFinder, MoneyNames, MoneyPool, MoneyKeys, MoneyDiff,
     MoneyCredit
     DEF ProcessReward
<1>3. CASE UNCHANGED rewardsVars
  <2>1. /\ UNCHANGED <<ledgerVars, inputVars, stage, readVars, poolDiff, jobDiff, lateShares>>
        /\ (Clean' => Clean) /\ (Calm' => Calm) /\ (faults' = 0 => faults = 0)
    BY <1>3 DEF rewardsVars, shareVars, boundVars, Clean, Calm
  <2> QED
    BY <2>1, MoneyElsewhere DEF DivisionInv
<1> QED
  BY <1>1, <1>2, <1>3, MoneyCrash DEF RewardsNext

\* The invariant behind the two theorems about the division.
THEOREM DivisionInvariant == ASSUME Amount # 0 PROVE RewardsSpec => []DivisionInv
<1>1. RewardsInit => TypeInv /\ TracesInv /\ MoneyInv
  BY TypeInit, TracesInit, MoneyInit
<1>2. RewardsInv /\ RewardsInv' /\ TypeInv /\ TracesInv /\ MoneyInv /\ [RewardsNext]_rewardsVars
          => TypeInv' /\ TracesInv' /\ MoneyInv'
  BY TypeNext, TracesNext, MoneyNext DEF DivisionInv
<1>3. RewardsInv /\ TypeInv /\ TracesInv /\ MoneyInv => DivisionInv
  BY DEF DivisionInv
<1> QED
  BY <1>1, <1>2, <1>3, RewardsInvariant, PTL DEF RewardsSpec

\* What the invariant means for the reward.
LEMMA DivisionMeans ==
    ASSUME DivisionInv PROVE WonOnce /\ NeverOverDistributed /\ FullyDistributed
<1>1. WonOnce
  BY DEF DivisionInv, RewardsInv, BookedInv
<1>2. NeverOverDistributed
  <2> SUFFICES ASSUME divisor # 0 PROVE divisor * Excess <= lateShares * Divided
    BY DEF NeverOverDistributed
  <2>1. Within(divisor, lateShares, Total(reward))
    BY WithinReward
  <2>2. CASE pool.rewards = 0
    <3>1. Excess = 0
      BY <2>2 DEF Excess, DivisionInv, MoneyInv, CreditedInv
    <3>2. Within(divisor, lateShares, Divisible)
      BY Numbers, WithinBelow DEF DivisionInv
    <3>3. Divisible - Divisible = 0
      BY Numbers DEF DivisionInv
    <3> QED
      BY <3>1, <3>2, <3>3 DEF Within
  <2>3. CASE pool.rewards # 0
    BY <2>1, <2>3 DEF Within, Excess, Divisible
  <2> QED
    BY <2>2, <2>3
<1>3. FullyDistributed
  <2> SUFFICES ASSUME faults = 0, ~late, Quiet, stage = "idle", pool.rewards # 0
               PROVE  Total(reward) + PoolFee + Cardinality(Members(jobDiff)) > Amount
    BY DEF FullyDistributed
  <2>1. winner \in sent /\ winner \in Conns
    BY DEF DivisionInv, RewardsInv, BookedInv, ShareType
  <2>2. at[winner] = "done"
    BY <2>1 DEF Quiet, DivisionInv, RewardsInv, BookedInv
  <2> QED
    BY <2>1, <2>2 DEF Clean, Calm, DivisionInv, MoneyInv, WholeInv, NearlyAll
<1> QED
  BY <1>1, <1>2, <1>3

\* Whatever fails, wherever the process stops and however often the message
\* arrives, the miners are never credited more than the reward without the
\* pool's fee, but for the part that shares recorded between GetProportion's
\* reads have in the sum it divides by; only a sum it reads as 0 sets no bound.
THEOREM NoOverDistribution == ASSUME Amount # 0 PROVE RewardsSpec => []NeverOverDistributed
<1>1. DivisionInv => NeverOverDistributed
  BY DivisionMeans
<1> QED
  BY <1>1, DivisionInvariant, PTL

\* When nothing fails and no share is late, the whole reward is divided but
\* for less than one unit per miner lost in rounding (DivideEqual, DivideSolo).
THEOREM WholeRewardDivided == ASSUME Amount # 0 PROVE RewardsSpec => []FullyDistributed
<1>1. DivisionInv => FullyDistributed
  BY DivisionMeans
<1> QED
  BY <1>1, DivisionInvariant, PTL

-----------------------------------------------------------------------------
(* The ledger shared with the payment task *)

\* Beside the division's own invariant: what the payment task is about to record
\* is a number, and no credit is negative unless a sum is read as 0.
SettleInv ==
    /\ DivisionInv
    /\ owed \in [Miners -> Int]
    /\ divisor # 0 => \A m \in Miners : reward[m] >= 0

\* Everything the division of a reward rests on, but for what SetChunkPayment
\* changes of the accounts.
LEMMA DivisionApart ==
    ASSUME DivisionInv, LedgerTypeOK',
           pool' \in [rewards : Nat, unpaid : Int, payment : Int],
           pool'.rewards = pool.rewards, reward' = reward,
           UNCHANGED <<inputVars, shareVars, stage, winner, readVars, boundVars, lateShares, late>>
    PROVE  DivisionInv'
<1>1. RewardsInv'
  BY DEF DivisionInv, RewardsInv, ShareType, BookedInv, WonOnce, RememberedInv, ScoresInv,
         Undisturbed, SingleShares, Lowest, Members, inputVars, shareVars, boundVars
<1>2. TypeInv'
  BY DEF DivisionInv, TypeInv, RewardsTypeOK, StageInv, Members, inputVars, shareVars,
         readVars, boundVars
<1>3. TracesInv'
  BY DEF DivisionInv, TracesInv, Members, inputVars, shareVars, boundVars
<1>4. MoneyInv'
  <2>1. /\ Members(jobDiff)' = Members(jobDiff) /\ Remaining' = Remaining
        /\ FinderFee' = FinderFee /\ (Clean' <=> Clean) /\ (Calm' <=> Calm)
    BY DEF Members, Remaining, FinderFee, Clean, Calm, inputVars, shareVars, readVars, boundVars
  <2>2. \A m : Part(jobDiff, Divided, DirectFee, m)' = Part(jobDiff, Divided, DirectFee, m)
    BY DEF Part, shareVars
  <2>3. ReadInv'
    BY <2>1, <2>2 DEF DivisionInv, MoneyInv, ReadInv, readVars, shareVars, boundVars
  <2>4. CreditedInv'
    BY <2>1 DEF DivisionInv, MoneyInv, CreditedInv, readVars
  <2>5. WholeInv'
    BY <2>1 DEF DivisionInv, MoneyInv, WholeInv, NearlyAll
  <2> QED
    BY <2>3, <2>4, <2>5 DEF MoneyInv
<1> QED
  BY <1>1, <1>2, <1>3, <1>4 DEF DivisionInv

\* A step of the payment task changes no more of the accounts than that.
LEMMA PayingTypes ==
    ASSUME SettleInv, Task!PaymentStep
    PROVE  /\ LedgerTypeOK' /\ pool' \in [rewards : Nat, unpaid : Int, payment : Int]
           /\ pool'.rewards = pool.rewards /\ reward' = reward
           /\ owed' \in [Miners -> Int]
<1>1. /\ LedgerTypeOK /\ pool \in [rewards : Nat, unpaid : Int, payment : Int]
      /\ owed \in [Miners -> Int]
  BY DEF SettleInv, DivisionInv, TypeInv, RewardsTypeOK, RewardsInv, ShareType
<1>2. ASSUME NEW m \in Miners,
             Task!ReadUnpaid(m) \/ Task!ReadFails(m) \/ Task!TakeMiner(m)
      PROVE  UNCHANGED ledgerVars /\ owed' \in [Miners -> Int]
  BY <1>1, <1>2
     DEF Task!ReadUnpaid, Task!ReadFails, Task!TakeMiner, Task!ledgerVars, ledgerVars,
         LedgerTypeOK
<1>3. CASE \/ Task!Tick \/ Task!ScanFails \/ Task!ReadDone \/ Task!LoopEnds
           \/ Task!TransferImpossible \/ Task!TransferAccepted
           \/ Task!TransferRefused \/ Task!TransferUnanswered \/ Task!TransferHangs
           \/ Task!RecordFails
  <2>1. Task!ZeroForAll \in [Miners -> Int]
    BY DEF Task!ZeroForAll
  <2>2. UNCHANGED ledgerVars
    BY <1>3
       DEF Task!Tick, Task!ScanFails, Task!ReadDone, Task!LoopEnds, Task!TransferImpossible,
           Task!TransferAccepted, Task!TransferRefused, Task!TransferUnanswered,
           Task!TransferHangs, Task!RecordFails, Task!ledgerVars, ledgerVars
  <2>3. owed' \in [Miners -> Int]
    BY <1>1, <1>3, <2>1
       DEF Task!Tick, Task!ScanFails, Task!ReadDone, Task!LoopEnds, Task!TransferImpossible,
           Task!TransferAccepted, Task!TransferRefused, Task!TransferUnanswered,
           Task!TransferHangs, Task!RecordFails, Task!EndRound, Task!PayChunkReturns
  <2> QED
    BY <1>1, <2>2, <2>3 DEF ledgerVars, LedgerTypeOK
<1>4. CASE Task!Record
  <2> DEFINE paid == [m \in Miners |-> IF m \in batch THEN owed[m] ELSE 0]
  <2>1. paid \in [Miners -> Int] /\ Task!ZeroForAll \in [Miners -> Int]
    BY <1>1 DEF Task!ZeroForAll
  <2>2. Task!Total(paid) = Total(paid) /\ Total(paid) \in Int
    <3>1. Task!Total(paid) = Total(paid)
      BY DEF Total, Task!Total, MapThenSumSet, Task!MapThenSumSet, MapThenFoldSet,
             Task!MapThenFoldSet
    <3> QED
      BY <2>1, <3>1, TotalType
  <2> DEFINE total == Total(paid)
  <2>3. /\ pool' = [pool EXCEPT !.payment = @ + total, !.unpaid = @ - total]
        /\ payment' = [m \in Miners |-> payment[m] + paid[m]]
        /\ unpaid' = [m \in Miners |-> unpaid[m] - paid[m]]
        /\ reward' = reward
    BY <1>4, <2>2 DEF Task!Record, Task!SetChunkPayment
  <2>4. owed' \in [Miners -> Int]
    BY <1>1, <1>4, <2>1 DEF Task!Record, Task!EndRound, Task!PayChunkReturns
  <2> HIDE DEF paid
  <2>5. total \in Int
    BY <2>2
  <2> HIDE DEF total
  <2>6. LedgerTypeOK'
    BY <1>1, <2>1, <2>3 DEF LedgerTypeOK
  <2>7. pool' = [rewards |-> pool.rewards, unpaid |-> pool.unpaid - total,
                 payment |-> pool.payment + total]
    BY <1>1, <2>3
  <2>8. pool' \in [rewards : Nat, unpaid : Int, payment : Int] /\ pool'.rewards = pool.rewards
    BY <1>1, <2>5, <2>7
  <2> QED
    BY <2>3, <2>4, <2>6, <2>8
<1>5. CASE \E m \in Miners :
              Task!ReadUnpaid(m) \/ Task!ReadFails(m) \/ Task!TakeMiner(m)
  BY <1>1, <1>2, <1>5 DEF ledgerVars, LedgerTypeOK
<1> QED
  BY <1>3, <1>4, <1>5 DEF Task!PaymentStep

\* A credit the division makes is one the payment task takes into account.
LEMMA CreditFits ==
    ASSUME SettleInv, NEW m \in Miners, NEW a \in Nat, a <= Undivided,
           Total(reward) >= 0, pool.rewards = Amount,
           SetMinerReward(m, a), UNCHANGED taskVars
    PROVE  Task!PayoutsNext
<1>1. reward \in [Miners -> Int] /\ Total(reward) \in Int /\ Amount \in Nat /\ a \in Int
  BY TotalType, FeesAssumption DEF SettleInv, DivisionInv, TypeInv, RewardsTypeOK, LedgerTypeOK
<1>2. a \in 0..Amount
  BY <1>1 DEF Undivided
<1>3. reward' = [reward EXCEPT ![m] = @ + a] /\ pool' = pool
  BY DEF SetMinerReward
<1>4. Total([reward EXCEPT ![m] = @ + a]) = Total(reward) + a
  BY <1>1, TotalAt
<1>5. Undivided' = Undivided - a
  BY <1>1, <1>3, <1>4 DEF Undivided
<1>6. Task!Credit(m, a)
  BY <1>5 DEF Task!Credit, SetMinerReward, Task!SetMinerReward, taskVars, Task!roundVars
<1> QED
  BY <1>2, <1>6 DEF Task!PayoutsNext

\* A sum of amounts none of which is negative is not negative, and no less than
\* each of them.
LEMMA SumCovers ==
    ASSUME NEW f \in [Miners -> Int], \A m \in Miners : f[m] >= 0, NEW n \in Miners
    PROVE  Total(f) >= f[n] /\ Total(f) >= 0
<1> DEFINE one == [m \in Miners |-> IF m = n THEN f[n] ELSE 0]
<1>1. /\ one \in [Miners -> Int] /\ one[n] = f[n] /\ f[n] \in Int
      /\ \A m \in Miners : m # n => one[m] = 0
      /\ \A m \in Miners : one[m] <= f[m]
  OBVIOUS
<1> HIDE DEF one
<1>2. Total(one) = f[n]
  BY <1>1, TotalOne
<1>3. Total(one) <= Total(f) /\ Total(f) \in Int
  BY <1>1, TotalMono, TotalType
<1> QED
  BY <1>1, <1>2, <1>3

\* The message goroutine's steps are the task's environment.
LEMMA DividingFits ==
    ASSUME SettleInv, Amount # 0, Dividing
    PROVE  \/ Task!PayoutsNext \/ UNCHANGED <<ledgerVars, taskVars>>
           \/ OutOfProportion /\ \E m \in Miners : Credit(m) /\ UNCHANGED taskVars
<1>1. UNCHANGED taskVars
  BY DEF Dividing
<1>2. /\ reward \in [Miners -> Int] /\ Total(reward) \in Int /\ Amount \in Nat \ {0}
      /\ pool \in [rewards : Nat, unpaid : Int, payment : Int]
      /\ FinderFee \in Nat /\ FinderFee <= Amount
  BY TotalType, FeesAssumption, FeeTypes
     DEF SettleInv, DivisionInv, TypeInv, RewardsTypeOK, LedgerTypeOK, RewardsInv, ShareType,
         FinderFee
<1>3. ASSUME NEW c \in Conns, ProcessShare(c) PROVE UNCHANGED ledgerVars
  BY <1>3
     DEF ProcessShare, Compare, CompareFails, Store, StoreFails, Trim, TrimFails, Send, Write,
         WriteFails, Elsewhere
<1>4. CASE \/ \E c \in Conns : Deliver(c) \/ LookupFails(c)
           \/ FindFinder \/ FinderFails \/ ReadNames \/ NamesFail \/ ReadPool \/ PoolFails
           \/ ReadKeys \/ KeysFail
           \/ \E m \in Miners : ReadDiff(m) \/ DiffFails(m) \/ CreditFails(m)
  <2>1. UNCHANGED ledgerVars
    BY <1>4
     DEF Deliver, LookupFails, FindFinder, FinderFails, ReadNames, NamesFail, ReadPool, PoolFails,
         PoolRead, ReadKeys, KeysFail, ReadDiff, DiffFails, DiffRead, CreditFails, ledgerVars
  <2> QED
    BY <1>1, <2>1
<1>5. ASSUME Win \/ WinFails PROVE Task!PayoutsNext \/ UNCHANGED ledgerVars
  <2> SUFFICES ASSUME stage = "win", SetWinReward(Amount) PROVE Task!PayoutsNext
    BY <1>5 DEF Win, WinFails
  <2>1. pool.rewards = 0 /\ pool'.rewards = pool.rewards + Amount
    BY <1>2 DEF SetWinReward, SettleInv, DivisionInv, RewardsInv, BookedInv
  <2>2. Undivided' = Undivided + Amount
    BY <1>2, <2>1 DEF Undivided, SetWinReward
  <2>3. Task!Win(Amount)
    BY <1>1, <1>2, <2>1, <2>2
       DEF Task!Win, SetWinReward, Task!SetWinReward, taskVars, Task!roundVars
  <2> QED
    BY <1>2, <2>3 DEF Task!PayoutsNext
<1>6. CASE CreditFinder
  <2>1. /\ SetMinerReward(finder, FinderFee) /\ finder \in Miners
        /\ pool.rewards = Amount /\ Total(reward) = 0
    BY <1>6, MinersAssumption
       DEF CreditFinder, Around, SettleInv, DivisionInv, TypeInv, StageInv, MoneyInv, CreditedInv
  <2>2. FinderFee <= Undivided
    BY <1>2, <2>1 DEF Undivided
  <2> QED
    BY <1>1, <1>2, <2>1, <2>2, CreditFits
<1>7. ASSUME NEW m \in Miners, Credit(m), ~OutOfProportion PROVE Task!PayoutsNext
  <2>1. /\ SetMinerReward(m, parts[m]) /\ m \in toCredit /\ stage = "credit"
        /\ pool.rewards = Amount
        /\ Within(divisor, lateShares, Total(reward) + Total(Remaining))
        /\ \A n \in toCredit : parts[n] >= 0
        /\ \A n \in Miners : reward[n] >= 0
        /\ parts \in [Miners -> Int]
        /\ divisor \in Nat \ {0} /\ lateShares = 0
    BY <1>7
       DEF Credit, OutOfProportion, SettleInv, DivisionInv, TypeInv, RewardsTypeOK, StageInv, MoneyInv,
           CreditedInv
  <2>2. /\ Remaining \in [Miners -> Int] /\ Remaining[m] = parts[m]
        /\ \A n \in Miners : Remaining[n] >= 0
    BY <2>1 DEF Remaining
  <2>3. Total(Remaining) >= parts[m] /\ Total(Remaining) \in Int
    BY <2>2, SumCovers, TotalType
  <2>4. Total(reward) >= 0
    BY <1>2, <2>1, SumCovers
  <2>5. Total(reward) + Total(Remaining) <= Divisible
    <3>1. Total(reward) + Total(Remaining) \in Int
      BY <1>2, <2>3
    <3> QED
      BY <2>1, <3>1, WithinMeans
  <2>6. parts[m] \in Nat /\ parts[m] <= Undivided
    BY <1>2, <2>1, <2>3, <2>5, FeesAssumption DEF Undivided, Divisible
  <2> QED
    BY <1>1, <2>1, <2>4, <2>6, CreditFits
<1> QED
  BY <1>1, <1>3, <1>4, <1>5, <1>6, <1>7 DEF Dividing, ProcessReward

LEMMA SettleInit == SettlementInit => SettleInv
<1> SUFFICES ASSUME SettlementInit PROVE SettleInv
  OBVIOUS
<1>1. DivisionInv
  BY RewardsInitInv, TypeInit, TracesInit, MoneyInit DEF SettlementInit, DivisionInv
<1>2. owed \in [Miners -> Int] /\ \A m \in Miners : reward[m] >= 0
  BY DEF SettlementInit, Task!PayoutsInit, Task!ZeroForAll, RewardsInit, LedgerInit, ZeroForAll
<1> QED
  BY <1>1, <1>2 DEF SettleInv

\* The accounts of miners only grow, unless a sum is read as 0.
LEMMA CreditsGrow ==
    ASSUME SettleInv, divisor' # 0, [RewardsNext]_rewardsVars
    PROVE  \A m \in Miners : reward'[m] >= 0
<1>1. /\ reward \in [Miners -> Int] /\ FinderFee \in Nat /\ parts \in [Miners -> Int]
  BY FeeTypes DEF SettleInv, DivisionInv, TypeInv, RewardsTypeOK, LedgerTypeOK
<1>2. divisor # 0
  <2>1. divisor' = divisor \/ stage = "keys"
    BY DEF RewardsNext, ProcessShare, ProcessReward, Compare, CompareFails, Store, StoreFails,
           Trim, TrimFails, Send, Write, WriteFails, Elsewhere, Deliver, LookupFails, StageTo,
           Win, WinFails, FindFinder, CreditFinder, FinderFails, GoesOnDividing, ReadNames,
           NamesFail, ReadPool, PoolFails, PoolRead, ReadKeys, KeysFail, ReadDiff, DiffFails,
           DiffRead, Credit, CreditFails, CreditedNext, Crash, Return, readVars, rewardsVars
  <2> QED
    BY <2>1 DEF SettleInv, DivisionInv, MoneyInv, ReadInv
<1>3. CASE CreditFinder
  BY <1>1, <1>2, <1>3 DEF CreditFinder, SetMinerReward, SettleInv
<1>4. ASSUME NEW m \in Miners, Credit(m) PROVE \A n \in Miners : reward'[n] >= 0
  <2>1. parts[m] >= 0
    BY <1>2, <1>4 DEF Credit, SettleInv, DivisionInv, MoneyInv, CreditedInv
  <2> QED
    BY <1>1, <1>2, <1>4, <2>1 DEF Credit, SetMinerReward, SettleInv
<1>5. CASE Win \/ WinFails
  BY <1>2, <1>5 DEF Win, WinFails, SetWinReward, SettleInv, ledgerVars
<1>6. CASE \/ \E c \in Conns : ProcessShare(c) \/ Deliver(c) \/ LookupFails(c)
           \/ FindFinder \/ FinderFails \/ ReadNames \/ NamesFail \/ ReadPool \/ PoolFails
           \/ ReadKeys \/ KeysFail
           \/ (\E m \in Miners : ReadDiff(m) \/ DiffFails(m) \/ CreditFails(m))
           \/ Crash \/ UNCHANGED rewardsVars
  <2>1. reward' = reward
    BY <1>6
       DEF ProcessShare, Compare, CompareFails, Store, StoreFails, Trim, TrimFails, Send, Write,
           WriteFails, Elsewhere, Deliver, LookupFails, FindFinder, FinderFails, ReadNames,
           NamesFail, ReadPool, PoolFails, PoolRead, ReadKeys, KeysFail, ReadDiff, DiffFails,
           DiffRead, CreditFails, Crash, ledgerVars, rewardsVars
  <2> QED
    BY <1>2, <2>1 DEF SettleInv
<1> QED
  BY <1>3, <1>4, <1>5, <1>6 DEF RewardsNext, ProcessReward

LEMMA SettleNext ==
    ASSUME SettleInv, Amount # 0, [SettlementNext]_settlementVars PROVE SettleInv'
<1>1. ASSUME [RewardsNext]_rewardsVars, owed' \in [Miners -> Int] PROVE SettleInv'
  <2>1. RewardsInv'
    BY <1>1, RewardsNextInv DEF SettleInv, DivisionInv
  <2>2. TypeInv' /\ TracesInv' /\ MoneyInv'
    BY <1>1, <2>1, TypeNext, TracesNext, MoneyNext DEF SettleInv, DivisionInv
  <2> QED
    BY <1>1, <2>1, <2>2, CreditsGrow DEF SettleInv, DivisionInv
<1>2. CASE Dividing
  <2>1. RewardsNext /\ owed' = owed
    BY <1>2 DEF Dividing, RewardsNext, taskVars
  <2> QED
    BY <1>1, <2>1 DEF SettleInv
<1>3. CASE Paying
  <2>1. DivisionInv'
    BY <1>3, PayingTypes, DivisionApart DEF Paying, SettleInv
  <2> QED
    BY <1>3, <2>1, PayingTypes DEF Paying, SettleInv, readVars
<1>4. ASSUME Task!Crash PROVE owed' \in [Miners -> Int]
  BY <1>4 DEF Task!Crash, Task!EndRound, Task!ZeroForAll
<1>5. CASE Stop
  <2>1. CASE Crash
    <3>1. RewardsNext /\ owed' \in [Miners -> Int]
      BY <1>4, <1>5, <2>1 DEF Stop, RewardsNext, taskVars, SettleInv
    <3> QED
      BY <1>1, <3>1
  <2>2. CASE Task!Crash /\ UNCHANGED rewardsVars
    BY <1>1, <1>4, <2>2
  <2> QED
    BY <1>5, <2>1, <2>2 DEF Stop
<1>6. CASE UNCHANGED settlementVars
  BY <1>1, <1>6 DEF settlementVars, taskVars, SettleInv
<1> QED
  BY <1>2, <1>3, <1>5, <1>6 DEF SettlementNext

\* The division of a reward keeps all it promises while the payment task reads
\* and debits the same accounts.
THEOREM DivisionBesidePayments ==
    ASSUME Amount # 0
    PROVE  SettlementSpec => [](WonOnce /\ NeverOverDistributed /\ FullyDistributed)
<1>1. SettleInv /\ [SettlementNext]_settlementVars => SettleInv'
  BY SettleNext
<1>2. SettleInv => WonOnce /\ NeverOverDistributed /\ FullyDistributed
  BY DivisionMeans DEF SettleInv
<1> QED
  BY <1>1, <1>2, SettleInit, PTL DEF SettlementSpec

\* A step of the two goroutines is one of the payment task as Payouts models it,
\* with its environment, or a credit out of proportion.
LEMMA SettlementFits ==
    ASSUME SettleInv, Amount # 0, [SettlementNext]_settlementVars
    PROVE  \/ Task!PayoutsNext \/ UNCHANGED <<ledgerVars, taskVars>>
           \/ OutOfProportion /\ \E m \in Miners : Credit(m) /\ UNCHANGED taskVars
<1>1. CASE Paying
  BY <1>1 DEF Paying, Task!PayoutsNext
<1>2. CASE Stop
  <2>1. CASE Task!Crash
    BY <2>1 DEF Task!PayoutsNext
  <2>2. CASE Crash /\ UNCHANGED taskVars
    BY <2>2 DEF Crash, ledgerVars
  <2> QED
    BY <1>2, <2>1, <2>2 DEF Stop
<1>3. CASE UNCHANGED settlementVars
  BY <1>3 DEF settlementVars, rewardsVars
<1> QED
  BY <1>1, <1>2, <1>3, DividingFits DEF SettlementNext

\* ProcessReward credits the accounts as Payouts takes it to, whatever fails, for
\* any number of miners and connections and any ratios; only the credits of a
\* division out of proportion need not fit.
THEOREM CreditsFit == ASSUME Amount # 0 PROVE SettlementSpec => CreditsAsAssumed
<1>1. SettleInv /\ [SettlementNext]_settlementVars => SettleInv'
  BY SettleNext
<1>2. SettleInv /\ [SettlementNext]_settlementVars
          => [ \/ Task!PayoutsNext
               \/ OutOfProportion /\ \E m \in Miners : Credit(m) /\ UNCHANGED taskVars
             ]_<<ledgerVars, taskVars>>
  BY SettlementFits
<1> QED
  BY <1>1, <1>2, SettleInit, PTL DEF SettlementSpec, CreditsAsAssumed

\* So the two goroutines over one ledger implement Payouts, and what is proved
\* of Payouts holds of them, in every run in which GetProportion's reads are in
\* proportion: no share is recorded between them and the sum is not read as 0.
THEOREM SettlementImplementsPayouts ==
    ASSUME Amount # 0
    PROVE  SettlementSpec /\ []~OutOfProportion => Task!PayoutsSpec
<1>1. SettlementInit => Task!PayoutsInit
  BY DEF SettlementInit
<1>2. SettleInv /\ [SettlementNext]_settlementVars => SettleInv'
  BY SettleNext
<1>3. ASSUME SettleInv, [SettlementNext]_settlementVars, ~OutOfProportion
      PROVE  [Task!PayoutsNext]_Task!payVars
  <2>1. CASE UNCHANGED <<ledgerVars, taskVars>>
    BY <2>1
       DEF ledgerVars, taskVars, Undivided, Task!payVars, Task!ledgerVars, Task!roundVars
  <2> QED
    BY <1>3, <2>1, SettlementFits
<1> QED
  BY <1>1, <1>2, <1>3, SettleInit, PTL DEF SettlementSpec, Task!PayoutsSpec
=============================================================================
