----------------------------- MODULE ApiProofs ------------------------------
(***************************************************************************)
(* Theorems about what the API reads and changes while the pool works: the *)
(* payout settings, the counters of an account, the records that are       *)
(* purged, and the statistics of the workers, who log in, beat and leave.  *)
(* Each is an invariant of its own specification, for any number of        *)
(* readers, requests, miners, keys, workers and shards.  Of the statistics *)
(* CallInv is about the goroutines of xdag_minerHashrate and their         *)
(* answers, WalkInv about the iterator that xdag_poolHashrate drains.      *)
(***************************************************************************)
EXTENDS PoolConfig, AccountQuery, Records, StatisticsApi, FiniteSetTheorems, TLAPS

-----------------------------------------------------------------------------
(* The payout settings *)

\* Readers and writers exclude each other, as do writers.
Locked ==
    /\ writer = {} \/ reading = {}
    /\ \A q1, q2 \in writer : q1 = q2

\* A writer has stored what it asks for in the fields it has passed, and none
\* before it had the lock.
StoredSoFar ==
    /\ writer \subseteq Requests
    /\ stored \in [Requests -> 0..4]
    /\ \A q \in writer : \A i \in 1..4 : i <= stored[q] => payout[Fields[i]] = asks[q][Fields[i]]
    /\ \A q \in Requests : answer[q] = "none" /\ q \notin writer => stored[q] = 0

\* A reader that holds the lock has read the settings as they are.
ReadSoFar ==
    /\ reading \subseteq Readers
    /\ \A r \in reading : \A f \in DOMAIN got[r] : got[r][f] = payout[f]
    /\ \A r \in Readers : got[r] = [f \in DOMAIN got[r] |-> got[r][f]]

ConfigInv ==
    /\ payout \in [SettingNames -> Values]
    /\ asks \in [Requests -> [SettingNames -> Values \union {Unparsable}]]
    /\ answer \in [Requests -> {"none", "success", "error"}]
    /\ got = [r \in Readers |-> got[r]]
    /\ writer = {} => payout \in passed
    /\ Locked /\ StoredSoFar /\ ReadSoFar
    /\ ConfigWhole

LEMMA FourFields ==
    /\ Len(Fields) = 4
    /\ SettingNames = {"direct", "pool", "reward", "threshold"}
    /\ \A i \in 1..4 : Fields[i] \in SettingNames
    /\ \A f \in SettingNames : \E i \in 1..4 : f = Fields[i]
    /\ \A i, j \in 1..4 : Fields[i] = Fields[j] => i = j
BY DEF Fields, SettingNames

LEMMA ConfigInitInv == ConfigInit => ConfigInv
<1> SUFFICES ASSUME ConfigInit PROVE ConfigInv
  OBVIOUS
<1>1. payout \in [SettingNames -> Values]
  BY AsksAssumption DEF ConfigInit
<1>2. asks \in [Requests -> [SettingNames -> Values \union {Unparsable}]]
  BY AsksAssumption DEF ConfigInit
<1>3. stored \in [Requests -> 0..4] /\ writer = {} /\ reading = {}
  BY DEF ConfigInit
<1>4. \A r \in Readers : DOMAIN got[r] = {} /\ got[r] = [f \in DOMAIN got[r] |-> got[r][f]]
  BY DEF ConfigInit, Nothing
<1>5. \A r \in Readers : DOMAIN got[r] # SettingNames
  BY <1>4, FourFields
<1>6. \A q \in Requests : answer[q] = "none" /\ stored[q] = 0
  BY DEF ConfigInit
<1>7. answer \in [Requests -> {"none", "success", "error"}] /\ got = [r \in Readers |-> got[r]]
  BY DEF ConfigInit
<1> QED
  BY <1>1, <1>2, <1>3, <1>4, <1>5, <1>6, <1>7
     DEF ConfigInit, ConfigInv, Locked, StoredSoFar, ReadSoFar, ConfigWhole

LEMMA RefuseUpdateInv == ASSUME ConfigInv, NEW q \in Requests, RefuseUpdate(q) PROVE ConfigInv'
BY DEF RefuseUpdate, ConfigInv, Locked, StoredSoFar, ReadSoFar, ConfigWhole

LEMMA LockUpdateInv == ASSUME ConfigInv, NEW q \in Requests, LockUpdate(q) PROVE ConfigInv'
<1>1. stored[q] = 0
  BY DEF LockUpdate, ConfigInv, StoredSoFar
<1>2. StoredSoFar'
  BY <1>1 DEF LockUpdate, ConfigInv, StoredSoFar
<1> QED
  BY <1>2 DEF LockUpdate, ConfigInv, Locked, ReadSoFar, ConfigWhole

\* A field that is stored is none of those stored before.
LEMMA StoreFieldInv == ASSUME ConfigInv, NEW q \in Requests, StoreField(q) PROVE ConfigInv'
<1> DEFINE n == stored[q] + 1
<1>1. /\ q \in writer /\ stored[q] \in 0..3 /\ n \in 1..4
      /\ asks[q][Fields[n]] \in Values
      /\ payout' = [payout EXCEPT ![Fields[n]] = asks[q][Fields[n]]]
      /\ stored' = [stored EXCEPT ![q] = n]
      /\ UNCHANGED <<reading, writer, asks, answer, got, passed>>
  BY FourFields DEF StoreField, ConfigInv, StoredSoFar
<1> HIDE DEF n
<1>2. payout' \in [SettingNames -> Values]
  BY <1>1 DEF ConfigInv
<1>3. \A i \in 1..4 : payout'[Fields[i]] = IF i = n THEN asks[q][Fields[n]] ELSE payout[Fields[i]]
  BY <1>1, FourFields DEF ConfigInv
<1>4. stored' \in [Requests -> 0..4] /\ \A p \in writer : p = q
  BY <1>1 DEF ConfigInv, StoredSoFar, Locked
<1>5. \A i \in 1..4 : i <= n => i = n \/ i <= stored[q]
  BY <1>1 DEF n
<1>6. stored'[q] = n
  BY <1>1 DEF ConfigInv, StoredSoFar
<1>7. \A p \in writer' : \A i \in 1..4 : i <= stored'[p] => payout'[Fields[i]] = asks'[p][Fields[i]]
  BY <1>1, <1>3, <1>4, <1>5, <1>6 DEF ConfigInv, StoredSoFar
<1>8. \A p \in Requests : p # q => stored'[p] = stored[p]
  BY <1>1 DEF ConfigInv, StoredSoFar
<1>9. StoredSoFar'
  BY <1>1, <1>4, <1>7, <1>8 DEF ConfigInv, StoredSoFar
<1>10. reading = {}
  BY <1>1 DEF ConfigInv, Locked
<1> QED
  BY <1>1, <1>2, <1>9, <1>10 DEF ConfigInv, Locked, ReadSoFar, ConfigWhole

\* Whatever a request leaves behind is in force when it gives the lock back.
LEMMA UnlockInv ==
    ASSUME ConfigInv, NEW q \in Requests, q \in writer,
           NEW result \in {"success", "error"}, Unlock(q, result),
           result = "success" => asks[q] = payout
    PROVE  ConfigInv'
<1>1. writer' = {} /\ payout' \in passed' /\ passed \subseteq passed'
  BY DEF Unlock, ConfigInv, Locked
<1>2. /\ answer' = [answer EXCEPT ![q] = result]
      /\ UNCHANGED <<payout, reading, asks, stored, got>>
  BY DEF Unlock
<1>3. answer' \in [Requests -> {"none", "success", "error"}]
  BY <1>2 DEF ConfigInv
<1>4. \A p \in Requests : answer'[p] = IF p = q THEN result ELSE answer[p]
  BY <1>2 DEF ConfigInv
<1>5. \A p \in Requests : p \in writer => p = q
  BY DEF ConfigInv, Locked
<1>6. StoredSoFar'
  BY <1>1, <1>2, <1>4, <1>5 DEF ConfigInv, StoredSoFar
<1>7. ConfigWhole'
  BY <1>1, <1>2, <1>4 DEF ConfigInv, ConfigWhole
<1> QED
  BY <1>1, <1>2, <1>3, <1>6, <1>7 DEF ConfigInv, Locked, ReadSoFar

LEMMA ParseErrorInv == ASSUME ConfigInv, NEW q \in Requests, ParseError(q) PROVE ConfigInv'
BY UnlockInv DEF ParseError

\* All fields stored: the settings are what was asked for.
LEMMA EndUpdateInv == ASSUME ConfigInv, NEW q \in Requests, EndUpdate(q) PROVE ConfigInv'
<1>1. q \in writer /\ stored[q] = 4
  BY FourFields DEF EndUpdate
<1>2. \A i \in 1..4 : payout[Fields[i]] = asks[q][Fields[i]]
  BY <1>1 DEF ConfigInv, StoredSoFar
<1>3. \A f \in SettingNames : payout[f] = asks[q][f]
  BY <1>2, FourFields
<1>4. /\ payout \in [SettingNames -> Values]
      /\ asks[q] \in [SettingNames -> Values \union {Unparsable}]
  BY DEF ConfigInv
<1>5. asks[q] = payout
  BY <1>3, <1>4
<1> QED
  BY <1>1, <1>5, UnlockInv DEF EndUpdate

LEMMA LockReadInv == ASSUME ConfigInv, NEW r \in Readers, LockRead(r) PROVE ConfigInv'
<1>1. DOMAIN got[r] = {}
  BY DEF LockRead, Nothing
<1> QED
  BY <1>1 DEF LockRead, ConfigInv, Locked, StoredSoFar, ReadSoFar, ConfigWhole

\* While a reader holds the lock the settings stay as they are, and in force.
LEMMA ReadFieldInv == ASSUME ConfigInv, NEW r \in Readers, ReadField(r) PROVE ConfigInv'
<1> DEFINE f == Fields[Cardinality(DOMAIN got[r]) + 1]
           g == [x \in DOMAIN got[r] \union {f} |-> IF x = f THEN payout[f] ELSE got[r][x]]
<1>1. got' = [got EXCEPT ![r] = g]
  BY DEF ReadField
<1>2. /\ r \in reading /\ writer = {} /\ payout \in passed
      /\ UNCHANGED <<payout, reading, writer, asks, stored, answer, passed>>
  BY DEF ReadField, ConfigInv, Locked
<1>3. g = [x \in DOMAIN g |-> g[x]]
  OBVIOUS
<1>4. \A x \in DOMAIN g : g[x] = payout[x]
  BY <1>2 DEF ConfigInv, ReadSoFar
<1> HIDE DEF g
<1>5. \A p \in Readers : got'[p] = IF p = r THEN g ELSE got[p]
  BY <1>1 DEF ConfigInv
<1>6. got' = [p \in Readers |-> got'[p]]
  BY <1>1 DEF ConfigInv
<1>7. DOMAIN g = SettingNames => g = payout
  BY <1>3, <1>4 DEF ConfigInv
<1> HIDE DEF f
<1>8. ReadSoFar'
  <2>1. reading' \subseteq Readers
    BY <1>2 DEF ConfigInv, ReadSoFar
  <2>2. ASSUME NEW p \in reading', NEW x \in DOMAIN got'[p] PROVE got'[p][x] = payout'[x]
    <3>1. CASE p = r
      BY <1>2, <1>4, <1>5, <3>1
    <3>2. CASE p # r
      <4>1. got'[p] = got[p]
        BY <1>5, <2>1, <3>2
      <4>2. p \in reading /\ x \in DOMAIN got[p]
        BY <1>2, <2>2, <4>1
      <4>3. got[p][x] = payout[x]
        BY <4>2 DEF ConfigInv, ReadSoFar
      <4> QED
        BY <1>2, <4>1, <4>3
    <3> QED
      BY <3>1, <3>2
  <2>3. ASSUME NEW p \in Readers PROVE got'[p] = [x \in DOMAIN got'[p] |-> got'[p][x]]
    <3>1. CASE p = r
      BY <1>3, <1>5, <3>1
    <3>2. CASE p # r
      BY <1>5, <3>2 DEF ConfigInv, ReadSoFar
    <3> QED
      BY <3>1, <3>2
  <2> QED
    BY <2>1, <2>2, <2>3 DEF ReadSoFar
<1>9. ConfigWhole'
  BY <1>2, <1>5, <1>7 DEF ConfigInv, ConfigWhole
<1> QED
  BY <1>2, <1>6, <1>8, <1>9 DEF ConfigInv, Locked, StoredSoFar

LEMMA UnlockReadInv == ASSUME ConfigInv, NEW r \in Readers, UnlockRead(r) PROVE ConfigInv'
BY DEF UnlockRead, ConfigInv, Locked, StoredSoFar, ReadSoFar, ConfigWhole

\* The settings a division, a payment round or a query reads were in force
\* together outside any update, and an update that was answered with success
\* was in force as a whole, for any number of readers and requests.
THEOREM SettingsWhole == ConfigSpec => []ConfigWhole
<1>1. ConfigInit => ConfigInv
  BY ConfigInitInv
<1>2. ConfigInv /\ [ConfigNext]_configVars => ConfigInv'
  <2> SUFFICES ASSUME ConfigInv, [ConfigNext]_configVars PROVE ConfigInv'
    OBVIOUS
  <2>1. ASSUME NEW q \in Requests,
               \/ RefuseUpdate(q) \/ LockUpdate(q) \/ StoreField(q) \/ ParseError(q) \/ EndUpdate(q)
        PROVE  ConfigInv'
    BY <2>1, RefuseUpdateInv, LockUpdateInv, StoreFieldInv, ParseErrorInv, EndUpdateInv
  <2>2. ASSUME NEW r \in Readers, LockRead(r) \/ ReadField(r) \/ UnlockRead(r) PROVE ConfigInv'
    BY <2>2, LockReadInv, ReadFieldInv, UnlockReadInv
  <2>3. CASE UNCHANGED configVars
    BY <2>3 DEF configVars, ConfigInv, Locked, StoredSoFar, ReadSoFar, ConfigWhole
  <2> QED
    BY <2>1, <2>2, <2>3 DEF ConfigNext
<1>3. ConfigInv => ConfigWhole
  BY DEF ConfigInv
<1> QED
  BY <1>1, <1>2, <1>3, PTL DEF ConfigSpec

-----------------------------------------------------------------------------
(* The account of a miner *)

\* Every account is balanced, in particular the one that is asked for.
Balanced ==
    /\ reward \in [Miners -> Nat] /\ unpaid \in [Miners -> Nat] /\ payment \in [Miners -> Nat]
    /\ reward[Asker] = unpaid[Asker] + payment[Asker]

\* What the call has been told so far, against the counters still to be read.
ToldSoFar ==
    /\ told \in [reward : Nat, unpaid : Nat, payment : Nat] /\ moved \in Nat
    /\ next \in 1..4
    /\ next # 4 => ~cutShort
    /\ next = 1 => told.reward = 0 /\ told.unpaid = 0 /\ told.payment = 0 /\ moved = 0
    /\ next = 2 => /\ told.unpaid = 0 /\ told.payment = 0
                   /\ told.reward <= reward[Asker] /\ reward[Asker] <= told.reward + moved
    /\ next = 3 => /\ told.payment = 0
                   /\ told.reward <= told.unpaid + payment[Asker]
                   /\ told.unpaid + payment[Asker] <= told.reward + moved
    /\ next = 4 => /\ ~cutShort => told.reward <= told.unpaid + told.payment
                   /\ told.unpaid + told.payment <= told.reward + moved

LEMMA ThreeCounters ==
    /\ Len(Counters) = 3
    /\ Counters[1] = "reward" /\ Counters[2] = "unpaid" /\ Counters[3] = "payment"
BY DEF Counters

LEMMA QueryInitInv == QueryInit => Balanced /\ ToldSoFar
BY AskerAssumption DEF QueryInit, LedgerInit, ZeroForAll, Balanced, ToldSoFar

LEMMA CreditInv ==
    ASSUME Balanced, ToldSoFar, NEW m \in Miners, NEW a \in 1..MaxAmount, Credit(m, a)
    PROVE  (Balanced /\ ToldSoFar)'
<1>1. a \in Nat
  BY AmountAssumption
<1>2. /\ reward' = [reward EXCEPT ![m] = @ + a] /\ unpaid' = [unpaid EXCEPT ![m] = @ + a]
      /\ payment' = payment /\ next' = next /\ told' = told /\ cutShort' = cutShort
      /\ moved' = IF m = Asker /\ next # 1 THEN moved + a ELSE moved
  BY DEF Credit, SetMinerReward, Moves
<1>3. /\ reward'[Asker] = IF m = Asker THEN reward[Asker] + a ELSE reward[Asker]
      /\ unpaid'[Asker] = IF m = Asker THEN unpaid[Asker] + a ELSE unpaid[Asker]
  BY <1>2, AskerAssumption DEF Balanced
<1>4. Balanced'
  BY <1>1, <1>2, <1>3, AskerAssumption DEF Balanced
<1>5. ToldSoFar'
  BY <1>1, <1>2, <1>3, AskerAssumption DEF Balanced, ToldSoFar
<1> QED
  BY <1>4, <1>5

LEMMA PayInvariant ==
    ASSUME Balanced, ToldSoFar, NEW m \in Miners, Pay(m)
    PROVE  (Balanced /\ ToldSoFar)'
<1>1. /\ reward' = reward /\ next' = next /\ told' = told /\ cutShort' = cutShort
      /\ moved' = IF m = Asker /\ next # 1 THEN moved + unpaid[m] ELSE moved
      /\ payment' = [x \in Miners |-> payment[x] + [y \in Miners |-> IF y \in {m} THEN unpaid[y] ELSE 0][x]]
      /\ unpaid' = [x \in Miners |-> unpaid[x] - [y \in Miners |-> IF y \in {m} THEN unpaid[y] ELSE 0][x]]
  BY DEF Pay, SetChunkPayment, Moves
<1>2. \A x \in Miners : /\ payment'[x] = IF x = m THEN payment[x] + unpaid[x] ELSE payment[x]
                        /\ unpaid'[x] = IF x = m THEN 0 ELSE unpaid[x]
  BY <1>1 DEF Balanced
<1>3. payment' \in [Miners -> Nat] /\ unpaid' \in [Miners -> Nat]
  BY <1>1, <1>2 DEF Balanced
<1>4. Balanced'
  BY <1>1, <1>2, <1>3, AskerAssumption DEF Balanced
<1>5. ToldSoFar'
  BY <1>1, <1>2, AskerAssumption DEF Balanced, ToldSoFar
<1> QED
  BY <1>4, <1>5

LEMMA ReadCounterInv ==
    ASSUME Balanced, ToldSoFar, ReadCounter
    PROVE  (Balanced /\ ToldSoFar)'
<1>1. next \in 1..3 /\ UNCHANGED <<reward, unpaid, payment, moved, cutShort>>
  BY ThreeCounters DEF ReadCounter, ledgerVars
<1>2. CASE Absent(Counters[next])
  <2>1. next' = 4 /\ told' = told
    BY <1>2, ThreeCounters DEF ReadCounter
  <2>2. next \in {1, 2} => reward[Asker] = 0
    BY <1>2, ThreeCounters DEF Absent
  <2>3. next = 3 => payment[Asker] = 0
    BY <1>2, ThreeCounters DEF Absent
  <2> QED
    BY <1>1, <2>1, <2>2, <2>3, AskerAssumption DEF Balanced, ToldSoFar
<1>3. CASE ~Absent(Counters[next])
  <2>1. next' = next + 1 /\ told' = [told EXCEPT ![Counters[next]] = CounterOf(Counters[next])]
    BY <1>3 DEF ReadCounter
  <2>2. CASE next = 1
    <3>1. told' = [told EXCEPT !.reward = reward[Asker]]
      BY <2>1, <2>2, ThreeCounters DEF CounterOf
    <3> QED
      BY <1>1, <2>1, <2>2, <3>1, AskerAssumption DEF Balanced, ToldSoFar
  <2>3. CASE next = 2
    <3>1. told' = [told EXCEPT !.unpaid = unpaid[Asker]]
      BY <2>1, <2>3, ThreeCounters DEF CounterOf
    <3> QED
      BY <1>1, <2>1, <2>3, <3>1, AskerAssumption DEF Balanced, ToldSoFar
  <2>4. CASE next = 3
    <3>1. told' = [told EXCEPT !.payment = payment[Asker]]
      BY <2>1, <2>4, ThreeCounters DEF CounterOf
    <3> QED
      BY <1>1, <2>1, <2>4, <3>1, AskerAssumption DEF Balanced, ToldSoFar
  <2> QED
    BY <1>1, <2>2, <2>3, <2>4
<1> QED
  BY <1>2, <1>3

\* For any number of credits and payments between the reads, what the answer
\* shows owed and paid exceeds what it shows earned by no more than was credited
\* and paid during the call, and covers it unless one of the reads failed: money
\* is hidden by a failed read and by nothing else.
THEOREM AccountHidesOnlyOnFailure == QuerySpec => []AccountCovers
<1>1. QueryInit => Balanced /\ ToldSoFar
  BY QueryInitInv
<1>2. Balanced /\ ToldSoFar /\ [QueryNext]_queryVars => (Balanced /\ ToldSoFar)'
  <2> SUFFICES ASSUME Balanced, ToldSoFar, [QueryNext]_queryVars PROVE (Balanced /\ ToldSoFar)'
    OBVIOUS
  <2>1. CASE ReadFails
    <3>1. /\ next \in 1..3 /\ next' = 4 /\ cutShort'
          /\ UNCHANGED <<reward, unpaid, payment, told, moved>>
      BY <2>1, ThreeCounters DEF ReadFails, ledgerVars
    <3>2. told.unpaid + told.payment <= told.reward + moved
      BY <3>1, AskerAssumption DEF Balanced, ToldSoFar
    <3> QED
      BY <3>1, <3>2 DEF Balanced, ToldSoFar
  <2>2. CASE UNCHANGED queryVars
    BY <2>2 DEF queryVars, ledgerVars, Balanced, ToldSoFar
  <2> QED
    BY <2>1, <2>2, CreditInv, PayInvariant, ReadCounterInv DEF QueryNext
<1>3. ToldSoFar => AccountCovers
  BY ThreeCounters DEF ToldSoFar, AccountCovers
<1> QED
  BY <1>1, <1>2, <1>3, PTL DEF QuerySpec

-----------------------------------------------------------------------------
(* The records *)

\* The keys the purge has been through, or has found without old records.
Purged(k) ==
    \/ at = 0
    \/ at > 1 /\ k = <<"pool", "donate">>
    \/ at > 2 /\ k = <<"pool", "rewards">>
    \/ k[1] = "balance" /\ (at > 3 \/ (at = 3 /\ k \notin todo))
    \/ k[1] = "rewards" /\ (at > 4 \/ (at = 4 /\ k \notin todo))
    \/ k[1] = "payment" /\ at = 5 /\ k \notin todo

RecordsType ==
    /\ second \in Nat /\ cut \in Int /\ cut <= second - Window
    /\ at \in 0..5 /\ todo \subseteq Keys
    /\ kept \in [Keys -> SUBSET Int] /\ written \in [Keys -> SUBSET Int]
    /\ due \in [Keys -> SUBSET Int]

\* Only records before the cut are gone; what is due was before it, and none
\* of it is left where the purge has been.
RecordsInv ==
    /\ RecordsType
    /\ \A k \in Keys : \A t \in written[k] \ kept[k] : t < cut
    /\ \A k \in Keys : \A t \in due[k] : t < cut
    /\ \A k \in Keys : Purged(k) => kept[k] \intersect due[k] = {}

LEMMA KindsOfKeys ==
    /\ Len(PoolKeys) = 2 /\ Len(Kinds) = 3 /\ Steps = 5
    /\ PoolKeys[1] = "donate" /\ PoolKeys[2] = "rewards"
    /\ Kinds[1] = "balance" /\ Kinds[2] = "rewards" /\ Kinds[3] = "payment"
    /\ \A k \in Keys : k = <<"pool", "donate">> \/ k = <<"pool", "rewards">>
                        \/ k[1] = "balance" \/ k[1] = "rewards" \/ k[1] = "payment"
    /\ <<"pool", "donate">> \in Keys /\ <<"pool", "rewards">> \in Keys
BY DEF PoolKeys, Kinds, Steps, Keys

LEMMA RecordsInitInv == RecordsInit => RecordsInv
BY WindowAssumption DEF RecordsInit, RecordsInv, RecordsType, Purged

\* A record that is added is not before the cut: it is at most a tick old.
LEMMA AddInv ==
    ASSUME RecordsInv, NEW keys, NEW ts \in Int, ts >= second - 1, Add(keys, ts), UNCHANGED second
    PROVE  RecordsInv'
<1>1. ts >= cut
  BY WindowAssumption DEF RecordsInv, RecordsType
<1>2. /\ kept' = [k \in Keys |-> IF k \in keys THEN kept[k] \union {ts} ELSE kept[k]]
      /\ written' = [k \in Keys |-> IF k \in keys THEN written[k] \union {ts} ELSE written[k]]
      /\ UNCHANGED <<second, at, cut, todo, due>>
  BY DEF Add
<1>3. RecordsType'
  BY <1>2 DEF RecordsInv, RecordsType
<1>4. \A k \in Keys : /\ written'[k] \ kept'[k] \subseteq written[k] \ kept[k]
                      /\ kept'[k] \subseteq kept[k] \union {ts}
  BY <1>2
<1>5. \A k \in Keys : ts \notin due[k]
  BY <1>1 DEF RecordsInv, RecordsType
<1> QED
  BY <1>2, <1>3, <1>4, <1>5 DEF RecordsInv, Purged

\* What is removed from a key is before the cut, and with it all that is due.
LEMMA RemoveRangeClean ==
    ASSUME RecordsInv, NEW k \in Keys, RemoveRange(k), UNCHANGED <<second, cut, written, due>>
    PROVE  /\ kept' \in [Keys -> SUBSET Int]
           /\ \A j \in Keys : kept'[j] \subseteq kept[j]
           /\ kept'[k] \intersect due[k] = {}
           /\ \A j \in Keys : \A t \in written'[j] \ kept'[j] : t < cut'
<1>1. \A j \in Keys : kept'[j] = IF j = k THEN {t \in kept[k] : t >= cut} ELSE kept[j]
  BY DEF RemoveRange, RecordsInv, RecordsType
<1>2. kept' \in [Keys -> SUBSET Int]
  BY DEF RemoveRange, RecordsInv, RecordsType
<1>3. \A t \in due[k] : t < cut /\ t \in Int
  BY DEF RecordsInv, RecordsType
<1>4. \A j \in Keys : \A t \in kept[j] \ kept'[j] : t < cut
  <2> TAKE j \in Keys
  <2> TAKE t \in kept[j] \ kept'[j]
  <2>1. j = k /\ ~(t >= cut)
    BY <1>1
  <2>2. t \in Int /\ cut \in Int
    BY DEF RecordsInv, RecordsType
  <2> QED
    BY <2>1, <2>2
<1>5. kept'[k] \intersect due[k] = {}
  <2>1. \A t \in kept'[k] : t >= cut
    BY <1>1
  <2>2. cut \in Int
    BY DEF RecordsInv, RecordsType
  <2>3. \A t \in Int : ~(t >= cut /\ t < cut)
    BY <2>2
  <2> QED
    BY <1>3, <2>1, <2>3
<1>6. \A j \in Keys : \A t \in written'[j] \ kept'[j] : t < cut'
  BY <1>4 DEF RecordsInv
<1> QED
  BY <1>1, <1>2, <1>5, <1>6

\* Keys a scan is not going to give had no records when it began.
LEMMA ProceedClean ==
    ASSUME RecordsInv, Proceed, at # 0
    PROVE  /\ at' = (IF at = 5 THEN 0 ELSE at + 1) /\ todo' \subseteq Keys
           /\ \A k \in Keys : /\ at' = 3 /\ k[1] = "balance" /\ k \notin todo' => kept[k] = {}
                              /\ at' = 4 /\ k[1] = "rewards" /\ k \notin todo' => kept[k] = {}
                              /\ at' = 5 /\ k[1] = "payment" /\ k \notin todo' => kept[k] = {}
<1>1. at \in 1..5
  BY DEF RecordsInv, RecordsType
<1>2. at' = (at + 1) % 6
  BY KindsOfKeys DEF Proceed
<1>3. at' = (IF at = 5 THEN 0 ELSE at + 1)
  BY <1>1, <1>2
<1>4. at' > 2 => todo' = OfKind(Kinds[at' - 2])
  BY <1>2, <1>3, KindsOfKeys DEF Proceed
<1>5. at' <= 2 => todo' = {}
  BY <1>1, <1>2, <1>3, KindsOfKeys DEF Proceed
<1>6. todo' \subseteq Keys
  BY <1>1, <1>3, <1>4, <1>5 DEF OfKind
<1>7. /\ at' = 3 => todo' = OfKind("balance")
      /\ at' = 4 => todo' = OfKind("rewards")
      /\ at' = 5 => todo' = OfKind("payment")
  BY <1>4, KindsOfKeys
<1> QED
  BY <1>3, <1>6, <1>7 DEF OfKind

LEMMA PurgePoolKeyInv == ASSUME RecordsInv, PurgePoolKey PROVE RecordsInv'
<1> DEFINE p == <<"pool", PoolKeys[at]>>
<1>1. at \in 1..2 /\ RemoveRange(p) /\ Proceed /\ UNCHANGED <<second, cut, written, due>>
  BY KindsOfKeys DEF PurgePoolKey
<1>2. p = (IF at = 1 THEN <<"pool", "donate">> ELSE <<"pool", "rewards">>) /\ p \in Keys
  BY <1>1, KindsOfKeys
<1> HIDE DEF p
<1>3. /\ kept' \in [Keys -> SUBSET Int] /\ \A j \in Keys : kept'[j] \subseteq kept[j]
      /\ kept'[p] \intersect due[p] = {}
      /\ \A j \in Keys : \A t \in written'[j] \ kept'[j] : t < cut'
  BY <1>1, <1>2, RemoveRangeClean
<1>4. /\ at' = at + 1 /\ todo' \subseteq Keys
      /\ \A k \in Keys : at' = 3 /\ k[1] = "balance" /\ k \notin todo' => kept[k] = {}
  BY <1>1, ProceedClean
<1>5. RecordsType'
  BY <1>1, <1>3, <1>4 DEF RecordsInv, RecordsType
<1>6. ASSUME NEW k \in Keys, Purged(k)' PROVE kept'[k] \intersect due'[k] = {}
  <2>1. CASE k = p
    BY <1>1, <1>3, <2>1
  <2>2. CASE k # p /\ (k = <<"pool", "donate">> \/ k = <<"pool", "rewards">>)
    <3>1. at = 2 /\ k = <<"pool", "donate">>
      BY <1>1, <1>2, <1>4, <1>6, <2>2 DEF Purged
    <3>2. kept[k] \intersect due[k] = {}
      BY <3>1 DEF RecordsInv, Purged
    <3> QED
      BY <1>1, <1>3, <3>2
  <2>3. CASE k # <<"pool", "donate">> /\ k # <<"pool", "rewards">>
    <3>1. kept[k] = {}
      BY <1>1, <1>4, <1>6, <2>3 DEF Purged
    <3> QED
      BY <1>3, <3>1
  <2> QED
    BY <2>1, <2>2, <2>3
<1>7. \A k \in Keys : \A t \in due'[k] : t < cut'
  BY <1>1 DEF RecordsInv
<1> QED
  BY <1>3, <1>5, <1>6, <1>7 DEF RecordsInv

LEMMA PurgeScannedInv == ASSUME RecordsInv, PurgeScanned PROVE RecordsInv'
<1>1. PICK p \in todo : RemoveRange(p) /\ todo' = todo \ {p}
  BY DEF PurgeScanned
<1>2. p \in Keys /\ at \in 3..5 /\ UNCHANGED <<second, at, cut, written, due>>
  BY KindsOfKeys DEF PurgeScanned, RecordsInv, RecordsType
<1>3. /\ kept' \in [Keys -> SUBSET Int] /\ \A j \in Keys : kept'[j] \subseteq kept[j]
      /\ kept'[p] \intersect due[p] = {}
      /\ \A j \in Keys : \A t \in written'[j] \ kept'[j] : t < cut'
  BY <1>1, <1>2, RemoveRangeClean
<1>4. RecordsType'
  BY <1>1, <1>2, <1>3 DEF RecordsInv, RecordsType
<1>5. ASSUME NEW k \in Keys, Purged(k)' PROVE kept'[k] \intersect due'[k] = {}
  <2>1. CASE k = p
    BY <1>2, <1>3, <2>1
  <2>2. CASE k # p
    <3>1. Purged(k)
      BY <1>1, <1>2, <1>5, <2>2 DEF Purged
    <3>2. kept[k] \intersect due[k] = {}
      BY <3>1 DEF RecordsInv
    <3> QED
      BY <1>2, <1>3, <3>2
  <2> QED
    BY <2>1, <2>2
<1>6. \A k \in Keys : \A t \in due'[k] : t < cut'
  BY <1>2 DEF RecordsInv
<1> QED
  BY <1>3, <1>4, <1>5, <1>6 DEF RecordsInv

\* At the end of a scan all keys of its kind are done; of the next kind those
\* that have no records.
LEMMA EndScanInv == ASSUME RecordsInv, EndScan PROVE RecordsInv'
<1>1. at \in 3..5 /\ todo = {} /\ Proceed /\ UNCHANGED <<second, kept, cut, written, due>>
  BY KindsOfKeys DEF EndScan, RecordsInv, RecordsType
<1>2. /\ at' = (IF at = 5 THEN 0 ELSE at + 1) /\ todo' \subseteq Keys
      /\ \A k \in Keys : /\ at' = 4 /\ k[1] = "rewards" /\ k \notin todo' => kept[k] = {}
                         /\ at' = 5 /\ k[1] = "payment" /\ k \notin todo' => kept[k] = {}
  BY <1>1, ProceedClean
<1>3. RecordsType'
  BY <1>1, <1>2 DEF RecordsInv, RecordsType
<1>4. ASSUME NEW k \in Keys, Purged(k)' PROVE kept[k] \intersect due[k] = {}
  <2>1. CASE Purged(k)
    BY <2>1 DEF RecordsInv
  <2>2. CASE ~Purged(k)
    <3>1. kept[k] = {}
      BY <1>1, <1>2, <1>4, <2>2, KindsOfKeys DEF Purged
    <3> QED
      BY <3>1
  <2> QED
    BY <2>1, <2>2
<1> QED
  BY <1>1, <1>3, <1>4 DEF RecordsInv

LEMMA StartPurgeInv == ASSUME RecordsInv, StartPurge PROVE RecordsInv'
<1>1. /\ at' = 1 /\ cut' = second - Window
      /\ due' = [k \in Keys |-> {t \in kept[k] : t < second - Window}]
      /\ UNCHANGED <<second, kept, todo, written>>
  BY DEF StartPurge
<1>2. RecordsType'
  BY <1>1, WindowAssumption DEF RecordsInv, RecordsType
<1>3. \A k \in Keys : \A t \in written[k] \ kept[k] : t < cut'
  BY <1>1, WindowAssumption DEF RecordsInv, RecordsType
<1>4. \A k \in Keys : ~Purged(k)'
  BY <1>1 DEF Purged
<1> QED
  BY <1>1, <1>2, <1>3, <1>4 DEF RecordsInv

LEMMA PurgeFailsInv == ASSUME RecordsInv, PurgeFails PROVE RecordsInv'
<1>1. /\ due' = [k \in Keys |-> {}] /\ UNCHANGED <<second, kept, cut, written>>
      /\ at' \in {0, at} /\ todo' \subseteq todo
  BY DEF PurgeFails
<1>2. RecordsType'
  BY <1>1 DEF RecordsInv, RecordsType
<1> QED
  BY <1>1, <1>2 DEF RecordsInv

\* No purge takes a record that is younger than the window, whatever is added
\* while it runs and whatever fails, and one that met no failure has removed
\* every old record it met, for any window and number of keys.
THEOREM YoungRecordsKept == RecordsSpec => []RecordsKept
<1>1. RecordsInit => RecordsInv
  BY RecordsInitInv
<1>2. RecordsInv /\ [RecordsNext]_recordVars => RecordsInv'
  <2> SUFFICES ASSUME RecordsInv, [RecordsNext]_recordVars PROVE RecordsInv'
    OBVIOUS
  <2>0. second \in Nat
    BY DEF RecordsInv, RecordsType
  <2>1. ASSUME RecordWin \/ (\E ms \in SUBSET Owners \ {{}} : RecordPayment(ms)) PROVE RecordsInv'
    <3>1. PICK keys : Add(keys, second)
      BY <2>1 DEF RecordWin, RecordPayment
    <3>2. UNCHANGED second
      BY <3>1 DEF Add
    <3> QED
      BY <2>0, <3>1, <3>2, AddInv
  <2>2. ASSUME NEW m \in Owners, NEW j \in Jobs, RecordReward(m, j) PROVE RecordsInv'
    <3>1. PICK ts \in {second, second - 1} : Add({<<"rewards", j>>, <<"rewards", m>>, <<"balance", m>>}, ts)
      BY <2>2 DEF RecordReward
    <3>2. UNCHANGED second
      BY <3>1 DEF Add
    <3> QED
      BY <2>0, <3>1, <3>2, AddInv
  <2>3. CASE PassSecond
    BY <2>3, WindowAssumption DEF PassSecond, RecordsInv, RecordsType, Purged
  <2>4. CASE UNCHANGED recordVars
    BY <2>4 DEF recordVars, RecordsInv, RecordsType, Purged
  <2> QED
    BY <2>1, <2>2, <2>3, <2>4, StartPurgeInv, PurgePoolKeyInv, PurgeScannedInv, EndScanInv,
       PurgeFailsInv DEF RecordsNext
<1>3. RecordsInv => RecordsKept
  BY DEF RecordsInv, RecordsKept, Purged
<1> QED
  BY <1>1, <1>2, <1>3, PTL DEF RecordsSpec

-----------------------------------------------------------------------------
(* The call that collects answers *)

\* The workers whose answer the handler has added.
Collected == {u \in Uids : gather[u] = "ended" /\ \A v \in chan : v.uid # u}

CallRecords == [at : {"idle", "no workers", "collect", "answered", "timeout"}, now : Nat,
                workers : SUBSET Uids, result : SUBSET Uids, count : Nat, online : Nat]
Answers == [uid : Uids, named : BOOLEAN, timeout : BOOLEAN]
Steadies == [call : SUBSET Uids, fresh : SUBSET Uids, some : SUBSET Uids, walk : SUBSET Uids]

\* The shape of the state the call is about.
CallType ==
    /\ clock \in Nat /\ beat \in [Uids -> Int] /\ listed \subseteq Uids
    /\ call \in CallRecords
    /\ gather \in [Uids -> {"none", "look", "ended"}]
    /\ chan \subseteq Answers
    /\ steady \in Steadies

\* The goroutines are those of the workers, each answers once, and the handler
\* has counted the answers it took.
CallBooks ==
    /\ call.at = "idle" => call = NoCall
    /\ \A u \in Uids : gather[u] # "none" => u \in call.workers
    /\ \A v \in chan : gather[v.uid] = "ended" /\ \A w \in chan : w.uid = v.uid => w = v
    /\ call.count = Cardinality(Collected)
    /\ call.at = "answered" => call.count = Cardinality(call.workers)

\* Those that stayed are registered, and heard in time of the call's own clock
\* reading.
CallSteady ==
    /\ call.now <= clock
    /\ steady.call \subseteq call.workers /\ steady.call \subseteq Registered
    /\ steady.fresh \subseteq call.workers
    /\ \A u \in steady.fresh : u \in Registered /\ call.now - beat[u] <= Timeout
    /\ call.workers # {} => Registered \subseteq steady.some

\* An answer says what was so when it was sent, and stays true of those that
\* stayed; the result holds those that were collected.
CallSays ==
    /\ call.result \subseteq steady.some
    /\ \A v \in chan : /\ v.named => v.uid \in steady.some
                       /\ v.uid \in steady.call => v.named
                       /\ v.uid \in steady.fresh => ~v.timeout
    /\ Collected \intersect steady.call \subseteq call.result
    /\ Cardinality(Collected \intersect steady.fresh) <= call.online

\* The invariant of the call; its parts are inductive together.
CallInv == CallType /\ CallBooks /\ CallSteady /\ CallSays

\* Sets of uids are finite, and adding one counts one.
LEMMA UidSets ==
    ASSUME NEW S \in SUBSET Uids
    PROVE  /\ IsFiniteSet(S)
           /\ Cardinality(S) \in Nat
           /\ \A u \in Uids : Cardinality(S \union {u}) = IF u \in S THEN Cardinality(S)
                                                          ELSE Cardinality(S) + 1
           /\ \A T \in SUBSET S : Cardinality(T) <= Cardinality(S)
                                  /\ (Cardinality(T) = Cardinality(S) => T = S)
<1>1. IsFiniteSet(S)
  BY UidsFinite, FS_Subset
<1>2. Cardinality(S) \in Nat
  BY <1>1, FS_CardinalityType
<1>3. ASSUME NEW u \in Uids
      PROVE  Cardinality(S \union {u}) = IF u \in S THEN Cardinality(S) ELSE Cardinality(S) + 1
  BY <1>1, FS_AddElement
<1>4. ASSUME NEW T \in SUBSET S
      PROVE  Cardinality(T) <= Cardinality(S) /\ (Cardinality(T) = Cardinality(S) => T = S)
  BY <1>1, FS_Subset
<1> QED
  BY <1>1, <1>2, <1>3, <1>4

LEMMA NoUids == Cardinality({}) = 0
BY FS_EmptySet

LEMMA CallFields ==
    ASSUME CallType
    PROVE  /\ call.now \in Nat /\ call.count \in Nat /\ call.online \in Nat
           /\ call.workers \subseteq Uids /\ call.result \subseteq Uids
           /\ steady.call \subseteq Uids /\ steady.fresh \subseteq Uids
           /\ steady.some \subseteq Uids /\ steady.walk \subseteq Uids
           /\ steady = [call |-> steady.call, fresh |-> steady.fresh, some |-> steady.some,
                        walk |-> steady.walk]
           /\ \A v \in chan : v \in Answers /\ v.uid \in Uids
           /\ \A S1, S2, S3, S4 \in SUBSET Uids :
                 [call |-> S1, fresh |-> S2, some |-> S3, walk |-> S4] \in Steadies
BY DEF CallType, CallRecords, Answers, Steadies

LEMMA CallInitInv == ASSUME StatisticsInit PROVE CallInv
<1>1. /\ clock = 0 /\ beat \in [Uids -> {Gone, 0}] /\ call = NoCall
      /\ gather = [u \in Uids |-> "none"] /\ chan = {}
      /\ steady = [call |-> {}, fresh |-> {}, some |-> {}, walk |-> {}]
  BY DEF StatisticsInit
<1>2. beat \in [Uids -> Int]
  BY <1>1, TimeoutAssumption DEF Gone
<1>3. listed \subseteq Uids
  BY AskedAssumption DEF StatisticsInit, Registered
<1>4. Collected = {}
  BY <1>1 DEF Collected
<1>5. CallType
  BY <1>1, <1>2, <1>3 DEF CallType, NoCall, CallRecords, Answers, Steadies
<1>6. CallBooks
  BY <1>1, <1>4, NoUids DEF CallBooks, NoCall
<1>7. CallSteady
  BY <1>1 DEF CallSteady, NoCall
<1>8. Collected \intersect steady.fresh = {}
  BY <1>4
<1>9. CallSays
  BY <1>1, <1>4, <1>8, NoUids DEF CallSays, NoCall
<1> QED
  BY <1>5, <1>6, <1>7, <1>9 DEF CallInv

\* What does not touch the call leaves its books alone.
LEMMA BooksKept == ASSUME CallBooks, UNCHANGED <<call, gather, chan>> PROVE CallBooks' /\ Collected' = Collected
<1>1. Collected' = Collected
  BY DEF Collected
<1> QED
  BY <1>1 DEF CallBooks

LEMMA LoginCallInv == ASSUME CallInv, NEW u \in Uids, LoginMiner(u) PROVE CallInv'
<1>1. /\ u \notin Registered /\ beat' = [beat EXCEPT ![u] = NoBeat]
      /\ steady' = [steady EXCEPT !.some = @ \union {u}]
      /\ UNCHANGED <<clock, listed, call, gather, chan>>
  BY DEF LoginMiner
<1>2. /\ steady' = [call |-> steady.call, fresh |-> steady.fresh, some |-> steady.some \union {u},
                    walk |-> steady.walk]
      /\ steady'.call = steady.call /\ steady'.fresh = steady.fresh
      /\ steady'.some = steady.some \union {u}
  <2>1. steady = [call |-> steady.call, fresh |-> steady.fresh, some |-> steady.some,
                  walk |-> steady.walk]
    BY CallFields DEF CallInv
  <2> QED
    BY <1>1, <2>1
<1>3. steady' \in Steadies
  BY <1>2, CallFields DEF CallInv
<1>4. \A w \in Uids : w # u => beat'[w] = beat[w]
  BY <1>1 DEF CallInv, CallType
<1>5. \A w \in Uids : w \in Registered => w \in Registered' /\ beat'[w] = beat[w]
  BY <1>1, <1>4 DEF Registered
<1>6. Registered' \subseteq Registered \union {u}
  BY <1>4 DEF Registered
<1>7. CallType'
  BY <1>1, <1>3, TimeoutAssumption DEF CallInv, CallType, NoBeat
<1>8. CallBooks' /\ Collected' = Collected
  BY <1>1, BooksKept DEF CallInv
<1>9. CallSteady'
  <2>1. \A w \in steady.fresh : w \in Registered' /\ call.now - beat'[w] <= Timeout
    BY <1>5, CallFields DEF CallInv, CallSteady
  <2>2. UNCHANGED <<clock, call>>
    BY <1>1
  <2>3. steady.call \subseteq Registered' /\ (call.workers # {} => Registered' \subseteq steady'.some)
    BY <1>2, <1>5, <1>6, CallFields DEF CallInv, CallSteady
  <2> QED
    BY <1>2, <2>1, <2>2, <2>3 DEF CallInv, CallSteady
<1>10. CallSays'
  BY <1>1, <1>2, <1>8 DEF CallInv, CallSays
<1> QED
  BY <1>7, <1>8, <1>9, <1>10 DEF CallInv

LEMMA LogoutCallInv == ASSUME CallInv, NEW u \in Uids, LogoutMiner(u) PROVE CallInv'
<1>1. /\ u \in Registered /\ beat' = [beat EXCEPT ![u] = Gone]
      /\ steady' = [steady EXCEPT !.call = @ \ {u}, !.fresh = @ \ {u}, !.walk = @ \ {u}]
      /\ UNCHANGED <<clock, listed, call, gather, chan>>
  BY DEF LogoutMiner
<1>2. steady = [call |-> steady.call, fresh |-> steady.fresh, some |-> steady.some,
                walk |-> steady.walk]
  BY CallFields DEF CallInv
<1>3. steady' = [call |-> steady.call \ {u}, fresh |-> steady.fresh \ {u}, some |-> steady.some,
                 walk |-> steady.walk \ {u}]
  BY <1>1, <1>2
<1>4. /\ steady'.call = steady.call \ {u} /\ steady'.fresh = steady.fresh \ {u}
      /\ steady'.some = steady.some
  BY <1>3
<1>5. \A w \in Uids : w # u => beat'[w] = beat[w]
  BY <1>1 DEF CallInv, CallType
<1>6. Registered' = Registered \ {u}
  BY <1>1, <1>5 DEF Registered, CallInv, CallType
<1>7. steady' \in Steadies
  BY <1>3, CallFields DEF CallInv
<1>8. CallType'
  BY <1>1, <1>7, TimeoutAssumption DEF CallInv, CallType, Gone
<1>9. CallBooks' /\ Collected' = Collected
  BY <1>1, BooksKept DEF CallInv
<1>10. CallSteady'
  <2>1. \A w \in steady'.fresh : w \in Registered' /\ call'.now - beat'[w] <= Timeout
    BY <1>1, <1>4, <1>5, <1>6 DEF CallInv, CallSteady, Registered
  <2> QED
    BY <1>1, <1>4, <1>6, <2>1 DEF CallInv, CallSteady, CallType
<1>11. CallSays'
  <2>1. Collected' \intersect steady'.fresh \in SUBSET (Collected \intersect steady.fresh)
    BY <1>4, <1>9
  <2>2. Collected \intersect steady.fresh \in SUBSET Uids
    BY DEF Collected
  <2>3. /\ Cardinality(Collected \intersect steady.fresh) \in Nat
        /\ Cardinality(Collected' \intersect steady'.fresh)
               <= Cardinality(Collected \intersect steady.fresh)
    BY <2>1, <2>2, UidSets
  <2>4. Cardinality(Collected' \intersect steady'.fresh) \in Nat
    BY <2>1, <2>2, UidSets
  <2>5. Cardinality(Collected' \intersect steady'.fresh) <= call'.online
    BY <1>1, <2>3, <2>4, CallFields DEF CallInv, CallSays
  <2> QED
    BY <1>1, <1>4, <1>9, <2>5 DEF CallInv, CallSays
<1> QED
  BY <1>8, <1>9, <1>10, <1>11 DEF CallInv

LEMMA HeartbeatCallInv == ASSUME CallInv, NEW u \in Uids, Heartbeat(u) PROVE CallInv'
<1>1. /\ u \in Registered /\ beat' = [beat EXCEPT ![u] = clock]
      /\ UNCHANGED <<clock, listed, call, gather, chan, steady>>
  BY DEF Heartbeat
<1>2. /\ \A w \in Uids : w # u => beat'[w] = beat[w]
      /\ beat'[u] = clock
  BY <1>1 DEF CallInv, CallType
<1>3. Registered' = Registered
  BY <1>1, <1>2, TimeoutAssumption DEF Registered, CallInv, CallType, Gone
<1>4. CallType'
  BY <1>1 DEF CallInv, CallType
<1>5. CallBooks' /\ Collected' = Collected
  BY <1>1, BooksKept DEF CallInv
<1>6. \A w \in steady.fresh : call.now - beat'[w] <= Timeout
  BY <1>2, TimeoutAssumption, CallFields DEF CallInv, CallSteady, CallType
<1>7. CallSteady'
  BY <1>1, <1>3, <1>6 DEF CallInv, CallSteady
<1>8. CallSays'
  BY <1>1, <1>5 DEF CallInv, CallSays
<1> QED
  BY <1>4, <1>5, <1>7, <1>8 DEF CallInv

\* The clock, the list and the pool's walk are no matter of a call that runs.
LEMMA OtherCallInv ==
    ASSUME CallInv, UNCHANGED <<beat, call, gather, chan>>, listed' \subseteq Uids,
           clock' \in {clock, clock + 1},
           UNCHANGED steady \/ steady' = [steady EXCEPT !.walk = Registered]
    PROVE  CallInv'
<1>1. /\ steady'.call = steady.call /\ steady'.fresh = steady.fresh /\ steady'.some = steady.some
      /\ steady' \in Steadies
  <2>1. steady = [call |-> steady.call, fresh |-> steady.fresh, some |-> steady.some,
                  walk |-> steady.walk]
    BY CallFields DEF CallInv
  <2>2. CASE steady' = [steady EXCEPT !.walk = Registered]
    <3>1. steady' = [call |-> steady.call, fresh |-> steady.fresh, some |-> steady.some,
                     walk |-> Registered]
      BY <2>1, <2>2
    <3> QED
      BY <3>1, CallFields DEF CallInv, Registered
  <2> QED
    BY <2>2 DEF CallInv, CallType
<1>2. CallType'
  BY <1>1 DEF CallInv, CallType
<1>3. CallBooks' /\ Collected' = Collected
  BY BooksKept DEF CallInv
<1>4. Registered' = Registered
  BY DEF Registered
<1>5. CallSteady'
  BY <1>1, <1>4, CallFields DEF CallInv, CallSteady, CallType
<1>6. CallSays'
  BY <1>1, <1>3 DEF CallInv, CallSays
<1> QED
  BY <1>2, <1>3, <1>5, <1>6 DEF CallInv

LEMMA StartCallInv == ASSUME CallInv, StartCall PROVE CallInv'
<1> DEFINE workers == listed \intersect Asked
<1>1. /\ call = NoCall /\ UNCHANGED <<clock, beat, listed, chan>>
  BY DEF StartCall, CallInv, CallBooks
<1>2. chan = {} /\ \A u \in Uids : gather[u] = "none"
  <2>1. \A u \in Uids : gather[u] = "none"
    BY <1>1 DEF CallInv, CallBooks, NoCall
  <2> QED
    BY <2>1, CallFields DEF CallInv, CallBooks
<1>3. Registered' = Registered
  BY <1>1 DEF Registered
<1>4. Collected = {}
  BY <1>2 DEF Collected
<1>5. workers \subseteq Uids
  BY AskedAssumption
<1>6. CASE workers = {}
  <2>1. call' = [NoCall EXCEPT !.at = "no workers"] /\ UNCHANGED <<gather, steady>>
    BY <1>1, <1>6 DEF StartCall
  <2>2. call' = [at |-> "no workers", now |-> 0, workers |-> {}, result |-> {}, count |-> 0,
                 online |-> 0]
    BY <2>1 DEF NoCall
  <2>3. call' \in CallRecords
    BY <2>2 DEF CallRecords
  <2>4. /\ call'.at = "no workers" /\ call'.now = call.now /\ call'.workers = call.workers
        /\ call'.result = call.result /\ call'.count = call.count /\ call'.online = call.online
    BY <1>1, <2>2 DEF NoCall
  <2>5. Collected' = Collected
    BY <1>1, <2>1 DEF Collected
  <2> HIDE DEF workers
  <2>6. CallType'
    BY <1>1, <2>1, <2>3 DEF CallInv, CallType
  <2>7. CallBooks'
    BY <1>1, <2>1, <2>4, <2>5 DEF CallInv, CallBooks
  <2>8. CallSteady'
    BY <1>1, <1>3, <2>1, <2>4 DEF CallInv, CallSteady
  <2>9. CallSays'
    BY <1>1, <2>1, <2>4, <2>5 DEF CallInv, CallSays
  <2> QED
    BY <2>6, <2>7, <2>8, <2>9 DEF CallInv
<1>7. CASE workers # {}
  <2> DEFINE fresh == {u \in workers : clock - beat[u] <= Timeout}
  <2>1. /\ call' = [NoCall EXCEPT !.at = "collect", !.now = clock, !.workers = workers]
        /\ gather' = [u \in Uids |-> IF u \in workers THEN "look" ELSE "none"]
        /\ steady' = [steady EXCEPT !.call = workers \intersect Registered, !.some = Registered,
                                    !.fresh = fresh]
    BY <1>1, <1>7 DEF StartCall
  <2>2. fresh \subseteq workers /\ \A u \in fresh : clock - beat[u] <= Timeout
    OBVIOUS
  <2>3. \A u \in fresh : u \in Registered
    BY <1>5, TimeoutAssumption DEF Registered, Gone, CallInv, CallType
  <2> HIDE DEF workers, fresh
  <2>4. call' = [at |-> "collect", now |-> clock, workers |-> workers, result |-> {}, count |-> 0,
                 online |-> 0]
    BY <2>1 DEF NoCall
  <2>5. /\ call' \in CallRecords /\ call'.at = "collect" /\ call'.now = clock
        /\ call'.workers = workers /\ call'.result = {} /\ call'.count = 0 /\ call'.online = 0
    BY <1>5, <2>4 DEF CallRecords, CallInv, CallType
  <2>6. steady = [call |-> steady.call, fresh |-> steady.fresh, some |-> steady.some,
                  walk |-> steady.walk]
    BY CallFields DEF CallInv
  <2>7. steady' = [call |-> workers \intersect Registered, fresh |-> fresh, some |-> Registered,
                   walk |-> steady.walk]
    BY <2>1, <2>6
  <2>8. /\ steady'.call = workers \intersect Registered /\ steady'.some = Registered
        /\ steady'.fresh = fresh
    BY <2>7
  <2>9. steady' \in Steadies
    BY <1>5, <2>2, <2>7, CallFields DEF CallInv, Registered
  <2>10. gather' \in [Uids -> {"none", "look", "ended"}] /\ \A u \in Uids : gather'[u] # "ended"
    BY <2>1
  <2>11. Collected' = {}
    BY <2>10 DEF Collected
  <2>12. CallType'
    BY <1>1, <2>5, <2>9, <2>10 DEF CallInv, CallType
  <2>13. CallBooks'
    <3>1. \A u \in Uids : gather'[u] # "none" => u \in workers
      BY <2>1
    <3> QED
      BY <1>1, <1>2, <2>5, <2>11, <3>1, NoUids DEF CallBooks
  <2>14. CallSteady'
    BY <1>1, <1>3, <2>2, <2>3, <2>5, <2>8 DEF CallSteady, CallInv, CallType
  <2>15. CallSays'
    <3>1. Collected' \intersect steady'.fresh = {}
      BY <2>11
    <3> QED
      BY <1>1, <1>2, <2>5, <2>11, <3>1, NoUids DEF CallSays
  <2> QED
    BY <2>12, <2>13, <2>14, <2>15 DEF CallInv
<1> QED
  BY <1>6, <1>7

LEMMA GatherInv == ASSUME CallInv, NEW u \in Uids, Gather(u) PROVE CallInv'
<1> DEFINE a == AnswerOf(u)
<1>1. /\ gather[u] = "look" /\ chan' = chan \union {a}
      /\ gather' = [gather EXCEPT ![u] = "ended"]
      /\ UNCHANGED <<clock, beat, listed, call, steady>>
  BY DEF Gather
<1>2. /\ a \in Answers /\ a.uid = u /\ a.named = (u \in Registered)
      /\ a.timeout = (u \in Registered /\ call.now - beat[u] > Timeout)
  BY DEF AnswerOf, Answers
<1> HIDE DEF a
<1>3. /\ gather' \in [Uids -> {"none", "look", "ended"}] /\ gather'[u] = "ended"
      /\ \A w \in Uids : w # u => gather'[w] = gather[w]
  BY <1>1 DEF CallInv, CallType
<1>4. \A v \in chan : v.uid # u
  BY <1>1 DEF CallInv, CallBooks
<1>5. Collected' = Collected
  BY <1>1, <1>2, <1>3, <1>4 DEF Collected
<1>6. CallType'
  BY <1>1, <1>2, <1>3 DEF CallInv, CallType
<1>7. CallBooks'
  <2>1. \A v \in chan' : gather'[v.uid] = "ended" /\ \A w \in chan' : w.uid = v.uid => w = v
    BY <1>1, <1>2, <1>3, <1>4, CallFields DEF CallInv, CallBooks
  <2>2. \A w \in Uids : gather'[w] # "none" => w \in call.workers
    BY <1>1, <1>3 DEF CallInv, CallBooks
  <2> QED
    BY <1>1, <1>5, <2>1, <2>2 DEF CallInv, CallBooks
<1>8. Registered' = Registered
  BY <1>1 DEF Registered
<1>9. CallSteady'
  BY <1>1, <1>8 DEF CallInv, CallSteady
<1>10. u \in call.workers
  BY <1>1 DEF CallInv, CallBooks
<1>11. /\ a.named => a.uid \in steady.some
       /\ a.uid \in steady.call => a.named
       /\ a.uid \in steady.fresh => ~a.timeout
  <2>1. Registered \subseteq steady.some
    BY <1>10 DEF CallInv, CallSteady
  <2>2. u \in steady.fresh => ~(call.now - beat[u] > Timeout)
    BY CallFields, TimeoutAssumption DEF CallInv, CallSteady, CallType
  <2>3. u \in steady.call => u \in Registered
    BY DEF CallInv, CallSteady
  <2> QED
    BY <1>2, <2>1, <2>2, <2>3
<1>12. CallSays'
  BY <1>1, <1>5, <1>11 DEF CallInv, CallSays
<1> QED
  BY <1>6, <1>7, <1>9, <1>12 DEF CallInv

LEMMA CollectInv == ASSUME CallInv, Collect PROVE CallInv'
<1>1. PICK v \in chan :
        /\ chan' = chan \ {v}
        /\ call' = [call EXCEPT
                        !.at = IF call.count + 1 = Cardinality(call.workers) THEN "answered" ELSE @,
                        !.count = @ + 1,
                        !.result = IF v.named THEN @ \union {v.uid} ELSE @,
                        !.online = IF v.timeout THEN @ ELSE @ + 1]
  BY DEF Collect
<1>2. call.at = "collect" /\ UNCHANGED <<clock, beat, listed, gather, steady>>
  BY DEF Collect
<1> DEFINE where == IF call.count + 1 = Cardinality(call.workers) THEN "answered" ELSE call.at
           result == IF v.named THEN call.result \union {v.uid} ELSE call.result
           online == IF v.timeout THEN call.online ELSE call.online + 1
           u == v.uid
<1>3. /\ where \in {"collect", "answered"}
      /\ where = "answered" => call.count + 1 = Cardinality(call.workers)
      /\ u \in Uids
      /\ result \subseteq Uids /\ call.result \subseteq result /\ result \subseteq call.result \union {u}
      /\ v.named => u \in result
      /\ online \in Nat /\ call.online <= online /\ (~v.timeout => online = call.online + 1)
      /\ ~v.named => result = call.result
  <2>1. call.online \in Nat /\ call.result \subseteq Uids /\ v.uid \in Uids
    BY CallFields DEF CallInv
  <2> QED
    BY <1>2, <2>1
<1>4. call = [at |-> call.at, now |-> call.now, workers |-> call.workers, result |-> call.result,
              count |-> call.count, online |-> call.online]
  BY DEF CallInv, CallType, CallRecords
<1>5. call' = [at |-> where, now |-> call.now, workers |-> call.workers, result |-> result,
               count |-> call.count + 1, online |-> online]
  BY <1>1, <1>4
<1> HIDE DEF where, result, online
<1>6. /\ call'.at = where /\ call'.now = call.now /\ call'.workers = call.workers
      /\ call'.result = result /\ call'.count = call.count + 1 /\ call'.online = online
  BY <1>5
<1>7. call' \in CallRecords
  <2>1. /\ call.now \in Nat /\ call.workers \in SUBSET Uids /\ result \in SUBSET Uids
        /\ call.count + 1 \in Nat /\ online \in Nat /\ where \in {"collect", "answered"}
    BY <1>3, CallFields DEF CallInv
  <2> QED
    BY <1>5, <2>1 DEF CallRecords
<1>8. /\ u \notin Collected /\ Collected \in SUBSET Uids
      /\ Collected' = Collected \union {u}
  <2>1. gather[u] = "ended" /\ \A w \in chan : w.uid = u => w = v
    BY <1>1 DEF CallInv, CallBooks
  <2> QED
    BY <1>1, <1>2, <1>3, <2>1 DEF Collected
<1> HIDE DEF u
<1>9. CallType'
  BY <1>1, <1>2, <1>7 DEF CallInv, CallType
<1>10. CallBooks'
  <2>1. Cardinality(Collected') = Cardinality(Collected) + 1
    BY <1>3, <1>8, UidSets
  <2>2. where = "answered" => call.count + 1 = Cardinality(call.workers)
    BY <1>3
  <2>3. where # "idle"
    BY <1>3
  <2> QED
    BY <1>1, <1>2, <1>6, <2>1, <2>2, <2>3 DEF CallInv, CallBooks
<1>11. Registered' = Registered
  BY <1>2 DEF Registered
<1>12. CallSteady'
  BY <1>2, <1>6, <1>11 DEF CallInv, CallSteady
<1>13. /\ v.named => u \in steady.some
       /\ u \in steady.call => v.named
       /\ u \in steady.fresh => ~v.timeout
  BY <1>1 DEF CallInv, CallSays, u
<1>14. CallSays'
  <2> DEFINE heard == Collected \intersect steady.fresh
  <2>1. /\ heard \in SUBSET Uids /\ u \notin heard
        /\ Collected' \intersect steady'.fresh
              = IF u \in steady.fresh THEN heard \union {u} ELSE heard
    BY <1>2, <1>8
  <2>2. Cardinality(heard) \in Nat /\ Cardinality(heard) <= call.online
    BY <2>1, UidSets DEF CallInv, CallSays
  <2>3. Cardinality(heard \union {u}) = Cardinality(heard) + 1
    BY <1>3, <2>1, UidSets
  <2> HIDE DEF heard
  <2>4. Cardinality(Collected' \intersect steady'.fresh) <= online
    <3>1. call.online \in Nat /\ online \in Nat /\ call.online <= online
          /\ (~v.timeout => online = call.online + 1)
      BY <1>3, CallFields DEF CallInv
    <3>2. CASE u \in steady.fresh
      <4>1. Collected' \intersect steady'.fresh = heard \union {u} /\ online = call.online + 1
        BY <1>13, <2>1, <3>1, <3>2
      <4>2. Cardinality(heard) + 1 <= online
        BY <2>2, <3>1, <4>1
      <4> QED
        BY <2>3, <4>1, <4>2
    <3>3. CASE u \notin steady.fresh
      <4>1. Collected' \intersect steady'.fresh = heard
        BY <2>1, <3>3
      <4>2. Cardinality(heard) <= online
        BY <2>2, <3>1
      <4> QED
        BY <4>1, <4>2
    <3> QED
      BY <3>2, <3>3
  <2>5. Collected' \intersect steady'.call \subseteq result
    BY <1>2, <1>3, <1>8, <1>13 DEF CallInv, CallSays
  <2>6. result \subseteq steady.some
    BY <1>3, <1>13 DEF CallInv, CallSays
  <2> QED
    BY <1>1, <1>2, <1>6, <2>4, <2>5, <2>6 DEF CallInv, CallSays
<1> QED
  BY <1>9, <1>10, <1>12, <1>14 DEF CallInv

LEMMA CollectTimeoutInv == ASSUME CallInv, CollectTimeout PROVE CallInv'
<1>1. /\ call' = [call EXCEPT !.at = "timeout"]
      /\ UNCHANGED <<clock, beat, listed, gather, chan, steady>>
  BY DEF CollectTimeout
<1>2. /\ call'.at = "timeout" /\ call'.now = call.now /\ call'.workers = call.workers
      /\ call'.result = call.result /\ call'.count = call.count /\ call'.online = call.online
      /\ call' \in CallRecords
  BY <1>1 DEF CallInv, CallType, CallRecords
<1>3. CallType'
  BY <1>1, <1>2 DEF CallInv, CallType
<1>4. Registered' = Registered /\ Collected' = Collected
  BY <1>1 DEF Registered, Collected
<1>5. CallBooks'
  BY <1>1, <1>2, <1>4 DEF CallInv, CallBooks
<1>6. CallSteady'
  BY <1>1, <1>2, <1>4 DEF CallInv, CallSteady
<1>7. CallSays'
  BY <1>1, <1>2, <1>4 DEF CallInv, CallSays
<1> QED
  BY <1>3, <1>5, <1>6, <1>7 DEF CallInv

-----------------------------------------------------------------------------
(* The walk over the shards *)

WalkRecords == [at : {"idle", "drain", "answered"}, now : Nat, total : SUBSET Uids, count : Nat,
                online : Nat]
Iterators == [at : {"idle", "lock", "shard", "closed"}, shard : Nat, left : SUBSET Uids]

\* The shape of its state; those that stayed are registered.
WalkType ==
    /\ walk \in WalkRecords /\ iter \in Iterators
    /\ steady.walk \subseteq Registered

\* The totals count each miner once; those handed out are of the shards the
\* iterator has passed and of the one it is in.
WalkBooks ==
    /\ walk.at = "idle" => walk = NoWalk /\ iter = NoIter
    /\ walk.at # "idle" => iter.at # "idle"
    /\ walk.at = "answered" => iter.at = "closed"
    /\ walk.count = Cardinality(walk.total) /\ walk.online <= walk.count
    /\ iter.at \in {"lock", "shard"} => iter.shard \in 1..Shards
    /\ iter.at = "lock" => \A u \in walk.total : ShardOf[u] < iter.shard
    /\ iter.at = "shard" => /\ \A u \in walk.total : ShardOf[u] <= iter.shard
                            /\ iter.left \intersect walk.total = {}
                            /\ \A u \in iter.left : ShardOf[u] = iter.shard

\* A miner that stayed is counted once the iterator has passed its shard, and
\* counted or still to be handed out in the shard it is in.
WalkCovers ==
    \A u \in steady.walk :
        /\ iter.at \in {"lock", "shard"} /\ ShardOf[u] < iter.shard => u \in walk.total
        /\ iter.at = "shard" /\ ShardOf[u] = iter.shard => u \in walk.total \union iter.left
        /\ iter.at = "closed" => u \in walk.total

\* The invariant of the walk.
WalkInv == WalkType /\ WalkBooks /\ WalkCovers

LEMMA WalkFields ==
    ASSUME WalkType
    PROVE  /\ walk = [at |-> walk.at, now |-> walk.now, total |-> walk.total, count |-> walk.count,
                      online |-> walk.online]
           /\ iter = [at |-> iter.at, shard |-> iter.shard, left |-> iter.left]
           /\ walk.now \in Nat /\ walk.total \subseteq Uids /\ walk.count \in Nat
           /\ walk.online \in Nat /\ iter.shard \in Nat /\ iter.left \subseteq Uids
           /\ steady.walk \subseteq Uids
BY DEF WalkType, WalkRecords, Iterators, Registered

LEMMA ShardsOfUids == \A u \in Uids : ShardOf[u] \in Nat /\ 1 <= ShardOf[u] /\ ShardOf[u] <= Shards
BY ShardsAssumption

LEMMA WalkInitInv == ASSUME StatisticsInit PROVE WalkInv
<1>1. walk = NoWalk /\ iter = NoIter /\ steady.walk = {}
  BY DEF StatisticsInit
<1>2. WalkType
  BY <1>1 DEF WalkType, WalkRecords, Iterators, NoWalk, NoIter
<1>3. WalkBooks
  BY <1>1, NoUids DEF WalkBooks, NoWalk, NoIter
<1>4. WalkCovers
  BY <1>1 DEF WalkCovers
<1> QED
  BY <1>2, <1>3, <1>4 DEF WalkInv

\* What the walk says of those that stayed is still said when fewer stayed.
LEMMA OtherWalkInv ==
    ASSUME WalkInv, UNCHANGED <<walk, iter>>, steady'.walk \subseteq steady.walk,
           steady'.walk \subseteq Registered'
    PROVE  WalkInv'
<1>1. WalkType'
  BY DEF WalkInv, WalkType
<1>2. WalkBooks'
  BY DEF WalkInv, WalkBooks
<1>3. WalkCovers'
  BY DEF WalkInv, WalkCovers
<1> QED
  BY <1>1, <1>2, <1>3 DEF WalkInv

LEMMA StartWalkInv == ASSUME CallInv, WalkInv, StartWalk PROVE WalkInv'
<1>1. walk = NoWalk /\ iter = NoIter
  BY DEF StartWalk, WalkInv, WalkBooks
<1>2. /\ walk' = [NoWalk EXCEPT !.at = "drain", !.now = clock]
      /\ iter' = [NoIter EXCEPT !.at = "lock", !.shard = 1]
      /\ steady' = [steady EXCEPT !.walk = Registered] /\ UNCHANGED <<clock, beat>>
  BY <1>1 DEF StartWalk
<1>3. /\ walk' = [at |-> "drain", now |-> clock, total |-> {}, count |-> 0, online |-> 0]
      /\ iter' = [at |-> "lock", shard |-> 1, left |-> {}]
  BY <1>2 DEF NoWalk, NoIter
<1>4. steady'.walk = Registered /\ Registered' = Registered
  <2>1. steady' = [call |-> steady.call, fresh |-> steady.fresh, some |-> steady.some,
                   walk |-> Registered]
    BY <1>2, CallFields DEF CallInv
  <2> QED
    BY <1>2, <2>1 DEF Registered
<1>5. WalkType'
  BY <1>3, <1>4 DEF WalkType, WalkRecords, Iterators, CallInv, CallType
<1>6. WalkBooks'
  BY <1>3, NoUids, ShardsAssumption DEF WalkBooks
<1>7. WalkCovers'
  BY <1>3, <1>4, ShardsOfUids DEF WalkCovers, Registered
<1> QED
  BY <1>5, <1>6, <1>7 DEF WalkInv

LEMMA LockShardInv == ASSUME WalkInv, LockShard PROVE WalkInv'
<1>1. /\ iter.at = "lock" /\ iter' = [iter EXCEPT !.at = "shard",
                                         !.left = {u \in Registered : ShardOf[u] = iter.shard}]
      /\ UNCHANGED <<beat, walk, steady>>
  BY DEF LockShard
<1>2. iter' = [at |-> "shard", shard |-> iter.shard,
               left |-> {u \in Registered : ShardOf[u] = iter.shard}]
  BY <1>1, WalkFields DEF WalkInv
<1>3. /\ iter'.at = "shard" /\ iter'.shard = iter.shard
      /\ iter'.left = {u \in Registered : ShardOf[u] = iter.shard}
  BY <1>2
<1>4. Registered' = Registered
  BY <1>1 DEF Registered
<1>5. iter' \in Iterators
  BY <1>2, WalkFields DEF Iterators, Registered, WalkInv
<1>6. WalkType'
  BY <1>1, <1>4, <1>5 DEF WalkInv, WalkType
<1>7. WalkBooks'
  <2>1. \A u \in walk.total : ShardOf[u] < iter.shard /\ ShardOf[u] <= iter.shard
                               /\ ShardOf[u] # iter.shard
    BY <1>1, WalkFields, ShardsOfUids DEF WalkInv, WalkBooks
  <2>2. walk.at # "idle"
    BY <1>1 DEF WalkInv, WalkBooks, NoIter
  <2> QED
    BY <1>1, <1>3, <2>1, <2>2 DEF WalkInv, WalkBooks
<1>8. WalkCovers'
  BY <1>1, <1>3 DEF WalkInv, WalkCovers, WalkType
<1> QED
  BY <1>6, <1>7, <1>8 DEF WalkInv

LEMMA HandOutInv == ASSUME WalkInv, HandOut PROVE WalkInv'
<1>1. PICK u \in iter.left :
        /\ iter' = [iter EXCEPT !.left = @ \ {u}]
        /\ walk' = [walk EXCEPT !.total = @ \union {u}, !.count = @ + 1,
                                !.online = IF walk.now - beat[u] <= Timeout THEN @ + 1 ELSE @]
  BY DEF HandOut
<1>2. walk.at = "drain" /\ iter.at = "shard" /\ UNCHANGED <<beat, steady>>
  BY DEF HandOut
<1> DEFINE online == IF walk.now - beat[u] <= Timeout THEN walk.online + 1 ELSE walk.online
<1>3. walk' = [at |-> walk.at, now |-> walk.now, total |-> walk.total \union {u},
               count |-> walk.count + 1, online |-> online]
  BY <1>1, WalkFields DEF WalkInv
<1>4. iter' = [at |-> iter.at, shard |-> iter.shard, left |-> iter.left \ {u}]
  BY <1>1, WalkFields DEF WalkInv
<1>5. online \in Nat /\ online <= walk.online + 1
  BY WalkFields DEF WalkInv
<1> HIDE DEF online
<1>6. /\ walk'.at = "drain" /\ walk'.total = walk.total \union {u} /\ walk'.count = walk.count + 1
      /\ walk'.online = online /\ iter'.at = "shard" /\ iter'.shard = iter.shard
      /\ iter'.left = iter.left \ {u}
  BY <1>2, <1>3, <1>4
<1>7. u \in Uids /\ u \notin walk.total /\ ShardOf[u] = iter.shard
  BY <1>1, <1>2, WalkFields DEF WalkInv, WalkBooks
<1>8. WalkType'
  <2>1. walk' \in WalkRecords
    BY <1>2, <1>3, <1>5, <1>7, WalkFields DEF WalkInv, WalkRecords
  <2>2. iter' \in Iterators
    BY <1>2, <1>4, WalkFields DEF WalkInv, Iterators
  <2> QED
    BY <1>2, <2>1, <2>2 DEF WalkInv, WalkType, Registered
<1>9. WalkBooks'
  <2>1. Cardinality(walk'.total) = walk.count + 1
    BY <1>6, <1>7, UidSets, WalkFields DEF WalkInv, WalkBooks
  <2>2. walk'.online <= walk'.count
    BY <1>5, <1>6, WalkFields DEF WalkInv, WalkBooks
  <2>3. \A w \in walk'.total : ShardOf[w] <= iter.shard
    BY <1>2, <1>6, <1>7, WalkFields DEF WalkInv, WalkBooks
  <2>4. iter'.left \intersect walk'.total = {} /\ \A w \in iter'.left : ShardOf[w] = iter.shard
    BY <1>2, <1>6 DEF WalkInv, WalkBooks
  <2>5. iter.shard \in 1..Shards
    BY <1>2 DEF WalkInv, WalkBooks
  <2> QED
    BY <1>6, <2>1, <2>2, <2>3, <2>4, <2>5 DEF WalkBooks
<1>10. WalkCovers'
  BY <1>2, <1>6 DEF WalkInv, WalkCovers
<1> QED
  BY <1>8, <1>9, <1>10 DEF WalkInv

LEMMA UnlockShardInv == ASSUME WalkInv, UnlockShard PROVE WalkInv'
<1>1. /\ iter.at = "shard" /\ iter.left = {} /\ UNCHANGED <<beat, walk, steady>>
      /\ iter' = IF iter.shard = Shards THEN [iter EXCEPT !.at = "closed"]
                                        ELSE [iter EXCEPT !.at = "lock", !.shard = @ + 1]
  BY DEF UnlockShard
<1>2. iter' = [at |-> IF iter.shard = Shards THEN "closed" ELSE "lock",
               shard |-> IF iter.shard = Shards THEN iter.shard ELSE iter.shard + 1,
               left |-> iter.left]
  BY <1>1, WalkFields DEF WalkInv
<1>3. /\ iter'.at = IF iter.shard = Shards THEN "closed" ELSE "lock"
      /\ iter'.shard = IF iter.shard = Shards THEN iter.shard ELSE iter.shard + 1
  BY <1>2
<1>4. Registered' = Registered
  BY <1>1 DEF Registered
<1>5. iter.shard \in 1..Shards /\ Shards \in Nat /\ walk.at # "idle" /\ walk.at # "answered"
  BY <1>1, ShardsAssumption DEF WalkInv, WalkBooks, NoIter
<1>6. WalkType'
  <2>1. iter' \in Iterators
    BY <1>2, <1>5, WalkFields DEF WalkInv, Iterators
  <2> QED
    BY <1>1, <1>4, <2>1 DEF WalkInv, WalkType
<1>7. \A u \in walk.total : ShardOf[u] < iter.shard + 1
  BY <1>1, WalkFields, ShardsOfUids DEF WalkInv, WalkBooks
<1>8. WalkBooks'
  BY <1>1, <1>3, <1>5, <1>7 DEF WalkInv, WalkBooks
<1>9. \A u \in steady.walk : ShardOf[u] <= iter.shard => u \in walk.total
  BY <1>1, WalkFields, ShardsOfUids DEF WalkInv, WalkCovers
<1>10. \A u \in steady.walk : ShardOf[u] \in Nat /\ ShardOf[u] <= Shards
  BY WalkFields, ShardsOfUids DEF WalkInv
<1>11. WalkCovers'
  BY <1>1, <1>3, <1>5, <1>9, <1>10 DEF WalkCovers
<1> QED
  BY <1>6, <1>8, <1>11 DEF WalkInv

LEMMA AnswerWalkInv == ASSUME WalkInv, AnswerWalk PROVE WalkInv'
<1>1. walk' = [walk EXCEPT !.at = "answered"] /\ iter.at = "closed" /\ UNCHANGED <<beat, iter, steady>>
  BY DEF AnswerWalk
<1>2. /\ walk'.at = "answered" /\ walk'.total = walk.total /\ walk'.count = walk.count
      /\ walk'.online = walk.online /\ walk' \in WalkRecords
  BY <1>1 DEF WalkInv, WalkType, WalkRecords
<1>3. WalkType'
  BY <1>1, <1>2 DEF WalkInv, WalkType, Registered
<1>4. WalkBooks'
  BY <1>1, <1>2 DEF WalkInv, WalkBooks
<1>5. WalkCovers'
  BY <1>1, <1>2 DEF WalkInv, WalkCovers
<1> QED
  BY <1>3, <1>4, <1>5 DEF WalkInv

-----------------------------------------------------------------------------

\* The hash rate that is answered covers every worker once and says of those
\* that stayed what is so, and the totals of the pool count every miner that
\* stayed once, whatever logs in, beats and leaves meanwhile, for any number of
\* workers and shards.
THEOREM StatisticsCover == StatisticsSpec => []StatisticsHonest
<1>1. StatisticsInit => CallInv /\ WalkInv
  BY CallInitInv, WalkInitInv
<1>2. CallInv /\ WalkInv /\ [StatisticsNext]_apiVars => (CallInv /\ WalkInv)'
  <2> SUFFICES ASSUME CallInv, WalkInv, [StatisticsNext]_apiVars PROVE CallInv' /\ WalkInv'
    OBVIOUS
  <2>1. steady.walk \subseteq Registered
    BY DEF WalkInv, WalkType
  <2>2. steady = [call |-> steady.call, fresh |-> steady.fresh, some |-> steady.some,
                  walk |-> steady.walk]
    BY CallFields DEF CallInv
  <2>3. ASSUME NEW u \in Uids, LoginMiner(u) PROVE CallInv' /\ WalkInv'
    <3>1. /\ u \notin Registered /\ beat' = [beat EXCEPT ![u] = NoBeat] /\ UNCHANGED <<walk, iter>>
          /\ steady' = [steady EXCEPT !.some = @ \union {u}]
      BY <2>3 DEF LoginMiner
    <3>2. steady' = [call |-> steady.call, fresh |-> steady.fresh, some |-> steady.some \union {u},
                     walk |-> steady.walk]
      BY <2>2, <3>1
    <3>3. steady'.walk = steady.walk
      BY <3>2
    <3>4. Registered \subseteq Registered'
      <4>1. \A w \in Registered : w # u /\ beat'[w] = beat[w]
        BY <3>1 DEF Registered, CallInv, CallType
      <4> QED
        BY <4>1 DEF Registered
    <3> QED
      BY <2>1, <2>3, <3>1, <3>3, <3>4, LoginCallInv, OtherWalkInv
  <2>4. ASSUME NEW u \in Uids, LogoutMiner(u) PROVE CallInv' /\ WalkInv'
    <3>1. /\ beat' = [beat EXCEPT ![u] = Gone] /\ UNCHANGED <<walk, iter>>
          /\ steady' = [steady EXCEPT !.call = @ \ {u}, !.fresh = @ \ {u}, !.walk = @ \ {u}]
      BY <2>4 DEF LogoutMiner
    <3>2. steady' = [call |-> steady.call \ {u}, fresh |-> steady.fresh \ {u}, some |-> steady.some,
                     walk |-> steady.walk \ {u}]
      BY <2>2, <3>1
    <3>3. steady'.walk = steady.walk \ {u}
      BY <3>2
    <3>4. Registered \ {u} \subseteq Registered'
      BY <3>1 DEF Registered, CallInv, CallType
    <3> QED
      BY <2>1, <2>4, <3>1, <3>3, <3>4, LogoutCallInv, OtherWalkInv
  <2>5. ASSUME NEW u \in Uids, Heartbeat(u) PROVE CallInv' /\ WalkInv'
    <3>1. beat' = [beat EXCEPT ![u] = clock] /\ UNCHANGED <<walk, iter, steady>>
      BY <2>5 DEF Heartbeat
    <3>2. Registered \subseteq Registered'
      BY <3>1, TimeoutAssumption DEF Registered, CallInv, CallType, Gone
    <3> QED
      BY <2>1, <2>5, <3>1, <3>2, HeartbeatCallInv, OtherWalkInv
  <2>6. ASSUME UNCHANGED <<beat, walk, iter, steady>> PROVE WalkInv'
    BY <2>1, <2>6, OtherWalkInv DEF Registered
  <2>7. ASSUME NEW u \in Uids, ListMiner(u) PROVE CallInv' /\ WalkInv'
    <3>1. listed' = listed \union {u}
          /\ UNCHANGED <<clock, beat, call, gather, chan, walk, iter, steady>>
      BY <2>7 DEF ListMiner
    <3>2. listed' \subseteq Uids
      BY <3>1 DEF CallInv, CallType
    <3> QED
      BY <2>6, <3>1, <3>2, OtherCallInv
  <2>8. CASE Tick \/ UNCHANGED apiVars
    <3>1. /\ clock' \in {clock, clock + 1}
          /\ UNCHANGED <<beat, listed, call, gather, chan, walk, iter, steady>>
      BY <2>8 DEF Tick, apiVars
    <3>2. listed' \subseteq Uids
      BY <3>1 DEF CallInv, CallType
    <3> QED
      BY <2>6, <3>1, <3>2, OtherCallInv
  <2>9. ASSUME NEW u \in Uids, Gather(u) PROVE CallInv' /\ WalkInv'
    BY <2>6, <2>9, GatherInv DEF Gather
  <2>10. CASE Collect \/ CollectTimeout
    BY <2>6, <2>10, CollectInv, CollectTimeoutInv DEF Collect, CollectTimeout
  <2>11. CASE StartCall
    <3>1. steady'.walk = steady.walk
      <4> DEFINE workers == listed \intersect Asked
                 fresh == {u \in workers : clock - beat[u] <= Timeout}
      <4>1. CASE workers = {}
        BY <2>11, <4>1 DEF StartCall
      <4>2. CASE workers # {}
        <5>1. steady' = [steady EXCEPT !.call = workers \intersect Registered, !.some = Registered,
                                       !.fresh = fresh]
          BY <2>11, <4>2 DEF StartCall
        <5> HIDE DEF workers, fresh
        <5>2. steady' = [call |-> workers \intersect Registered, fresh |-> fresh,
                         some |-> Registered, walk |-> steady.walk]
          BY <2>2, <5>1
        <5> QED
          BY <5>2
      <4> QED
        BY <4>1, <4>2
    <3>2. UNCHANGED <<beat, walk, iter>>
      BY <2>11 DEF StartCall
    <3> QED
      BY <2>1, <2>11, <3>1, <3>2, StartCallInv, OtherWalkInv DEF Registered
  <2>12. CASE StartWalk
    <3>1. CallInv'
      BY <2>12, OtherCallInv DEF StartWalk, CallInv, CallType
    <3> QED
      BY <2>12, <3>1, StartWalkInv
  <2>13. ASSUME UNCHANGED <<clock, beat, listed, call, gather, chan, steady>> PROVE CallInv'
    BY <2>13, OtherCallInv DEF CallInv, CallType
  <2>14. CASE LockShard \/ HandOut \/ UnlockShard \/ AnswerWalk
    <3>1. UNCHANGED <<clock, beat, listed, call, gather, chan, steady>>
      BY <2>14 DEF LockShard, HandOut, UnlockShard, AnswerWalk
    <3> QED
      BY <2>13, <2>14, <3>1, LockShardInv, HandOutInv, UnlockShardInv, AnswerWalkInv
  <2> QED
    BY <2>3, <2>4, <2>5, <2>7, <2>8, <2>9, <2>10, <2>11, <2>12, <2>14 DEF StatisticsNext, Connection
<1>3. CallInv /\ WalkInv => StatisticsHonest
  <2> SUFFICES ASSUME CallInv, WalkInv PROVE StatisticsHonest
    OBVIOUS
  <2>1. ASSUME call.at = "answered"
        PROVE  /\ call.count = Cardinality(call.workers)
               /\ steady.call \subseteq call.result /\ call.result \subseteq steady.some
               /\ Cardinality(steady.fresh) <= call.online
    <3>1. Collected \subseteq call.workers /\ call.workers \in SUBSET Uids
      BY CallFields DEF CallInv, CallBooks, Collected
    <3>2. Cardinality(Collected) = Cardinality(call.workers)
      BY <2>1 DEF CallInv, CallBooks
    <3>3. Collected = call.workers
      BY <3>1, <3>2, UidSets
    <3>4. Collected \intersect steady.fresh = steady.fresh
          /\ Collected \intersect steady.call = steady.call
      BY <3>3 DEF CallInv, CallSteady
    <3> QED
      BY <2>1, <3>4 DEF CallInv, CallBooks, CallSays
  <2>2. ASSUME walk.at = "answered"
        PROVE  /\ walk.count = Cardinality(walk.total)
               /\ steady.walk \subseteq walk.total
               /\ walk.online <= walk.count
    BY <2>2 DEF WalkInv, WalkBooks, WalkCovers
  <2> QED
    BY <2>1, <2>2 DEF StatisticsHonest
<1> QED
  BY <1>1, <1>2, <1>3, PTL DEF StatisticsSpec
=============================================================================
