------------------------------ MODULE Records -------------------------------
(***************************************************************************)
(* The records the transactions of kvstore/kvrocks.go add to sorted sets   *)
(* next to the counters, each under the second it belongs to, and          *)
(* PurgeRecords, which a timer of the stratum server starts: it removes    *)
(* what is older than a window, first from the sets of the pool, then from *)
(* the sets of each kind that SCAN finds.                                  *)
(*                                                                         *)
(* A record is its second; its text is left out.  SCAN promises the keys   *)
(* that exist from its start to its end, each at least once, and may give  *)
(* others.                                                                 *)
(***************************************************************************)
EXTENDS Integers, Sequences, FiniteSets

CONSTANTS
    Owners,     \* miners that have records
    Jobs,       \* pre-hashes of won blocks
    Window,     \* purgeWindow, in ticks
    LastSecond, \* bound: time stops here
    MaxWrites,  \* bound: transactions
    MaxFaults   \* bound: calls of kvrocks that fail during purges

ASSUME WindowAssumption == Window \in Nat \ {0} /\ LastSecond \in Nat

\* pool:donate and pool:rewards, and the kinds of sets SCAN looks for, in the
\* order of the purge.
PoolKeys == <<"donate", "rewards">>
Kinds == <<"balance", "rewards", "payment">>

Keys == ({"pool"} \X {"donate", "rewards"}) \union ({"balance", "payment"} \X Owners) \union
        ({"rewards"} \X (Owners \union Jobs))

VARIABLES
    second,   \* the time
    kept,      \* the records in each sorted set
    at,       \* where the purge is: 0, a pool key, or a kind (after the pool keys)
    cut,      \* the second it keeps from
    todo,     \* keys of the kind that the scan has still to give
    writes,   \* transactions so far
    faults,   \* failed calls so far
    written,  \* history: all records ever added
    due       \* history: per key the old records the purge met at its start; {} after a failure

recordVars == <<second, kept, at, cut, todo, writes, faults, written, due>>

RecordsInit ==
    /\ second = 0
    /\ kept = [k \in Keys |-> {}]
    /\ at = 0 /\ cut = -Window /\ todo = {}
    /\ writes = 0 /\ faults = 0
    /\ written = kept
    /\ due = kept

-----------------------------------------------------------------------------

Add(keys, ts) ==
    /\ writes < MaxWrites
    /\ writes' = writes + 1
    /\ kept' = [k \in Keys |-> IF k \in keys THEN kept[k] \union {ts} ELSE kept[k]]
    /\ written' = [k \in Keys |-> IF k \in keys THEN written[k] \union {ts} ELSE written[k]]
    /\ UNCHANGED <<second, at, cut, todo, faults, due>>

\* SetWinReward.
RecordWin == Add({<<"pool", "donate">>, <<"pool", "rewards">>}, second)

\* SetMinerReward, also for the credits of a division that began a tick ago.
RecordReward(m, j) ==
    \E ts \in {second, second - 1} :
        /\ ts >= 0
        /\ Add({<<"rewards", j>>, <<"rewards", m>>, <<"balance", m>>}, ts)

\* SetChunkPayment.
RecordPayment(ms) == Add({"payment", "balance"} \X ms, second)

PassSecond ==
    /\ second < LastSecond
    /\ second' = second + 1
    /\ UNCHANGED <<kept, at, cut, todo, writes, faults, written, due>>

-----------------------------------------------------------------------------

Steps == Len(PoolKeys) + Len(Kinds)
Kind == Kinds[at - Len(PoolKeys)]
OfKind(kind) == {k \in Keys : k[1] = kind /\ kept[k] # {}}

\* Mutant: the maximum of the range is inclusive.
RemoveRangeInclusive(k) == kept' = [kept EXCEPT ![k] = {t \in @ : t > cut}]

\* ZREMRANGEBYSCORE k -inf (cut
RemoveRange(k) == kept' = [kept EXCEPT ![k] = {t \in @ : t >= cut}]

\* The timer fires.
StartPurge ==
    /\ at = 0 /\ second > 0
    /\ at' = 1
    /\ cut' = second - Window
    /\ due' = [k \in Keys |-> {t \in kept[k] : t < second - Window}]
    /\ UNCHANGED <<second, kept, todo, writes, faults, written>>

\* The next step: another key of the pool, or the scan of a kind begins.
Proceed ==
    LET to == (at + 1) % (Steps + 1)
    IN  /\ at' = to
        /\ todo' = IF to > Len(PoolKeys) THEN OfKind(Kinds[to - Len(PoolKeys)]) ELSE {}

PurgePoolKey ==
    /\ at \in 1..Len(PoolKeys)
    /\ RemoveRange(<<"pool", PoolKeys[at]>>)
    /\ Proceed
    /\ UNCHANGED <<second, cut, writes, faults, written, due>>

PurgeScanned ==
    /\ at > Len(PoolKeys)
    /\ \E k \in todo :
        /\ RemoveRange(k)
        /\ todo' = todo \ {k}
    /\ UNCHANGED <<second, at, cut, writes, faults, written, due>>

EndScan ==
    /\ at > Len(PoolKeys) /\ todo = {}
    /\ Proceed
    /\ UNCHANGED <<second, kept, cut, writes, faults, written, due>>

\* A failed call ends the purge at the keys of the pool and in the scan of the
\* payments; in the other scans the keys of the batch, or all, are skipped.
PurgeFails ==
    /\ at > 0 /\ faults < MaxFaults
    /\ faults' = faults + 1
    /\ due' = [k \in Keys |-> {}]
    /\ IF at \in 1..Len(PoolKeys) \/ Kind = "payment"
       THEN at' = 0 /\ todo' = {}
       ELSE at' = at /\ todo' \in SUBSET todo \ {todo}
    /\ UNCHANGED <<second, kept, cut, writes, written>>

RecordsNext ==
    \/ RecordWin
    \/ \E m \in Owners, j \in Jobs : RecordReward(m, j)
    \/ \E ms \in SUBSET Owners \ {{}} : RecordPayment(ms)
    \/ PassSecond
    \/ StartPurge \/ PurgePoolKey \/ PurgeScanned \/ EndScan \/ PurgeFails

RecordsSpec == RecordsInit /\ [][RecordsNext]_recordVars

-----------------------------------------------------------------------------

\* No purge takes a record younger than the window, and one that met no failure
\* leaves none of the old records it met: also while new ones are added.
RecordsKept ==
    /\ \A k \in Keys : \A t \in written[k] \ kept[k] : t < cut
    /\ at = 0 => \A k \in Keys : kept[k] \intersect due[k] = {}
=============================================================================
