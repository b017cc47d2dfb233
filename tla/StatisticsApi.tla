--------------------------- MODULE StatisticsApi ----------------------------
(***************************************************************************)
(* The two statistics calls of stratum/api.go that walk the live miners    *)
(* while connections log in, beat and leave: xdag_minerHashrate, which     *)
(* starts one goroutine per listed worker of an address and collects their *)
(* answers from a channel, and xdag_poolHashrate (xdag_getPoolWorkers      *)
(* walks the map the same way), which drains the iterator of the sharded   *)
(* map of mmap.go: a goroutine that holds the lock of a shard while it     *)
(* hands out its miners one by one.                                        *)
(*                                                                         *)
(* A hash rate is left out: it is a number each goroutine adds.  A miner   *)
(* is its uid; Uids are the workers of one address and of others.          *)
(***************************************************************************)
EXTENDS Integers, FiniteSets

CONSTANTS
    Uids,      \* address.workerId
    Asked,     \* the uids of the address whose hash rate is asked for
    ShardOf,   \* the shard of s.miners that holds each uid
    Shards,    \* SHARD_COUNT (256)
    Timeout,   \* s.timeout, in ticks
    MaxClock,  \* bound: the clock stops here
    MaxTurns   \* bound: logins and logouts after the start

ASSUME UidsFinite == IsFiniteSet(Uids)
ASSUME AskedAssumption == Asked \subseteq Uids
ASSUME ShardsAssumption == Shards \in Nat \ {0} /\ \A u \in Uids : ShardOf[u] \in 1..Shards
ASSUME TimeoutAssumption == Timeout \in Nat

\* Beats before any clock: of a new miner that has not sent a heartbeat yet,
\* and of a uid no miner is registered under.
NoBeat == -1 - Timeout
Gone == -2 - Timeout

VARIABLES
    clock,
    beat,      \* s.miners: the lastBeat of each miner
    listed,    \* s.workers: the uids ever stored, nothing deletes them
    turns,     \* logins and logouts so far
    call,      \* the hash rate call: where it is, its now and its totals
    gather,    \* its goroutines: where each one is
    chan,      \* what is in dataChan: a record per worker that answered
    walk,      \* the pool call: where it is, its now and what it has counted
    iter,      \* its iterator goroutine: the shard it is in, what is left of it
    steady     \* history: uids registered ever since a call started, those of them
               \* heard within the timeout, and those registered at some time of it

apiVars == <<clock, beat, listed, turns, call, gather, chan, walk, iter, steady>>

Registered == {u \in Uids : beat[u] # Gone}

NoCall == [at |-> "idle", now |-> 0, workers |-> {}, result |-> {}, count |-> 0, online |-> 0]
NoWalk == [at |-> "idle", now |-> 0, total |-> {}, count |-> 0, online |-> 0]
NoIter == [at |-> "idle", shard |-> 0, left |-> {}]

StatisticsInit ==
    /\ clock = 0
    /\ beat \in [Uids -> {Gone, 0}]
    /\ \E departed \in SUBSET Asked : listed = Registered \union departed
    /\ turns = 0
    /\ call = NoCall
    /\ gather = [u \in Uids |-> "none"]
    /\ chan = {}
    /\ walk = NoWalk
    /\ iter = NoIter
    /\ steady = [call |-> {}, fresh |-> {}, some |-> {}, walk |-> {}]

-----------------------------------------------------------------------------
(* Connections *)

\* Login and logout write to the shard, whose lock the iterator may hold.
Unlocked(u) == iter.at # "shard" \/ iter.shard # ShardOf[u]

\* handleLoginRPC: registers the miner, then lists the worker.
LoginMiner(u) ==
    /\ turns < MaxTurns
    /\ turns' = turns + 1
    /\ u \notin Registered
    /\ Unlocked(u)
    /\ beat' = [beat EXCEPT ![u] = NoBeat]
    /\ steady' = [steady EXCEPT !.some = @ \union {u}]
    /\ UNCHANGED <<clock, listed, call, gather, chan, walk, iter>>

ListMiner(u) ==
    /\ u \in Registered \ listed
    /\ listed' = listed \union {u}
    /\ UNCHANGED <<clock, beat, turns, call, gather, chan, walk, iter, steady>>

\* removeMiner: the list of the address keeps the worker.
LogoutMiner(u) ==
    /\ turns < MaxTurns
    /\ turns' = turns + 1
    /\ u \in Registered
    /\ Unlocked(u)
    /\ beat' = [beat EXCEPT ![u] = Gone]
    /\ steady' = [steady EXCEPT !.call = @ \ {u}, !.fresh = @ \ {u}, !.walk = @ \ {u}]
    /\ UNCHANGED <<clock, listed, call, gather, chan, walk, iter>>

Heartbeat(u) ==
    /\ u \in Registered
    /\ beat' = [beat EXCEPT ![u] = clock]
    /\ UNCHANGED <<clock, listed, turns, call, gather, chan, walk, iter, steady>>

Tick ==
    /\ clock < MaxClock
    /\ clock' = clock + 1
    /\ UNCHANGED <<beat, listed, turns, call, gather, chan, walk, iter, steady>>

-----------------------------------------------------------------------------
(* xdag_minerHashrate *)

\* Bound: one call at a time.  The calls only read the map they share.
\* GetWorkers answers the listed ids, an error when there is none; then one
\* goroutine is started for each.
StartCall ==
    /\ call.at = "idle" /\ walk.at = "idle"
    /\ LET workers == listed \intersect Asked IN
       IF workers = {}
       THEN /\ call' = [call EXCEPT !.at = "no workers"]
            /\ UNCHANGED <<gather, steady>>
       ELSE /\ call' = [call EXCEPT !.at = "collect", !.now = clock, !.workers = workers]
            /\ gather' = [u \in Uids |-> IF u \in workers THEN "look" ELSE "none"]
            /\ steady' = [steady EXCEPT
                    !.call = workers \intersect Registered,
                    !.some = Registered,
                    !.fresh = {u \in workers : clock - beat[u] <= Timeout}]
    /\ UNCHANGED <<clock, beat, listed, turns, chan, walk, iter>>

\* Mutant: an unbuffered dataChan, which needs a receiver.
HasRoomForReceiver == call.at = "collect" /\ chan = {}

\* dataChan holds an answer of every worker.
HasRoom == Cardinality(chan) < Cardinality(call.workers)

\* Mutant: a miner that has left is reported by its name.
AnswerOfNamesAll(u) ==
    [uid |-> u, named |-> TRUE, timeout |-> u \in Registered /\ call.now - beat[u] > Timeout]

\* What the goroutine of u finds: the zero WorkerHashrate when no such miner
\* is registered.  That record has no name and no timeout.
AnswerOf(u) ==
    [uid |-> u,
     named |-> u \in Registered,
     timeout |-> u \in Registered /\ call.now - beat[u] > Timeout]

\* The goroutine of u: it sends as soon as the channel has room.
Gather(u) ==
    /\ gather[u] = "look"
    /\ HasRoom
    /\ chan' = chan \union {AnswerOf(u)}
    /\ gather' = [gather EXCEPT ![u] = "ended"]
    /\ UNCHANGED <<clock, beat, listed, turns, call, walk, iter, steady>>

\* An answer is received and added; with the last one the call is answered.
Collect ==
    /\ call.at = "collect"
    /\ \E v \in chan :
        /\ chan' = chan \ {v}
        /\ call' = [call EXCEPT
                        !.at = IF call.count + 1 = Cardinality(call.workers) THEN "answered" ELSE @,
                        !.count = @ + 1,
                        !.result = IF v.named THEN @ \union {v.uid} ELSE @,
                        !.online = IF v.timeout THEN @ ELSE @ + 1]
    /\ UNCHANGED <<clock, beat, listed, turns, gather, walk, iter, steady>>

\* Ten seconds without an answer.  The goroutines are not told.
CollectTimeout ==
    /\ call.at = "collect"
    /\ chan = {}
    /\ call' = [call EXCEPT !.at = "timeout"]
    /\ UNCHANGED <<clock, beat, listed, turns, gather, chan, walk, iter, steady>>

-----------------------------------------------------------------------------
(* xdag_poolHashrate *)

StartWalk ==
    /\ walk.at = "idle" /\ call.at = "idle"
    /\ walk' = [walk EXCEPT !.at = "drain", !.now = clock]
    /\ iter' = [iter EXCEPT !.at = "lock", !.shard = 1]
    /\ steady' = [steady EXCEPT !.walk = Registered]
    /\ UNCHANGED <<clock, beat, listed, turns, call, gather, chan>>

\* The iterator locks the next shard for reading; no key changes meanwhile.
LockShard ==
    /\ iter.at = "lock"
    /\ iter' = [iter EXCEPT !.at = "shard", !.left = {u \in Registered : ShardOf[u] = iter.shard}]
    /\ UNCHANGED <<clock, beat, listed, turns, call, gather, chan, walk, steady>>

\* The unbuffered channel: the iterator hands a miner to the handler's loop,
\* which reads its last beat.
HandOut ==
    /\ walk.at = "drain"
    /\ iter.at = "shard"
    /\ \E u \in iter.left :
        /\ iter' = [iter EXCEPT !.left = @ \ {u}]
        /\ walk' = [walk EXCEPT !.total = @ \union {u}, !.count = @ + 1,
                                !.online = IF walk.now - beat[u] <= Timeout THEN @ + 1 ELSE @]
    /\ UNCHANGED <<clock, beat, listed, turns, call, gather, chan, steady>>

\* The shard is unlocked; after the last one the channel is closed.
UnlockShard ==
    /\ iter.at = "shard"
    /\ iter.left = {}
    /\ iter' = IF iter.shard = Shards THEN [iter EXCEPT !.at = "closed"]
                                      ELSE [iter EXCEPT !.at = "lock", !.shard = @ + 1]
    /\ UNCHANGED <<clock, beat, listed, turns, call, gather, chan, walk, steady>>

\* The loop ends when the channel is closed.
AnswerWalk ==
    /\ walk.at = "drain"
    /\ iter.at = "closed"
    /\ walk' = [walk EXCEPT !.at = "answered"]
    /\ UNCHANGED <<clock, beat, listed, turns, call, gather, chan, iter, steady>>

-----------------------------------------------------------------------------

Connection(u) == LoginMiner(u) \/ ListMiner(u) \/ LogoutMiner(u) \/ Heartbeat(u)

StatisticsNext ==
    \/ \E u \in Uids : Connection(u) \/ Gather(u)
    \/ Tick
    \/ StartCall \/ Collect \/ CollectTimeout
    \/ StartWalk \/ LockShard \/ HandOut \/ UnlockShard \/ AnswerWalk

StatisticsSpec == StatisticsInit /\ [][StatisticsNext]_apiVars

\* The Go scheduler runs a goroutine that can go on.
StatisticsFairness ==
    /\ \A u \in Uids : WF_apiVars(Gather(u))
    /\ WF_apiVars(Collect) /\ WF_apiVars(CollectTimeout)
    /\ WF_apiVars(LockShard) /\ WF_apiVars(HandOut) /\ WF_apiVars(UnlockShard)
    /\ WF_apiVars(AnswerWalk)

-----------------------------------------------------------------------------
(* Properties *)

\* The hash rate that is answered counts every listed worker once, names every
\* miner that stayed registered and only miners that were registered during the
\* call, and counts as online those that stayed and were heard in time.  The
\* pool's totals count every miner that stayed once, and no miner twice.
StatisticsHonest ==
    /\ call.at = "answered" =>
        /\ call.count = Cardinality(call.workers)
        /\ steady.call \subseteq call.result /\ call.result \subseteq steady.some
        /\ Cardinality(steady.fresh) <= call.online
    /\ walk.at = "answered" =>
        /\ walk.count = Cardinality(walk.total)
        /\ steady.walk \subseteq walk.total
        /\ walk.online <= walk.count

\* Every call is answered, also when the collecting handler has given up; every
\* goroutine it started ends, and no shard stays locked against logins.
StatisticsEnd ==
    /\ call.at = "collect" ~> call.at \in {"answered", "timeout"}
    /\ \A u \in Uids : gather[u] = "look" ~> gather[u] = "ended"
    /\ walk.at = "drain" ~> walk.at = "answered"
    /\ \A u \in Uids : ~Unlocked(u) ~> Unlocked(u)
=============================================================================
