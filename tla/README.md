# A TLA+ model of the XDAG mining pool

This directory holds a model of the pool server in this repository: a Go
program that hands out RandomX jobs to miners over the stratum protocol,
forwards the best shares to an XDAG node over a web socket, books the rewards
the node announces in kvrocks, and pays the miners with transaction blocks it
sends to the node's RPC. TLC checks the modules on small instances; for payments,
rewards, duplicate check, sessions, the node's messages, statistics, the payout
settings and the records TLAPS proves the safety properties for instances of any size.

## 1. The system

| Part | Code | State | Operations |
|---|---|---|---|
| Stratum server | `stratum/stratum.go`, `handlers.go`, `blocks.go` | sessions under `sessionsMu`, the maps of miners and workers, the block template (an atomic value) | accept, login, getjob, submit, keepalived, disconnect; new task, broadcast |
| Share processing | `stratum/miner.go` | the jobs of a session (4 at most), `lastJobHash`, counters of a miner | `getJob`, `processShare` |
| Duplicate check | `util/shares.go` | two generations of shares under two locks | `ShareExist`, `Next` every 15 minutes |
| Rewards | `payouts/reward.go`, `kvstore/kvrocks.go` | in kvrocks: `submit:<job>`, `mini:<job>`, `pool:<job>`, `job:<job>`, the accounts | `IsMinShare`, `WriteBlock`, `ProcessReward`, `dividend` |
| Payment task | `payouts/payment.go`, `pay_chunk.go`, `transfer.go` | a batch in memory, the accounts in kvrocks | a round every 10 minutes: scan, chunks, transfer, record |
| Transaction blocks | `payouts/trans_chunk.go`, `xdago/utils/block.go` | none | layout, amounts, signature of a block with up to 11 outputs; check of an answer |
| Elliptic curve arithmetic | `xdago/secp256k1/` | none | field and scalar numbers in words, points, multiplication, its tables |
| Signatures | `xdago/secp256k1/ecdsa/`, `nonce.go`, `pubkey.go` | none | sign (with retries), verify, recover, encode and parse |
| Web-socket client | `ws/client.go`, `rpc.go` | the connection | connect, read, reconnect, `Submit` |
| Statistics API | `stratum/api.go`, `mmap.go`, `kvstore/query.go`, `jrpc/` | reads the above; updates the configuration under its lock | JSON-RPC queries and `XdagUpdatePoolConfig`; the purge of old records |
| RandomX binding | `randomx/rxhash.go` | the machine and its seed under a lock | `NewSeed`, `CalculateHash` |
| Wallet | `xdago/wallet/` | the key, read once | decrypt, derive |
| Start-up | `main.go`, `pool/` | the configuration | starts the goroutines below |

Goroutines and how they meet:

- one goroutine per **connection** (`handleClient`), which handles one request
  after another. It shares the session with the broadcast's goroutines, the
  miner with other connections of the same `address.workerId`, and everything
  in kvrocks with everyone;
- one **message goroutine** (`NewStratum`), fed by the web-socket readers
  through a channel of 512. It takes tasks (renew the RandomX machine, store
  the template, broadcast) and rewards (book, divide);
- one goroutine per session and **broadcast**, limited by a channel of 1024;
- the **payment task**, started by a ticker;
- the goroutine that exchanges the **generations of shares**;
- web-socket readers and reconnects, the HTTP front end, the purge timer.

kvrocks is the only state that survives a restart. Each command and each
`TxPipeline` (MULTI/EXEC) is one atomic step; nothing spans two of them.

What makes this hard: money moves outside kvrocks (the node's chain) with an
RPC whose answer may be lost; the same accounts are credited and debited by two
goroutines that read first and write much later; shares of many connections
race for one sorted set; locks are taken in two orders; a broadcast runs with
the session lock held; a template is read at the start of a request and used at
its end; queries walk maps and accounts that change under them; the numbers of
a signature live in words whose carries matter for few operands only. `PROJECT.json` lists the hazards at the lines where they bite.

What makes each part correct:

- **payments**: a miner is paid what it earned, once; the books never run ahead
  of the chain; no account goes below zero; every round ends; debts are paid;
- **rewards**: a reward is booked once however often it is announced, divided
  beyond its amount only by what late shares have in the sum (a sum read as 0 bounds
  nothing), divided in full when nothing fails, among miners;
- **duplicate check**: no share counts twice within a period; every call returns;
- **stratum**: jobs are for the seed that is loaded; whoever is registered gets
  the new job; a logged-in miner is known, its worker listed, except after a
  race of first logins, and a miner nobody owns is not kept, except one given up by a
  second login of its connection; broadcasts end;
- **statistics and settings**: an answer counts what is there once, an account
  hides no money unless a read fails, a setting is never read half updated, young records are kept;
- **signing**: words, formulas and encodings compute what arithmetic defines, for
  the operands at every boundary.

## 2. The modules

| Module | Models | Its place |
|---|---|---|
| `Ledger` | the accounts and the three transactions that change them | extended by `Payouts` and `Rewards` |
| `LedgerProofs` | lemmas about sums over the miners | extended by `PayoutsProofs` and `RewardsProofs` |
| `PaymentPromise` | what the pool promises about money, with no word on how | abstract specification |
| `Payouts` | the payment task, its failures and restarts, the node's chain | implements `PaymentPromise` |
| `PayoutsProofs` | theorems about `Payouts` | |
| `MinedShares` | the duplicate check | |
| `MinedSharesProofs` | theorems about `MinedShares` | |
| `Rewards` | one job: shares, lowest hash, reward, division | |
| `Settlement` | the message goroutine and the payment task over one ledger | extends `Rewards`, implements `Payouts` |
| `RewardsProofs` | theorems about `Rewards` and `Settlement` | |
| `Stratum` | sessions, miners, workers, template, seed, broadcast | |
| `StratumProofs` | theorems about `Stratum` | |
| `WsClient` | connection to the node, readers, reconnects, submissions | delivers what `Stratum` and `Rewards` receive |
| `WsClientProofs` | theorems about `WsClient` | |
| `StatisticsApi` | the hash rate queries, their goroutines, the iterator of the miners' map | |
| `PoolConfig` | the payout settings, updated field by field, and their readers | |
| `AccountQuery` | the query of an account between credits and payments | extends `Ledger` |
| `Records` | the records of the transactions and their purge | |
| `ApiProofs` | theorems about these four | |
| `FieldVal` | numbers modulo the prime in partly used words | |
| `AdditionChains` | inverse and square root by squarings and multiplications | |
| `ModNScalar` | numbers modulo the order in full words | |
| `CurvePoints` | adding and doubling points, register by register | as `FieldVal` asks |
| `CurveShapes` | the routines of `CurvePoints` without their numbers | extends `CurvePoints` |
| `CurveProofs` | theorems about `CurvePoints` and `Signature` | |
| `ScalarMult` | splitting a scalar, signed digits, the multiplications | on multiples, which `CurvePoints` justifies |
| `Signature` | signing, verifying, recovering, DER, public keys | extends `CurvePoints` |
| `MC*` | definitions for TLC: values of constants, symmetry | |

A definition that ends in a description such as `RecordKeepsBatch` and is
introduced as "Mutant" is the plausible mistake a property is there to catch;
no specification uses it.

### Payouts and Ledger

`reward`, `unpaid`, `payment` and `pool` are the hash fields of
`xdag:account:<miner>` and `xdag:pool:account`, in small integers instead of
10^-9 XDAG. `pc` follows `batchPayMiners`: *idle*, *read* (one step per HGET of
`GetMinersToPay`, because rewards are credited between them), *loop* over the
map in any order, *pay* (`TransferChunkRpc`), *record* (`SetChunkPayment`).
`site` says which of the two calls of `PayChunk` is running. A batch is a set of
addresses with the amounts quoted in `owed`; as in the code it is emptied after
a transfer that succeeded, also when its record failed, and **not** after one
that failed.

The node is the variable `chain`. `TransferAccepted`, `TransferRefused` and
`TransferUnanswered` are what a call of `xdag_sendRawTransaction` can come to:
the last one is a block the node took while the client reports an error (20 s
time-out, unreadable answer). `unsure` sums what was sent with no record of it.
`TransferHangs` is what an answer does that holds a character outside the 64 of
`mime2bits`: `Address2Hash` (`xdago/utils/block.go:61`) looks at it again and again, and
the payment task is *hung*, for good. `Crash` stops the process in any state of a
round; what was in memory is gone.
`Win` and `Credit` are the message goroutine seen from here: any division of
what was won, at any moment. `Rewards` has the detail.

### MinedShares

The two maps are `set[0]` and `set[1]`, `step % 2` says which is `Current`. The
two locks are modelled by their owners. `lastLock` is an RWMutex whose waiting
writer keeps new readers out; `curLock` is only ever locked exclusively. The
section under both locks is one step, since nobody else can see its inside.

### Rewards

One job, because all of its keys carry the job's hash. A connection stands for
the one share it submits. `at` follows `processShare`: compare (ZRANGE), store
(SADD and ZADD in a transaction), trim (ZREMRANGEBYRANK), send (`ws.Submit`),
write (`WriteBlock`). `stage` follows `ProcessReward`, `SetWinReward`,
`SetFinderReward`, and `DivideSolo` or `DivideEqual` with one step per read of
`GetProportion` and per `SetMinerReward`. The integers keep the floor of
`int64(x*1e9)`; a sum of 0 makes the ratio infinite and its conversion one of two
huge values (`Huge`). Every call of kvrocks can fail, also those whose errors the code
drops: after `PoolFails` (`HGET` of the sum, `kvrocks.go:328`) the sum is 0 and the ratios
infinite, with no late share; after `KeysFail` (`HKEYS`) nobody is credited; after
`DiffFails` (`HGET` of a difficulty) a miner gets its share of the fee only; after `TrimFails` the
share is sent all the same; after `LookupFails` nothing is booked, and after `NamesFail`
nothing is divided.
`lateShares`, `late` and `divisor` only record history.

A share submitted a second time is left out. `IsMinShare` and `ws.Submit` treat it as a
new one, and only `ShareExist` in `WriteBlock`, which comes last, turns it away. Before
that it may be remembered again, also after its reward was booked; `WonOnce` is about
shares that are submitted once.

### Settlement

`Payouts` takes rewards to be won at any moment and credited up to what was won.
`Settlement` is where they come from: the steps of `Rewards` (`Dividing`) and those of
the payment task (`Paying`, an instance `Task` of `Payouts`) change the same `reward`,
`unpaid`, `payment` and `pool`, in any order, and a process that stops (`Stop`) takes
both goroutines with it. What was won and not yet credited is no variable of the
program; `Undivided` computes it from the books. That `Rewards` credits as `Payouts`
assumes is `CreditsAsAssumed`: every step of the two is a step of `Task`, or a credit
out of proportion (`OutOfProportion`): the sum was read as 0, because the read failed or
found nothing, or shares were recorded after it was read. The account that solo mode makes of a job's
key is a bad address, which spoils the chunk it comes into.

### Stratum

A session is a connection; `phase` says where its goroutine is. `stage` follows
the message goroutine through a task: *renew* (the seed is loaded, the template
not yet stored), *announce*, *broadcast* (`sessionsMu` read-locked). Each pushed
job is a record of a session, a task and the step its goroutine is at. `getJob`
is two steps, the swap of `lastJobHash` and `pushJob`, because the connection
and the broadcast run it for one session at a time. `seen` is the template a
handler has read and will use later. `workers` and `lists` are the map of the
workers of an address: a login that finds none (`found`) makes one, and of two
first logins at a time the later map replaces the earlier. `reached`,
`sharedUids`, `raced` and `abandoned` only record history for the properties: `raced` are
the connections whose own latest login overlapped a first login of the address
(`handlers.go:46`), `abandoned` the miners whose connection logged in a second time under
another worker id (`handlers.go:38`), until somebody logs in or leaves with their id.
These two hazards are there in the code; what the properties exempt is exactly the worker
and the miner they concern, and `MinersHaveOwner` says that such a miner stays for ever.

### WsClient

`Conn`, `IsConnected`, `msgChan` are the client's. `at` says where each goroutine
is: *dial*, *refused* (the pointer is nil, `OnConnectError` yet to come),
*announce*, *install*, then as a reader *want* (`receiveMu`), *read*, *deliver* or
*failed*. One agent runs from one to the other, because a connecting goroutine
ends where it starts a reader and a reader where it starts a connecting one. The
close handler starts further ones; `handlers` counts how often it was installed
on a connection, since two goroutines may both wrap that of the connection made
last. The accesses to `Conn` while the handlers are installed are one step; `Conn`
itself is read and written with no lock, a pointer at a time. The node is
external: it sends each message to every connection it has, ends one with a close
frame, or loses it.

`Stratum` takes tasks to arrive in order. `InOrder` shows when they do: until the
node sends a close frame. From then on two goroutines connect and read, for ever
(each broken connection replaces every reader of it, and none goes away), a task
may arrive after its successor or twice, and a failed dial of one is a nil
connection of the other (`NilNeedsClose`). A submission that waits for `sendMu`
while the connection breaks and a dial fails meets it with no close frame at all;
the process stops (`crashed = "submit"`, reachable in `ws_connection`).

### StatisticsApi, PoolConfig, AccountQuery, Records

`StatisticsApi`: a miner is its uid and the time of its last beat; `call` is the
handler of `xdag_minerHashrate` with a goroutine per listed worker (`gather`) and
their channel, `walk` that of `xdag_poolHashrate` with the iterator's goroutine
(`iter`), which holds the lock of one shard while it hands out its miners.
`PoolConfig`: one step per field that is stored or read, under an RWMutex; a text
that is no number ends the request where it stands. `AccountQuery`: three HGETs
in the order of the code, credits and payments in between; one that fails or finds nothing
ends the call with what was read before it and no error (`query.go:93` to 108), which the
API answers like any other. `cutShort` records that this was a failure. `Records`: a record is
the second it is stored under; the purge goes key by key and kind by kind.

### FieldVal, AdditionChains, ModNScalar, CurvePoints, ScalarMult, Signature

The sizes of the code are constants, so that a run has words of a few bits and a
prime of that shape: what an unrolled line does for one column or word is an
operator over the index of that column. `FieldVal` keeps the width of every word
(`% 2^WordBits`), so an operation that is called with too great a magnitude
wraps as in the code. `AdditionChains` keeps the true exponents of 256 bits.
`CurvePoints` interprets the straight lines of `curve.go` over registers that hold
a number, its magnitude and whether it is normalized; the result of a call may be
one of its arguments. `CurveShapes` has the same routines over magnitudes alone, which
depend on no constant. `ScalarMult` works on multiples of the generator instead of
points. `Signature` draws nonces from any values the HMAC may give. `SignaturesVerify`
says of signing, verifying, recovering and parsing keys what the mathematics of the
curve say; that DER octets stand for one signature only is a part of `NumbersExact`.

## 3. What the runs check

| Run | Properties | Bounds |
|---|---|---|
| `payouts` | `PayoutsTypeOK`, `LedgerBalanced`, `QuoteStillOwed`, `UnpaidNeverNegative`, `LedgerNeverAhead`, `NoOverpaymentUnlessUnsure`, `PaysAboveThreshold`, `RoundEnds`, `DebtsArePaid`, `KeepsPromise` | 3 accounts, one of them with a name that is no address, chunks of 2, thresholds -1 and 1, rewards of 3 in all, 2 failures |
| `shares_deadlock` (violated) | `CallsReturn` | 1 connection, 1 exchange |
| `rewards` | `RewardsTypeOK`, `WonOnce`, `NeverOverDistributed`, `FullyDistributed`, `SentIsKnown`, `LowestOfSingleShareKept` | up to 3 shares of 2 miners, 3 hashes, both modes; for up to 2 shares 3 deliveries and 2 failures, for 3 one and none |
| `settlement` | `CreditsAsAssumed` | 2 connections, 2 logins and the key solo mode credits, both modes, 2 deliveries, 1 failure, chunks of 2 |
| `rewards_lowest` (violated) | `LowestKept` | 3 shares, equal mode, no failure |
| `rewards_solo` (violated) | `OnlyMinersCredited` | 3 shares, solo mode, no failure |
| `stratum_sessions` | `StratumTypeOK`, `VmMatchesTemplate`, `LastJobRemembered`, `BroadcastReached` | 2 connections, 1 worker id, 2 tasks with different seeds, 3 jobs per session, 1 place in the channel |
| `stratum_live` | `MinerKnownUnlessShared`, `WorkersListed`, `MinersHaveOwner`, `BroadcastEnds`, `ConnectionsClose` | 2 connections with 2 logins each, 2 worker ids, 1 task, 1 place |
| `stratum_shared` (violated) | `MinerKnown` | 2 connections, 2 worker ids, 2 tasks |
| `ws_connection` | `WsTypeOK`, `InOrder`, `NilNeedsClose`, `Reconnects` | 3 goroutines, 1 submitter, 4 connections, 2 messages, 1 break, 1 close frame, 2 failed dials, a channel of 1 |
| `parts` | `StatisticsHonest`, `StatisticsEnd`, `ConfigWhole`, `AccountCovers`, `RecordsKept`, `GenerationsExact`, `NoDuplicateInWindow` | 3 uids in 2 shards, a timeout of 1, 2 ticks, 1 login or logout; 1 reader, 2 requests, 2 values; 2 miners, 3 credits; a window of 1, 3 ticks, 3 records, 1 failure; 3 connections, 2 shares, 4 exchanges |
| `signing` | `NumbersExact`, `PointsExact`, `SignaturesVerify` | a field of 4 words of 4 bits, scalars of 4 words of 2 bits, the curve with 139 points over the field of 163, multiples modulo 193 |

The parts of `parts` and of `signing` share no variable. `MCParts` and `MCSigning`
therefore let one part run at a time, chosen by `part`, while the others rest.

Why the bounds are enough for the interesting cases. *Payouts*: with chunks of 2
and three accounts a round has a full chunk, a rest, and a batch that has grown
past a chunk after a failure; a second failure hits the retry of the first; the
bad address comes in any order. *MinedShares*: two exchanges forget a share, so
four let one be accepted three times. *Rewards*: three shares give two of one
miner against one of another, ties included; failures and repeated messages
concern the one goroutine that divides, for which two shares are enough. *Settlement*:
one division is enough for every step of a round to come before, between and after
its credits, and two deliveries for a credit after a payment. *Stratum*: one place in the channel
makes the loop wait at the second session, two tasks give a stale request, an
overlapping broadcast and a session whose jobs are full. `BroadcastReached` depends
on how many jobs a session remembers: a goroutine of each older broadcast and one
request can still push an old job after the new one, and so push the new one out.
For two tasks 3 jobs are just enough (with `MaxJobs = 2` TLC finds the new job
forgotten, with 1 also `LastJobRemembered` is violated). What the count has to be of in
general, for any number of tasks, `BroadcastReaches` and `PromptPushesReach` prove. *WsClient*: one close frame
gives two goroutines at once, enough for each to dial while the other reads; with
four connections each can replace the other's once more. *Statistics*: two workers
of the address and one stranger, in different shards, with a worker that has left
but is still listed; two ticks are more than the timeout. *Settings*: two requests
with different values, each with a text that is no number at any place. *Signing*:
the curve over 163 has the equation of the code, an endomorphism, a prime order,
and X coordinates at and above the order, so that nonces that must be drawn again
(r or s is 0, X is reduced, S is high) occur; the operands are those around the
limits of a word, of two words, of the prime and of the order, and with few words
every carry reaches the top.

A violated run is a disagreement between the code and what the repository says;
the counterexample is short and follows the code line by line:

- `CallsReturn`: `Next` holds `lastLock` and wants `curLock`, `ShareExist` holds
  `curLock` and wants `lastLock`. From then on every submitted share hangs.
- `LowestKept`: two shares of one miner both find the set empty; the transaction
  of the higher one comes last and replaces the lower score.
- `OnlyMinersCredited`: `GetMinerName` returns key names. The credited account
  is then a bad address in the payment rounds (`BadAddresses` in `Payouts`).
- `MinerKnown`: of two rigs logged in under one worker the first to leave
  removes the `Miner` of both.

`MinerKnownUnlessShared` and `LowestOfSingleShareKept` are what holds of the last
and the second: they name exactly the case that fails.

### Fairness

- `FairPayoutsSpec`: weak fairness of the payment goroutine as a whole. It has no
  lock and no channel to wait for except a short read lock; the ticker fires for
  ever; the RPC has a time-out. Nothing is assumed of rewards or failures.
- `FairSpec` of `MinedShares`: a goroutine that can run is run; strong fairness
  for the locks, since Go's mutexes hand a lock to whoever has waited for 1 ms.
  The property is violated even so.
- `FairStratumSpec`: weak fairness of the message goroutine, of the pushes and of
  each handler. Writes end at the connection's deadline. Clients and the node
  owe nothing.
- `StatisticsFairness`: weak fairness of every goroutine of a query. The locks
  they take are held for a bounded time, as the property itself shows; logins,
  beats and the clock owe nothing.
- `FairWsSpec`: weak fairness of connecting, strong fairness of reading, because
  readers contend for `receiveMu`. A dial comes back; failed dials are bounded
  (`MaxRefusals`), since a node that is away for good cannot be reached.

Symmetry is used only in runs that check no liveness property.

## 4. What is proved

The theorems hold for all values of the constants that meet the assumptions named
with them. Every safety property of a run is proved but for `NumbersExact`
and what `PointsExact` says beside magnitudes.

`PayoutsProofs`, for every set of miners, chunk size, threshold and bound
(`ChunkSizeAssumption`, `ThresholdsAssumption`, `BoundsAssumption`): the safety
properties of `payouts` are not inductive. That an
account does not go below zero when a chunk is recorded depends on amounts read
long before; that nobody is overpaid depends on what is on its way. The
invariant `PayInv` adds, per miner:

- the balance of the account, `unpaid = reward - payment`;
- every coin on the chain is booked, in flight or unsure:
  `chain = payment + InFlight + unsure`, `InFlight` being what the batch in hand
  pays while `pc = "record"`;
- a miner in the batch is quoted an amount that is positive, above the threshold
  and still owed, and a batch at *record* is one that could be sent.

`BooksBalance` is `LedgerBalanced`, which relates the pool's counters to sums over
all miners (`PoolBooks` is inductive with `PayInv`). `LedgerProofs` has what it takes:
`Total` of a changed account, of a sum of two functions, of a multiple, of a smaller
function. They are found by induction over the subsets of `Miners`
(`MinersFinite`: kvrocks has finitely many accounts). The library states induction for
an operator, which the provers cannot instantiate; `SubsetInduction` states it for a
*set* of good sets, from the well-foundedness of the subsets of a finite set.

There is a lemma per action of `PayInv`, and from the invariant follow
`PayoutsTypeCorrect`, `NeverNegative`, `QuotesStayOwed`, `BooksBehindChain`,
`NoOverpayment`, the action property `TransfersAboveThreshold`, and `PromiseKept`:
every step of the payment task is a step of `PaymentPromise` or a stutter of it.

`MinedSharesProofs`, for every set of connections and shares (`NoOneAssumption`,
`MaxStepsAssumption`): `Inv` is the type invariant with the owners of the locks,
`GenerationsExact`, and that no share was accepted in the future; with the
arithmetic of `step % 2` in lemma `Parity` it is inductive, and `NoDuplicate`
follows: no share is accepted twice without two exchanges in between. The type
invariant `TypeOK` is proved (`TypeCorrect`) and no property of a run.

`StratumProofs`, for any sessions, worker ids, tasks and non-zero seeds
(`NoUidAssumption`, `SizesAssumption`, `SeedsAssumption`): `SeedFitsTemplate` is
`VmMatchesTemplate`. Its invariant says where the message goroutine is between
the seed and the template (`SeedInv`), and that before the first template no
connection gets past its login, so no job exists (`NothingBeforeTemplate`).
`UnsharedMinerKnown` is `MinerKnownUnlessShared`. It needs that any two open
connections with one worker id are on record as sharing it (`SharingRecorded`), so that
`removeMiner` takes the miner from nobody else. `WorkersListedUnlessRaced` is
`WorkersListed`: a login that has stored its worker stays listed unless another
map replaced the one it wrote to, and for that a first login of the address has to be
under way at the same time. The exemption is per connection, and ends with its next login
that overlaps none; in between every connection's worker is in the one map the address has
(`OneList`). `OnlyGivenUpMinersLeak` is `MinersHaveOwner`, an equivalence: of the miners
that are no open connection's, those registered are the ones somebody gave up
(`abandoned`); nothing else leaks, and these do.

`StratumTypeCorrect` is `StratumTypeOK`, proved as `ServerType`. The two properties of
the jobs are about how far goroutines may fall behind each other, and neither holds of
every instance: `getJob` swaps `lastJobHash` and calls `pushJob` later, with nothing in
between that holds others back, so a goroutine that is late enough puts an old job
behind the new one, and `MaxJobs` such push the new one out. Two theorems say how late
is too late:

- `LastJobKept`: `LastJobRemembered` holds as long as no more than `MaxJobs` of those
  who push jobs to one session are between swap and push (`FewRemembering`);
- `BroadcastReaches`: `BroadcastReached` holds as long as fewer than `MaxJobs` who may
  yet push an *older* job to one session, goroutines of earlier broadcasts and the
  session's own request, are left behind (`FewStale`).

Their invariants count (`LastJobInv`, `TemplateInv`): the job that is wanted is about to
be pushed, or is in the list with room behind it for everyone who is still to push
one. `PromptPushesReach` discharges both, for any number of tasks, from a hypothesis about
time instead of counts (`Prompt`): no goroutine of a broadcast comes to `pushJob` when its
job is `MaxJobs - 1` templates old or more. A session has one goroutine per task at most
(`OneGoroutineEach`), so those that are in time are few. Nothing in the code enforces
`Prompt`, but it is what the code relies on: before `pushJob` a goroutine waits for the
session's lock only, which is held by whoever writes to the same client, and with 4 jobs
it would have to wait through three templates.

`RewardsProofs`, for any connections, miners, hashes and fees (`MinersAssumption`,
`NoShareAssumption`, `HashesAssumption`, `FeesAssumption`) and a reward that is not
nothing (`Amount # 0`; a reward of 0 leaves no trace in the pool's account that it
was booked). `RewardsInv` says that a sent share is past its transaction, so that
none is remembered again after the booking removed the set (`BookedInv`, from which
`BookedOnce` is `WonOnce`); that between its transaction and its sending a share is
remembered (`RememberedInv`, from which `SentSharesKnown` is `SentIsKnown`); and that
every score is one of a remembered share, more than one is left only while someone
is about to trim, and the score of a lowest share is there (`ScoresInv`, from which
`LowestShareKept` is `LowestOfSingleShareKept`). That the last survives a
transaction is where the case of a miner with two shares drops out.

The division of a reward has its own invariant, `DivisionInv`. `TypeInv`
(`RewardsTypeCorrect`) includes that the pool's sum of difficulties is that of its
miners, since `WriteBlock` adds to both in one transaction. `PartsAddUp` is the
arithmetic of `GetProportion` and `DivideEqual`: the parts by difficulty and by
heads, each rounded down, come to at most what is divided and to more than it less one
unit per miner. `MoneyInv` says where this stands at each stage: what was credited and
what is `Remaining` exceed the reward without the pool's fee by no more than the part late
shares have in the sum that was read (`Within`, `NoOverDistribution`), because no part is
rounded up (`Fits`), and fill it when nothing failed and no share came late
(`WholeRewardDivided`). The failing reads are included: a difficulty or the list of miners
that is not read makes the parts smaller. A sum that is read as 0, as after a failed read,
bounds nothing, and the statement says nothing then. That a sent share has left its
difficulty, so that there is somebody to divide among, is `TracesInv`. `MinersFinite` and
`HugeAssumption` (the conversion of an infinite ratio is some natural number) are
assumed besides.

About `Settlement` the same module shows that nothing is lost by looking at one of the
two goroutines at a time. `SettleInv` is the invariant of the division with the types of
the task's variables; that the payment task moves money from `unpaid` to `payment` only
leaves all of `DivisionInv` as it is, so `DivisionBesidePayments` keeps `WonOnce`,
`NeverOverDistributed` and `FullyDistributed`. The other way round is `CreditsFit`, which is
`CreditsAsAssumed` for any miners, connections and ratios: what a step of the division
adds to an account is positive or nothing, and no more than `Undivided`, by `MoneyInv`,
unless it is out of proportion. `SettlementImplementsPayouts` concludes `Task!PayoutsSpec`
under the hypothesis `[]~OutOfProportion`, so what is proved of `Payouts` holds of the two
goroutines together for as long as every division reads its sum, and reads it after the
shares it divides by. Otherwise it does not: a share recorded between the reads of
`GetProportion` gives ratios that add up to more than 1, and one failed `HGET` of the sum
gives the `Huge` conversions, and more is credited than was won. TLC finds both when the
hypothesis is dropped, and nothing in the code rules them out.

`ApiProofs`: `SettingsWhole` is `ConfigWhole`. The invariant says who may hold the
lock, that what is stored of a request is what it asked for, and that a reader's
settings so far are those in force. `AccountHidesOnlyOnFailure` is `AccountCovers`: what
a reader has read of `reward` is covered by what `unpaid` and `payment` were then,
and both can only move from the one to the other; it holds because
`reward` is read first and `payment` last. An answer cut short by a failed read names no more
than there is, and may name less. `YoungRecordsKept` is `RecordsKept`: the old records that are left are
under keys the purge has still to visit. They need `AsksAssumption`,
`AskerAssumption`, `AmountAssumption` and `WindowAssumption`.

`WsClientProofs`, for any goroutines, messages, connections and channel capacity
(`FirstAssumption`, `ConnsAssumption`): `MessagesInOrder` is `InOrder` and
`NoNilBeforeClose` is `NilNeedsClose`. Until a close frame one goroutine is at work
(`Alone`); it reads the current connection or is on its way to the next
(`ConnInUse`); what was handled, what is in the channel, what it holds and what is
still to be read follow each other in this order (`TakenInOrder`, `InboxAhead`). A
close frame cannot come out of an inbox before it was sent, because all that is in
there is ahead of what was handled. `ClientTypeCorrect` is `WsTypeOK` and holds with
close frames as well: `receiveMu` has one reader, what is read was sent (`InboxSent`), and
the close handlers installed on one connection, with the goroutines about to install
one, are no more than the connections made (`HandlersCounted`).

`ApiProofs` again, for any finite set of worker ids, any shards and any timeout
(`UidsFinite`, `TimeoutAssumption`, `AskedAssumption`): `StatisticsCover` is
`StatisticsHonest`. `CallInv` follows a worker's answer from its goroutine through the
channel into the result: an answer was true when it was given and stays true of a
miner that stays (`CallSays`), and the handler's count is the number of workers whose
answer has left the channel (`CallBooks`), so that a full count means everybody.
`WalkInv` says of the iterator that each miner that stayed is counted, in the channel
or in a shard that is still to be locked, and in one of the three only.

`CurveProofs`: `MagnitudesKept` is the part `InConditions` of `PointsExact`, for every
prime, curve, generator and set of points: whichever formulas are chosen and wherever
results go, no operation of `curve.go` is called with a magnitude beyond what `field.go`
allows, no number is compared that is not normalized, and every point in memory is
normalized when a call ends. The numbers are left out of the argument, since magnitudes
do not depend on them: after every step of a routine its registers have the shapes
`CurveShapes` computes (`Similar`, by induction over the steps, as `NumberInduction`
over a set), and what happens to shapes depends on no constant at all.
`RoutinesAssumption` and `RootAssumption` are closed formulas that say it of each routine,
each choice of formula and each way two points may share memory; TLC evaluates them with
the run `signing`. `RootKeepsMagnitudes` is what the comment of `DecompressY`
(`xdago/secp256k1/curve.go`) promises of magnitudes: 8 at most for X, 2 at most for Y.

`SignaturesSound`, in the same module, is `SignaturesVerify` for every field, curve of
prime order, key, hash, Z coordinate and value of the HMAC. It rests on what the provers
cannot derive, stated for the numbers at hand and evaluated by TLC for the small curve:
what is not 0 modulo N or P has an inverse there and the power `DecompressY` computes is a
root of what has one (`PrimesAssumption`, true of primes with P % 4 = 3), and every point of
the curve is one multiple of the generator below N, opposite to the multiple of the opposite
scalar (`GroupAssumption`, what it means that the curve has prime order N). The property is
not inductive: a signature that is given does not tell how it was made. `SigInv` adds that
for some nonce k, which the program has forgotten, r is the X of the nonce's point reduced,
the code is that of the point, and s * k = hash + r * key modulo N (`SignedBy`). `Signed`
keeps this when s is high, since N - k is then the nonce (`SignedByNonce`, `OtherCode`).
From it follow that the textbook's test meets the nonce's point (`TextbookIs`); that the
code of the signature leads `RecoverCompact` back to that point and so to the key, and each
other code to another point and another key (`RecoverIs`, `CodeIs`, `OneNonce`, `OneKey`).
`Verify` compares r * z^2 with X instead of dividing: `VerifyIsTextbook` shows this to be
the textbook's test for every key and hash and any Z, an X at or above the order included
(`ReducedX`). `Root` says of `DecompressY`, by following its seven steps from register to
register (`RootComputes`), that it finds the point with the oddness asked for if there is one
and says so if there is none. The lemmas from `SmallMultiple` to `ModCancel` are the
arithmetic of remainders this needs.

TLC can load the proof modules, so an inductive invariant can be checked on the
instance of a run before it is proved; `PayInv`, `PoolBooks`, `ServerType`, `LastJobInv`,
`TemplateInv`, `CallInv`, `WalkInv`, `SigInv` and the counts of `WsClientProofs` were, on the instance
of the component's run, and `DivisionInv` with two connections.

Only model-checked: the liveness properties (`RoundEnds`, `DebtsArePaid`,
`BroadcastEnds`, `ConnectionsClose`, `Reconnects`, `StatisticsEnd`), which need fairness and
ENABLED; and of `signing` what is computed from words, digits and registers (`NumbersExact`,
and `PointsExact` but for magnitudes): it is defined by folds, recursive functions and
powers, which call for induction over data, and the formulas of `curve.go` for nonlinear
arithmetic the provers do not have. That a multiplied point is the multiple, which
`Signature` builds on, is thus checked (`MultExact`) and not proved.

## 5. What is not modelled

- RandomX, base58 (the check of a login's address), the HMAC, hexadecimal strings and byte buffers, the file
  `genprecomps.go` writes: computation and I/O. The constants of secp256k1 itself
  are too large for TLC; the small curves have their shape.
- The wallet: key derivation and decryption at the start, calls of libraries.
- The layout and the amounts of a transaction block (`payouts/trans_chunk.go`).
- The pages of the record lists (`stratum/api.go:166` to 640): `main.go:105` to 113
  has their routes commented out. `total_online` of `xdag_minerHashrate` counts a
  worker that has left as online, since the empty record of such a worker has no
  timeout; README.md:188 speaks of online miners. `StatisticsHonest` claims no
  upper bound of it for this reason.
- Shares submitted a second time, in `Rewards` (see there).
- The accept limit and the deadlines of connections; invalid and rejected shares.
- A miner that has left stays in the list of its address: nothing deletes it.
- TLS endpoints: the same handler behind another listener.
- `payMiners` and `transfer2miner`, `SetPayment`, `FlushStaleStats`, the hash rate
  ranking: the program does not call them.
- Expiry of keys after 30 minutes, the numbers of hash rates.
- Submitting in `Stratum`: what becomes of a share is in `Rewards` and
  `MinedShares`; a stale or repeated nonce is refused before either.

## 6. What is left

1. `ChunkBlock`: fields and amounts of a transaction block as functions, against
   a reference definition: 16 fields for every number of outputs, the rounding of
   amounts, inputs against outputs.
2. The accept limit of `Stratum`, its lines in `stratum.go`, and submitting with
   `MinedShares` and `Rewards` behind it.
3. Proofs: the lemmas about single words `NumbersExact` rests on (what a carry and a
   masked word come to, for any width), as far as they need no induction.
