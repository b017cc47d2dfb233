--------------------------- MODULE StratumProofs ----------------------------
(***************************************************************************)
(* Theorems about the stratum server, invariants of StratumSpec for any    *)
(* sessions, worker ids, tasks and seeds: the seed of the RandomX machine  *)
(* always fits the template; the miner of a connection that shares it with *)
(* nobody is known as long as the connection is; the workers of an address *)
(* are listed; the state has its type; and the job that a session is to    *)
(* mine is among those it remembers, however late the goroutines that push *)
(* jobs to it are.                                                         *)
(***************************************************************************)
EXTENDS Stratum, FiniteSetTheorems, TLAPS

\* The parts of the message goroutine's state that go together.  While the
\* machine is being renewed it is already the new task's.
SeedInv ==
    /\ template \in 0..MaxTasks
    /\ stage \in {"idle", "renew", "announce", "broadcast"}
    /\ stage = "renew" => task \in Tasks /\ vmSeed = SeedOf[task]
    /\ template # 0 /\ stage # "renew" => vmSeed = SeedOf[template]

\* Before the first template nobody is logged in, nothing is broadcast and
\* there are no jobs.
Before == {"new", "leaving", "left", "closed"}
Known == {"list", "register", "getJob", "remember", "ready"}

NothingBeforeTemplate ==
    template = 0 =>
        /\ stage \in {"idle", "renew"} /\ pushing = {}
        /\ \A s \in Sessions : phase[s] \in Before /\ jobs[s] = << >>

\* Two open connections with one worker id are on record as sharing it.
SharingRecorded ==
    \A r, s \in Sessions :
        r # s /\ Open(r) /\ Open(s) /\ uid[r] = uid[s] /\ uid[s] \in Uids
            => uid[s] \in sharedUids

MinerInv ==
    /\ phase \in [Sessions -> Before \union Known]
    /\ uid \in [Sessions -> Uids \union {NoUid}]
    /\ \A s \in Sessions : LoggedIn(s) => uid[s] \in Uids
    /\ \A s \in Sessions : phase[s] = "new" => uid[s] = NoUid
    /\ SharingRecorded
    /\ MinerKnownUnlessShared

-----------------------------------------------------------------------------
(* The seed *)

LEMMA SeedInit == StratumInit => SeedInv /\ NothingBeforeTemplate
BY SizesAssumption DEF StratumInit, SeedInv, NothingBeforeTemplate, Before

\* Only the message goroutine touches the seed and the template.
LEMMA SeedStep ==
    ASSUME SeedInv, NothingBeforeTemplate, [StratumNext]_stratumVars
    PROVE  SeedInv'
<1>1. ASSUME NEW t \in Tasks, ReceiveTask(t) PROVE SeedInv'
  BY <1>1, SizesAssumption DEF ReceiveTask, SeedInv, Tasks
<1>2. CASE StoreTemplate
  BY <1>2 DEF StoreTemplate, SeedInv, Tasks
<1>3. CASE StartBroadcast \/ EndBroadcast
  BY <1>3 DEF StartBroadcast, EndBroadcast, SeedInv
<1>4. ASSUME NEW s \in Sessions, StartPush(s) PROVE SeedInv'
  BY <1>4 DEF StartPush, SeedInv
<1>5. ASSUME UNCHANGED <<template, stage, task, vmSeed>> PROVE SeedInv'
  BY <1>5 DEF SeedInv
<1>6. CASE PushGoroutine
  BY <1>5, <1>6
     DEF PushGoroutine, PushGet, PushRemember, PushSend, RemovePushed, nodeVars
<1>7. ASSUME NEW s \in Sessions, Handler(s) \/ Client(s) PROVE SeedInv'
  BY <1>5, <1>7
     DEF Handler, Client, ListWorker, RegisterSession, AnswerGet, AnswerRemember, RemoveMiner,
         RemoveSession, Login, AskJob, Leave, nodeVars
<1>8. CASE UNCHANGED stratumVars
  BY <1>5, <1>8 DEF stratumVars, nodeVars
<1> QED
  BY <1>1, <1>2, <1>3, <1>4, <1>6, <1>7, <1>8 DEF StratumNext, Refresh

\* The first job is given out after the first template is stored: a login
\* without one is refused, and only a broadcast or a login gives out jobs.
LEMMA NothingStep ==
    ASSUME SeedInv, NothingBeforeTemplate, [StratumNext]_stratumVars,
           phase \in [Sessions -> Before \union Known]
    PROVE  NothingBeforeTemplate'
<1> SUFFICES ASSUME template' = 0 PROVE NothingBeforeTemplate'
  BY DEF NothingBeforeTemplate
<1>1. CASE template # 0
  <2>1. template' = template \/ StoreTemplate
    BY DEF StratumNext, Refresh, PushGoroutine, Handler, Client, ReceiveTask,
           StartBroadcast, EndBroadcast, StartPush, PushGet, PushRemember, PushSend,
           RemovePushed, ListWorker, RegisterSession, AnswerGet, AnswerRemember, RemoveMiner,
           RemoveSession, Login, AskJob, Leave, stratumVars, nodeVars
  <2>2. StoreTemplate => template' # 0
    BY DEF StoreTemplate, SeedInv, Tasks
  <2> QED
    BY <1>1, <2>1, <2>2
<1>2. CASE template = 0
  <2> USE <1>2
  <2>1. ASSUME NEW t \in Tasks, ReceiveTask(t) PROVE NothingBeforeTemplate'
    BY <2>1 DEF ReceiveTask, NothingBeforeTemplate, bcastVars, connVars, loginVars, jobVars
  <2>2. ~StoreTemplate
    BY DEF StoreTemplate, SeedInv, Tasks
  <2>3. ~StartBroadcast /\ ~EndBroadcast /\ \A s \in Sessions : ~StartPush(s)
    BY DEF StartBroadcast, EndBroadcast, StartPush, NothingBeforeTemplate
  <2>4. CASE PushGoroutine
    <3>1. PICK s \in Sessions : RemovePushed(s)
      BY <2>4 DEF PushGoroutine, PushGet, PushRemember, PushSend, NothingBeforeTemplate
    <3> QED
      BY <3>1 DEF RemovePushed, NothingBeforeTemplate, nodeVars, connVars, loginVars, jobVars
  <2>5. ASSUME NEW s \in Sessions, Handler(s) \/ Client(s) PROVE NothingBeforeTemplate'
    <3>1. phase[s] \in Before
      BY DEF NothingBeforeTemplate
    <3>2. CASE RemoveMiner(s) \/ RemoveSession(s)
      BY <3>2 DEF RemoveMiner, RemoveSession, Goes, NothingBeforeTemplate, Before,
                  nodeVars, bcastVars, jobVars
    <3>3. CASE Leave(s)
      BY <3>3 DEF Leave, Goes, NothingBeforeTemplate, Before, nodeVars, bcastVars, jobVars
    <3>4. ASSUME NEW u \in Uids, Login(s, u) PROVE NothingBeforeTemplate'
      BY <3>4 DEF Login, Goes, NothingBeforeTemplate, Before, nodeVars, bcastVars, jobVars
    <3>5. ~ListWorker(s) /\ ~RegisterSession(s) /\ ~AnswerGet(s) /\ ~AnswerRemember(s) /\ ~AskJob(s)
      BY <3>1 DEF ListWorker, RegisterSession, AnswerGet, AnswerRemember, AskJob, Before
    <3> QED
      BY <2>5, <3>2, <3>3, <3>4, <3>5 DEF Handler, Client
  <2>6. CASE UNCHANGED stratumVars
    BY <2>6 DEF stratumVars, nodeVars, bcastVars, connVars, loginVars, jobVars, NothingBeforeTemplate
  <2> QED
    BY <2>1, <2>2, <2>3, <2>4, <2>5, <2>6 DEF StratumNext, Refresh
<1> QED
  BY <1>1, <1>2

-----------------------------------------------------------------------------
(* The miners *)

LEMMA MinerInit == StratumInit => MinerInv
BY NoUidAssumption
   DEF StratumInit, MinerInv, Before, LoggedIn, SharingRecorded, Open,
       MinerKnownUnlessShared

\* A connection that goes on, or off, and takes no miner with it.
LEMMA MoveMiner ==
    ASSUME MinerInv, NEW s \in Sessions, NEW ph, Goes(s, ph),
           \/ phase[s] \in Known /\ ph \in Known \union {"leaving"}
           \/ phase[s] = "new" /\ ph = "leaving"
           \/ phase[s] = "left" /\ ph = "closed",
           UNCHANGED <<uid, miners, sharedUids>>
    PROVE  MinerInv'
<1>1. /\ phase' = [phase EXCEPT ![s] = ph] /\ ph # "new"
      /\ phase' \in [Sessions -> Before \union Known]
      /\ \A r \in Sessions \ {s} : phase'[r] = phase[r]
  BY DEF Goes, MinerInv, Before, Known
<1>2. \A r \in Sessions : Open(r)' => Open(r) \/ uid[r] = NoUid
  BY <1>1 DEF Open, MinerInv, Known
<1>3. \A r \in Sessions : LoggedIn(r)' => LoggedIn(r)
  BY <1>1 DEF LoggedIn, MinerInv, Known
<1>4. SharingRecorded'
  BY <1>2, NoUidAssumption DEF SharingRecorded, MinerInv
<1> QED
  BY <1>1, <1>3, <1>4 DEF MinerInv, Before, Known, MinerKnownUnlessShared

LEMMA LoginMiner ==
    ASSUME MinerInv, NEW s \in Sessions, NEW u \in Uids, Login(s, u)
    PROVE  MinerInv'
<1>1. CASE template = 0
  <2>1. Goes(s, "leaving") /\ phase[s] \in {"new", "ready"}
        /\ UNCHANGED <<uid, miners, sharedUids>>
    BY <1>1 DEF Login
  <2> QED
    BY <2>1, MoveMiner DEF Known
<1>2. CASE template # 0
  <2>1. /\ phase' = [phase EXCEPT ![s] = "list"] /\ uid' = [uid EXCEPT ![s] = u]
        /\ miners' = miners \union {u} /\ sharedUids \subseteq sharedUids'
        /\ \A r \in Sessions \ {s} : Open(r) /\ uid[r] = u => u \in sharedUids'
        /\ Open(s)' /\ \A r \in Sessions \ {s} : Open(r)' <=> Open(r)
    BY <1>2 DEF Login, Goes, Open, MinerInv
  <2>2. SharingRecorded'
    BY <2>1 DEF SharingRecorded, MinerInv
  <2> QED
    BY <2>1, <2>2 DEF MinerInv, Before, Known, LoggedIn, MinerKnownUnlessShared
<1> QED
  BY <1>1, <1>2

\* removeMiner takes the miner from nobody who does not share it.
LEMMA RemoveMinerMiner ==
    ASSUME MinerInv, NEW s \in Sessions, RemoveMiner(s)
    PROVE  MinerInv'
<1>1. /\ phase' = [phase EXCEPT ![s] = "left"] /\ miners' = miners \ {uid[s]}
      /\ UNCHANGED <<uid, sharedUids>> /\ phase[s] = "leaving"
  BY DEF RemoveMiner, Goes, loginVars, historyVars
<1>2. SharingRecorded'
  BY <1>1 DEF MinerInv, SharingRecorded, Open
<1>3. ASSUME NEW r \in Sessions, LoggedIn(r)', uid[r] \notin sharedUids
      PROVE  uid[r] \in miners'
  <2>1. r # s /\ LoggedIn(r) /\ Open(r) /\ Open(s)
    BY <1>1, <1>3 DEF LoggedIn, Open, MinerInv
  <2>2. uid[r] \in miners /\ uid[r] \in Uids
    BY <1>3, <2>1 DEF MinerInv, MinerKnownUnlessShared
  <2>3. uid[r] # uid[s]
    BY <1>3, <2>1, <2>2 DEF MinerInv, SharingRecorded
  <2> QED
    BY <1>1, <2>2, <2>3
<1> QED
  BY <1>1, <1>2, <1>3 DEF MinerInv, Before, LoggedIn, MinerKnownUnlessShared

LEMMA MinerStep == ASSUME MinerInv, [StratumNext]_stratumVars PROVE MinerInv'
<1>1. ASSUME UNCHANGED <<phase, uid, miners, sharedUids>> PROVE MinerInv'
  BY <1>1 DEF MinerInv, LoggedIn, SharingRecorded, Open, MinerKnownUnlessShared
<1>2. ASSUME NEW t \in Tasks, ReceiveTask(t) PROVE MinerInv'
  BY <1>1, <1>2 DEF ReceiveTask, connVars, loginVars, historyVars
<1>3. CASE Refresh
  BY <1>1, <1>3 DEF Refresh, StoreTemplate, StartBroadcast, EndBroadcast, StartPush,
                    connVars, loginVars, historyVars
<1>4. CASE PushGoroutine
  BY <1>1, <1>4 DEF PushGoroutine, PushGet, PushRemember, PushSend, RemovePushed,
                    connVars, loginVars, historyVars
<1>5. ASSUME NEW s \in Sessions, Handler(s) PROVE MinerInv'
  <2>1. CASE RegisterSession(s)
    BY <2>1, MoveMiner DEF RegisterSession, Known, loginVars, historyVars
  <2>2. CASE AnswerGet(s)
    BY <2>2, MoveMiner DEF AnswerGet, Known, loginVars
  <2>3. CASE AnswerRemember(s)
    BY <2>3, MoveMiner DEF AnswerRemember, Known, loginVars, historyVars
  <2>4. CASE RemoveSession(s)
    BY <2>4, MoveMiner DEF RemoveSession, Known, loginVars
  <2>5. CASE ListWorker(s)
    BY <2>5, MoveMiner DEF ListWorker, Known, historyVars
  <2> QED
    BY <1>5, <2>1, <2>2, <2>3, <2>4, <2>5, RemoveMinerMiner DEF Handler
<1>6. ASSUME NEW s \in Sessions, Client(s) PROVE MinerInv'
  <2>1. CASE AskJob(s)
    BY <2>1, MoveMiner DEF AskJob, Known, loginVars, historyVars
  <2>2. CASE Leave(s)
    BY <2>2, MoveMiner DEF Leave, Known, loginVars, historyVars
  <2> QED
    BY <1>6, <2>1, <2>2, LoginMiner DEF Client
<1>7. CASE UNCHANGED stratumVars
  BY <1>1, <1>7 DEF stratumVars, connVars, loginVars, historyVars
<1> QED
  BY <1>2, <1>3, <1>4, <1>5, <1>6, <1>7 DEF StratumNext

-----------------------------------------------------------------------------
(* The workers of an address, and the owners of the miners *)

\* A connection that is through with the list leaves its address with one; one
\* that is not has found the latest list, unless its login overlapped a first
\* one; and without such an overlap no other first login of its address is
\* under way.
OneList(s) ==
    LET a == AddressOf[uid[s]]
    IN  /\ LoggedIn(s) /\ phase[s] # "list" => lists[a] # 0
        /\ phase[s] = "list" => found[s] <= lists[a]
        /\ phase[s] = "list" /\ s \notin raced => found[s] = lists[a]
        /\ LoggedIn(s) /\ s \notin raced => FirstLogins(a) \subseteq {s}

ListInv ==
    /\ lists \in [Addresses -> Nat] /\ workers \in [Addresses -> SUBSET Uids]
    /\ found \in [Sessions -> Nat]
    /\ \A s \in Sessions : OneList(s)
    /\ WorkersListed

\* A connection that has not yet removed its miner.
InCharge(s) == phase[s] \notin {"new", "left", "closed"}

OwnerInv ==
    /\ NoUid \notin miners
    /\ abandoned \subseteq miners
    /\ \A u \in miners : u \in abandoned \/ \E s \in Sessions : InCharge(s) /\ uid[s] = u

LEMMA ListInit == StratumInit => ListInv /\ OwnerInv
BY DEF StratumInit, ListInv, OneList, OwnerInv, WorkersListed, LoggedIn

\* A connection that goes on without a login.
LEMMA MoveList ==
    ASSUME MinerInv, ListInv, OwnerInv, NEW s \in Sessions, NEW ph, Goes(s, ph),
           ph \notin {"list", "new"},
           \/ phase[s] \in Known \ {"list"} /\ ph \in Known \union {"leaving"}
           \/ phase[s] = "new" /\ ph = "leaving"
           \/ phase[s] = "left" /\ ph = "closed",
           UNCHANGED <<uid, miners, workers, lists, found, raced, abandoned>>
    PROVE  ListInv' /\ OwnerInv'
<1>1. /\ phase' = [phase EXCEPT ![s] = ph]
      /\ \A r \in Sessions : phase'[r] = IF r = s THEN ph ELSE phase[r]
  BY DEF Goes, MinerInv
<1>2. \A r \in Sessions : phase'[r] = "list" => phase[r] = "list"
  BY <1>1
<1>3. WorkersListed'
  BY <1>1 DEF ListInv, WorkersListed, LoggedIn, Known
<1>4. \A r \in Sessions : OneList(r)'
  <2>1. \A r \in Sessions : /\ LoggedIn(r)' => LoggedIn(r)
                            /\ phase'[r] # "list" /\ LoggedIn(r)' => LoggedIn(r) /\ phase[r] # "list"
    BY <1>1 DEF LoggedIn, Known
  <2>2. \A a : FirstLogins(a)' \subseteq FirstLogins(a)
    BY <1>2 DEF FirstLogins
  <2> QED
    BY <1>2, <2>1, <2>2 DEF ListInv, OneList, LoggedIn
<1>5. \A r \in Sessions : InCharge(r) => InCharge(r)'
  BY <1>1 DEF InCharge, Known
<1> QED
  BY <1>3, <1>4, <1>5 DEF ListInv, OwnerInv

\* A login finds the one map of its address, or is the first one.
LEMMA LoginList ==
    ASSUME MinerInv, ListInv, OwnerInv, NEW s \in Sessions, NEW u \in Uids, Login(s, u)
    PROVE  ListInv' /\ OwnerInv'
<1>1. CASE template = 0
  <2>1. Goes(s, "leaving") /\ phase[s] \in {"new", "ready"}
        /\ UNCHANGED <<uid, miners, workers, lists, found, raced, abandoned>>
    BY <1>1 DEF Login
  <2> QED
    BY <2>1, MoveList DEF Known
<1>2. CASE template # 0
  <2> DEFINE b == AddressOf[u]
  <2>1. /\ phase[s] \in {"new", "ready"}
        /\ \A r \in Sessions : /\ phase'[r] = IF r = s THEN "list" ELSE phase[r]
                               /\ uid'[r] = IF r = s THEN u ELSE uid[r]
                               /\ found'[r] = IF r = s THEN lists[b] ELSE found[r]
        /\ found' \in [Sessions -> Nat] /\ b \in Addresses
        /\ miners' = miners \union {u} /\ UNCHANGED <<workers, lists>>
        /\ raced' = IF FirstLogins(b) = {} THEN raced \ {s}
                    ELSE raced \union FirstLogins(b) \union {s}
        /\ abandoned' = (abandoned \union ({uid[s]} \intersect miners)) \ {u}
    BY <1>2 DEF Login, Goes, MinerInv, ListInv, Addresses
  <2>2. WorkersListed'
    BY <2>1 DEF ListInv, WorkersListed, LoggedIn
  <2>3. ASSUME NEW r \in Sessions PROVE OneList(r)'
    <3>1. \A a : FirstLogins(a)' = IF a = b /\ lists[b] = 0 THEN FirstLogins(a) \union {s}
                                  ELSE FirstLogins(a)
      BY <2>1 DEF FirstLogins
    <3>2. CASE r = s
      <4>1. uid'[s] = u /\ phase'[s] = "list" /\ found'[s] = lists[b] /\ lists' = lists
        BY <2>1
      <4>2. s \notin raced' => FirstLogins(b)' \subseteq {s}
        BY <2>1, <3>1
      <4>3. lists[b] \in Nat
        BY <2>1 DEF ListInv
      <4> QED
        BY <3>2, <4>1, <4>2, <4>3 DEF OneList
    <3>3. CASE r # s
      <4>1. /\ phase'[r] = phase[r] /\ uid'[r] = uid[r] /\ found'[r] = found[r]
            /\ lists' = lists /\ (r \notin raced' => r \notin raced)
            /\ (LoggedIn(r)' <=> LoggedIn(r)) /\ OneList(r)
        BY <2>1, <3>3 DEF LoggedIn, ListInv
      <4>2. ASSUME LoggedIn(r), r \notin raced', AddressOf[uid[r]] = b, lists[b] = 0
            PROVE  FALSE
        <5>1. phase[r] = "list" /\ found[r] <= 0 /\ found[r] \in Nat
          BY <4>1, <4>2 DEF OneList, ListInv
        <5>2. r \in FirstLogins(b)
          BY <4>2, <5>1 DEF FirstLogins
        <5> QED
          BY <2>1, <4>2, <5>2
      <4>3. LoggedIn(r) /\ r \notin raced' => FirstLogins(AddressOf[uid[r]])' \subseteq {r}
        BY <3>1, <4>1, <4>2 DEF OneList
      <4> QED
        BY <4>1, <4>3 DEF OneList
    <3> QED
      BY <3>2, <3>3
  <2>4. ListInv'
    BY <2>1, <2>2, <2>3 DEF ListInv
  <2>6. abandoned' \subseteq miners'
    BY <2>1 DEF OwnerInv
  <2>5. ASSUME NEW v \in miners'
        PROVE  v \in abandoned' \/ \E r \in Sessions : InCharge(r)' /\ uid'[r] = v
    <3>1. CASE v = u
      BY <2>1, <3>1 DEF InCharge
    <3>2. CASE v \in abandoned /\ v # u
      BY <2>1, <3>2
    <3>3. ASSUME v # u, NEW r \in Sessions, InCharge(r), uid[r] = v, v \in miners
          PROVE  v \in abandoned' \/ (InCharge(r)' /\ uid'[r] = v)
      BY <2>1, <3>3 DEF InCharge, OwnerInv
    <3> QED
      BY <2>1, <3>1, <3>2, <3>3 DEF OwnerInv
  <2> QED
    BY <2>1, <2>4, <2>5, <2>6, NoUidAssumption DEF OwnerInv
<1> QED
  BY <1>1, <1>2

\* The worker goes into the one map of its address, or makes it.
LEMMA ListWorkerList ==
    ASSUME MinerInv, ListInv, OwnerInv, NEW s \in Sessions, ListWorker(s)
    PROVE  ListInv' /\ OwnerInv'
<1> DEFINE b == AddressOf[uid[s]]
<1>1. /\ phase[s] = "list" /\ uid[s] \in Uids /\ b \in Addresses
      /\ \A r \in Sessions : /\ phase'[r] = IF r = s THEN "register" ELSE phase[r]
                             /\ found'[r] = IF r = s THEN 0 ELSE found[r]
      /\ found' \in [Sessions -> Nat]
      /\ UNCHANGED <<uid, miners, raced, abandoned>>
  BY DEF ListWorker, Goes, MinerInv, ListInv, LoggedIn, Addresses, historyVars
<1>2. /\ lists' \in [Addresses -> Nat] /\ workers' \in [Addresses -> SUBSET Uids]
      /\ \A a \in Addresses \ {b} : lists'[a] = lists[a] /\ workers'[a] = workers[a]
      /\ found[s] = 0 => lists'[b] = lists[b] + 1 /\ workers'[b] = {uid[s]}
      /\ found[s] # 0 => /\ lists'[b] = lists[b]
                         /\ found[s] = lists[b] => workers'[b] = workers[b] \union {uid[s]}
  BY <1>1 DEF ListWorker, ListInv
<1>3. FirstLogins(b)' = FirstLogins(b) \ {s}
      /\ \A a \in Addresses \ {b} : FirstLogins(a)' = FirstLogins(a)
  BY <1>1 DEF FirstLogins
<1>7. \A r \in Sessions : LoggedIn(r)' <=> LoggedIn(r)
  BY <1>1 DEF LoggedIn
<1>8. \A r \in Sessions : LoggedIn(r) => AddressOf[uid[r]] \in Addresses
  BY DEF MinerInv, Addresses
\* A first login of the address has no other connection of it left to respect.
<1>9. ASSUME found[s] = 0, NEW r \in Sessions \ {s}, LoggedIn(r), AddressOf[uid[r]] = b
      PROVE  r \in raced
  <2>1. s \in FirstLogins(b)
    BY <1>1, <1>9 DEF FirstLogins
  <2> QED
    BY <1>9, <2>1 DEF ListInv, OneList
<1>4. ASSUME NEW r \in Sessions PROVE OneList(r)'
  <2>1. CASE ~LoggedIn(r)
    BY <1>1, <1>7, <2>1 DEF OneList, LoggedIn
  <2>2. CASE LoggedIn(r) /\ AddressOf[uid[r]] # b
    <3>1. r # s /\ phase'[r] = phase[r] /\ found'[r] = found[r] /\ AddressOf[uid[r]] \in Addresses
      BY <1>1, <1>8, <2>2
    <3> QED
      BY <1>1, <1>2, <1>3, <1>7, <2>2, <3>1 DEF ListInv, OneList
  <2>3. CASE LoggedIn(r) /\ AddressOf[uid[r]] = b /\ r # s
    <3>1. phase'[r] = phase[r] /\ found'[r] = found[r] /\ OneList(r)
      BY <1>1, <2>3 DEF ListInv
    <3>2. lists[b] \in Nat /\ found[r] \in Nat /\ lists'[b] \in {lists[b], lists[b] + 1}
      BY <1>1, <1>2 DEF ListInv
    <3>3. r \notin raced => lists'[b] = lists[b]
      BY <1>2, <1>9, <2>3
    <3> QED
      BY <1>1, <1>3, <1>7, <2>3, <3>1, <3>2, <3>3 DEF OneList
  <2>4. CASE r = s
    <3>1. phase'[s] = "register" /\ uid'[s] = uid[s] /\ LoggedIn(s)
      BY <1>1 DEF LoggedIn
    <3>2. lists'[b] # 0
      BY <1>1, <1>2 DEF ListInv, OneList
    <3>3. s \notin raced => FirstLogins(b)' = {}
      BY <1>1, <1>3, <3>1 DEF ListInv, OneList
    <3> QED
      BY <1>1, <2>4, <3>1, <3>2, <3>3 DEF OneList
  <2> QED
    BY <2>1, <2>2, <2>3, <2>4
<1>5. WorkersListed'
  <2> SUFFICES ASSUME NEW r \in Sessions, LoggedIn(r), phase'[r] # "list", r \notin raced
               PROVE  uid[r] \in workers'[AddressOf[uid[r]]]
    BY <1>1, <1>7 DEF WorkersListed
  <2>1. CASE r = s
    <3>1. found[s] = lists[b] /\ lists[b] \in Nat
      BY <1>1, <2>1 DEF ListInv, OneList
    <3> QED
      BY <1>2, <2>1, <3>1
  <2>2. CASE r # s /\ AddressOf[uid[r]] = b
    <3>1. found[s] # 0 /\ uid[r] \in workers[b]
      BY <1>1, <1>9, <2>2 DEF ListInv, WorkersListed
    <3>2. workers'[b] \in {workers[b], workers[b] \union {uid[s]}}
      BY <1>1, <3>1 DEF ListWorker, ListInv
    <3> QED
      BY <2>2, <3>1, <3>2
  <2>3. CASE AddressOf[uid[r]] # b
    <3>1. r # s /\ phase[r] # "list" /\ AddressOf[uid[r]] \in Addresses
      BY <1>1, <1>8, <2>3
    <3> QED
      BY <1>2, <2>3, <3>1 DEF ListInv, WorkersListed
  <2> QED
    BY <2>1, <2>2, <2>3
<1>6. OwnerInv'
  BY <1>1 DEF OwnerInv, InCharge
<1> QED
  BY <1>1, <1>2, <1>4, <1>5, <1>6 DEF ListInv

\* removeMiner takes the miner of the connection that owns it.
LEMMA RemoveMinerList ==
    ASSUME MinerInv, ListInv, OwnerInv, NEW s \in Sessions, RemoveMiner(s)
    PROVE  ListInv' /\ OwnerInv'
<1>1. /\ \A r \in Sessions : phase'[r] = IF r = s THEN "left" ELSE phase[r]
      /\ miners' = miners \ {uid[s]} /\ phase[s] = "leaving"
      /\ abandoned' = abandoned \ {uid[s]}
      /\ UNCHANGED <<uid, workers, lists, found, raced>>
  BY DEF RemoveMiner, Goes, MinerInv, listVars, loginVars
<1>2. ListInv'
  <2>1. \A r \in Sessions : /\ LoggedIn(r)' => LoggedIn(r) /\ phase'[r] = phase[r]
                            /\ phase'[r] = "list" <=> phase[r] = "list"
    BY <1>1 DEF LoggedIn
  <2>2. \A a : FirstLogins(a)' = FirstLogins(a)
    BY <1>1, <2>1 DEF FirstLogins
  <2>3. \A r \in Sessions : OneList(r)'
    BY <1>1, <2>1, <2>2 DEF ListInv, OneList
  <2> QED
    BY <1>1, <2>1, <2>3 DEF ListInv, WorkersListed
<1>3. OwnerInv'
  BY <1>1 DEF OwnerInv, InCharge
<1> QED
  BY <1>2, <1>3

LEMMA ListStep ==
    ASSUME MinerInv, ListInv, OwnerInv, [StratumNext]_stratumVars
    PROVE  ListInv' /\ OwnerInv'
<1>1. ASSUME UNCHANGED <<phase, uid, miners, workers, lists, found, raced, abandoned>>
      PROVE  ListInv' /\ OwnerInv'
  BY <1>1 DEF ListInv, OneList, FirstLogins, WorkersListed, LoggedIn, OwnerInv, InCharge
<1>2. ASSUME NEW t \in Tasks, ReceiveTask(t) PROVE ListInv' /\ OwnerInv'
  BY <1>1, <1>2 DEF ReceiveTask, connVars, loginVars, listVars, historyVars
<1>3. CASE Refresh
  BY <1>1, <1>3 DEF Refresh, StoreTemplate, StartBroadcast, EndBroadcast, StartPush,
                    connVars, loginVars, listVars, historyVars
<1>4. CASE PushGoroutine
  BY <1>1, <1>4 DEF PushGoroutine, PushGet, PushRemember, PushSend, RemovePushed,
                    connVars, loginVars, listVars, historyVars
<1>5. ASSUME NEW s \in Sessions, Handler(s) PROVE ListInv' /\ OwnerInv'
  <2>1. CASE RegisterSession(s)
    BY <2>1, MoveList DEF RegisterSession, Known, loginVars, listVars, historyVars
  <2>2. CASE AnswerGet(s)
    BY <2>2, MoveList DEF AnswerGet, Known, loginVars, listVars
  <2>3. CASE AnswerRemember(s)
    BY <2>3, MoveList DEF AnswerRemember, Known, loginVars, listVars, historyVars
  <2>4. CASE RemoveSession(s)
    BY <2>4, MoveList DEF RemoveSession, Known, loginVars, listVars
  <2> QED
    BY <1>5, <2>1, <2>2, <2>3, <2>4, ListWorkerList, RemoveMinerList DEF Handler
<1>6. ASSUME NEW s \in Sessions, Client(s) PROVE ListInv' /\ OwnerInv'
  <2>1. CASE AskJob(s)
    BY <2>1, MoveList DEF AskJob, Known, loginVars, listVars, historyVars
  <2>2. CASE Leave(s)
    BY <2>2, MoveList DEF Leave, Known, loginVars, listVars, historyVars
  <2> QED
    BY <1>6, <2>1, <2>2, LoginList DEF Client
<1>7. CASE UNCHANGED stratumVars
  BY <1>1, <1>7 DEF stratumVars, connVars, loginVars, listVars, historyVars
<1> QED
  BY <1>2, <1>3, <1>4, <1>5, <1>6, <1>7 DEF StratumNext

-----------------------------------------------------------------------------
(* Theorems *)

\* The inductive invariant.
StratumInv == SeedInv /\ NothingBeforeTemplate /\ MinerInv /\ ListInv /\ OwnerInv

\* StratumInv holds in every state.
THEOREM StratumInvariant == StratumSpec => []StratumInv
<1>1. StratumInit => StratumInv
  BY SeedInit, MinerInit, ListInit DEF StratumInv
<1>2. StratumInv /\ [StratumNext]_stratumVars => StratumInv'
  <2> SUFFICES ASSUME StratumInv, [StratumNext]_stratumVars PROVE StratumInv'
    OBVIOUS
  <2>1. SeedInv' /\ NothingBeforeTemplate'
    BY SeedStep, NothingStep DEF StratumInv, MinerInv
  <2>2. MinerInv'
    BY MinerStep DEF StratumInv
  <2>3. ListInv' /\ OwnerInv'
    BY ListStep DEF StratumInv
  <2> QED
    BY <2>1, <2>2, <2>3 DEF StratumInv
<1> QED
  BY <1>1, <1>2, PTL DEF StratumSpec

\* Jobs are only given out for a seed that is loaded (fetchBlockTemplate).
THEOREM SeedFitsTemplate == StratumSpec => []VmMatchesTemplate
<1>1. StratumInv => VmMatchesTemplate
  <2> SUFFICES ASSUME StratumInv PROVE VmMatchesTemplate
    OBVIOUS
  <2>1. template # 0 => vmSeed # 0
    BY SeedsAssumption DEF StratumInv, SeedInv, Tasks
  <2> QED
    BY <2>1 DEF StratumInv, SeedInv, NothingBeforeTemplate, VmMatchesTemplate
<1> QED
  BY <1>1, StratumInvariant, PTL

\* A connection that shares its worker id with nobody keeps its miner
\* (handleClient, handleLoginRPC, broadcastNewJobs).
THEOREM UnsharedMinerKnown == StratumSpec => []MinerKnownUnlessShared
<1>1. StratumInv => MinerKnownUnlessShared
  BY DEF StratumInv, MinerInv
<1> QED
  BY <1>1, StratumInvariant, PTL

\* A connected worker is in the list of its address, unless its own login
\* overlapped a first login of the address (handleLoginRPC): whatever the other
\* connections of the address did, it is listed, and so it is again after its
\* next login without such an overlap.
THEOREM WorkersListedUnlessRaced == StratumSpec => []WorkersListed
<1>1. StratumInv => WorkersListed
  BY DEF StratumInv, ListInv
<1> QED
  BY <1>1, StratumInvariant, PTL

\* The miners that outlive their connections are exactly those that one of them
\* gave up for another worker id (handleLoginRPC, handleClient).
THEOREM OnlyGivenUpMinersLeak == StratumSpec => []MinersHaveOwner
<1>1. StratumInv => MinersHaveOwner
  BY DEF StratumInv, OwnerInv, MinersHaveOwner, InCharge, Open
<1> QED
  BY <1>1, StratumInvariant, PTL

-----------------------------------------------------------------------------
(* The type of the server's state *)

\* What belongs to the message goroutine.
NodeType ==
    /\ template \in 0..MaxTasks /\ task \in template..MaxTasks
    /\ vmSeed \in {0} \union {SeedOf[t] : t \in Tasks}
    /\ stage \in {"idle", "renew", "announce", "broadcast"}
    /\ stage = "renew" => task = template + 1
    /\ stage \in {"announce", "broadcast"} => task = template /\ template # 0
    /\ stage # "broadcast" => toStart = {}
    /\ toStart \subseteq sessions /\ sessions \subseteq Sessions /\ reached \subseteq Sessions

\* The goroutines of the broadcasts: they push tasks up to the template's.
Goroutines == [session : Sessions, task : Nat, step : {"get", "remember", "send"}]

BcastType ==
    /\ pushing \subseteq Goroutines /\ IsFiniteSet(pushing)
    /\ \A p \in pushing : p.task \in 1..template
    /\ removing \subseteq Sessions

\* The connections: a handler that is at a request has read a template.
AtRequest == {"list", "register", "getJob", "remember"}

ConnType ==
    /\ miners \subseteq Uids /\ (miners # {} => template # 0)
    /\ phase \in [Sessions -> Before \union Known]
    /\ logins \in [Sessions -> 0..MaxLogins]
    /\ uid \in [Sessions -> Uids \union {NoUid}]
    /\ \A s \in Sessions : phase[s] = "list" => uid[s] \in Uids
    /\ seen \in [Sessions -> Nat]
    /\ \A s \in Sessions : seen[s] <= template /\ (seen[s] # 0 <=> phase[s] \in AtRequest)
    /\ abandoned \subseteq Uids /\ sharedUids \subseteq Uids

\* The lists of workers: a login has found none or one that was made.
ListType ==
    /\ lists \in [Addresses -> Nat] /\ found \in [Sessions -> Nat] /\ raced \subseteq Sessions
    /\ \A s \in Sessions : found[s] # 0 => phase[s] = "list" /\ found[s] <= lists[AddressOf[uid[s]]]
    /\ workers \in [Addresses -> SUBSET Uids]
    /\ \A a \in Addresses : \A u \in workers[a] : AddressOf[u] = a

\* The jobs of the sessions are of tasks up to the template's.
JobType ==
    /\ lastJob \in [Sessions -> Nat] /\ \A s \in Sessions : lastJob[s] <= template
    /\ jobs \in [Sessions -> Seq(Nat)]
    /\ \A s \in Sessions : /\ Len(jobs[s]) <= MaxJobs
                           /\ \A i \in 1..Len(jobs[s]) : jobs[s][i] \in 1..template

\* All of it is inductive together.
ServerType == NodeType /\ BcastType /\ ConnType /\ ListType /\ JobType

\* A job that someone is about to remember for s.
Due(s, t) ==
    \/ phase[s] = "remember" /\ seen[s] = t
    \/ [session |-> s, task |-> t, step |-> "remember"] \in pushing

\* A job that s remembers, and still will when n more jobs have been.
Kept(s, t, n) ==
    \E i \in 1..Len(jobs[s]) : jobs[s][i] = t /\ (Len(jobs[s]) - i) + n < MaxJobs

LEMMA SizeFacts ==
    /\ MaxTasks \in Nat /\ MaxLogins \in Nat /\ MaxJobs \in Nat /\ MaxJobs >= 1
    /\ Tasks = 1..MaxTasks
BY SizesAssumption DEF Tasks

LEMMA ServerInit == StratumInit => ServerType
<1> SUFFICES ASSUME StratumInit PROVE ServerType
  OBVIOUS
<1> USE SizeFacts DEF StratumInit
<1>1. NodeType
  BY DEF NodeType
<1>2. BcastType
  BY FS_EmptySet DEF BcastType
<1>3. ConnType
  BY DEF ConnType, Before, AtRequest
<1>4. ListType
  BY DEF ListType
<1>5. JobType
  BY DEF JobType
<1> QED
  BY <1>1, <1>2, <1>3, <1>4, <1>5 DEF ServerType

\* Types that say of the template only that something is not above it hold on
\* when the template goes up.
LEMMA TemplateUp ==
    ASSUME ServerType, template' \in Nat, template <= template'
    PROVE  /\ UNCHANGED bcastVars => BcastType'
           /\ UNCHANGED <<miners, phase, seen, loginVars, abandoned, sharedUids>> => ConnType'
           /\ UNCHANGED <<listVars, phase, uid, found>> => ListType'
           /\ UNCHANGED jobVars => JobType'
<1>1. template \in Nat
  BY SizeFacts DEF ServerType, NodeType
<1>2. UNCHANGED bcastVars => BcastType'
  BY <1>1 DEF ServerType, BcastType, bcastVars, Goroutines
<1>3. UNCHANGED <<miners, phase, seen, loginVars, abandoned, sharedUids>> => ConnType'
  BY <1>1 DEF ServerType, ConnType, loginVars
<1>4. UNCHANGED <<listVars, phase, uid, found>> => ListType'
  BY DEF ServerType, ListType, listVars
<1>5. UNCHANGED jobVars => JobType'
  BY <1>1 DEF ServerType, JobType, jobVars
<1> QED
  BY <1>2, <1>3, <1>4, <1>5

LEMMA SameTemplate ==
    ASSUME ServerType, UNCHANGED template
    PROVE  /\ UNCHANGED bcastVars => BcastType'
           /\ UNCHANGED <<miners, phase, seen, loginVars, abandoned, sharedUids>> => ConnType'
           /\ UNCHANGED <<listVars, phase, uid, found>> => ListType'
           /\ UNCHANGED jobVars => JobType'
<1>1. template \in Nat /\ template <= template
  BY SizeFacts DEF ServerType, NodeType
<1> QED
  BY <1>1, TemplateUp

LEMMA RefreshType == ASSUME ServerType, \/ \E t \in Tasks : ReceiveTask(t)
                                        \/ Refresh
                                        \/ UNCHANGED stratumVars
                     PROVE  ServerType'
<1>1. ASSUME NEW t \in Tasks, ReceiveTask(t) PROVE ServerType'
  <2>1. /\ stage = "idle" /\ t = template + 1 /\ stage' = "renew" /\ task' = t
        /\ vmSeed' \in {SeedOf[t], vmSeed}
        /\ UNCHANGED <<template, toStart, sessions, reached>>
    BY <1>1 DEF ReceiveTask, historyVars
  <2>2. NodeType'
    BY <2>1, SizeFacts DEF ServerType, NodeType
  <2> QED
    BY <1>1, <2>2, SameTemplate DEF ReceiveTask, connVars, historyVars, ServerType, loginVars
<1>2. CASE StoreTemplate
  <2>1. stage = "renew" /\ template' = task /\ stage' = "announce" /\ reached' = sessions
        /\ UNCHANGED <<vmSeed, task, toStart, sessions>>
    BY <1>2 DEF StoreTemplate
  <2>2. NodeType' /\ template' \in Nat /\ template <= template'
    BY <2>1, SizeFacts DEF ServerType, NodeType
  <2> QED
    BY <1>2, <2>2, TemplateUp DEF StoreTemplate, connVars, ServerType, loginVars
<1>3. CASE StartBroadcast \/ EndBroadcast
  <2>1. NodeType'
    BY <1>3 DEF StartBroadcast, EndBroadcast, ServerType, NodeType, historyVars
  <2> QED
    BY <1>3, <2>1, SameTemplate
       DEF StartBroadcast, EndBroadcast, connVars, historyVars, ServerType, loginVars
<1>4. ASSUME NEW s \in Sessions, StartPush(s) PROVE ServerType'
  <2>1. /\ stage = "broadcast" /\ toStart' = toStart \ {s}
        /\ pushing' = pushing \union {[session |-> s, task |-> task, step |-> "get"]}
        /\ UNCHANGED <<template, vmSeed, stage, task, removing, sessions, reached>>
    BY <1>4 DEF StartPush, historyVars
  <2>2. NodeType'
    BY <2>1 DEF ServerType, NodeType
  <2>3. task \in 1..template
    BY <2>1, SizeFacts DEF ServerType, NodeType
  <2>4. IsFiniteSet(pushing')
    BY <2>1, FS_AddElement DEF ServerType, BcastType
  <2>5. BcastType'
    BY <2>1, <2>3, <2>4 DEF ServerType, BcastType, Goroutines
  <2> QED
    BY <1>4, <2>2, <2>5, SameTemplate DEF StartPush, connVars, historyVars, ServerType, loginVars
<1>5. CASE UNCHANGED stratumVars
  <2>1. NodeType'
    BY <1>5 DEF stratumVars, nodeVars, historyVars, ServerType, NodeType
  <2> QED
    BY <1>5, <2>1, SameTemplate DEF stratumVars, nodeVars, connVars, historyVars, ServerType, loginVars
<1> QED
  BY <1>1, <1>2, <1>3, <1>4, <1>5 DEF Refresh

\* A job is remembered last; one that was remembered is so after the next one
\* as well, unless MaxJobs have been meanwhile.
LEMMA PushJobFacts ==
    ASSUME ServerType, NEW s \in Sessions, NEW t \in 1..template, PushJob(s, t), UNCHANGED lastJob,
           UNCHANGED template
    PROVE  /\ JobType'
           /\ \A n \in Nat : n < MaxJobs => Kept(s, t, n)'
           /\ \A u, n \in Nat : Kept(s, u, n + 1) => Kept(s, u, n)'
           /\ \A r \in Sessions \ {s} : jobs'[r] = jobs[r]
<1> DEFINE all == Append(jobs[s], t)
           new == IF Len(all) > MaxJobs THEN Tail(all) ELSE all
<1>1. template \in Nat /\ t \in Nat
  BY SizeFacts DEF ServerType, NodeType
<1>2. jobs[s] \in Seq(Nat) /\ Len(jobs[s]) \in Nat /\ Len(jobs[s]) <= MaxJobs
  BY DEF ServerType, JobType
<1>3. /\ all \in Seq(Nat) /\ Len(all) = Len(jobs[s]) + 1 /\ all[Len(all)] = t
      /\ \A i \in 1..Len(jobs[s]) : all[i] = jobs[s][i]
  BY <1>1, <1>2
<1>4. jobs' = [jobs EXCEPT ![s] = new]
  BY DEF PushJob
<1> HIDE DEF all
<1>5. PICK l \in Nat : l = Len(jobs[s])
  BY <1>2
<1>6. l <= MaxJobs /\ Len(all) = l + 1 /\ all[l + 1] = t /\ \A i \in 1..l : all[i] = jobs[s][i]
  BY <1>2, <1>3, <1>5
<1>7. \A i \in 1..l : jobs[s][i] \in 1..template
  BY <1>5 DEF ServerType, JobType
<1>8. \A i \in 1..(l + 1) : all[i] \in 1..template
  <2> TAKE i \in 1..(l + 1)
  <2>1. CASE i = l + 1
    BY <1>6, <2>1
  <2>2. CASE i # l + 1
    <3>1. i \in 1..l
      BY <2>2
    <3> QED
      BY <1>6, <1>7, <3>1
  <2> QED
    BY <2>1, <2>2
<1>9. ASSUME NEW q \in Seq(Nat), jobs' = [jobs EXCEPT ![s] = q], Len(q) <= MaxJobs,
              \A i \in 1..Len(q) : q[i] \in 1..template
       PROVE  JobType' /\ jobs'[s] = q /\ \A r \in Sessions \ {s} : jobs'[r] = jobs[r]
  <2>1. jobs'[s] = q /\ jobs' \in [Sessions -> Seq(Nat)] /\ \A r \in Sessions \ {s} : jobs'[r] = jobs[r]
    BY <1>9 DEF ServerType, JobType
  <2>2. ASSUME NEW r \in Sessions
        PROVE  Len(jobs'[r]) <= MaxJobs /\ \A i \in 1..Len(jobs'[r]) : jobs'[r][i] \in 1..template
    <3>1. CASE r = s
      BY <1>9, <2>1, <3>1
    <3>2. CASE r # s
      BY <2>1, <3>2 DEF ServerType, JobType
    <3> QED
      BY <3>1, <3>2
  <2> QED
    BY <2>1, <2>2 DEF ServerType, JobType
<1>10. CASE Len(all) > MaxJobs
  <2>1. l = MaxJobs /\ l >= 1
    BY <1>6, <1>10, SizeFacts
  <2>2. /\ new \in Seq(Nat) /\ Len(new) = l
        /\ \A i \in 1..l : new[i] = all[i + 1]
    BY <1>3, <1>6, <1>10, <2>1
  <2> HIDE DEF new
  <2>3. \A i \in 1..l : new[i] \in 1..template
    <3>1. \A i \in 1..l : i + 1 \in 1..(l + 1)
      OBVIOUS
    <3> QED
      BY <1>8, <2>2, <3>1
  <2>4. JobType' /\ jobs'[s] = new /\ \A r \in Sessions \ {s} : jobs'[r] = jobs[r]
    <3>1. Len(new) <= MaxJobs /\ \A i \in 1..Len(new) : new[i] \in 1..template
      BY <2>1, <2>2, <2>3
    <3> QED
      BY <1>4, <1>9, <2>2, <3>1
  <2>6. ASSUME NEW n \in Nat, n < MaxJobs PROVE Kept(s, t, n)'
    <3>1. new[l] = t /\ l \in 1..Len(new) /\ (Len(new) - l) + n < MaxJobs
      BY <1>6, <2>1, <2>2, <2>6
    <3> QED
      BY <2>4, <3>1 DEF Kept
  <2>7. ASSUME NEW u \in Nat, NEW n \in Nat, Kept(s, u, n + 1) PROVE Kept(s, u, n)'
    <3>1. PICK i \in 1..l : jobs[s][i] = u /\ (l - i) + (n + 1) < MaxJobs
      BY <1>5, <2>7 DEF Kept
    <3>2. i # 1
      BY <2>1, <3>1, SizeFacts
    <3>3. PICK j \in 1..l : j + 1 = i
      BY <3>1, <3>2
    <3>4. new[j] = u
      <4>1. new[j] = all[j + 1]
        BY <2>2
      <4> QED
        BY <1>6, <3>1, <3>3, <4>1
    <3>5. j \in 1..Len(new) /\ (Len(new) - j) + n < MaxJobs
      BY <2>1, <2>2, <3>1, <3>3
    <3> QED
      BY <2>4, <3>4, <3>5 DEF Kept
  <2> QED
    BY <2>4, <2>6, <2>7
<1>11. CASE ~(Len(all) > MaxJobs)
  <2>1. new = all /\ l + 1 <= MaxJobs
    BY <1>6, <1>11, SizeFacts
  <2> HIDE DEF new
  <2>4. JobType' /\ jobs'[s] = all /\ \A r \in Sessions \ {s} : jobs'[r] = jobs[r]
    BY <1>3, <1>4, <1>6, <1>8, <1>9, <2>1
  <2>6. ASSUME NEW n \in Nat, n < MaxJobs PROVE Kept(s, t, n)'
    <3>1. l + 1 \in 1..Len(all) /\ (Len(all) - (l + 1)) + n < MaxJobs
      BY <1>6, <2>6
    <3> QED
      BY <1>6, <2>4, <3>1 DEF Kept
  <2>7. ASSUME NEW u \in Nat, NEW n \in Nat, Kept(s, u, n + 1) PROVE Kept(s, u, n)'
    <3>1. PICK i \in 1..l : jobs[s][i] = u /\ (l - i) + (n + 1) < MaxJobs
      BY <1>5, <2>7 DEF Kept
    <3>2. all[i] = u /\ i \in 1..Len(all) /\ (Len(all) - i) + n < MaxJobs
      BY <1>6, <3>1
    <3> QED
      BY <2>4, <3>2 DEF Kept
  <2> QED
    BY <2>4, <2>6, <2>7
<1> QED
  BY <1>10, <1>11

LEMMA PushType == ASSUME ServerType, PushGoroutine PROVE ServerType'
<1>1. ASSUME NEW p \in pushing, NEW st \in {"remember", "send"},
             pushing' = (pushing \ {p}) \union {[p EXCEPT !.step = st]}, UNCHANGED <<template, removing>>
      PROVE  BcastType'
  <2>1. [p EXCEPT !.step = st] \in Goroutines /\ [p EXCEPT !.step = st].task = p.task
    BY DEF ServerType, BcastType, Goroutines
  <2>2. IsFiniteSet(pushing')
    BY <1>1, FS_AddElement, FS_RemoveElement DEF ServerType, BcastType
  <2> QED
    BY <1>1, <2>1, <2>2 DEF ServerType, BcastType
<1>2. ASSUME UNCHANGED <<nodeVars, sessions, reached>> PROVE NodeType'
  BY <1>2 DEF ServerType, NodeType, nodeVars
<1>3. ASSUME NEW p \in pushing, PushGet(p) PROVE ServerType'
  <2>1. p.session \in Sessions /\ p.task \in Nat /\ p.task <= template
    BY SizeFacts DEF ServerType, BcastType, Goroutines, NodeType
  <2>2. JobType'
    BY <1>3, <2>1 DEF PushGet, Swap, ServerType, JobType, nodeVars
  <2>3. BcastType'
    BY <1>1, <1>3 DEF PushGet, nodeVars
  <2> QED
    BY <1>2, <1>3, <2>2, <2>3, SameTemplate
       DEF PushGet, ServerType, nodeVars, connVars, historyVars, loginVars
<1>4. ASSUME NEW p \in pushing, PushRemember(p) PROVE ServerType'
  <2>1. p.session \in Sessions /\ p.task \in 1..template
    BY DEF ServerType, BcastType, Goroutines
  <2>2. JobType'
    BY <1>4, <2>1, PushJobFacts DEF PushRemember, nodeVars
  <2>3. BcastType'
    BY <1>1, <1>4 DEF PushRemember, nodeVars
  <2> QED
    BY <1>2, <1>4, <2>2, <2>3, SameTemplate
       DEF PushRemember, ServerType, nodeVars, connVars, historyVars, loginVars
<1>5. ASSUME NEW p \in pushing, PushSend(p) PROVE ServerType'
  <2>1. p.session \in Sessions
    BY DEF ServerType, BcastType, Goroutines
  <2>2. IsFiniteSet(pushing')
    BY <1>5, FS_RemoveElement DEF PushSend, ServerType, BcastType
  <2>3. BcastType'
    BY <1>5, <2>1, <2>2 DEF PushSend, ServerType, BcastType, nodeVars
  <2> QED
    BY <1>2, <1>5, <2>3, SameTemplate
       DEF PushSend, ServerType, nodeVars, connVars, historyVars, loginVars
<1>6. ASSUME NEW s \in Sessions, RemovePushed(s) PROVE ServerType'
  <2>1. BcastType'
    BY <1>6 DEF RemovePushed, ServerType, BcastType, nodeVars
  <2>2. NodeType'
    BY <1>6 DEF RemovePushed, SessionsUnlocked, ServerType, NodeType, nodeVars
  <2> QED
    BY <1>6, <2>1, <2>2, SameTemplate DEF RemovePushed, ServerType, nodeVars, connVars, loginVars
<1> QED
  BY <1>3, <1>4, <1>5, <1>6 DEF PushGoroutine

\* A connection that goes on: its request is the phase it is at.
LEMMA MoveConn ==
    ASSUME ServerType, NEW s \in Sessions, NEW ph \in Before \union Known, Goes(s, ph),
           phase[s] # "list", ph # "list", NEW t \in Nat, t <= template,
           seen' = [seen EXCEPT ![s] = t], t # 0 <=> ph \in AtRequest,
           miners' \subseteq miners, abandoned' \subseteq abandoned,
           UNCHANGED <<template, listVars, loginVars, sharedUids>>
    PROVE  ConnType' /\ ListType'
<1>1. phase' = [phase EXCEPT ![s] = ph]
  BY DEF Goes
<1>2. ConnType'
  BY <1>1 DEF ServerType, ConnType, loginVars
<1>3. ListType'
  BY <1>1 DEF ServerType, ListType, ConnType, loginVars, listVars
<1> QED
  BY <1>2, <1>3

LEMMA LoginType == ASSUME ServerType, NEW s \in Sessions, NEW u \in Uids, Login(s, u) PROVE ServerType'
<1>1. /\ phase[s] \in {"new", "ready"} /\ logins[s] < MaxLogins
      /\ logins' = [logins EXCEPT ![s] = @ + 1]
      /\ UNCHANGED <<nodeVars, bcastVars, sessions, workers, lists, jobVars, reached>>
  BY DEF Login
<1>2. NodeType'
  BY <1>1 DEF ServerType, NodeType, nodeVars
<1>3. BcastType' /\ JobType'
  BY <1>1, SameTemplate DEF nodeVars
<1>4. logins' \in [Sessions -> 0..MaxLogins]
  BY <1>1, SizeFacts DEF ServerType, ConnType
<1>5. seen[s] = 0 /\ found[s] = 0
  BY <1>1 DEF ServerType, ConnType, ListType, AtRequest
<1>6. CASE template = 0
  <2>1. /\ phase' = [phase EXCEPT ![s] = "leaving"]
        /\ UNCHANGED <<miners, uid, seen, found, sharedUids, raced, abandoned>>
    BY <1>6 DEF Login, Goes
  <2>2. ConnType'
    BY <1>1, <1>4, <1>5, <2>1 DEF ServerType, ConnType, Before, AtRequest, nodeVars
  <2>3. ListType'
    BY <1>1, <2>1 DEF ServerType, ListType
  <2> QED
    BY <1>2, <1>3, <2>2, <2>3 DEF ServerType
<1>7. CASE template # 0
  <2>1. /\ phase' = [phase EXCEPT ![s] = "list"] /\ seen' = [seen EXCEPT ![s] = template]
        /\ uid' = [uid EXCEPT ![s] = u] /\ miners' = miners \union {u}
        /\ found' = [found EXCEPT ![s] = lists[AddressOf[u]]]
        /\ raced' \subseteq Sessions
        /\ sharedUids' \subseteq sharedUids \union {u}
        /\ abandoned' \subseteq abandoned \union miners
    BY <1>7 DEF Login, Goes, FirstLogins, ServerType, ListType
  <2>2. AddressOf[u] \in Addresses /\ template \in Nat
    BY SizeFacts DEF Addresses, ServerType, NodeType
  <2>3. ConnType'
    <3>1. /\ miners' \subseteq Uids /\ uid' \in [Sessions -> Uids \union {NoUid}]
          /\ phase' \in [Sessions -> Before \union Known] /\ seen' \in [Sessions -> Nat]
          /\ sharedUids' \subseteq Uids /\ abandoned' \subseteq Uids
      BY <2>1, <2>2 DEF ServerType, ConnType, Known
    <3>2. \A r \in Sessions : /\ phase'[r] = IF r = s THEN "list" ELSE phase[r]
                              /\ uid'[r] = IF r = s THEN u ELSE uid[r]
                              /\ seen'[r] = IF r = s THEN template ELSE seen[r]
      BY <2>1 DEF ServerType, ConnType
    <3>3. \A r \in Sessions : /\ phase'[r] = "list" => uid'[r] \in Uids
                              /\ seen'[r] <= template
                              /\ (seen'[r] # 0 <=> phase'[r] \in AtRequest)
      BY <1>7, <2>2, <3>2 DEF ServerType, ConnType, AtRequest
    <3> QED
      BY <1>1, <1>4, <1>7, <3>1, <3>3 DEF ConnType, nodeVars
  <2>4. ListType'
    <3>1. lists[AddressOf[u]] \in Nat
      BY <2>2 DEF ServerType, ListType
    <3>2. found' \in [Sessions -> Nat] /\ raced' \subseteq Sessions
      BY <2>1, <2>2, <3>1 DEF ServerType, ListType
    <3>3. \A r \in Sessions : /\ phase'[r] = IF r = s THEN "list" ELSE phase[r]
                              /\ uid'[r] = IF r = s THEN u ELSE uid[r]
                              /\ found'[r] = IF r = s THEN lists[AddressOf[u]] ELSE found[r]
      BY <2>1 DEF ServerType, ConnType, ListType
    <3>4. \A r \in Sessions :
              found'[r] # 0 => phase'[r] = "list" /\ found'[r] <= lists[AddressOf[uid'[r]]]
      BY <3>1, <3>3 DEF ServerType, ListType
    <3> QED
      BY <1>1, <3>2, <3>4 DEF ServerType, ListType
  <2> QED
    BY <1>2, <1>3, <2>3, <2>4 DEF ServerType
<1> QED
  BY <1>6, <1>7

LEMMA ListWorkerType == ASSUME ServerType, NEW s \in Sessions, ListWorker(s) PROVE ServerType'
<1> DEFINE a == AddressOf[uid[s]]
<1>1. /\ phase[s] = "list" /\ phase' = [phase EXCEPT ![s] = "register"]
      /\ found' = [found EXCEPT ![s] = 0]
      /\ UNCHANGED <<nodeVars, bcastVars, sessions, miners, raced, uid, seen, logins, jobVars,
                     historyVars>>
  BY DEF ListWorker, Goes
<1>2. a \in Addresses /\ uid[s] \in Uids
  BY <1>1 DEF Addresses, ServerType, ConnType
<1>3. NodeType' /\ BcastType' /\ JobType'
  BY <1>1, SameTemplate DEF ServerType, NodeType, nodeVars, historyVars
<1>4. ConnType'
  BY <1>1 DEF ServerType, ConnType, Known, AtRequest, nodeVars, historyVars
<1>5. ListType'
  <2>1. /\ \/ workers' = [workers EXCEPT ![a] = {uid[s]}]
           \/ workers' = [workers EXCEPT ![a] = @ \union {uid[s]}]
           \/ UNCHANGED workers
        /\ \/ lists' = [lists EXCEPT ![a] = @ + 1]
           \/ UNCHANGED lists
    BY DEF ListWorker
  <2>2. workers' \in [Addresses -> SUBSET Uids] /\ \A b \in Addresses : \A u \in workers'[b] : AddressOf[u] = b
    BY <1>2, <2>1 DEF ServerType, ListType
  <2>3. /\ lists' \in [Addresses -> Nat]
        /\ \A b \in Addresses : lists[b] \in Nat /\ lists'[b] \in Nat /\ lists[b] <= lists'[b]
    BY <1>2, <2>1 DEF ServerType, ListType
  <2>4. \A r \in Sessions : /\ phase'[r] = IF r = s THEN "register" ELSE phase[r]
                            /\ found'[r] = IF r = s THEN 0 ELSE found[r]
                            /\ found'[r] \in Nat
    BY <1>1 DEF ServerType, ConnType, ListType
  <2>5. ASSUME NEW r \in Sessions, found'[r] # 0
        PROVE  phase'[r] = "list" /\ found'[r] <= lists'[AddressOf[uid[r]]]
    <3>1. phase[r] = "list" /\ found[r] <= lists[AddressOf[uid[r]]] /\ r # s
      BY <2>4, <2>5 DEF ServerType, ListType
    <3>2. AddressOf[uid[r]] \in Addresses
      BY <3>1 DEF Addresses, ServerType, ConnType
    <3> QED
      BY <2>3, <2>4, <3>1, <3>2
  <2>6. found' \in [Sessions -> Nat]
    BY <1>1 DEF ServerType, ListType
  <2> QED
    BY <1>1, <2>2, <2>3, <2>5, <2>6 DEF ServerType, ListType
<1> QED
  BY <1>3, <1>4, <1>5 DEF ServerType

LEMMA HandlerType == ASSUME ServerType, NEW s \in Sessions, Handler(s) PROVE ServerType'
<1> DEFINE sn == seen[s]
<1>1. /\ sn \in Nat /\ sn <= template /\ (sn # 0 <=> phase[s] \in AtRequest)
      /\ UNCHANGED seen => seen' = [seen EXCEPT ![s] = sn]
      /\ template \in Nat /\ 0 <= template
  BY SizeFacts DEF ServerType, ConnType, NodeType
<1>2. \A ph \in {"register", "getJob", "remember"} : ph \in AtRequest /\ ph \in Before \union Known
  BY DEF AtRequest, Known
<1>3. \A ph \in {"ready", "leaving", "left", "closed"} : ph \notin AtRequest /\ ph \in Before \union Known
  BY DEF AtRequest, Known, Before
<1> HIDE DEF sn
<1>4. CASE RegisterSession(s)
  <2>1. ConnType' /\ ListType'
    BY <1>1, <1>2, <1>4, MoveConn DEF RegisterSession, nodeVars, historyVars
  <2>2. NodeType'
    BY <1>4 DEF RegisterSession, SessionsUnlocked, ServerType, NodeType, nodeVars, historyVars
  <2> QED
    BY <1>4, <2>1, <2>2, SameTemplate DEF RegisterSession, ServerType, nodeVars
<1>5. CASE AnswerGet(s)
  <2>1. /\ phase[s] = "getJob" /\ lastJob' = [lastJob EXCEPT ![s] = sn]
        /\ reached' \subseteq reached \union {s}
        /\ UNCHANGED <<nodeVars, bcastVars, sessions, miners, listVars, loginVars, jobs,
                       sharedUids, abandoned>>
    BY <1>5 DEF AnswerGet, Swap, sn
  <2>2. \/ Goes(s, "remember") /\ UNCHANGED seen
        \/ Goes(s, "ready") /\ seen' = [seen EXCEPT ![s] = 0]
    BY <1>5 DEF AnswerGet
  <2>3. ConnType' /\ ListType'
    BY <1>1, <1>2, <1>3, <2>1, <2>2, MoveConn DEF nodeVars
  <2>4. NodeType'
    BY <2>1 DEF ServerType, NodeType, nodeVars
  <2>5. JobType'
    BY <1>1, <2>1 DEF ServerType, JobType, nodeVars
  <2> QED
    BY <2>1, <2>3, <2>4, <2>5, SameTemplate DEF ServerType, nodeVars
<1>6. CASE AnswerRemember(s)
  <2>1. /\ phase[s] = "remember" /\ PushJob(s, sn) /\ Goes(s, "ready")
        /\ seen' = [seen EXCEPT ![s] = 0]
        /\ UNCHANGED <<nodeVars, bcastVars, sessions, miners, listVars, loginVars, lastJob,
                       historyVars>>
    BY <1>6 DEF AnswerRemember, sn
  <2>2. ConnType' /\ ListType'
    BY <1>1, <1>3, <2>1, MoveConn DEF nodeVars, historyVars
  <2>3. NodeType'
    BY <2>1 DEF ServerType, NodeType, nodeVars, historyVars
  <2>4. sn \in 1..template
    BY <1>1, <1>2, <2>1
  <2>5. JobType'
    BY <2>1, <2>4, PushJobFacts DEF nodeVars
  <2> QED
    BY <2>1, <2>2, <2>3, <2>5, SameTemplate DEF ServerType, nodeVars
<1>7. CASE RemoveMiner(s)
  <2>1. /\ phase[s] = "leaving" /\ miners' \subseteq miners /\ Goes(s, "left")
        /\ abandoned' \subseteq abandoned
        /\ UNCHANGED <<nodeVars, bcastVars, sessions, listVars, loginVars, seen, jobVars,
                       reached, sharedUids>>
    BY <1>7 DEF RemoveMiner
  <2>2. ConnType' /\ ListType'
    BY <1>1, <1>3, <2>1, MoveConn DEF nodeVars
  <2>3. NodeType'
    BY <2>1 DEF ServerType, NodeType, nodeVars
  <2> QED
    BY <2>1, <2>2, <2>3, SameTemplate DEF ServerType, nodeVars
<1>8. CASE RemoveSession(s)
  <2>1. ConnType' /\ ListType'
    BY <1>1, <1>3, <1>8, MoveConn DEF RemoveSession, nodeVars
  <2>2. NodeType'
    BY <1>8 DEF RemoveSession, SessionsUnlocked, ServerType, NodeType, nodeVars
  <2> QED
    BY <1>8, <2>1, <2>2, SameTemplate DEF RemoveSession, ServerType, nodeVars
<1> QED
  BY <1>4, <1>5, <1>6, <1>7, <1>8, ListWorkerType DEF Handler

LEMMA ClientType == ASSUME ServerType, NEW s \in Sessions, Client(s) PROVE ServerType'
<1>1. \A ph \in {"new", "ready", "leaving"} : ph \notin AtRequest /\ ph \in Before \union Known
  BY DEF AtRequest, Known, Before
<1>2. template \in Nat /\ 0 <= template /\ template <= template
  BY SizeFacts DEF ServerType, NodeType
<1>3. seen[s] # 0 <=> phase[s] \in AtRequest
  BY DEF ServerType, ConnType
<1>4. phase[s] \in {"new", "ready"} /\ UNCHANGED seen => seen' = [seen EXCEPT ![s] = 0]
  BY <1>1, <1>3 DEF ServerType, ConnType
<1>5. CASE AskJob(s)
  <2>1. /\ phase[s] = "ready"
        /\ UNCHANGED <<nodeVars, bcastVars, sessions, miners, listVars, loginVars, jobVars,
                       historyVars>>
    BY <1>5 DEF AskJob
  <2>2. \/ Goes(s, "getJob") /\ seen' = [seen EXCEPT ![s] = template] /\ template # 0
        \/ Goes(s, "leaving") /\ UNCHANGED seen
    BY <1>5 DEF AskJob, ServerType, ConnType
  <2>3. "getJob" \in AtRequest /\ "getJob" \in Before \union Known
    BY DEF AtRequest, Known
  <2>4. ConnType' /\ ListType'
    BY <1>1, <1>2, <1>4, <2>1, <2>2, <2>3, MoveConn DEF nodeVars, historyVars
  <2>5. NodeType'
    BY <2>1 DEF ServerType, NodeType, nodeVars, historyVars
  <2> QED
    BY <2>1, <2>4, <2>5, SameTemplate DEF ServerType, nodeVars
<1>6. CASE Leave(s)
  <2>1. ConnType' /\ ListType'
    BY <1>1, <1>2, <1>4, <1>6, MoveConn DEF Leave, nodeVars, historyVars
  <2>2. NodeType'
    BY <1>6 DEF Leave, ServerType, NodeType, nodeVars, historyVars
  <2> QED
    BY <1>6, <2>1, <2>2, SameTemplate DEF Leave, ServerType, nodeVars
<1> QED
  BY <1>5, <1>6, LoginType DEF Client

LEMMA ServerTypeStep == ASSUME ServerType, [StratumNext]_stratumVars PROVE ServerType'
BY RefreshType, PushType, HandlerType, ClientType DEF StratumNext

LEMMA ServerTypeGives == ServerType => StratumTypeOK
<1> SUFFICES ASSUME ServerType PROVE StratumTypeOK
  OBVIOUS
<1>1. pushing \subseteq [session : Sessions, task : 1..template, step : {"get", "remember", "send"}]
  BY DEF ServerType, BcastType, Goroutines
<1>2. seen \in [Sessions -> 0..template] /\ lastJob \in [Sessions -> 0..template]
  BY SizeFacts DEF ServerType, ConnType, JobType, NodeType
<1>3. ASSUME NEW s \in Sessions PROVE jobs[s] \in BoundedSeq(1..template, MaxJobs)
  <2>1. jobs[s] \in Seq(Nat) /\ Len(jobs[s]) \in 0..MaxJobs
        /\ \A i \in 1..Len(jobs[s]) : jobs[s][i] \in 1..template
    BY SizeFacts DEF ServerType, JobType
  <2>2. jobs[s] \in [1..Len(jobs[s]) -> 1..template]
    BY <2>1
  <2> QED
    BY <2>1, <2>2 DEF BoundedSeq, SeqOf
<1>4. phase \in [Sessions -> {"new", "list", "register", "getJob", "remember",
                              "ready", "leaving", "left", "closed"}]
  BY DEF ServerType, ConnType, Before, Known
<1>5. \A a \in Addresses : workers[a] \subseteq {u \in Uids : AddressOf[u] = a}
  BY DEF ServerType, ListType
<1> QED
  BY <1>1, <1>2, <1>3, <1>4, <1>5
     DEF StratumTypeOK, ServerType, NodeType, BcastType, ConnType, ListType

-----------------------------------------------------------------------------
(* The jobs that sessions remember *)

\* Those between getJob's swap and pushJob, for one session.
Pushers(s) == {p \in pushing : p.session = s /\ p.step = "remember"}

Remembering(s) == Cardinality(Pushers(s)) + (IF phase[s] = "remember" THEN 1 ELSE 0)

\* Those that may yet push a job older than the template to s.
OldPushers(s) == {p \in pushing : p.session = s /\ p.step # "send" /\ p.task # template}

Stale(s) == Cardinality(OldPushers(s)) + (IF seen[s] \in {0, template} THEN 0 ELSE 1)

\* The template's broadcast, or a request, has come to s.
Awaiting(s) ==
    \/ stage = "announce" /\ s \in sessions
    \/ stage = "broadcast" /\ s \in toStart
    \/ [session |-> s, task |-> template, step |-> "get"] \in pushing

Covered(s) == s \in reached /\ ~Awaiting(s)

\* The last job of a session is due, or kept whatever is about to be remembered.
LastJobInv ==
    \A s \in Sessions :
        lastJob[s] # 0 => Due(s, lastJob[s]) \/ Kept(s, lastJob[s], Remembering(s))

\* The template's job is due or kept in every session it has come to, whatever
\* old jobs are still to be pushed.
TemplateInv ==
    template # 0 =>
        \A s \in Sessions :
            lastJob[s] = template \/ Covered(s) => Due(s, template) \/ Kept(s, template, Stale(s))

\* pushJob forgets one job for one: those that work on a session at a time are
\* no more than the jobs it remembers.
FewRemembering == \A s \in Sessions : Remembering(s) <= MaxJobs
FewStale == \A s \in Sessions : Stale(s) < MaxJobs

\* Sets of goroutines are finite, and one that comes or goes counts one.
LEMMA CountPushers ==
    ASSUME ServerType, NEW S \in SUBSET pushing
    PROVE  /\ IsFiniteSet(S) /\ Cardinality(S) \in Nat
           /\ \A T \in SUBSET S : Cardinality(T) \in Nat /\ Cardinality(T) <= Cardinality(S)
           /\ \A p \in S : Cardinality(S \ {p}) = Cardinality(S) - 1
           /\ \A p \in S : \A q : Cardinality((S \ {p}) \union {q}) <= Cardinality(S)
<1>1. IsFiniteSet(S)
  BY FS_Subset DEF ServerType, BcastType
<1>2. Cardinality(S) \in Nat
  BY <1>1, FS_CardinalityType
<1>3. ASSUME NEW T \in SUBSET S PROVE Cardinality(T) \in Nat /\ Cardinality(T) <= Cardinality(S)
  BY <1>1, FS_Subset, FS_CardinalityType
<1>4. ASSUME NEW p \in S
      PROVE  IsFiniteSet(S \ {p}) /\ Cardinality(S \ {p}) = Cardinality(S) - 1
  BY <1>1, FS_RemoveElement
<1>5. ASSUME NEW p \in S, NEW q PROVE Cardinality((S \ {p}) \union {q}) <= Cardinality(S)
  <2> DEFINE R == S \ {p}
  <2>1. IsFiniteSet(R) /\ Cardinality(R) = Cardinality(S) - 1
    BY <1>4
  <2> HIDE DEF R
  <2>2. Cardinality(R \union {q}) = IF q \in R THEN Cardinality(R) ELSE Cardinality(R) + 1
    BY <2>1, FS_AddElement
  <2> QED
    BY <1>2, <2>1, <2>2 DEF R
<1> QED
  BY <1>1, <1>2, <1>3, <1>4, <1>5

LEMMA CountTypes ==
    ASSUME ServerType, NEW s \in Sessions
    PROVE  Remembering(s) \in Nat /\ Stale(s) \in Nat
<1>1. Cardinality(Pushers(s)) \in Nat /\ Cardinality(OldPushers(s)) \in Nat
  BY CountPushers DEF Pushers, OldPushers
<1> QED
  BY <1>1 DEF Remembering, Stale

\* A job that is kept through n more is kept through fewer.
LEMMA KeptFewer ==
    ASSUME ServerType, NEW s \in Sessions, NEW t \in Nat, NEW n \in Nat, Kept(s, t, n),
           NEW m \in Nat, m <= n, jobs'[s] = jobs[s]
    PROVE  Kept(s, t, m)'
<1>1. PICK i \in 1..Len(jobs[s]) : jobs[s][i] = t /\ (Len(jobs[s]) - i) + n < MaxJobs
  BY DEF Kept
<1>2. Len(jobs[s]) \in Nat /\ MaxJobs \in Nat
  BY SizeFacts DEF ServerType, JobType
<1>3. (Len(jobs[s]) - i) + m < MaxJobs
  BY <1>1, <1>2
<1> QED
  BY <1>1, <1>3 DEF Kept

-----------------------------------------------------------------------------
(* The last job *)

\* What pushes no job to s, and swaps none into it, leaves its last job where
\* it is, if it adds nobody who is about to push one.
LEMMA LastJobStays ==
    ASSUME ServerType, LastJobInv, NEW s \in Sessions, lastJob[s] # 0,
           jobs'[s] = jobs[s], lastJob'[s] = lastJob[s],
           Remembering(s)' \in Nat, Remembering(s)' <= Remembering(s),
           \A t \in Nat : Due(s, t) => Due(s, t)'
    PROVE  Due(s, lastJob[s])' \/ Kept(s, lastJob[s], Remembering(s))'
<1>1. lastJob[s] \in Nat /\ Remembering(s) \in Nat
  BY CountTypes DEF ServerType, JobType
<1> QED
  BY <1>1, KeptFewer DEF LastJobInv

\* Due by a goroutine or by the handler itself.
LEMMA DueStays ==
    ASSUME NEW s \in Sessions, NEW t \in Nat, Due(s, t),
           phase[s] = "remember" => phase'[s] = phase[s] /\ seen'[s] = seen[s],
           [session |-> s, task |-> t, step |-> "remember"] \in pushing
               => [session |-> s, task |-> t, step |-> "remember"] \in pushing'
    PROVE  Due(s, t)'
BY DEF Due

\* What a goroutine of a broadcast does is done for its own session.
LEMMA OwnSession ==
    ASSUME ServerType, NEW p \in pushing, NEW st \in {"remember", "send"}
    PROVE  /\ p.session \in Sessions /\ p.task \in 1..template /\ p.task \in Nat
           /\ p = [session |-> p.session, task |-> p.task, step |-> p.step]
           /\ [p EXCEPT !.step = st] = [session |-> p.session, task |-> p.task, step |-> st]
BY SizeFacts DEF ServerType, NodeType, BcastType, Goroutines

LEMMA LastJobRefresh ==
    ASSUME ServerType, ServerType', LastJobInv,
           \/ \E t \in Tasks : ReceiveTask(t)
           \/ Refresh
           \/ UNCHANGED stratumVars
    PROVE  LastJobInv'
<1>1. UNCHANGED <<phase, seen, lastJob, jobs>>
  BY DEF ReceiveTask, Refresh, StoreTemplate, StartBroadcast, EndBroadcast, StartPush, stratumVars,
         connVars, jobVars
<1>2. \/ UNCHANGED pushing
      \/ \E s \in Sessions : pushing' = pushing \union {[session |-> s, task |-> task, step |-> "get"]}
  BY DEF ReceiveTask, Refresh, StoreTemplate, StartBroadcast, EndBroadcast, StartPush, stratumVars,
         bcastVars
<1>3. \A r \in Sessions : Pushers(r)' = Pushers(r)
  BY <1>2 DEF Pushers
<1>4. \A r \in Sessions : Remembering(r)' = Remembering(r)
  BY <1>1, <1>3 DEF Remembering
<1>5. ASSUME NEW r \in Sessions, NEW t \in Nat, Due(r, t) PROVE Due(r, t)'
  BY <1>1, <1>2, <1>5 DEF Due
<1>6. ASSUME NEW r \in Sessions, lastJob'[r] # 0
      PROVE  Due(r, lastJob[r])' \/ Kept(r, lastJob[r], Remembering(r))'
  <2>1. Remembering(r)' \in Nat /\ Remembering(r)' <= Remembering(r)
    BY <1>4, CountTypes
  <2> QED
    BY <1>1, <1>5, <1>6, <2>1, LastJobStays
<1> QED
  BY <1>6 DEF LastJobInv

\* A job that is remembered for s brings the one that is due, or costs the last
\* job a place that it had counted on.
LEMMA LastJobPushed ==
    ASSUME ServerType, ServerType', LastJobInv, FewRemembering, NEW s \in Sessions, NEW t \in 1..template,
           PushJob(s, t), UNCHANGED <<lastJob, template>>,
           Remembering(s)' \in Nat, Remembering(s) = Remembering(s)' + 1,
           \A u \in Nat : u # t /\ Due(s, u) => Due(s, u)',
           lastJob[s] # 0
    PROVE  Due(s, lastJob[s])' \/ Kept(s, lastJob[s], Remembering(s))'
<1>1. lastJob[s] \in Nat /\ Remembering(s) \in Nat /\ Remembering(s)' \in Nat /\ lastJob'[s] = lastJob[s]
      /\ Remembering(s) <= MaxJobs
  BY CountTypes DEF ServerType, JobType, FewRemembering
<1>2. PICK u \in Nat : u = lastJob[s] /\ u = lastJob'[s]
  BY <1>1
<1>3. PICK n \in Nat : n = Remembering(s)' /\ Remembering(s) = n + 1 /\ n < MaxJobs
  BY <1>1, SizeFacts
<1>4. CASE u = t
  <2>1. Kept(s, t, n)'
    BY <1>3, PushJobFacts
  <2> QED
    BY <1>2, <1>3, <1>4, <2>1
<1>5. CASE u # t
  <2>1. Due(s, u) \/ Kept(s, u, n + 1)
    BY <1>2, <1>3 DEF LastJobInv
  <2>2. Due(s, u) => Due(s, u)'
    BY <1>5
  <2>3. Kept(s, u, n + 1) => Kept(s, u, n)'
    BY PushJobFacts
  <2> QED
    BY <1>2, <1>3, <2>1, <2>2, <2>3
<1> QED
  BY <1>4, <1>5

LEMMA LastJobPush ==
    ASSUME ServerType, ServerType', LastJobInv, FewRemembering, PushGoroutine
    PROVE  LastJobInv'
<1>1. UNCHANGED <<template, phase, seen>>
  BY DEF PushGoroutine, PushGet, PushRemember, PushSend, RemovePushed, nodeVars, connVars
<1>2. ASSUME NEW p \in pushing, PushGet(p) PROVE LastJobInv'
  <2> DEFINE s == p.session
             st == IF GetJobIsNew(s, p.task) THEN "remember" ELSE "send"
             q == [session |-> s, task |-> p.task, step |-> st]
  <2>1. /\ s \in Sessions /\ p = [session |-> s, task |-> p.task, step |-> "get"]
        /\ pushing' = (pushing \ {p}) \union {q} /\ p.task \in Nat
        /\ lastJob' = [lastJob EXCEPT ![s] = p.task] /\ UNCHANGED jobs
    <3>1. st \in {"remember", "send"} /\ p.step = "get"
      BY <1>2 DEF PushGet
    <3> QED
      BY <1>2, <3>1, OwnSession DEF PushGet, Swap
  <2>2. \A r \in Sessions : lastJob'[r] = IF r = s THEN p.task ELSE lastJob[r]
    BY <2>1 DEF ServerType, JobType
  <2>3. ASSUME NEW r \in Sessions, NEW t \in Nat, Due(r, t) PROVE Due(r, t)'
    <3>1. p # [session |-> r, task |-> t, step |-> "remember"]
      BY <2>1
    <3> QED
      BY <1>1, <2>1, <2>3, <3>1 DEF Due
  <2>4. CASE GetJobIsNew(s, p.task)
    <3>1. q = [session |-> s, task |-> p.task, step |-> "remember"]
      BY <2>4
    <3>2. Due(s, lastJob[s])'
      BY <2>1, <2>2, <3>1 DEF Due
    <3>3. ASSUME NEW r \in Sessions, r # s, lastJob'[r] # 0
          PROVE  Due(r, lastJob[r])' \/ Kept(r, lastJob[r], Remembering(r))'
      <4>1. Pushers(r)' = Pushers(r)
        BY <2>1, <3>1, <3>3 DEF Pushers
      <4>2. Remembering(r)' = Remembering(r)
        BY <1>1, <4>1 DEF Remembering
      <4>3. Remembering(r)' \in Nat /\ Remembering(r)' <= Remembering(r)
        BY <4>2, CountTypes
      <4> QED
        BY <2>1, <2>2, <2>3, <3>3, <4>3, LastJobStays
    <3> QED
      BY <3>2, <3>3 DEF LastJobInv
  <2>5. CASE ~GetJobIsNew(s, p.task)
    <3>1. q = [session |-> s, task |-> p.task, step |-> "send"] /\ lastJob[s] = p.task
      BY <2>5 DEF GetJobIsNew
    <3>2. ASSUME NEW r \in Sessions, lastJob'[r] # 0
          PROVE  Due(r, lastJob[r])' \/ Kept(r, lastJob[r], Remembering(r))'
      <4>1. Pushers(r)' = Pushers(r)
        BY <2>1, <3>1 DEF Pushers
      <4>2. Remembering(r)' = Remembering(r)
        BY <1>1, <4>1 DEF Remembering
      <4>3. Remembering(r)' \in Nat /\ Remembering(r)' <= Remembering(r)
        BY <4>2, CountTypes
      <4>4. lastJob'[r] = lastJob[r]
        BY <2>2, <3>1
      <4> QED
        BY <2>1, <2>3, <3>2, <4>3, <4>4, LastJobStays
    <3> QED
      BY <3>2 DEF LastJobInv
  <2> QED
    BY <2>4, <2>5
<1>3. ASSUME NEW p \in pushing, PushRemember(p) PROVE LastJobInv'
  <2> DEFINE s == p.session
             q == [session |-> s, task |-> p.task, step |-> "send"]
  <2>1. /\ s \in Sessions /\ p = [session |-> s, task |-> p.task, step |-> "remember"]
        /\ p.task \in 1..template
        /\ pushing' = (pushing \ {p}) \union {q} /\ PushJob(s, p.task) /\ UNCHANGED lastJob
    BY <1>3, OwnSession DEF PushRemember
  <2>2. \A r \in Sessions \ {s} : jobs'[r] = jobs[r]
    BY <1>1, <2>1, PushJobFacts
  <2>3. ASSUME NEW r \in Sessions, NEW t \in Nat, r # s \/ t # p.task, Due(r, t) PROVE Due(r, t)'
    <3>1. p # [session |-> r, task |-> t, step |-> "remember"]
      BY <2>1, <2>3
    <3> QED
      BY <1>1, <2>1, <2>3, <3>1 DEF Due
  <2>4. ASSUME lastJob[s] # 0
        PROVE  Due(s, lastJob[s])' \/ Kept(s, lastJob[s], Remembering(s))'
    <3>1. Pushers(s)' = Pushers(s) \ {p} /\ p \in Pushers(s) /\ Pushers(s) \in SUBSET pushing
      BY <2>1 DEF Pushers
    <3>2. /\ Cardinality(Pushers(s)') = Cardinality(Pushers(s)) - 1
          /\ Cardinality(Pushers(s)) \in Nat /\ Cardinality(Pushers(s)') \in Nat
      BY <3>1, CountPushers
    <3>3. Remembering(s) = Remembering(s)' + 1 /\ Remembering(s)' \in Nat
      BY <1>1, <3>2 DEF Remembering
    <3>4. \A u \in Nat : u # p.task /\ Due(s, u) => Due(s, u)'
      BY <2>1, <2>3
    <3> QED
      BY <1>1, <2>1, <2>4, <3>3, <3>4, LastJobPushed
  <2>5. ASSUME NEW r \in Sessions, r # s, lastJob'[r] # 0
        PROVE  Due(r, lastJob[r])' \/ Kept(r, lastJob[r], Remembering(r))'
    <3>1. Pushers(r)' = Pushers(r)
      BY <2>1, <2>5 DEF Pushers
    <3>2. Remembering(r)' = Remembering(r)
      BY <1>1, <3>1 DEF Remembering
    <3>3. Remembering(r)' \in Nat /\ Remembering(r)' <= Remembering(r)
      BY <3>2, CountTypes
    <3> QED
      BY <2>1, <2>2, <2>3, <2>5, <3>3, LastJobStays
  <2> QED
    BY <2>1, <2>4, <2>5 DEF LastJobInv
<1>4. ASSUME \/ \E p \in pushing : PushSend(p)
             \/ \E s \in Sessions : RemovePushed(s)
      PROVE  LastJobInv'
  <2>1. /\ UNCHANGED jobVars
        /\ UNCHANGED pushing \/ \E p \in pushing : p.step = "send" /\ pushing' = pushing \ {p}
    BY <1>4 DEF PushSend, RemovePushed
  <2>2. ASSUME NEW r \in Sessions, NEW t \in Nat, Due(r, t) PROVE Due(r, t)'
    BY <1>1, <2>1, <2>2 DEF Due
  <2>3. ASSUME NEW r \in Sessions, lastJob'[r] # 0
        PROVE  Due(r, lastJob[r])' \/ Kept(r, lastJob[r], Remembering(r))'
    <3>1. Pushers(r)' = Pushers(r)
      BY <2>1 DEF Pushers
    <3>2. Remembering(r)' = Remembering(r)
      BY <1>1, <3>1 DEF Remembering
    <3>3. Remembering(r)' \in Nat /\ Remembering(r)' <= Remembering(r)
      BY <3>2, CountTypes
    <3> QED
      BY <2>1, <2>2, <2>3, <3>3, LastJobStays DEF jobVars
  <2> QED
    BY <2>3 DEF LastJobInv
<1> QED
  BY <1>2, <1>3, <1>4 DEF PushGoroutine

\* What a connection goroutine does is done for its own session.
LEMMA OwnConnection ==
    ASSUME ServerType, NEW s \in Sessions, Handler(s) \/ Client(s)
    PROVE  /\ UNCHANGED <<template, stage, toStart, pushing>>
           /\ \A r \in Sessions \ {s} : /\ phase'[r] = phase[r] /\ seen'[r] = seen[r]
                                        /\ lastJob'[r] = lastJob[r] /\ jobs'[r] = jobs[r]
<1>1. UNCHANGED <<template, stage, toStart, pushing>>
  BY DEF Handler, Client, ListWorker, RegisterSession, AnswerGet, AnswerRemember, RemoveMiner,
         RemoveSession, Login, AskJob, Leave, nodeVars, bcastVars
<1>2. \A r \in Sessions \ {s} : phase'[r] = phase[r] /\ seen'[r] = seen[r] /\ lastJob'[r] = lastJob[r]
  <2>1. \E ph : phase' = [phase EXCEPT ![s] = ph]
    BY DEF Handler, Client, ListWorker, RegisterSession, AnswerGet, AnswerRemember, RemoveMiner,
           RemoveSession, Login, AskJob, Leave, Goes
  <2>2. UNCHANGED seen \/ \E t : seen' = [seen EXCEPT ![s] = t]
    BY DEF Handler, Client, ListWorker, RegisterSession, AnswerGet, AnswerRemember, RemoveMiner,
           RemoveSession, Login, AskJob, Leave
  <2>3. UNCHANGED lastJob \/ \E t : lastJob' = [lastJob EXCEPT ![s] = t]
    BY DEF Handler, Client, ListWorker, RegisterSession, AnswerGet, AnswerRemember, RemoveMiner,
           RemoveSession, Login, AskJob, Leave, Swap, jobVars
  <2> QED
    BY <2>1, <2>2, <2>3 DEF ServerType, ConnType, JobType
<1>3. \A r \in Sessions \ {s} : jobs'[r] = jobs[r]
  <2>1. CASE AnswerRemember(s)
    <3>1. \E q : jobs' = [jobs EXCEPT ![s] = q]
      BY <2>1 DEF AnswerRemember, PushJob
    <3> QED
      BY <3>1 DEF ServerType, JobType
  <2>2. CASE ~AnswerRemember(s)
    BY <2>2 DEF Handler, Client, ListWorker, RegisterSession, AnswerGet, RemoveMiner,
                RemoveSession, Login, AskJob, Leave, jobVars
  <2> QED
    BY <2>1, <2>2
<1> QED
  BY <1>1, <1>2, <1>3

LEMMA LastJobConn ==
    ASSUME ServerType, ServerType', LastJobInv, FewRemembering, NEW s \in Sessions,
           Handler(s) \/ Client(s)
    PROVE  LastJobInv'
<1>1. UNCHANGED <<template, pushing>>
  BY OwnConnection
<1>2. Pushers(s)' = Pushers(s) /\ \A r \in Sessions : Pushers(r)' = Pushers(r)
  BY <1>1 DEF Pushers
<1>3. \A r \in Sessions \ {s} : /\ phase'[r] = phase[r] /\ seen'[r] = seen[r]
                               /\ lastJob'[r] = lastJob[r]
  BY OwnConnection
<1>4. \A r \in Sessions \ {s} : jobs'[r] = jobs[r]
  BY OwnConnection
<1>5. ASSUME NEW r \in Sessions, r # s, lastJob'[r] # 0
      PROVE  Due(r, lastJob[r])' \/ Kept(r, lastJob[r], Remembering(r))'
  <2>1. Remembering(r)' = Remembering(r)
    BY <1>2, <1>3, <1>5 DEF Remembering
  <2>2. \A t \in Nat : Due(r, t) => Due(r, t)'
    BY <1>1, <1>3, <1>5 DEF Due
  <2>3. Remembering(r)' \in Nat /\ Remembering(r)' <= Remembering(r)
    BY <2>1, CountTypes
  <2> QED
    BY <1>3, <1>4, <1>5, <2>2, <2>3, LastJobStays
<1>6. ASSUME lastJob'[s] # 0, phase[s] # "remember", UNCHANGED jobs, lastJob'[s] = lastJob[s],
             phase'[s] # "remember"
      PROVE  Due(s, lastJob[s])' \/ Kept(s, lastJob[s], Remembering(s))'
  <2>1. Remembering(s)' = Remembering(s)
    BY <1>2, <1>6 DEF Remembering
  <2>2. \A t \in Nat : Due(s, t) => Due(s, t)'
    BY <1>1, <1>6 DEF Due
  <2>3. Remembering(s)' \in Nat /\ Remembering(s)' <= Remembering(s)
    BY <2>1, CountTypes
  <2> QED
    BY <1>6, <2>2, <2>3, LastJobStays
<1>7. ASSUME lastJob'[s] # 0
      PROVE  Due(s, lastJob[s])' \/ Kept(s, lastJob[s], Remembering(s))'
  <2>1. CASE AnswerGet(s)
    <3>1. /\ phase[s] = "getJob" /\ lastJob' = [lastJob EXCEPT ![s] = seen[s]] /\ UNCHANGED jobs
          /\ \/ lastJob[s] # seen[s] /\ phase' = [phase EXCEPT ![s] = "remember"] /\ UNCHANGED seen
             \/ lastJob[s] = seen[s] /\ phase' = [phase EXCEPT ![s] = "ready"]
      BY <2>1 DEF AnswerGet, Swap, GetJobIsNew, Goes
    <3>2. lastJob'[s] = seen[s]
      BY <3>1 DEF ServerType, JobType
    <3>3. CASE lastJob[s] # seen[s]
      <4>1. phase'[s] = "remember" /\ seen'[s] = seen[s]
        BY <3>1, <3>3 DEF ServerType, ConnType
      <4> QED
        BY <3>2, <4>1 DEF Due
    <3>4. CASE lastJob[s] = seen[s]
      <4>1. phase'[s] = "ready"
        BY <3>1, <3>4 DEF ServerType, ConnType
      <4> QED
        BY <1>6, <1>7, <3>1, <3>2, <3>4, <4>1
    <3> QED
      BY <3>3, <3>4
  <2>2. CASE AnswerRemember(s)
    <3>1. /\ phase[s] = "remember" /\ PushJob(s, seen[s]) /\ phase' = [phase EXCEPT ![s] = "ready"]
          /\ UNCHANGED lastJob
      BY <2>2 DEF AnswerRemember, Goes
    <3>2. PICK t \in 1..template : t = seen[s]
      BY <3>1, SizeFacts DEF ServerType, ConnType, NodeType, AtRequest
    <3>3. phase'[s] = "ready"
      BY <3>1 DEF ServerType, ConnType
    <3>4. Remembering(s) = Remembering(s)' + 1 /\ Remembering(s)' \in Nat
      <4>1. Cardinality(Pushers(s)) \in Nat
        BY CountPushers DEF Pushers
      <4> QED
        BY <1>2, <3>1, <3>3, <4>1 DEF Remembering
    <3>5. \A u \in Nat : u # t /\ Due(s, u) => Due(s, u)'
      BY <1>1, <3>2 DEF Due
    <3>6. lastJob[s] # 0 /\ PushJob(s, t)
      BY <1>7, <3>1, <3>2
    <3> QED
      BY <1>1, <3>1, <3>4, <3>5, <3>6, LastJobPushed
  <2>3. CASE ~AnswerGet(s) /\ ~AnswerRemember(s)
    <3>1. UNCHANGED jobVars /\ phase[s] # "remember" /\ phase'[s] # "remember"
      BY <2>3 DEF Handler, Client, ListWorker, RegisterSession, RemoveMiner,
             RemoveSession, Login, AskJob, Leave, Goes, ServerType, ConnType
    <3> QED
      BY <1>6, <1>7, <3>1 DEF jobVars
  <2> QED
    BY <2>1, <2>2, <2>3
<1> QED
  BY <1>5, <1>7 DEF LastJobInv

LEMMA LastJobStep ==
    ASSUME ServerType, ServerType', LastJobInv, FewRemembering, [StratumNext]_stratumVars
    PROVE  LastJobInv'
BY LastJobRefresh, LastJobPush, LastJobConn DEF StratumNext

-----------------------------------------------------------------------------
(* The job of the template *)

\* What s is owed of the template's job, and what keeps it owed nothing more.
Reached(s) == lastJob[s] = template \/ Covered(s)

Served(s) == Due(s, template) \/ Kept(s, template, Stale(s))

LEMMA CoveredStays ==
    ASSUME NEW s \in Sessions, Covered(s)', UNCHANGED <<template, stage, toStart>>,
           s \in reached' => s \in reached,
           s \in sessions => s \in sessions' \/ s \notin reached',
           [session |-> s, task |-> template, step |-> "get"] \in pushing
               => [session |-> s, task |-> template, step |-> "get"] \in pushing'
    PROVE  Covered(s)
BY DEF Covered, Awaiting

LEMMA ServedStays ==
    ASSUME ServerType, TemplateInv, NEW s \in Sessions, template # 0, UNCHANGED template,
           Reached(s), jobs'[s] = jobs[s], Stale(s)' \in Nat, Stale(s)' <= Stale(s),
           \A t \in Nat : Due(s, t) => Due(s, t)'
    PROVE  Served(s)'
<1>1. template \in Nat /\ Stale(s) \in Nat
  BY CountTypes, SizeFacts DEF ServerType, NodeType
<1>2. PICK t \in Nat : t = template
  BY <1>1
<1>3. PICK m \in Nat : m = Stale(s)'
  OBVIOUS
<1>4. PICK n \in Nat : n = Stale(s) /\ m <= n
  BY <1>1, <1>3
<1>5. Due(s, t) \/ Kept(s, t, n)
  BY <1>2, <1>4 DEF TemplateInv, Reached
<1>6. Due(s, t)' \/ Kept(s, t, m)'
  BY <1>4, <1>5, KeptFewer
<1> QED
  BY <1>2, <1>3, <1>6 DEF Served

\* A job that is remembered for s is the template's, or an old one that had
\* been counted.
LEMMA ServedPushed ==
    ASSUME ServerType, TemplateInv, FewStale, NEW s \in Sessions, template # 0,
           Reached(s), NEW t \in 1..template, PushJob(s, t), UNCHANGED <<lastJob, template>>,
           Stale(s)' \in Nat, Stale(s)' <= Stale(s), t # template => Stale(s) = Stale(s)' + 1,
           \A u \in Nat : u # t /\ Due(s, u) => Due(s, u)'
    PROVE  Served(s)'
<1>1. template \in Nat /\ Stale(s) \in Nat /\ Stale(s) < MaxJobs /\ MaxJobs \in Nat
  BY CountTypes, SizeFacts DEF ServerType, NodeType, FewStale
<1>2. PICK u \in Nat : u = template
  BY <1>1
<1>3. PICK n \in Nat : n = Stale(s)' /\ n < MaxJobs /\ (t # template => Stale(s) = n + 1)
  BY <1>1
<1>4. CASE u = t
  <2>1. Kept(s, u, n)'
    BY <1>3, <1>4, PushJobFacts
  <2> QED
    BY <1>2, <1>3, <2>1 DEF Served
<1>5. CASE u # t
  <2>1. Due(s, u) \/ Kept(s, u, n + 1)
    BY <1>2, <1>3, <1>5 DEF TemplateInv, Reached
  <2>2. Due(s, u) => Due(s, u)'
    BY <1>5
  <2>3. Kept(s, u, n + 1) => Kept(s, u, n)'
    BY PushJobFacts
  <2> QED
    BY <1>2, <1>3, <2>1, <2>2, <2>3 DEF Served
<1> QED
  BY <1>4, <1>5

LEMMA ServedAll ==
    ASSUME UNCHANGED template,
           ASSUME NEW s \in Sessions, template # 0, Reached(s)' PROVE Served(s)'
    PROVE  TemplateInv'
BY DEF TemplateInv, Reached, Served

LEMMA TemplateRefresh ==
    ASSUME ServerType, ServerType', TemplateInv,
           \/ \E t \in Tasks : ReceiveTask(t)
           \/ Refresh
           \/ UNCHANGED stratumVars
    PROVE  TemplateInv'
<1>1. UNCHANGED <<phase, seen, lastJob, jobs>>
  BY DEF ReceiveTask, Refresh, StoreTemplate, StartBroadcast, EndBroadcast, StartPush, stratumVars,
         connVars, jobVars
<1>2. CASE StoreTemplate
  <2>1. template' = template + 1 /\ stage' = "announce" /\ reached' = sessions /\ UNCHANGED sessions
    BY <1>2 DEF StoreTemplate, ServerType, NodeType
  <2>2. \A s \in Sessions : lastJob[s] \in Nat /\ lastJob[s] <= template /\ template \in Nat
    BY SizeFacts DEF ServerType, JobType, NodeType
  <2>3. \A s \in Sessions : lastJob'[s] # template' /\ ~Covered(s)'
    BY <1>1, <2>1, <2>2 DEF Covered, Awaiting
  <2> QED
    BY <2>3 DEF TemplateInv
<1>3. ASSUME ~StoreTemplate PROVE TemplateInv'
  <2>1. /\ UNCHANGED <<template, sessions, reached>>
        /\ \/ UNCHANGED <<pushing, stage, toStart>>
           \/ /\ stage = "idle" /\ stage' = "renew" /\ UNCHANGED <<pushing, toStart>>
           \/ /\ stage = "announce" /\ stage' = "broadcast" /\ toStart' = sessions /\ UNCHANGED pushing
           \/ /\ stage = "broadcast" /\ stage' = "idle" /\ toStart = {} /\ UNCHANGED pushing
           \/ \E s \in Sessions : /\ stage = "broadcast" /\ stage' = stage /\ toStart' = toStart \ {s}
                                  /\ pushing' = pushing \union
                                        {[session |-> s, task |-> template, step |-> "get"]}
    BY <1>3 DEF ReceiveTask, Refresh, StartBroadcast, EndBroadcast, StartPush, stratumVars,
                nodeVars, bcastVars, historyVars, ServerType, NodeType
  <2>2. \A s \in Sessions : Covered(s)' => Covered(s)
    BY <2>1 DEF Covered, Awaiting
  <2>3. \A s \in Sessions : OldPushers(s)' = OldPushers(s)
    BY <2>1 DEF OldPushers
  <2>4. \A s \in Sessions : Stale(s)' = Stale(s)
    BY <1>1, <2>1, <2>3 DEF Stale
  <2>5. ASSUME NEW s \in Sessions, template # 0, Reached(s)' PROVE Served(s)'
    <3>1. Reached(s)
      BY <1>1, <2>1, <2>2, <2>5 DEF Reached
    <3>2. Stale(s)' \in Nat /\ Stale(s)' <= Stale(s)
      BY <2>4, CountTypes
    <3>3. \A t \in Nat : Due(s, t) => Due(s, t)'
      BY <1>1, <2>1 DEF Due
    <3> QED
      BY <1>1, <2>1, <2>5, <3>1, <3>2, <3>3, ServedStays
  <2> QED
    BY <2>1, <2>5, ServedAll
<1> QED
  BY <1>2, <1>3

LEMMA TemplatePush ==
    ASSUME ServerType, ServerType', TemplateInv, FewStale, PushGoroutine
    PROVE  TemplateInv'
<1>1. UNCHANGED <<template, stage, toStart, phase, seen>>
  BY DEF PushGoroutine, PushGet, PushRemember, PushSend, RemovePushed, nodeVars, connVars
<1>2. ASSUME NEW p \in pushing, PushGet(p) PROVE TemplateInv'
  <2> DEFINE s == p.session
             st == IF GetJobIsNew(s, p.task) THEN "remember" ELSE "send"
             q == [session |-> s, task |-> p.task, step |-> st]
  <2>1. /\ s \in Sessions /\ p = [session |-> s, task |-> p.task, step |-> "get"]
        /\ pushing' = (pushing \ {p}) \union {q} /\ p.task \in Nat
        /\ lastJob' = [lastJob EXCEPT ![s] = p.task] /\ UNCHANGED <<jobs, sessions, reached>>
    <3>1. st \in {"remember", "send"} /\ p.step = "get"
      BY <1>2 DEF PushGet
    <3> QED
      BY <1>2, <3>1, OwnSession DEF PushGet, Swap, historyVars
  <2>2. \A r \in Sessions : lastJob'[r] = IF r = s THEN p.task ELSE lastJob[r]
    BY <2>1 DEF ServerType, JobType
  <2>3. st = "send" => lastJob[s] = p.task
    BY DEF GetJobIsNew
  <2>4. q \in pushing' /\ q.session = s /\ q.task = p.task /\ q.step = st
    BY <2>1
  <2> HIDE DEF st
  <2>5. ASSUME NEW r \in Sessions, NEW t \in Nat, Due(r, t) PROVE Due(r, t)'
    <3>1. p # [session |-> r, task |-> t, step |-> "remember"]
      BY <2>1
    <3> QED
      BY <1>1, <2>1, <2>5, <3>1 DEF Due
  <2>6. ASSUME NEW r \in Sessions
        PROVE  Stale(r)' \in Nat /\ Stale(r)' <= Stale(r)
    <3>1. OldPushers(r) \in SUBSET pushing
      BY DEF OldPushers
    <3>2. \/ OldPushers(r)' \in SUBSET OldPushers(r)
          \/ p \in OldPushers(r) /\ OldPushers(r)' = (OldPushers(r) \ {p}) \union {q}
      BY <1>1, <2>1, <2>4 DEF OldPushers
    <3>3. IsFiniteSet(OldPushers(r)')
      <4>1. IsFiniteSet(OldPushers(r)) /\ IsFiniteSet(OldPushers(r) \ {p})
        BY <3>1, CountPushers, FS_RemoveElement
      <4>2. IsFiniteSet((OldPushers(r) \ {p}) \union {q})
        BY <4>1, FS_AddElement
      <4>3. \A S \in SUBSET OldPushers(r) : IsFiniteSet(S)
        BY <4>1, FS_Subset
      <4> QED
        BY <3>2, <4>2, <4>3
    <3>4. Cardinality(OldPushers(r)') <= Cardinality(OldPushers(r))
      BY <3>1, <3>2, CountPushers
    <3>5. Cardinality(OldPushers(r)') \in Nat /\ Cardinality(OldPushers(r)) \in Nat
      BY <3>1, <3>3, CountPushers, FS_CardinalityType
    <3> QED
      BY <1>1, <3>4, <3>5 DEF Stale
  <2>7. ASSUME NEW r \in Sessions, template # 0, Reached(r)' PROVE Served(r)'
    <3>1. CASE Reached(r)
      BY <1>1, <2>1, <2>5, <2>6, <2>7, <3>1, ServedStays
    <3>2. CASE ~Reached(r)
      <4>1. r = s /\ p.task = template
        <5>1. CASE lastJob'[r] = template
          BY <1>1, <2>1, <2>2, <3>2, <5>1 DEF Reached
        <5>2. CASE lastJob'[r] # template
          <6>1. Covered(r)' /\ ~Covered(r)
            BY <1>1, <2>7, <3>2, <5>2 DEF Reached
          <6>2. [session |-> r, task |-> template, step |-> "get"] \in pushing
                /\ [session |-> r, task |-> template, step |-> "get"] \notin pushing'
            BY <1>1, <2>1, <6>1, CoveredStays
          <6>3. p = [session |-> r, task |-> template, step |-> "get"]
            BY <2>1, <6>2
          <6> QED
            BY <2>1, <6>3
        <5> QED
          BY <5>1, <5>2
      <4>2. st # "send"
        BY <2>3, <3>2, <4>1 DEF Reached
      <4>3. q = [session |-> s, task |-> p.task, step |-> "remember"]
        BY <4>2 DEF st
      <4> QED
        BY <1>1, <2>4, <4>1, <4>3 DEF Served, Due
    <3> QED
      BY <3>1, <3>2
  <2> QED
    BY <1>1, <2>7, ServedAll
<1>3. ASSUME NEW p \in pushing, PushRemember(p) PROVE TemplateInv'
  <2> DEFINE s == p.session
             q == [session |-> s, task |-> p.task, step |-> "send"]
  <2>1. /\ s \in Sessions /\ p = [session |-> s, task |-> p.task, step |-> "remember"]
        /\ p.task \in 1..template
        /\ pushing' = (pushing \ {p}) \union {q} /\ PushJob(s, p.task)
        /\ UNCHANGED <<lastJob, sessions, reached>>
    BY <1>3, OwnSession DEF PushRemember, historyVars
  <2>2. \A r \in Sessions \ {s} : jobs'[r] = jobs[r]
    BY <1>1, <2>1, PushJobFacts
  <2>3. ASSUME NEW r \in Sessions, NEW t \in Nat, r # s \/ t # p.task, Due(r, t) PROVE Due(r, t)'
    <3>1. p # [session |-> r, task |-> t, step |-> "remember"]
      BY <2>1, <2>3
    <3> QED
      BY <1>1, <2>1, <2>3, <3>1 DEF Due
  <2>4. ASSUME NEW r \in Sessions, Reached(r)' PROVE Reached(r)
    <3>1. [session |-> r, task |-> template, step |-> "get"] \in pushing
              => [session |-> r, task |-> template, step |-> "get"] \in pushing'
      BY <2>1
    <3>2. Covered(r)' => Covered(r)
      BY <1>1, <2>1, <3>1, CoveredStays
    <3> QED
      BY <1>1, <2>1, <2>4, <3>2 DEF Reached
  <2>5. ASSUME NEW r \in Sessions
        PROVE  /\ Stale(r)' \in Nat /\ Stale(r)' <= Stale(r)
               /\ r = s /\ p.task # template => Stale(r) = Stale(r)' + 1
    <3>1. OldPushers(r) \in SUBSET pushing
      BY DEF OldPushers
    <3>2. OldPushers(r)' = IF r = s /\ p.task # template THEN OldPushers(r) \ {p} ELSE OldPushers(r)
      BY <1>1, <2>1 DEF OldPushers
    <3>3. r = s /\ p.task # template => p \in OldPushers(r)
      BY <2>1 DEF OldPushers
    <3>4. /\ Cardinality(OldPushers(r)) \in Nat
          /\ Cardinality(OldPushers(r)') \in Nat
          /\ Cardinality(OldPushers(r)') = IF r = s /\ p.task # template
                                           THEN Cardinality(OldPushers(r)) - 1
                                           ELSE Cardinality(OldPushers(r))
      <4>1. OldPushers(r) \ {p} \in SUBSET OldPushers(r)
        OBVIOUS
      <4> QED
        BY <3>1, <3>2, <3>3, <4>1, CountPushers
    <3> QED
      BY <1>1, <3>4 DEF Stale
  <2>6. ASSUME NEW r \in Sessions, template # 0, Reached(r)' PROVE Served(r)'
    <3>1. Reached(r)
      BY <2>4, <2>6
    <3>2. CASE r = s
      <4>1. \A u \in Nat : u # p.task /\ Due(s, u) => Due(s, u)'
        BY <2>1, <2>3
      <4> QED
        BY <1>1, <2>1, <2>5, <2>6, <3>1, <3>2, <4>1, ServedPushed
    <3>3. CASE r # s
      <4>1. \A u \in Nat : Due(r, u) => Due(r, u)'
        BY <2>3, <3>3
      <4> QED
        BY <1>1, <2>2, <2>5, <2>6, <3>1, <3>3, <4>1, ServedStays
    <3> QED
      BY <3>2, <3>3
  <2> QED
    BY <1>1, <2>6, ServedAll
<1>4. ASSUME \/ \E p \in pushing : PushSend(p)
             \/ \E s \in Sessions : RemovePushed(s)
      PROVE  TemplateInv'
  <2>1. /\ UNCHANGED <<lastJob, jobs>>
        /\ UNCHANGED pushing \/ \E p \in pushing : p.step = "send" /\ pushing' = pushing \ {p}
        /\ \A r \in Sessions : /\ r \in reached' => r \in reached
                               /\ r \in sessions => r \in sessions' \/ r \notin reached'
    BY <1>4 DEF PushSend, RemovePushed, jobVars, historyVars
  <2>2. ASSUME NEW r \in Sessions, NEW t \in Nat, Due(r, t) PROVE Due(r, t)'
    BY <1>1, <2>1, <2>2 DEF Due
  <2>3. \A r \in Sessions : OldPushers(r)' = OldPushers(r)
    BY <1>1, <2>1 DEF OldPushers
  <2>4. \A r \in Sessions : Stale(r)' = Stale(r)
    BY <1>1, <2>3 DEF Stale
  <2>5. ASSUME NEW r \in Sessions, template # 0, Reached(r)' PROVE Served(r)'
    <3>1. [session |-> r, task |-> template, step |-> "get"] \in pushing
              => [session |-> r, task |-> template, step |-> "get"] \in pushing'
      BY <2>1
    <3>2. Covered(r)' => Covered(r)
      BY <1>1, <2>1, <3>1, CoveredStays
    <3>3. Reached(r)
      BY <1>1, <2>1, <2>5, <3>2 DEF Reached
    <3>4. Stale(r)' \in Nat /\ Stale(r)' <= Stale(r)
      BY <2>4, CountTypes
    <3> QED
      BY <1>1, <2>1, <2>2, <2>5, <3>3, <3>4, ServedStays
  <2> QED
    BY <1>1, <2>5, ServedAll
<1> QED
  BY <1>2, <1>3, <1>4 DEF PushGoroutine

LEMMA TemplateConn ==
    ASSUME ServerType, ServerType', TemplateInv, FewStale, NEW s \in Sessions,
           Handler(s) \/ Client(s)
    PROVE  TemplateInv'
<1>1. UNCHANGED <<template, stage, toStart, pushing>>
  BY OwnConnection
<1>2. /\ \A r \in Sessions : OldPushers(r)' = OldPushers(r)
      /\ \A r \in Sessions : Cardinality(OldPushers(r)) \in Nat
  BY <1>1, CountPushers DEF OldPushers
<1>3. \A r \in Sessions \ {s} : /\ phase'[r] = phase[r] /\ seen'[r] = seen[r]
                               /\ lastJob'[r] = lastJob[r]
  BY OwnConnection
<1>4. \A r \in Sessions \ {s} : jobs'[r] = jobs[r]
  BY OwnConnection
<1>5. /\ \A r \in Sessions : r \in sessions => r \in sessions' \/ r \notin reached'
      /\ \A r \in Sessions \ {s} : r \in reached' => r \in reached
      /\ s \in reached' => s \in reached \/ (AnswerGet(s) /\ seen[s] = template)
  BY DEF Handler, Client, ListWorker, RegisterSession, AnswerGet, AnswerRemember, RemoveMiner,
         RemoveSession, Login, AskJob, Leave, historyVars
<1>6. ASSUME NEW r \in Sessions, r # s, template # 0, Reached(r)' PROVE Served(r)'
  <2>1. Covered(r)' => Covered(r)
    BY <1>1, <1>5, <1>6, CoveredStays
  <2>2. Reached(r)
    BY <1>1, <1>3, <1>6, <2>1 DEF Reached
  <2>3. Stale(r)' = Stale(r)
    BY <1>1, <1>2, <1>3, <1>6 DEF Stale
  <2>4. Stale(r)' \in Nat /\ Stale(r)' <= Stale(r)
    BY <2>3, CountTypes
  <2>5. \A t \in Nat : Due(r, t) => Due(r, t)'
    BY <1>1, <1>3, <1>6 DEF Due
  <2> QED
    BY <1>1, <1>3, <1>4, <1>6, <2>2, <2>4, <2>5, ServedStays
<1>7. ASSUME template # 0, Reached(s)' PROVE Served(s)'
  <2>1. CASE AnswerGet(s)
    <3>1. /\ phase[s] = "getJob" /\ lastJob' = [lastJob EXCEPT ![s] = seen[s]] /\ UNCHANGED jobs
          /\ \/ lastJob[s] # seen[s] /\ phase' = [phase EXCEPT ![s] = "remember"] /\ UNCHANGED seen
             \/ lastJob[s] = seen[s] /\ phase' = [phase EXCEPT ![s] = "ready"]
                /\ seen' = [seen EXCEPT ![s] = 0]
      BY <2>1 DEF AnswerGet, Swap, GetJobIsNew, Goes
    <3>2. lastJob'[s] = seen[s]
      BY <3>1 DEF ServerType, JobType
    <3>3. \A t \in Nat : Due(s, t) => Due(s, t)'
      BY <1>1, <3>1 DEF Due
    <3>4. Stale(s)' \in Nat /\ Stale(s)' <= Stale(s)
      <4>1. seen'[s] \in {0, seen[s]}
        BY <3>1 DEF ServerType, ConnType
      <4>2. seen[s] \in {0, template} => seen'[s] \in {0, template}
        BY <4>1
      <4> QED
        BY <1>1, <1>2, <4>2 DEF Stale
    <3>5. CASE seen[s] = template /\ lastJob[s] # template
      <4>1. phase'[s] = "remember" /\ seen'[s] = seen[s]
        BY <3>1, <3>5 DEF ServerType, ConnType
      <4> QED
        BY <1>1, <3>5, <4>1 DEF Served, Due
    <3>6. CASE lastJob[s] = template
      <4>1. Reached(s)
        BY <3>6 DEF Reached
      <4> QED
        BY <1>1, <1>7, <3>1, <3>3, <3>4, <4>1, ServedStays
    <3>7. CASE seen[s] # template
      <4>1. Covered(s)'
        BY <1>1, <1>7, <3>2, <3>7 DEF Reached
      <4>2. Covered(s)
        BY <1>1, <1>5, <3>7, <4>1, CoveredStays
      <4>3. Reached(s)
        BY <4>2 DEF Reached
      <4> QED
        BY <1>1, <1>7, <3>1, <3>3, <3>4, <4>3, ServedStays
    <3> QED
      BY <3>5, <3>6, <3>7
  <2>2. ASSUME ~AnswerGet(s), UNCHANGED lastJob PROVE Reached(s)
    <3>1. Covered(s)' => Covered(s)
      BY <1>1, <1>5, <2>2, CoveredStays
    <3> QED
      BY <1>1, <1>7, <2>2, <3>1 DEF Reached
  <2>3. CASE AnswerRemember(s)
    <3>1. /\ phase[s] = "remember" /\ PushJob(s, seen[s]) /\ phase' = [phase EXCEPT ![s] = "ready"]
          /\ seen' = [seen EXCEPT ![s] = 0] /\ UNCHANGED lastJob
      BY <2>3 DEF AnswerRemember, Goes
    <3>2. PICK t \in 1..template : t = seen[s]
      BY <3>1, SizeFacts DEF ServerType, ConnType, NodeType, AtRequest
    <3>3. phase'[s] = "ready" /\ seen'[s] = 0 /\ t # 0
      BY <3>1, <3>2 DEF ServerType, ConnType
    <3>4. /\ Stale(s)' \in Nat /\ Stale(s)' <= Stale(s)
          /\ t # template => Stale(s) = Stale(s)' + 1
      BY <1>1, <1>2, <3>2, <3>3 DEF Stale
    <3>5. \A u \in Nat : u # t /\ Due(s, u) => Due(s, u)'
      BY <1>1, <3>2 DEF Due
    <3>6. ~AnswerGet(s)
      BY <3>1 DEF AnswerGet
    <3>7. Reached(s) /\ PushJob(s, t)
      BY <2>2, <3>1, <3>2, <3>6
    <3> QED
      BY <1>1, <1>7, <3>1, <3>4, <3>5, <3>7, ServedPushed
  <2>4. CASE ~AnswerGet(s) /\ ~AnswerRemember(s)
    <3>1. UNCHANGED <<lastJob, jobs>> /\ phase[s] # "remember"
      BY <2>4 DEF Handler, Client, ListWorker, RegisterSession, RemoveMiner,
             RemoveSession, Login, AskJob, Leave, jobVars
    <3>2. UNCHANGED seen \/ seen' = [seen EXCEPT ![s] = template]
      BY <2>4 DEF Handler, Client, ListWorker, RegisterSession, RemoveMiner,
             RemoveSession, Login, AskJob, Leave, loginVars
    <3>3. seen'[s] \in {seen[s], template}
      BY <3>2 DEF ServerType, ConnType
    <3>4. Stale(s)' \in Nat /\ Stale(s)' <= Stale(s)
      BY <1>1, <1>2, <3>3 DEF Stale
    <3>5. \A t \in Nat : Due(s, t) => Due(s, t)'
      BY <1>1, <3>1 DEF Due
    <3> QED
      BY <1>1, <1>7, <2>2, <2>4, <3>1, <3>4, <3>5, ServedStays
  <2> QED
    BY <2>1, <2>3, <2>4
<1> QED
  BY <1>1, <1>6, <1>7, ServedAll

LEMMA TemplateStep ==
    ASSUME ServerType, ServerType', TemplateInv, FewStale, [StratumNext]_stratumVars
    PROVE  TemplateInv'
BY TemplateRefresh, TemplatePush, TemplateConn DEF StratumNext

-----------------------------------------------------------------------------

\* The shape of the server's state.
THEOREM StratumTypeCorrect == StratumSpec => []StratumTypeOK
<1>1. ServerType /\ [StratumNext]_stratumVars => ServerType'
  BY ServerTypeStep
<1> QED
  BY <1>1, ServerInit, ServerTypeGives, PTL DEF StratumSpec

\* Whoever makes a task the last job of a session sees to it that the session
\* remembers it (getJob, pushJob), as long as no more than MaxJobs of those who
\* push jobs to one session are between the two at a time.
THEOREM LastJobKept == StratumSpec /\ []FewRemembering => []LastJobRemembered
<1>1. StratumInit => LastJobInv
  BY DEF StratumInit, LastJobInv
<1>2. ServerType /\ ServerType' /\ LastJobInv /\ FewRemembering /\ [StratumNext]_stratumVars
          => LastJobInv'
  BY LastJobStep
<1>3. ServerType /\ [StratumNext]_stratumVars => ServerType'
  BY ServerTypeStep
<1>4. ServerType /\ LastJobInv => LastJobRemembered
  BY DEF ServerType, LastJobInv, JobType, LastJobRemembered, Due, Kept, Range
<1> QED
  BY <1>1, <1>2, <1>3, <1>4, ServerInit, PTL DEF StratumSpec

\* When every broadcast is through, each session the last one was meant for can
\* submit shares for the template (broadcastNewJobs, handleSubmitRPC), as long as
\* fewer than MaxJobs who may yet push an older job to one session are left
\* behind at a time.
THEOREM BroadcastReaches == StratumSpec /\ []FewStale => []BroadcastReached
<1>1. StratumInit => TemplateInv
  BY DEF StratumInit, TemplateInv
<1>2. ServerType /\ ServerType' /\ TemplateInv /\ FewStale /\ [StratumNext]_stratumVars
          => TemplateInv'
  BY TemplateStep
<1>3. ServerType /\ [StratumNext]_stratumVars => ServerType'
  BY ServerTypeStep
<1>4. ServerType /\ TemplateInv /\ NothingBeforeTemplate => BroadcastReached
  <2> SUFFICES ASSUME ServerType, TemplateInv, NothingBeforeTemplate, stage = "idle", pushing = {},
                      NEW s \in Sessions, s \in reached, phase[s] = "ready"
               PROVE  template \in Range(jobs[s])
    BY DEF BroadcastReached, ServerType, NodeType
  <2>1. template # 0
    BY DEF NothingBeforeTemplate, Before
  <2>2. Covered(s)
    BY DEF Covered, Awaiting
  <2>3. Kept(s, template, Stale(s))
    BY <2>1, <2>2 DEF TemplateInv, Due
  <2> QED
    BY <2>3 DEF Kept, Range, ServerType, JobType
<1>5. StratumInv => NothingBeforeTemplate
  BY DEF StratumInv
<1> QED
  BY <1>1, <1>2, <1>3, <1>4, <1>5, ServerInit, StratumInvariant, PTL DEF StratumSpec

-----------------------------------------------------------------------------
(* How many can be behind at a time *)

\* A session has one goroutine at most for a task, and none for the task whose
\* broadcast has yet to come to it.
OneGoroutineEach ==
    /\ \A p, q \in pushing : p.session = q.session /\ p.task = q.task => p = q
    /\ stage = "announce" => \A p \in pushing : p.task # template
    /\ stage = "broadcast" => \A p \in pushing : p.session \in toStart => p.task # template

LEMMA OneGoroutineStep ==
    ASSUME ServerType, OneGoroutineEach, [StratumNext]_stratumVars
    PROVE  OneGoroutineEach'
<1>1. \A p \in pushing : p.task \in Nat /\ p.task <= template /\ template \in Nat
  BY SizeFacts DEF ServerType, BcastType, NodeType
<1>2. ASSUME UNCHANGED <<template, stage, toStart>>, pushing' \subseteq pushing PROVE OneGoroutineEach'
  BY <1>2 DEF OneGoroutineEach
<1>3. ASSUME UNCHANGED <<template, stage, toStart>>, NEW p \in pushing, NEW st \in {"remember", "send"},
             pushing' = (pushing \ {p}) \union {[p EXCEPT !.step = st]}
      PROVE  OneGoroutineEach'
  <2> DEFINE q == [p EXCEPT !.step = st]
  <2>1. q.session = p.session /\ q.task = p.task
    BY OwnSession
  <2>2. pushing' = (pushing \ {p}) \union {q}
    BY <1>3
  <2> HIDE DEF q
  <2>3. ASSUME NEW x \in pushing', NEW y \in pushing', x.session = y.session, x.task = y.task
        PROVE  x = y
    <3>1. CASE x = q
      BY <2>1, <2>2, <2>3, <3>1 DEF OneGoroutineEach
    <3>2. CASE y = q
      BY <2>1, <2>2, <2>3, <3>2 DEF OneGoroutineEach
    <3>3. CASE x # q /\ y # q
      BY <2>2, <2>3, <3>3 DEF OneGoroutineEach
    <3> QED
      BY <3>1, <3>2, <3>3
  <2>4. ASSUME NEW x \in pushing' PROVE \E y \in pushing : x.session = y.session /\ x.task = y.task
    <3>1. CASE x = q
      BY <2>1, <3>1
    <3>2. CASE x # q
      BY <2>2, <2>4, <3>2
    <3> QED
      BY <3>1, <3>2
  <2> QED
    BY <1>3, <2>3, <2>4 DEF OneGoroutineEach
<1>4. ASSUME NEW t \in Tasks, ReceiveTask(t) PROVE OneGoroutineEach'
  BY <1>4 DEF ReceiveTask, OneGoroutineEach, bcastVars
<1>5. CASE StoreTemplate
  BY <1>1, <1>5 DEF StoreTemplate, OneGoroutineEach, bcastVars, ServerType, NodeType
<1>6. CASE StartBroadcast \/ EndBroadcast
  BY <1>6 DEF StartBroadcast, EndBroadcast, OneGoroutineEach, bcastVars
<1>7. ASSUME NEW s \in Sessions, StartPush(s) PROVE OneGoroutineEach'
  <2>1. /\ stage = "broadcast" /\ s \in toStart /\ toStart' = toStart \ {s} /\ UNCHANGED <<stage, template>>
        /\ pushing' = pushing \union {[session |-> s, task |-> template, step |-> "get"]}
    BY <1>7 DEF StartPush, ServerType, NodeType
  <2> QED
    BY <2>1 DEF OneGoroutineEach
<1>8. CASE PushGoroutine
  <2>1. UNCHANGED <<template, stage, toStart>>
    BY <1>8 DEF PushGoroutine, PushGet, PushRemember, PushSend, RemovePushed, nodeVars
  <2> QED
    BY <1>2, <1>3, <1>8, <2>1 DEF PushGoroutine, PushGet, PushRemember, PushSend, RemovePushed
<1>9. ASSUME NEW s \in Sessions, Handler(s) \/ Client(s) PROVE OneGoroutineEach'
  BY <1>2, <1>9, OwnConnection
<1>10. CASE UNCHANGED stratumVars
  BY <1>2, <1>10 DEF stratumVars, nodeVars, bcastVars
<1> QED
  BY <1>4, <1>5, <1>6, <1>7, <1>8, <1>9, <1>10 DEF StratumNext, Refresh

\* Goroutines of one session are no more than the tasks they are for.
LEMMA AsManyAsTasks ==
    ASSUME ServerType, OneGoroutineEach, NEW s \in Sessions, NEW S \in SUBSET pushing,
           NEW low \in Int, NEW n \in Nat,
           \A p \in S : p.session = s /\ p.task \in Nat /\ low < p.task /\ p.task <= low + n
    PROVE  Cardinality(S) <= n
<1> DEFINE f == [p \in S |-> p.task - low]
<1>1. \A p, q \in S : p.task = q.task => p = q
  BY DEF OneGoroutineEach
<1>2. f \in Injection(S, 1..n)
  <2>1. f \in [S -> 1..n]
    OBVIOUS
  <2>2. \A p, q \in S : f[p] = f[q] => p = q
    BY <1>1
  <2> QED
    BY <2>1, <2>2 DEF Injection, IsInjective
<1>3. IsFiniteSet(1..n) /\ Cardinality(1..n) = n
  BY FS_Interval
<1> QED
  BY <1>2, <1>3, FS_Injection

\* No goroutine comes to pushJob MaxJobs - 1 tasks late: before it there is
\* nothing to wait for but the session's lock, which whoever writes to the same
\* client holds.
Prompt == \A p \in pushing : p.step # "send" => template - p.task < MaxJobs - 1

LEMMA PromptFewBehind ==
    ASSUME ServerType, OneGoroutineEach, Prompt, MaxJobs >= 2
    PROVE  FewRemembering /\ FewStale
<1>1. /\ template \in Nat /\ MaxJobs \in Nat
      /\ \A p \in pushing : p.task \in Nat /\ p.task <= template
  BY SizeFacts DEF ServerType, NodeType, BcastType
<1>2. PICK low \in Int : low = template - MaxJobs + 1
  BY <1>1
<1>3. ASSUME NEW s \in Sessions PROVE Remembering(s) <= MaxJobs
  <2>1. PICK n \in Nat : n = MaxJobs - 1
    BY <1>1
  <2>2. Pushers(s) \in SUBSET pushing
    BY DEF Pushers
  <2>3. \A p \in Pushers(s) :
            p.session = s /\ p.task \in Nat /\ low < p.task /\ p.task <= low + n
    BY <1>1, <1>2, <2>1 DEF Pushers, Prompt
  <2>4. Cardinality(Pushers(s)) <= n /\ Cardinality(Pushers(s)) \in Nat
    BY <2>2, <2>3, AsManyAsTasks, CountPushers
  <2> QED
    BY <1>1, <2>1, <2>4 DEF Remembering
<1>4. ASSUME NEW s \in Sessions PROVE Stale(s) < MaxJobs
  <2>1. PICK n \in Nat : n = MaxJobs - 2
    BY <1>1
  <2>2. OldPushers(s) \in SUBSET pushing
    BY DEF OldPushers
  <2>3. \A p \in OldPushers(s) :
            p.session = s /\ p.task \in Nat /\ low < p.task /\ p.task <= low + n
    BY <1>1, <1>2, <2>1 DEF OldPushers, Prompt
  <2>4. Cardinality(OldPushers(s)) <= n /\ Cardinality(OldPushers(s)) \in Nat
    BY <2>2, <2>3, AsManyAsTasks, CountPushers
  <2> QED
    BY <1>1, <2>1, <2>4 DEF Stale
<1> QED
  BY <1>3, <1>4 DEF FewRemembering, FewStale

\* For any number of tasks, sessions and requests under way: if no goroutine of
\* a broadcast is MaxJobs - 1 tasks late with its job, the last job of a session
\* is remembered and every broadcast reaches whom it is meant for (getJob,
\* pushJob, broadcastNewJobs; MaxJobs is 4, so two tasks late is not too late).
THEOREM PromptPushesReach ==
    ASSUME MaxJobs >= 2
    PROVE  StratumSpec /\ []Prompt => [](LastJobRemembered /\ BroadcastReached)
<1>1. StratumInit => OneGoroutineEach
  BY DEF StratumInit, OneGoroutineEach
<1>2. ServerType /\ OneGoroutineEach /\ [StratumNext]_stratumVars => OneGoroutineEach'
  BY OneGoroutineStep
<1>3. ServerType /\ [StratumNext]_stratumVars => ServerType'
  BY ServerTypeStep
<1>4. ServerType /\ OneGoroutineEach /\ Prompt => FewRemembering /\ FewStale
  BY PromptFewBehind
<1>5. StratumSpec /\ []Prompt => []FewRemembering /\ []FewStale
  BY <1>1, <1>2, <1>3, <1>4, ServerInit, PTL DEF StratumSpec
<1> QED
  BY <1>5, LastJobKept, BroadcastReaches, PTL
=============================================================================
