------------------------------ MODULE Stratum -------------------------------
(***************************************************************************)
(* The stratum server: connection goroutines that log in, ask for jobs and *)
(* submit shares (stratum/stratum.go, handlers.go), the goroutine that     *)
(* takes the node's tasks, renews the RandomX machine and the block        *)
(* template (blocks.go) and broadcasts the new job, and the goroutines it  *)
(* starts for the broadcast, one per registered session.  The rewards that *)
(* come through the same channel are in Rewards.                           *)
(*                                                                         *)
(* A session is one connection from its accept to its close; a miner that  *)
(* comes back does so in another session.  sessionsMu is held for reading  *)
(* during the loop of a broadcast, so sessions are registered and removed  *)
(* only outside it.  What becomes of a submitted share is in MinedShares   *)
(* and in Rewards; nonces, difficulty and statistics are left out.         *)
(***************************************************************************)
EXTENDS Integers, SequencesExt, FiniteSets

CONSTANTS
    Sessions,   \* connections
    Uids,       \* address.workerId
    AddressOf,  \* the address in each uid
    NoUid,      \* the uid of a session that has not logged in
    MaxTasks,   \* bound: the tasks of the node are 1..MaxTasks
    SeedOf,     \* the seed of each task
    MaxLogins,  \* bound: logins of a connection
    MaxJobs,    \* jobs a session remembers (4)
    BcastCap    \* capacity of the channel that limits a broadcast (1024)

ASSUME NoUidAssumption == NoUid \notin Uids
ASSUME SizesAssumption ==
    MaxTasks \in Nat /\ MaxLogins \in Nat /\ MaxJobs \in Nat \ {0} /\ BcastCap \in Nat \ {0}
ASSUME SeedsAssumption == \A t \in 1..MaxTasks : SeedOf[t] # 0

VARIABLES
    template,   \* the task of the current block template, 0 for none
    vmSeed,     \* the seed of the RandomX machine, 0 for none
    stage,      \* the message goroutine: idle, renewing or broadcasting
    task,       \* the task it is at
    toStart,    \* sessions its loop has yet to start a goroutine for
    pushing,    \* the goroutines started: a session, a task and its step each
    removing,   \* goroutines whose push failed, on their way to removeSession
    sessions,   \* s.sessions
    miners,     \* the keys of s.miners
    workers,    \* s.workers: the uids in the latest map made for an address
    lists,      \* how many maps were made for it
    phase,      \* where each connection goroutine is
    uid,        \* cs.uid
    seen,       \* the template the handler of a request has read, 0 between requests
    logins,     \* logins of each connection so far
    found,      \* the map of its address a login has found, 0 for none
    lastJob,    \* cs.lastJobHash
    jobs,       \* cs.validJobs: the tasks of its jobs
    reached,    \* history: sessions the current template is meant for
    sharedUids, \* history: uids two open sessions had at a time
    raced,      \* history: connections whose login overlapped a first login of
                \* their address
    abandoned   \* history: miners a connection gave up for another worker id, when
                \* nobody has logged in with theirs, or left with it, since

nodeVars == <<template, vmSeed, stage, task, toStart>>
bcastVars == <<pushing, removing>>
loginVars == <<uid, logins, found>>
connVars == <<phase, seen, loginVars>>
listVars == <<workers, lists, raced>>
jobVars == <<lastJob, jobs>>
historyVars == <<reached, sharedUids, abandoned>>
stratumVars ==
    <<nodeVars, bcastVars, sessions, miners, listVars, connVars, jobVars, historyVars>>

Tasks == 1..MaxTasks
Addresses == {AddressOf[u] : u \in Uids}

StratumInit ==
    /\ template = 0 /\ vmSeed = 0 /\ stage = "idle" /\ task = 0 /\ toStart = {}
    /\ pushing = {} /\ removing = {}
    /\ sessions = {} /\ miners = {}
    /\ phase = [s \in Sessions |-> "new"]
    /\ uid = [s \in Sessions |-> NoUid]
    /\ seen = [s \in Sessions |-> 0]
    /\ logins = [s \in Sessions |-> 0]
    /\ found = [s \in Sessions |-> 0]
    /\ workers = [a \in Addresses |-> {}] /\ lists = [a \in Addresses |-> 0]
    /\ lastJob = [s \in Sessions |-> 0]
    /\ jobs = [s \in Sessions |-> << >>]
    /\ reached = {} /\ sharedUids = {} /\ raced = {} /\ abandoned = {}

SessionsUnlocked == stage # "broadcast"

\* getJob swaps lastJobHash first.  If it was this task's already there is no
\* job (the reply is an empty one); if not, pushJob is yet to remember the job,
\* and forgets the oldest of more than MaxJobs.
GetJobIsNew(s, t) == lastJob[s] # t

Swap(s, t) == lastJob' = [lastJob EXCEPT ![s] = t]

\* Mutant: old jobs are never forgotten.
PushJobKeepsAll(s, t) == jobs' = [jobs EXCEPT ![s] = Append(@, t)]

PushJob(s, t) ==
    LET all == Append(jobs[s], t)
    IN  jobs' = [jobs EXCEPT ![s] = IF Len(all) > MaxJobs THEN Tail(all) ELSE all]

-----------------------------------------------------------------------------
(* refreshBlockTemplate, by the message goroutine *)

\* Mutant: the first task does not start the machine.
ReceiveTaskChangedSeedOnly(t) ==
    /\ stage = "idle" /\ t = template + 1
    /\ vmSeed' = IF template # 0 /\ SeedOf[t] # SeedOf[template] THEN SeedOf[t] ELSE vmSeed
    /\ stage' = "renew" /\ task' = t
    /\ UNCHANGED <<template, toStart, bcastVars, sessions, miners, listVars, connVars,
                   jobVars, historyVars>>

\* A task arrives.  One with the current job hash is ignored; for one with
\* another seed the RandomX machine is renewed before the template is.
ReceiveTask(t) ==
    /\ stage = "idle" /\ t = template + 1
    /\ vmSeed' = IF template = 0 \/ SeedOf[t] # SeedOf[template] THEN SeedOf[t] ELSE vmSeed
    /\ stage' = "renew" /\ task' = t
    /\ UNCHANGED <<template, toStart, bcastVars, sessions, miners, listVars, connVars,
                   jobVars, historyVars>>

\* From here on logins, getjob and submit see the new template.
StoreTemplate ==
    /\ stage = "renew"
    /\ template' = task
    /\ stage' = "announce"
    /\ reached' = sessions
    /\ UNCHANGED <<vmSeed, task, toStart, bcastVars, sessions, miners, listVars, connVars,
                   jobVars, sharedUids, abandoned>>

\* sessionsMu is read-locked and the loop over the sessions begins.
StartBroadcast ==
    /\ stage = "announce"
    /\ stage' = "broadcast" /\ toStart' = sessions
    /\ UNCHANGED <<template, vmSeed, task, bcastVars, sessions, miners, listVars, connVars,
                   jobVars, historyVars>>

\* Mutant: a session that finds no place is skipped.
StartPushUnlessFull(s) ==
    /\ stage = "broadcast" /\ s \in toStart
    /\ toStart' = toStart \ {s}
    /\ pushing' = IF Cardinality({p \in pushing : p.task = task}) < BcastCap
                  THEN pushing \union {[session |-> s, task |-> task, step |-> "get"]}
                  ELSE pushing
    /\ UNCHANGED <<template, vmSeed, stage, task, removing, sessions, miners, listVars,
                   connVars, jobVars, historyVars>>

\* A place in the channel is taken and a goroutine started.
StartPush(s) ==
    /\ stage = "broadcast" /\ s \in toStart
    /\ Cardinality({p \in pushing : p.task = task}) < BcastCap
    /\ toStart' = toStart \ {s}
    /\ pushing' = pushing \union {[session |-> s, task |-> task, step |-> "get"]}
    /\ UNCHANGED <<template, vmSeed, stage, task, removing, sessions, miners, listVars,
                   connVars, jobVars, historyVars>>

\* The lock is released; the goroutines may still be at work.
EndBroadcast ==
    /\ stage = "broadcast" /\ toStart = {}
    /\ stage' = "idle"
    /\ UNCHANGED <<template, vmSeed, task, toStart, bcastVars, sessions, miners,
                   listVars, connVars,
                   jobVars, historyVars>>

-----------------------------------------------------------------------------
(* The goroutines of a broadcast *)

\* getJob's swap; an old job is not remembered again, but pushed as an empty one.
PushGet(p) ==
    /\ p \in pushing /\ p.step = "get"
    /\ Swap(p.session, p.task)
    /\ pushing' = (pushing \ {p}) \union
            {[p EXCEPT !.step = IF GetJobIsNew(p.session, p.task) THEN "remember" ELSE "send"]}
    /\ UNCHANGED <<nodeVars, removing, sessions, miners, listVars, connVars, jobs,
                   historyVars>>

PushRemember(p) ==
    /\ p \in pushing /\ p.step = "remember"
    /\ PushJob(p.session, p.task)
    /\ pushing' = (pushing \ {p}) \union {[p EXCEPT !.step = "send"]}
    /\ UNCHANGED <<nodeVars, removing, sessions, miners, listVars, connVars, lastJob,
                   historyVars>>

\* Mutant: the place is given back after removeSession.
PushSendKeepsPlace(p) ==
    /\ p \in pushing /\ p.step = "send" /\ p.session \notin removing
    /\ \/ pushing' = pushing \ {p} /\ UNCHANGED removing
       \/ removing' = removing \union {p.session} /\ UNCHANGED pushing
    /\ UNCHANGED <<nodeVars, sessions, miners, listVars, connVars, jobVars, historyVars>>

\* The job is written and the place in the channel given back; if the write
\* fails the session is to be removed.
PushSend(p) ==
    /\ p \in pushing /\ p.step = "send"
    /\ pushing' = pushing \ {p}
    /\ removing' \in {removing, removing \union {p.session}}
    /\ UNCHANGED <<nodeVars, sessions, miners, listVars, connVars, jobVars, historyVars>>

\* Mutant: the miner is removed with the session.
RemovePushedAndMiner(s) ==
    /\ s \in removing /\ SessionsUnlocked
    /\ removing' = removing \ {s}
    /\ sessions' = sessions \ {s}
    /\ miners' = miners \ {uid[s]}
    /\ reached' = reached \ {s}
    /\ UNCHANGED <<nodeVars, pushing, listVars, connVars, jobVars, sharedUids, abandoned>>

\* removeSession, once the lock is free.
RemovePushed(s) ==
    /\ s \in removing /\ SessionsUnlocked
    /\ removing' = removing \ {s}
    /\ sessions' = sessions \ {s}
    /\ reached' = reached \ {s}
    /\ UNCHANGED <<nodeVars, pushing, miners, listVars, connVars, jobVars, sharedUids,
                   abandoned>>

-----------------------------------------------------------------------------
(* handleClient and the handlers, by the connection goroutine *)

Goes(s, ph) == phase' = [phase EXCEPT ![s] = ph]

Open(s) == phase[s] \notin {"new", "closed"}

\* The logins of address a that have found no map and not made one yet.
FirstLogins(a) ==
    {r \in Sessions : phase[r] = "list" /\ found[r] = 0 /\ AddressOf[uid[r]] = a}

\* A valid login with uid u: without a template it is refused and the
\* connection dropped; else the miner is registered if its uid is not there yet,
\* and the workers of its address are looked up.
Login(s, u) ==
    /\ phase[s] \in {"new", "ready"} /\ logins[s] < MaxLogins
    /\ logins' = [logins EXCEPT ![s] = @ + 1]
    /\ IF template = 0
       THEN /\ Goes(s, "leaving")
            /\ UNCHANGED <<miners, uid, seen, found, sharedUids, raced, abandoned>>
       ELSE /\ Goes(s, "list")
            /\ seen' = [seen EXCEPT ![s] = template]
            /\ uid' = [uid EXCEPT ![s] = u]
            /\ miners' = miners \union {u}
            /\ found' = [found EXCEPT ![s] = lists[AddressOf[u]]]
            /\ raced' = IF FirstLogins(AddressOf[u]) = {} THEN raced \ {s}
                        ELSE raced \union FirstLogins(AddressOf[u]) \union {s}
            /\ sharedUids' = IF \E r \in Sessions \ {s} : Open(r) /\ uid[r] = u
                             THEN sharedUids \union {u} ELSE sharedUids
            /\ abandoned' = (abandoned \union ({uid[s]} \intersect miners)) \ {u}
    /\ UNCHANGED <<nodeVars, bcastVars, sessions, workers, lists, jobVars, reached>>

\* Mutant: an address that has workers gets a new map.
ListWorkerAnew(s) ==
    LET a == AddressOf[uid[s]]
    IN  /\ phase[s] = "list"
        /\ workers' = [workers EXCEPT ![a] = {uid[s]}]
        /\ lists' = [lists EXCEPT ![a] = @ + 1]
        /\ Goes(s, "register")
        /\ found' = [found EXCEPT ![s] = 0]
        /\ UNCHANGED <<nodeVars, bcastVars, sessions, miners, raced, uid, seen, logins,
                       jobVars, historyVars>>

\* The worker is put into the map that was found, or in a new one, which takes
\* the place of any map made meanwhile.
ListWorker(s) ==
    LET a == AddressOf[uid[s]]
    IN  /\ phase[s] = "list"
        /\ IF found[s] = 0
           THEN /\ workers' = [workers EXCEPT ![a] = {uid[s]}]
                /\ lists' = [lists EXCEPT ![a] = @ + 1]
           ELSE /\ workers' = IF found[s] = lists[a]
                              THEN [workers EXCEPT ![a] = @ \union {uid[s]}] ELSE workers
                /\ UNCHANGED lists
        /\ Goes(s, "register")
        /\ found' = [found EXCEPT ![s] = 0]
        /\ UNCHANGED <<nodeVars, bcastVars, sessions, miners, raced, uid, seen, logins,
                       jobVars, historyVars>>

RegisterSession(s) ==
    /\ phase[s] = "register" /\ SessionsUnlocked
    /\ sessions' = sessions \union {s}
    /\ Goes(s, "getJob")
    /\ UNCHANGED <<nodeVars, bcastVars, miners, listVars, loginVars, seen, jobVars,
                   historyVars>>

\* getjob: the template is read, or an error drops the connection (as it does
\* before a login).
AskJob(s) ==
    /\ phase[s] = "ready"
    /\ IF uid[s] \in miners
       THEN Goes(s, "getJob") /\ seen' = [seen EXCEPT ![s] = template]
       ELSE Goes(s, "leaving") /\ UNCHANGED seen
    /\ UNCHANGED <<nodeVars, bcastVars, sessions, miners, listVars, loginVars, jobVars,
                   historyVars>>

\* Mutant: a job that is asked for again is not remembered.
AnswerGetForgets(s) ==
    /\ phase[s] = "getJob"
    /\ Swap(s, seen[s])
    /\ IF GetJobIsNew(s, seen[s]) /\ jobs[s] = << >>
       THEN Goes(s, "remember") /\ UNCHANGED seen
       ELSE Goes(s, "ready") /\ seen' = [seen EXCEPT ![s] = 0]
    /\ reached' = IF seen[s] = template THEN reached \union {s} ELSE reached
    /\ UNCHANGED <<nodeVars, bcastVars, sessions, miners, listVars, loginVars, jobs,
                   sharedUids, abandoned>>

\* A login or a getjob is answered with a job for the template it has read.
AnswerGet(s) ==
    /\ phase[s] = "getJob"
    /\ Swap(s, seen[s])
    /\ IF GetJobIsNew(s, seen[s])
       THEN Goes(s, "remember") /\ UNCHANGED seen
       ELSE Goes(s, "ready") /\ seen' = [seen EXCEPT ![s] = 0]
    /\ reached' = IF seen[s] = template THEN reached \union {s} ELSE reached
    /\ UNCHANGED <<nodeVars, bcastVars, sessions, miners, listVars, loginVars, jobs,
                   sharedUids, abandoned>>

AnswerRemember(s) ==
    /\ phase[s] = "remember"
    /\ PushJob(s, seen[s])
    /\ Goes(s, "ready")
    /\ seen' = [seen EXCEPT ![s] = 0]
    /\ UNCHANGED <<nodeVars, bcastVars, sessions, miners, listVars, loginVars, lastJob,
                   historyVars>>

\* The connection ends, by the client, an error or its deadline.
Leave(s) ==
    /\ phase[s] \in {"new", "ready"}
    /\ Goes(s, "leaving")
    /\ UNCHANGED <<nodeVars, bcastVars, sessions, miners, listVars, loginVars, seen,
                   jobVars, historyVars>>

\* Mutant: the miner is kept while a broadcast goes on.
RemoveMinerSession(s) ==
    /\ phase[s] = "leaving"
    /\ miners' = IF SessionsUnlocked THEN miners \ {uid[s]} ELSE miners
    /\ abandoned' = abandoned \ {uid[s]}
    /\ Goes(s, "left")
    /\ UNCHANGED <<nodeVars, bcastVars, sessions, listVars, loginVars, seen, jobVars,
                   reached, sharedUids>>

\* removeMiner, whoever else has this uid.
RemoveMiner(s) ==
    /\ phase[s] = "leaving"
    /\ miners' = miners \ {uid[s]}
    /\ abandoned' = abandoned \ {uid[s]}
    /\ Goes(s, "left")
    /\ UNCHANGED <<nodeVars, bcastVars, sessions, listVars, loginVars, seen, jobVars,
                   reached, sharedUids>>

RemoveSession(s) ==
    /\ phase[s] = "left" /\ SessionsUnlocked
    /\ sessions' = sessions \ {s}
    /\ reached' = reached \ {s}
    /\ Goes(s, "closed")
    /\ UNCHANGED <<nodeVars, bcastVars, miners, listVars, loginVars, seen, jobVars,
                   sharedUids, abandoned>>

-----------------------------------------------------------------------------
Refresh ==
    \/ StoreTemplate \/ StartBroadcast \/ EndBroadcast
    \/ \E s \in Sessions : StartPush(s)

PushGoroutine ==
    \/ \E p \in pushing : PushGet(p) \/ PushRemember(p) \/ PushSend(p)
    \/ \E s \in Sessions : RemovePushed(s)

\* What a connection goroutine does without waiting for its client.
Handler(s) ==
    \/ ListWorker(s) \/ RegisterSession(s) \/ AnswerGet(s) \/ AnswerRemember(s)
    \/ RemoveMiner(s) \/ RemoveSession(s)

Client(s) ==
    \/ \E u \in Uids : Login(s, u)
    \/ AskJob(s) \/ Leave(s)

StratumNext ==
    \/ \E t \in Tasks : ReceiveTask(t)
    \/ Refresh
    \/ PushGoroutine
    \/ \E s \in Sessions : Handler(s) \/ Client(s)

StratumSpec == StratumInit /\ [][StratumNext]_stratumVars

\* Goroutines are scheduled, and a network write ends, at the latest at the
\* connection's deadline; clients and the node owe nothing.
FairStratumSpec ==
    /\ StratumSpec
    /\ WF_stratumVars(Refresh) /\ WF_stratumVars(PushGoroutine)
    /\ \A s \in Sessions : WF_stratumVars(Handler(s))

-----------------------------------------------------------------------------
(* Properties *)

\* The shape of the server's state.
StratumTypeOK ==
    /\ template \in 0..MaxTasks /\ task \in template..MaxTasks
    /\ vmSeed \in {0} \union {SeedOf[t] : t \in Tasks}
    /\ stage \in {"idle", "renew", "announce", "broadcast"}
    /\ toStart \subseteq sessions /\ sessions \subseteq Sessions
    /\ pushing \subseteq [session : Sessions, task : 1..template,
                          step : {"get", "remember", "send"}]
    /\ removing \subseteq Sessions /\ miners \subseteq Uids
    /\ phase \in [Sessions -> {"new", "list", "register", "getJob", "remember",
                               "ready", "leaving", "left", "closed"}]
    /\ logins \in [Sessions -> 0..MaxLogins]
    /\ uid \in [Sessions -> Uids \union {NoUid}]
    /\ seen \in [Sessions -> 0..template] /\ lastJob \in [Sessions -> 0..template]
    /\ \A s \in Sessions : jobs[s] \in BoundedSeq(1..template, MaxJobs)
    /\ lists \in [Addresses -> Nat] /\ found \in [Sessions -> Nat]
    /\ \A s \in Sessions : found[s] # 0 => phase[s] = "list" /\ found[s] <= lists[AddressOf[uid[s]]]
    /\ \A a \in Addresses : workers[a] \subseteq {u \in Uids : AddressOf[u] = a}
    /\ raced \subseteq Sessions /\ abandoned \subseteq Uids
    /\ reached \subseteq Sessions /\ sharedUids \subseteq Uids

\* Outside the moment a task is being taken, the RandomX machine that shares
\* are checked with has the seed of the template whose jobs are given out; and
\* no session holds a job while there is no machine.
VmMatchesTemplate ==
    /\ template # 0 /\ stage # "renew" => vmSeed = SeedOf[template]
    /\ \A s \in Sessions : jobs[s] # << >> => vmSeed # 0

LoggedIn(s) == phase[s] \in {"list", "register", "getJob", "remember", "ready"}

\* The server knows the miner of every connection that has logged in, so its
\* getjob and submit are not answered "Unauthenticated".  Rigs without a
\* worker id "will be merged under `0` worker" (README): they share one miner.
MinerKnown == \A s \in Sessions : LoggedIn(s) => uid[s] \in miners

\* That is so for every miner that never had two connections at a time.
MinerKnownUnlessShared ==
    \A s \in Sessions : LoggedIn(s) /\ uid[s] \notin sharedUids => uid[s] \in miners

\* A connected worker is in the list of its address, where the API finds it,
\* unless its own login overlapped a first login of the address, whose new list
\* takes the place of the one that has it.
WorkersListed ==
    \A s \in Sessions :
        LoggedIn(s) /\ phase[s] # "list" /\ s \notin raced
            => uid[s] \in workers[AddressOf[uid[s]]]

\* The miners left without a connection are those, and all of those, that one
\* gave up by logging in again with another worker id: that leaks a miner until
\* somebody leaves with its id, and nothing else does.
MinersHaveOwner ==
    \A u \in Uids :
        ~(\E s \in Sessions : Open(s) /\ uid[s] = u) => (u \in miners <=> u \in abandoned)

\* Whoever makes a task the last job of a session sees to it that the session
\* remembers it: a login or getjob that is answered with an empty job, because
\* the task was the last job already, leaves no miner without the job.
LastJobRemembered ==
    \A s \in Sessions : lastJob[s] # 0 =>
        \/ lastJob[s] \in Range(jobs[s])
        \/ phase[s] = "remember" /\ seen[s] = lastJob[s]
        \/ [session |-> s, task |-> lastJob[s], step |-> "remember"] \in pushing

\* When every broadcast is through, in whatever order their goroutines came,
\* each session the last one was meant for can submit shares for the template,
\* whatever requests with an old template were under way.
BroadcastReached ==
    stage = "idle" /\ pushing = {} =>
        \A s \in reached : phase[s] = "ready" => template \in Range(jobs[s])

\* The loop of a broadcast comes to its end, though it waits for places in the
\* channel with the sessions locked and its goroutines want the lock.
BroadcastEnds == stage = "broadcast" ~> stage = "idle"

\* A connection that breaks off is cleaned up.
ConnectionsClose == \A s \in Sessions : phase[s] = "leaving" ~> phase[s] = "closed"
=============================================================================
