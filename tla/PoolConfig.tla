----------------------------- MODULE PoolConfig -----------------------------
(***************************************************************************)
(* The payout settings, which xdag_updatePoolConfig rewrites one by one    *)
(* (stratum/api.go) while divisions of rewards (payouts/reward.go), payment*)
(* rounds (payouts/pay_chunk.go) and xdag_poolConfig read them, all under  *)
(* the RWMutex of pool.Config.  A field that cannot be parsed ends the     *)
(* request with an error and leaves the fields before it changed.          *)
(*                                                                         *)
(* The numbers are abstracted to Values; Unparsable stands for every text  *)
(* ParseFloat or Atoi rejects.                                             *)
(***************************************************************************)
EXTENDS Integers, Sequences, FiniteSets

CONSTANTS
    Values,      \* what a setting can be
    Unparsable,  \* a text that is no number
    Asks,        \* bound: what requests ask for, texts for all the settings
    Readers,     \* goroutines that read the settings
    Requests     \* calls of xdag_updatePoolConfig

\* The settings in the order an update stores them.
Fields == <<"direct", "pool", "reward", "threshold">>
SettingNames == {Fields[i] : i \in 1..Len(Fields)}

ASSUME AsksAssumption ==
    Unparsable \notin Values /\ Asks \subseteq [SettingNames -> Values \union {Unparsable}]

VARIABLES
    payout,   \* config.PayOut
    reading,  \* the readers that hold the lock
    writer,   \* the requests that hold it
    asks,     \* the settings each request asks for
    stored,   \* how many fields it has stored
    answer,   \* what it was answered: none, success or error
    got,      \* the fields each reader has read
    passed    \* history: the settings whenever no request held the lock

configVars == <<payout, reading, writer, asks, stored, answer, got, passed>>

Nothing == [f \in {} |-> 0]

ConfigInit ==
    /\ payout \in Asks /\ \A f \in SettingNames : payout[f] # Unparsable
    /\ reading = {} /\ writer = {}
    /\ asks \in [Requests -> Asks]
    /\ stored = [q \in Requests |-> 0]
    /\ answer = [q \in Requests |-> "none"]
    /\ got = [r \in Readers |-> Nothing]
    /\ passed = {payout}

\* A request with the wrong number of parameters, password or types.
RefuseUpdate(q) ==
    /\ answer[q] = "none" /\ q \notin writer
    /\ answer' = [answer EXCEPT ![q] = "error"]
    /\ UNCHANGED <<payout, reading, writer, asks, stored, got, passed>>

\* Mutant: the update is not locked out by readers.
LockUpdateAnytime(q) ==
    /\ answer[q] = "none" /\ q \notin writer
    /\ writer' = writer \union {q}
    /\ UNCHANGED <<payout, reading, asks, stored, answer, got, passed>>

\* s.config.Lock()
LockUpdate(q) ==
    /\ answer[q] = "none"
    /\ writer = {} /\ reading = {}
    /\ writer' = {q}
    /\ UNCHANGED <<payout, reading, asks, stored, answer, got, passed>>

Unlock(q, result) ==
    /\ answer' = [answer EXCEPT ![q] = result]
    /\ writer' = writer \ {q}
    /\ passed' = passed \union {payout}
    /\ UNCHANGED <<payout, reading, asks, stored, got>>

\* The next field is parsed and stored.
StoreField(q) ==
    /\ q \in writer /\ stored[q] < Len(Fields)
    /\ LET f == Fields[stored[q] + 1] IN
        /\ asks[q][f] \in Values
        /\ payout' = [payout EXCEPT ![f] = asks[q][f]]
    /\ stored' = [stored EXCEPT ![q] = @ + 1]
    /\ UNCHANGED <<reading, writer, asks, answer, got, passed>>

\* It cannot be parsed: the deferred Unlock releases what was stored.
ParseError(q) ==
    /\ q \in writer /\ stored[q] < Len(Fields)
    /\ asks[q][Fields[stored[q] + 1]] = Unparsable
    /\ Unlock(q, "error")

EndUpdate(q) ==
    /\ q \in writer /\ stored[q] = Len(Fields)
    /\ Unlock(q, "success")

\* cfg.RLock()
LockRead(r) ==
    /\ r \notin reading /\ got[r] = Nothing
    /\ writer = {}
    /\ reading' = reading \union {r}
    /\ UNCHANGED <<payout, writer, asks, stored, answer, got, passed>>

\* The next setting is read.  A division reads its ratios in another order and
\* stores credits in between, all under the lock.
ReadField(r) ==
    /\ r \in reading /\ DOMAIN got[r] # SettingNames
    /\ LET f == Fields[Cardinality(DOMAIN got[r]) + 1] IN
        got' = [got EXCEPT ![r] =
                    [x \in DOMAIN @ \union {f} |-> IF x = f THEN payout[f] ELSE got[r][x]]]
    /\ UNCHANGED <<payout, reading, writer, asks, stored, answer, passed>>

UnlockRead(r) ==
    /\ r \in reading /\ DOMAIN got[r] = SettingNames
    /\ reading' = reading \ {r}
    /\ UNCHANGED <<payout, writer, asks, stored, answer, got, passed>>

ConfigNext ==
    \/ \E q \in Requests : \/ RefuseUpdate(q) \/ LockUpdate(q) \/ StoreField(q)
                           \/ ParseError(q) \/ EndUpdate(q)
    \/ \E r \in Readers : LockRead(r) \/ ReadField(r) \/ UnlockRead(r)

ConfigSpec == ConfigInit /\ [][ConfigNext]_configVars

-----------------------------------------------------------------------------

\* A reader's settings were in force together at one moment outside any update,
\* and a request that was answered with success was in force as a whole.
ConfigWhole ==
    /\ \A r \in Readers : DOMAIN got[r] = SettingNames => got[r] \in passed
    /\ \A q \in Requests : answer[q] = "success" => asks[q] \in passed
=============================================================================
