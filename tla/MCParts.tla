------------------------------ MODULE MCParts -------------------------------
(* The calls of the API, the records behind them and the duplicate check   *)
(* on small instances.  The five parts share no variable, so a run         *)
(* explores one at a time: the others rest in one of their initial states. *)
EXTENDS StatisticsApi, PoolConfig, AccountQuery, Records, MinedShares

VARIABLE part   \* the part that runs

MCShardOf == [u \in Uids |-> IF u \in Asked THEN 2 ELSE 1]

\* The same value for all settings, or a text that is no number among them.
MCAsks == {[f \in SettingNames |-> v] : v \in Values} \union
          {[f \in SettingNames |-> IF f = bad THEN Unparsable ELSE v] :
                v \in Values, bad \in SettingNames}

StatisticsRest == StatisticsInit /\ listed = {}
ConfigRest == ConfigInit /\ asks = [q \in Requests |-> payout] /\ payout["pool"] = 1
SharesRest == Init /\ share = [p \in Procs |-> CHOOSE s \in Shares : TRUE]

PartsInit ==
    /\ part \in {"statistics", "config", "account", "records", "shares"}
    /\ IF part = "statistics" THEN StatisticsInit ELSE StatisticsRest
    /\ IF part = "config" THEN ConfigInit ELSE ConfigRest
    /\ QueryInit
    /\ RecordsInit
    /\ IF part = "shares" THEN Init ELSE SharesRest

PartsNext ==
    /\ UNCHANGED part
    /\ \/ /\ part = "statistics" /\ StatisticsNext
          /\ UNCHANGED <<configVars, queryVars, recordVars, vars>>
       \/ /\ part = "config" /\ ConfigNext
          /\ UNCHANGED <<apiVars, queryVars, recordVars, vars>>
       \/ /\ part = "account" /\ QueryNext
          /\ UNCHANGED <<apiVars, configVars, recordVars, vars>>
       \/ /\ part = "records" /\ RecordsNext
          /\ UNCHANGED <<apiVars, configVars, queryVars, vars>>
       \/ /\ part = "shares" /\ Next
          /\ UNCHANGED <<apiVars, configVars, queryVars, recordVars>>

PartsSpec ==
    /\ PartsInit /\ [][PartsNext]_<<part, apiVars, configVars, queryVars, recordVars, vars>>
    /\ StatisticsFairness
=============================================================================
