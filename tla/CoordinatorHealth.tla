-------------------------- MODULE CoordinatorHealth --------------------------
(***************************************************************************)
(* Coordinator.CheckHealth and HealthyShardCount (src/internal/           *)
(* coordinator/coordinator.go): each CheckHealth call polls every shard   *)
(* in its own goroutine, collects the answers under mu, waits for all of  *)
(* them and copies them into the cached health map under healthMu.        *)
(* Several callers may run CheckHealth at once.  A Health call returns a  *)
(* status or an error; the status is whatever the shard reports.          *)
(***************************************************************************)
EXTENDS Integers, FiniteSets

CONSTANTS HShards,  \* shard ids (the keys of c.clients)
          Callers   \* concurrent CheckHealth calls

VARIABLES hcPhase,    \* caller -> "idle", "polling", "returned"
          hcPending,  \* caller -> shards whose goroutine has not answered
          hcResults,  \* caller -> its results map (shard -> status)
          health,     \* c.health: shard -> last cached status, "none" if absent
          lastMerged  \* the caller whose results were copied in last, 0 if none

hcVars == <<hcPhase, hcPending, hcResults, health, lastMerged>>

Statuses == {"healthy", "unhealthy", "unknown"}
NoStatus == "none"

TypeOK ==
    /\ hcPhase \in [Callers -> {"idle", "polling", "returned"}]
    /\ hcPending \in [Callers -> SUBSET HShards]
    /\ \A c \in Callers : DOMAIN hcResults[c] \subseteq HShards
    /\ health \in [HShards -> Statuses \cup {NoStatus}]
    /\ lastMerged \in Callers \cup {0}

(* New: an empty health map.                                              *)
Init ==
    /\ hcPhase = [c \in Callers |-> "idle"]
    /\ hcPending = [c \in Callers |-> {}]
    /\ hcResults = [c \in Callers |-> [s \in {} |-> NoStatus]]
    /\ health = [s \in HShards |-> NoStatus]
    /\ lastMerged = 0

(* CheckHealth starts a goroutine per shard.                              *)
Begin(c) ==
    /\ hcPhase[c] = "idle"
    /\ hcPhase' = [hcPhase EXCEPT ![c] = "polling"]
    /\ hcPending' = [hcPending EXCEPT ![c] = HShards]
    /\ UNCHANGED <<hcResults, health, lastMerged>>

(* Mutant: a failed Health call leaves no entry in results.               *)
RecordDroppingErrors(c, s, outcome) ==
    hcResults' = IF outcome = "error" THEN hcResults
                 ELSE [hcResults EXCEPT ![c] = [x \in DOMAIN hcResults[c] \cup {s} |->
                          IF x = s THEN outcome ELSE hcResults[c][x]]]

(* A goroutine's result: an error becomes Status "unhealthy"; stored in   *)
(* results under mu.                                                      *)
Record(c, s, outcome) ==
    LET st == IF outcome = "error" THEN "unhealthy" ELSE outcome
    IN hcResults' = [hcResults EXCEPT ![c] = [x \in DOMAIN hcResults[c] \cup {s} |->
                        IF x = s THEN st ELSE hcResults[c][x]]]

Answer(c, s) ==
    /\ hcPhase[c] = "polling" /\ s \in hcPending[c]
    /\ \E outcome \in Statuses \cup {"error"} : Record(c, s, outcome)
    /\ hcPending' = [hcPending EXCEPT ![c] = @ \ {s}]
    /\ UNCHANGED <<hcPhase, health, lastMerged>>

(* After wg.Wait, every result is copied into c.health under healthMu.    *)
Merge(c) ==
    /\ hcPhase[c] = "polling" /\ hcPending[c] = {}
    /\ health' = [s \in HShards |-> IF s \in DOMAIN hcResults[c]
                                    THEN hcResults[c][s] ELSE health[s]]
    /\ hcPhase' = [hcPhase EXCEPT ![c] = "returned"]
    /\ lastMerged' = c
    /\ UNCHANGED <<hcPending, hcResults>>

Next == \E c \in Callers : Begin(c) \/ Merge(c) \/ \E s \in HShards : Answer(c, s)

Spec == Init /\ [][Next]_hcVars

(* HealthyShardCount: the cached entries whose Status is "healthy".       *)
HealthyShardCount == Cardinality({s \in HShards : health[s] = "healthy"})
-----------------------------------------------------------------------------
(* Once a CheckHealth has returned, the cache holds, for every shard, the *)
(* status that the call which copied its results in last saw, a failed    *)
(* Health call counting as "unhealthy" (never leaving an older "healthy"  *)
(* in place), so HealthyShardCount counts that call's healthy shards.     *)
CacheIsLastPoll ==
    lastMerged # 0 =>
        /\ \A s \in HShards : s \in DOMAIN hcResults[lastMerged]
                              /\ health[s] = hcResults[lastMerged][s]
        /\ HealthyShardCount =
              Cardinality({s \in HShards : hcResults[lastMerged][s] = "healthy"})
=============================================================================
