---------------------------- MODULE FeatureGate ----------------------------
(***************************************************************************)
(* The plan feature gate: server processes of several releases answer      *)
(* whether the plan of a workspace has a feature, from flags they cache in *)
(* Redis by plan.  A deployed release drops the cached flags when it       *)
(* seeds; a Redis that cannot be reached denies.                           *)
(***************************************************************************)
EXTENDS Naturals

CONSTANTS
  Fleet,   \* processes
  Plans,     \* plan ids
  Releases,  \* releases of the code, each with its plan definitions
  Grants,    \* Grants[release][plan]: the feature flag in PLAN_DEFINITIONS
  TTL        \* PLAN_FEATURE_CACHE_TTL_S, in steps of the clock

ASSUME GateAssumption ==
  /\ Grants \in [Releases -> [Plans -> BOOLEAN]]
  /\ TTL \in Nat \ {0}

VARIABLES
  wsPlan,    \* workspaces.plan_id, "deleted" when the workspace is
  redis,     \* is the cache plane up
  cached,    \* by plan: the flag and the time it has left, 0 when there is none
  server,    \* by process: release, cache client, check in progress
  age        \* by release: time since a process ran it, TTL + 1 when longer ago

gateVars == <<wsPlan, redis, cached, server, age>>

NoFlag == [flag |-> FALSE, left |-> 0]
Started(r) == [release |-> r, client |-> "none", stage |-> "seeding", plan |-> "none", allowed |-> FALSE]

(* A check and its answer. *)
Denied(s) == server' = [server EXCEPT ![s].stage = "idle", ![s].allowed = FALSE]
Answers(s, flag) == [server EXCEPT ![s].stage = "idle", ![s].allowed = flag]

-----------------------------------------------------------------------------
(* getPlanFeatureCache makes the client, awaitCacheClientReady gives its first *)
(* connection a bounded time.  A client past its first connection is not waited *)
(* for, and neither is one that is connected and not ready yet ("connected").  *)
getPlanFeatureCache(s) ==
  /\ server[s].client = "none"
  /\ server' = [server EXCEPT ![s].client = "connecting"]
  /\ UNCHANGED <<wsPlan, redis, cached, age>>

Connects(s) ==
  /\ redis
  /\ \E next \in CASE server[s].client \in {"connecting", "lost"} -> {"connected"}
                   [] server[s].client = "connected" -> {"ready"}
                   [] OTHER -> {} :
       server' = [server EXCEPT ![s].client = next]
  /\ UNCHANGED <<wsPlan, redis, cached, age>>

InReach(s) == redis /\ server[s].client = "ready"
OutOfReach(s) == server[s].client # "none" /\ ~InReach(s)

-----------------------------------------------------------------------------
AskFeature(s) ==
  /\ server[s].stage = "idle"
  /\ server' = IF wsPlan = "deleted" THEN Answers(s, FALSE)
               ELSE [server EXCEPT ![s].stage = "get", ![s].plan = wsPlan, ![s].allowed = FALSE]
  /\ UNCHANGED <<wsPlan, redis, cached, age>>

GetFlags(s) ==
  /\ server[s].stage = "get" /\ InReach(s)
  /\ LET flags == cached[server[s].plan] IN
     server' = IF flags.left > 0 THEN Answers(s, flags.flag)
               ELSE [server EXCEPT ![s].stage = "set"]
  /\ UNCHANGED <<wsPlan, redis, cached, age>>

FailClosed(s) ==
  /\ server[s].stage = "get" /\ OutOfReach(s)
  /\ Denied(s)
  /\ UNCHANGED <<wsPlan, redis, cached, age>>

(* Mutation: the write has no EX; such a flag never expires. *)
KeptForever(flag) == [flag |-> flag, left |-> TTL + 1]

Kept(flag) == [flag |-> flag, left |-> TTL]

(* The process answers by its own definitions, whether or not the write succeeds. *)
SetFlags(s) ==
  /\ server[s].stage = "set"
  /\ LET flag == Grants[server[s].release][server[s].plan] IN
     /\ server' = Answers(s, flag)
     /\ cached' = IF InReach(s) THEN [cached EXCEPT ![server[s].plan] = Kept(flag)] ELSE cached
  /\ UNCHANGED <<wsPlan, redis, age>>

(* seedPlans of a booting process drops the flags of every plan; with Redis out *)
(* of reach it goes on.                                                        *)
invalidatePlanFeatureCache(s) ==
  /\ server[s].stage = "seeding" /\ (InReach(s) \/ OutOfReach(s))
  /\ cached' = IF InReach(s) THEN [p \in Plans |-> NoFlag] ELSE cached
  /\ server' = [server EXCEPT ![s].stage = "idle"]
  /\ UNCHANGED <<wsPlan, redis, age>>

-----------------------------------------------------------------------------
(* Outside: deploys, Redis, time, the workspace's plan. *)

Deploy(s, r) ==
  /\ server' = [server EXCEPT ![s] = Started(r)]
  /\ age' = [age EXCEPT ![r] = 0]
  /\ UNCHANGED <<wsPlan, redis, cached>>

(* A Redis that comes back may have lost its keys. *)
RedisFails ==
  /\ redis /\ redis' = FALSE
  /\ server' = [s \in Fleet |-> [server[s] EXCEPT !.client = IF @ \in {"ready", "connected"} THEN "lost" ELSE @]]
  /\ UNCHANGED <<wsPlan, cached, age>>

RedisReturns ==
  /\ ~redis /\ redis' = TRUE
  /\ cached' \in {cached, [p \in Plans |-> NoFlag]}
  /\ UNCHANGED <<wsPlan, server, age>>

RunsRelease(r) == \E s \in Fleet : server[s].release = r

FlagsAge ==
  /\ cached' = [p \in Plans |-> IF cached[p].left \in 1 .. TTL
                                  THEN [cached[p] EXCEPT !.left = @ - 1] ELSE cached[p]]
  /\ age' = [r \in Releases |-> IF RunsRelease(r) THEN 0 ELSE IF age[r] > TTL THEN age[r] ELSE age[r] + 1]
  /\ UNCHANGED <<wsPlan, redis, server>>

PlanChanges ==
  /\ wsPlan' \in (Plans \cup {"deleted"}) \ {wsPlan} /\ wsPlan # "deleted"
  /\ UNCHANGED <<redis, cached, server, age>>

-----------------------------------------------------------------------------
GateInit ==
  /\ wsPlan \in Plans /\ redis \in BOOLEAN
  /\ cached = [p \in Plans |-> NoFlag]
  /\ \E r \in Releases :
       /\ server = [s \in Fleet |-> Started(r)]
       /\ age = [x \in Releases |-> IF x = r THEN 0 ELSE TTL + 1]

GateNext ==
  \/ \E s \in Fleet :
       \/ getPlanFeatureCache(s) \/ Connects(s)
       \/ AskFeature(s) \/ GetFlags(s) \/ FailClosed(s) \/ SetFlags(s)
       \/ invalidatePlanFeatureCache(s)
       \/ \E r \in Releases : Deploy(s, r)
  \/ RedisFails \/ RedisReturns \/ FlagsAge \/ PlanChanges

GateSpec == GateInit /\ [][GateNext]_gateVars

-----------------------------------------------------------------------------
(* A check that grants the feature grants it by the definitions of a release   *)
(* that a process ran no longer ago than the cache keeps flags, and for the    *)
(* plan the workspace had when the check began: the cache of featureEnabled,   *)
(* whose staleness invalidatePlanFeatureCache and the TTL bound.               *)
GrantsAreRecent ==
  [][\A s \in Fleet :
       (~server[s].allowed /\ server'[s].allowed) =>
         \E r \in Releases : age[r] <= TTL /\ Grants[r][server[s].plan]]_gateVars

=============================================================================
