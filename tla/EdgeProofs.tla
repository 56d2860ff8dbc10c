----------------------------- MODULE EdgeProofs -----------------------------
(***************************************************************************)
(* Theorems of the components that meet the outside: the plan feature      *)
(* gate, the http step, the live feed, the two ways to sign in, the        *)
(* members of workspaces, the page of a run, the boots that precede it all *)
(* and the files of the CLI.  They share no variable; each theorem is      *)
(* about the specification of one.                                         *)
(***************************************************************************)
EXTENDS FeatureGate, HttpStep, LiveFeed, SignIn, Tenancy, Pages, Startup, CliSync,
        FiniteSetTheorems, SequenceTheorems, WellFoundedInduction, TLAPS

----------------------------------------------------------------------------
(* FeatureGate: a cached flag and the release it came from *)

ServerType ==
  [release : Releases, client : {"none", "connecting", "connected", "ready", "lost"},
   stage : {"seeding", "idle", "get", "set"}, plan : Plans \cup {"none"}, allowed : BOOLEAN]

GateTypeOK ==
  /\ wsPlan \in Plans \cup {"deleted"}
  /\ redis \in BOOLEAN
  /\ cached \in [Plans -> [flag : BOOLEAN, left : 0 .. TTL]]
  /\ server \in [Fleet -> ServerType]
  /\ age \in [Releases -> Nat]

(* A check asks for the plan of a workspace that exists. *)
AsksForPlan == \A s \in Fleet : server[s].stage \in {"get", "set"} => server[s].plan \in Plans

(* The release a process runs was run just now. *)
RunningIsRecent == \A s \in Fleet : age[server[s].release] = 0

(* A flag that grants was written by a release that granted, and has lost at  *)
(* least as much of its time as has passed since that release last ran.      *)
FlagsAreRecent ==
  \A p \in Plans :
    cached[p].left > 0 /\ cached[p].flag =>
      \E r \in Releases : age[r] + cached[p].left <= TTL /\ Grants[r][p]

GateInv == GateTypeOK /\ AsksForPlan /\ RunningIsRecent /\ FlagsAreRecent

LEMMA StartedType ==
  ASSUME NEW r \in Releases
  PROVE  /\ Started(r) \in ServerType /\ Started(r).release = r
         /\ Started(r).stage = "seeding" /\ ~Started(r).allowed
  BY DEF Started, ServerType

LEMMA GateInitially == GateInit => GateInv
  <1>. SUFFICES ASSUME GateInit PROVE GateInv
    OBVIOUS
  <1>1. PICK r \in Releases :
          /\ server = [s \in Fleet |-> Started(r)]
          /\ age = [x \in Releases |-> IF x = r THEN 0 ELSE TTL + 1]
    BY DEF GateInit
  <1>2. GateTypeOK
    BY <1>1, StartedType, GateAssumption DEF GateInit, GateTypeOK, NoFlag
  <1>3. AsksForPlan /\ RunningIsRecent
    BY <1>1, StartedType DEF AsksForPlan, RunningIsRecent
  <1>4. FlagsAreRecent
    BY DEF GateInit, FlagsAreRecent, NoFlag
  <1>. QED  BY <1>2, <1>3, <1>4 DEF GateInv

(* A step of one process that runs on as the release it is. *)
LEMMA OneProcess ==
  ASSUME GateInv, UNCHANGED <<wsPlan, redis, age>>, NEW s \in Fleet, NEW new \in ServerType,
         server' = [server EXCEPT ![s] = new], new.release = server[s].release,
         new.stage \in {"get", "set"} => new.plan \in Plans,
         cached' \in [Plans -> [flag : BOOLEAN, left : 0 .. TTL]],
         \A p \in Plans : \/ cached'[p] = cached[p] \/ cached'[p].left = 0
                          \/ cached'[p].flag => Grants[server[s].release][p]
  PROVE  GateInv'
  <1>1. /\ server'[s] = new /\ \A x \in Fleet \ {s} : server'[x] = server[x]
        /\ server' \in [Fleet -> ServerType]
    BY DEF GateInv, GateTypeOK
  <1>2. GateTypeOK'
    BY <1>1 DEF GateInv, GateTypeOK
  <1>3. AsksForPlan' /\ RunningIsRecent'
    BY <1>1 DEF GateInv, AsksForPlan, RunningIsRecent
  <1>4. ASSUME NEW p \in Plans, cached'[p].left > 0, cached'[p].flag
        PROVE  \E r \in Releases : age[r] + cached'[p].left <= TTL /\ Grants[r][p]
    <2>1. CASE cached'[p] = cached[p]
      BY <1>4, <2>1 DEF GateInv, FlagsAreRecent
    <2>2. CASE Grants[server[s].release][p]
      <3>1. server[s].release \in Releases /\ age[server[s].release] = 0
        BY DEF GateInv, GateTypeOK, ServerType, RunningIsRecent
      <3>2. cached'[p].left \in 0 .. TTL
        OBVIOUS
      <3>. QED  BY <2>2, <3>1, <3>2, GateAssumption
    <2>. QED  BY <1>4, <2>1, <2>2
  <1>. QED  BY <1>2, <1>3, <1>4 DEF GateInv, FlagsAreRecent

LEMMA GateStep == GateInv /\ [GateNext]_gateVars => GateInv'
  <1>. SUFFICES ASSUME GateInv, [GateNext]_gateVars PROVE GateInv'
    OBVIOUS
  <1>0. /\ cached \in [Plans -> [flag : BOOLEAN, left : 0 .. TTL]] /\ server \in [Fleet -> ServerType]
        /\ age \in [Releases -> Nat] /\ wsPlan \in Plans \cup {"deleted"} /\ redis \in BOOLEAN
    BY DEF GateInv, GateTypeOK
  <1>a. \A r \in Releases, p \in Plans : Grants[r][p] \in BOOLEAN
    BY GateAssumption
  <1>b. TTL \in Nat /\ TTL > 0
    BY GateAssumption
  <1>1. ASSUME NEW s \in Fleet, getPlanFeatureCache(s) \/ Connects(s) PROVE GateInv'
    <2>1. PICK c \in {"connecting", "connected", "ready"} :
            server' = [server EXCEPT ![s] = [server[s] EXCEPT !.client = c]]
      BY <1>1 DEF getPlanFeatureCache, Connects
    <2>2. UNCHANGED <<wsPlan, redis, age, cached>>
      BY <1>1 DEF getPlanFeatureCache, Connects
    <2>. DEFINE new == [server[s] EXCEPT !.client = c]
    <2>3. /\ new \in ServerType /\ new.release = server[s].release
          /\ new.stage = server[s].stage /\ new.plan = server[s].plan
      BY <1>0 DEF ServerType
    <2>4. server' = [server EXCEPT ![s] = new]
      BY <2>1
    <2>. HIDE DEF new
    <2>. QED  BY <1>0, <2>2, <2>3, <2>4, OneProcess DEF GateInv, AsksForPlan
  <1>2. ASSUME NEW s \in Fleet, AskFeature(s) PROVE GateInv'
    <2>1. PICK st \in {"idle", "get"}, p \in Plans \cup {"none"} :
            /\ server' = [server EXCEPT ![s] = [server[s] EXCEPT !.stage = st, !.plan = p, !.allowed = FALSE]]
            /\ st = "get" => p \in Plans
      <3>1. CASE wsPlan = "deleted"
        <4>1. server' = [server EXCEPT ![s] = [server[s] EXCEPT !.stage = "idle", !.allowed = FALSE]]
          BY <1>2, <3>1 DEF AskFeature, Answers
        <4>2. [server[s] EXCEPT !.stage = "idle", !.allowed = FALSE]
                = [server[s] EXCEPT !.stage = "idle", !.plan = server[s].plan, !.allowed = FALSE]
          BY <1>0 DEF ServerType
        <4>3. server[s].plan \in Plans \cup {"none"}
          BY <1>0 DEF ServerType
        <4>. QED  BY <4>1, <4>2, <4>3
      <3>2. CASE wsPlan # "deleted"
        BY <1>0, <1>2, <3>2 DEF AskFeature
      <3>. QED  BY <3>1, <3>2
    <2>2. UNCHANGED <<wsPlan, redis, age, cached>>
      BY <1>2 DEF AskFeature
    <2>. DEFINE new == [server[s] EXCEPT !.stage = st, !.plan = p, !.allowed = FALSE]
    <2>3. /\ new \in ServerType /\ new.release = server[s].release
          /\ new.stage = st /\ new.plan = p
      BY <1>0 DEF ServerType
    <2>4. server' = [server EXCEPT ![s] = new]
      BY <2>1
    <2>. HIDE DEF new
    <2>. QED  BY <1>0, <2>1, <2>2, <2>3, <2>4, OneProcess
  <1>3. ASSUME NEW s \in Fleet,
               GetFlags(s) \/ FailClosed(s) \/ SetFlags(s) \/ invalidatePlanFeatureCache(s)
        PROVE  GateInv'
    <2>0. server[s].stage \in {"get", "set"} => server[s].plan \in Plans
      BY DEF GateInv, AsksForPlan
    <2>1. PICK st \in {"idle", "set"}, a \in BOOLEAN :
            /\ server' = [server EXCEPT ![s] = [server[s] EXCEPT !.stage = st, !.allowed = a]]
            /\ st = "set" => server[s].stage = "get"
      <3>1. CASE GetFlags(s) \/ invalidatePlanFeatureCache(s)
        <4>1. server[s].stage = "get" => cached[server[s].plan].flag \in BOOLEAN
          BY <1>0, <2>0
        <4>2. server[s].allowed \in BOOLEAN
          BY <1>0 DEF ServerType
        <4>3. \A st \in {"idle", "set"} :
                [server[s] EXCEPT !.stage = st]
                  = [server[s] EXCEPT !.stage = st, !.allowed = server[s].allowed]
          BY <1>0 DEF ServerType
        <4>. QED  BY <3>1, <4>1, <4>2, <4>3 DEF GetFlags, invalidatePlanFeatureCache, Answers
      <3>2. CASE FailClosed(s)
        BY <3>2 DEF FailClosed, Denied
      <3>3. CASE SetFlags(s)
        <4>1. Grants[server[s].release][server[s].plan] \in BOOLEAN
          BY <1>0, <1>a, <2>0, <3>3 DEF SetFlags, ServerType
        <4>. QED  BY <3>3, <4>1 DEF SetFlags, Answers
      <3>. QED  BY <1>3, <3>1, <3>2, <3>3
    <2>2. UNCHANGED <<wsPlan, redis, age>>
      BY <1>3 DEF GetFlags, FailClosed, SetFlags, invalidatePlanFeatureCache
    <2>3. /\ cached' \in [Plans -> [flag : BOOLEAN, left : 0 .. TTL]]
          /\ \A p \in Plans : \/ cached'[p] = cached[p] \/ cached'[p].left = 0
                              \/ cached'[p].flag => Grants[server[s].release][p]
      <3>1. CASE GetFlags(s) \/ FailClosed(s)
        BY <1>0, <3>1 DEF GetFlags, FailClosed
      <3>2. CASE invalidatePlanFeatureCache(s)
        BY <1>0, <1>b, <3>2 DEF invalidatePlanFeatureCache, NoFlag
      <3>3. CASE SetFlags(s)
        <4>. DEFINE flag == Grants[server[s].release][server[s].plan]
        <4>1. server[s].plan \in Plans /\ flag \in BOOLEAN
          BY <1>0, <1>a, <2>0, <3>3 DEF SetFlags, ServerType
        <4>2. \/ cached' = cached
              \/ cached' = [cached EXCEPT ![server[s].plan] = [flag |-> flag, left |-> TTL]]
          BY <3>3 DEF SetFlags, Kept
        <4>3. CASE cached' = [cached EXCEPT ![server[s].plan] = [flag |-> flag, left |-> TTL]]
          <5>1. ASSUME NEW p \in Plans
                PROVE  cached'[p] = cached[p] \/ (cached'[p].flag => Grants[server[s].release][p])
            BY <1>0, <4>1, <4>3
          <5>. HIDE DEF flag
          <5>2. cached' \in [Plans -> [flag : BOOLEAN, left : 0 .. TTL]]
            BY <1>0, <1>b, <4>1, <4>3
          <5>. QED  BY <5>1, <5>2
        <4>. QED  BY <1>0, <4>2, <4>3
      <3>. QED  BY <1>3, <3>1, <3>2, <3>3
    <2>. DEFINE new == [server[s] EXCEPT !.stage = st, !.allowed = a]
    <2>4. /\ new \in ServerType /\ new.release = server[s].release
          /\ new.stage = st /\ new.plan = server[s].plan
      BY <1>0 DEF ServerType
    <2>5. server' = [server EXCEPT ![s] = new]
      BY <2>1
    <2>. HIDE DEF new
    <2>. QED  BY <2>0, <2>1, <2>2, <2>3, <2>4, <2>5, OneProcess
  <1>4. ASSUME NEW s \in Fleet, NEW r \in Releases, Deploy(s, r) PROVE GateInv'
    <2>1. /\ server' = [server EXCEPT ![s] = Started(r)] /\ age' = [age EXCEPT ![r] = 0]
          /\ UNCHANGED <<wsPlan, redis, cached>>
      BY <1>4 DEF Deploy
    <2>2. /\ server'[s] = Started(r) /\ \A x \in Fleet \ {s} : server'[x] = server[x]
          /\ server' \in [Fleet -> ServerType]
      BY <1>0, <2>1, StartedType
    <2>3. \A x \in Releases : age'[x] \in Nat /\ age'[x] <= age[x] /\ (x = r => age'[x] = 0)
      BY <1>0, <2>1
    <2>4. GateTypeOK'
      BY <1>0, <2>1, <2>2 DEF GateTypeOK
    <2>5. AsksForPlan'
      BY <2>2, StartedType DEF GateInv, AsksForPlan
    <2>6. RunningIsRecent'
      <3>1. \A x \in Fleet \ {s} : server[x].release \in Releases /\ age[server[x].release] = 0
        BY <1>0 DEF GateInv, RunningIsRecent, ServerType
      <3>2. \A x \in Fleet \ {s} : age'[server[x].release] = 0
        BY <1>0, <2>3, <3>1
      <3>. QED  BY <2>2, <2>3, <3>2, StartedType DEF RunningIsRecent
    <2>7. FlagsAreRecent'
      <3>1. ASSUME NEW p \in Plans, cached[p].left > 0, cached[p].flag
            PROVE  \E x \in Releases : age'[x] + cached[p].left <= TTL /\ Grants[x][p]
        <4>1. PICK x \in Releases : age[x] + cached[p].left <= TTL /\ Grants[x][p]
          BY <3>1 DEF GateInv, FlagsAreRecent
        <4>2. age[x] \in Nat /\ cached[p].left \in Nat /\ age'[x] \in Nat /\ age'[x] <= age[x]
          BY <1>0, <2>3
        <4>. QED  BY <1>b, <4>1, <4>2
      <3>. QED  BY <2>1, <3>1 DEF FlagsAreRecent
    <2>. QED  BY <2>4, <2>5, <2>6, <2>7 DEF GateInv
  <1>5. CASE RedisFails
    <2>1. /\ UNCHANGED <<wsPlan, cached, age>> /\ redis' = FALSE
          /\ server' = [s \in Fleet |->
                          [server[s] EXCEPT !.client = IF @ \in {"ready", "connected"} THEN "lost" ELSE @]]
      BY <1>5 DEF RedisFails
    <2>2. ASSUME NEW s \in Fleet
          PROVE  /\ server'[s] \in ServerType /\ server'[s].release = server[s].release
                 /\ server'[s].stage = server[s].stage /\ server'[s].plan = server[s].plan
      <3>. DEFINE c == IF server[s].client \in {"ready", "connected"} THEN "lost" ELSE server[s].client
      <3>1. server'[s] = [server[s] EXCEPT !.client = c]
        BY <2>1
      <3>2. c \in {"none", "connecting", "connected", "ready", "lost"}
        BY <1>0 DEF ServerType
      <3>. HIDE DEF c
      <3>. QED  BY <1>0, <3>1, <3>2 DEF ServerType
    <2>3. server' \in [Fleet -> ServerType]
      BY <2>1, <2>2
    <2>4. GateTypeOK'
      BY <1>0, <2>1, <2>3 DEF GateTypeOK
    <2>. QED  BY <2>1, <2>2, <2>4 DEF GateInv, AsksForPlan, RunningIsRecent, FlagsAreRecent
  <1>6. CASE RedisReturns
    <2>1. /\ UNCHANGED <<wsPlan, server, age>> /\ redis' = TRUE
          /\ cached' = cached \/ cached' = [p \in Plans |-> NoFlag]
      BY <1>6 DEF RedisReturns
    <2>2. GateTypeOK'
      <3>1. NoFlag \in [flag : BOOLEAN, left : 0 .. TTL]
        BY <1>b DEF NoFlag
      <3>2. cached' \in [Plans -> [flag : BOOLEAN, left : 0 .. TTL]]
        BY <1>0, <2>1, <3>1
      <3>. QED  BY <1>0, <2>1, <3>2 DEF GateTypeOK
    <2>3. FlagsAreRecent'
      <3>1. CASE cached' = cached
        BY <2>1, <3>1 DEF GateInv, FlagsAreRecent
      <3>2. CASE cached' = [p \in Plans |-> NoFlag]
        BY <3>2 DEF FlagsAreRecent, NoFlag
      <3>. QED  BY <2>1, <3>1, <3>2
    <2>. QED  BY <2>1, <2>2, <2>3 DEF GateInv, AsksForPlan, RunningIsRecent
  <1>7. CASE FlagsAge
    <2>1. /\ UNCHANGED <<wsPlan, redis, server>>
          /\ cached' = [p \in Plans |-> IF cached[p].left \in 1 .. TTL
                                          THEN [cached[p] EXCEPT !.left = @ - 1] ELSE cached[p]]
          /\ age' = [r \in Releases |-> IF RunsRelease(r) THEN 0
                                        ELSE IF age[r] > TTL THEN age[r] ELSE age[r] + 1]
      BY <1>7 DEF FlagsAge
    <2>2. \A p \in Plans :
            /\ cached'[p] \in [flag : BOOLEAN, left : 0 .. TTL]
            /\ cached'[p].left > 0 => cached'[p].flag = cached[p].flag /\ cached'[p].left + 1 = cached[p].left
      BY <1>0, <1>b, <2>1
    <2>3. \A r \in Releases : age'[r] \in Nat /\ age'[r] <= age[r] + 1 /\ (RunsRelease(r) => age'[r] = 0)
      BY <1>0, <1>b, <2>1
    <2>4. GateTypeOK'
      BY <1>0, <2>1, <2>2, <2>3 DEF GateTypeOK
    <2>5. RunningIsRecent'
      BY <1>0, <2>1, <2>3 DEF RunningIsRecent, RunsRelease, ServerType
    <2>6. FlagsAreRecent'
      <3>1. ASSUME NEW p \in Plans, cached'[p].left > 0, cached'[p].flag
            PROVE  \E r \in Releases : age'[r] + cached'[p].left <= TTL /\ Grants[r][p]
        <4>1. cached[p].left > 0 /\ cached[p].flag /\ cached'[p].left + 1 = cached[p].left
          BY <1>0, <2>2, <3>1
        <4>2. PICK r \in Releases : age[r] + cached[p].left <= TTL /\ Grants[r][p]
          BY <4>1 DEF GateInv, FlagsAreRecent
        <4>3. age[r] \in Nat /\ age'[r] \in Nat /\ cached[p].left \in Nat /\ cached'[p].left \in Nat
          BY <1>0, <2>2, <2>3
        <4>. QED  BY <1>b, <2>3, <4>1, <4>2, <4>3
      <3>. QED  BY <3>1 DEF FlagsAreRecent
    <2>. QED  BY <2>1, <2>4, <2>5, <2>6 DEF GateInv, AsksForPlan
  <1>8. CASE PlanChanges
    BY <1>0, <1>8 DEF PlanChanges, GateInv, GateTypeOK, AsksForPlan, RunningIsRecent, FlagsAreRecent
  <1>9. CASE UNCHANGED gateVars
    BY <1>9 DEF gateVars, GateInv, GateTypeOK, AsksForPlan, RunningIsRecent, FlagsAreRecent
  <1>. QED
    BY <1>1, <1>2, <1>3, <1>4, <1>5, <1>6, <1>7, <1>8, <1>9 DEF GateNext

(* A check that grants a plan's feature has a release behind it that granted  *)
(* it and ran no longer ago than the cache keeps flags: for any fleet, any    *)
(* releases with any definitions, deploys and outages in any order.          *)
THEOREM GrantsHaveARelease == GateSpec => GrantsAreRecent
  <1>. DEFINE Recent == \A s \in Fleet :
                          (~server[s].allowed /\ server'[s].allowed) =>
                            \E r \in Releases : age[r] <= TTL /\ Grants[r][server[s].plan]
  <1>1. GateInv /\ [GateNext]_gateVars => [Recent]_gateVars
    <2>. SUFFICES ASSUME GateInv, GateNext, NEW s \in Fleet, ~server[s].allowed, server'[s].allowed
                  PROVE  \E r \in Releases : age[r] <= TTL /\ Grants[r][server[s].plan]
      BY DEF Recent
    <2>0. /\ cached \in [Plans -> [flag : BOOLEAN, left : 0 .. TTL]] /\ server \in [Fleet -> ServerType]
          /\ age \in [Releases -> Nat] /\ TTL \in Nat
      BY GateAssumption DEF GateInv, GateTypeOK
    <2>1. ASSUME NEW x \in Fleet, GetFlags(x)
          PROVE  \E r \in Releases : age[r] <= TTL /\ Grants[r][server[s].plan]
      <3>. DEFINE flags == cached[server[x].plan]
      <3>1. x = s /\ server[s].plan \in Plans /\ flags.left > 0 /\ flags.flag
        <4>1. server[x].plan \in Plans
          BY <2>1 DEF GateInv, AsksForPlan, GetFlags
        <4>2. CASE flags.left > 0
          BY <2>0, <2>1, <4>1, <4>2 DEF GetFlags, Answers, ServerType
        <4>3. CASE ~(flags.left > 0)
          BY <2>0, <2>1, <4>3 DEF GetFlags, ServerType
        <4>. QED  BY <4>2, <4>3
      <3>2. PICK r \in Releases : age[r] + flags.left <= TTL /\ Grants[r][server[s].plan]
        BY <3>1 DEF GateInv, FlagsAreRecent
      <3>3. age[r] \in Nat /\ flags.left \in Nat
        BY <2>0, <3>1
      <3>. QED  BY <2>0, <3>2, <3>3
    <2>2. ASSUME NEW x \in Fleet, SetFlags(x)
          PROVE  \E r \in Releases : age[r] <= TTL /\ Grants[r][server[s].plan]
      <3>1. x = s /\ Grants[server[s].release][server[s].plan]
        BY <2>0, <2>2 DEF SetFlags, Answers, ServerType
      <3>2. server[s].release \in Releases /\ age[server[s].release] = 0
        BY <2>0 DEF GateInv, RunningIsRecent, ServerType
      <3>. QED  BY <2>0, <3>1, <3>2
    <2>3. ASSUME NEW x \in Fleet,
                 \/ getPlanFeatureCache(x) \/ Connects(x) \/ AskFeature(x) \/ FailClosed(x)
                 \/ invalidatePlanFeatureCache(x) \/ \E r \in Releases : Deploy(x, r)
          PROVE  FALSE
      <3>1. CASE getPlanFeatureCache(x) \/ Connects(x)
        BY <2>0, <3>1 DEF getPlanFeatureCache, Connects, ServerType
      <3>2. CASE AskFeature(x)
        BY <2>0, <3>2 DEF AskFeature, Answers, ServerType
      <3>3. CASE FailClosed(x) \/ invalidatePlanFeatureCache(x)
        BY <2>0, <3>3 DEF FailClosed, Denied, invalidatePlanFeatureCache, ServerType
      <3>4. ASSUME NEW r \in Releases, Deploy(x, r) PROVE FALSE
        BY <2>0, <3>4, StartedType DEF Deploy
      <3>. QED  BY <2>3, <3>1, <3>2, <3>3, <3>4
    <2>4. CASE RedisFails
      BY <2>0, <2>4 DEF RedisFails, ServerType
    <2>5. CASE RedisReturns \/ FlagsAge \/ PlanChanges
      BY <2>5 DEF RedisReturns, FlagsAge, PlanChanges
    <2>. QED  BY <2>1, <2>2, <2>3, <2>4, <2>5 DEF GateNext
  <1>. QED  BY <1>1, GateInitially, GateStep, PTL DEF GateSpec, GrantsAreRecent, Recent

----------------------------------------------------------------------------
(* HttpStep: where a request may go, and what an attempt begins with *)

HopType == [via : Hosts \cup {Connector}, target : Hosts \cup {Connector}, token : BOOLEAN]
HttpResults == {"none", "refused", "blocked", "private_blocked", "error", "http_error",
                "completed", "too_many_redirects"}
HttpType ==
  [pc : {"idle", "send", "answer", "done"}, url : Hosts \cup {Connector}, method : Methods,
   limit : Nat, attempt : Nat, redirects : Nat, hop : HopType, verb : Methods,
   result : HttpResults]

HttpTypeOK == http \in HttpType /\ \A x \in wire : x.attempt \in Nat /\ x.redirects \in Nat

(* A hop that may be made, made the way its own target asks for. *)
GoodHop(hop) == Route(hop.target) \notin Refused /\ hop = Hop(hop.target)

(* The request that is about to be sent, or waits for its answer, is one the  *)
(* manifest and its route account for.                                       *)
HopInHand ==
  http.pc \in {"send", "answer"} =>
    /\ GoodHop(http.hop) /\ Route(http.url) \notin Refused
    /\ http.attempt \in 1 .. http.limit /\ http.redirects \in 0 .. MaxRedirects
    /\ http.redirects = 0 => http.hop = Hop(http.url) /\ http.verb = http.method

(* What was sent came before what is in hand. *)
SentBefore ==
  /\ http.pc = "idle" => wire = {} /\ http.redirects = 0
  /\ \A x \in wire :
       /\ http.pc = "send" =>
            x.attempt < http.attempt \/ (x.attempt = http.attempt /\ x.redirects < http.redirects)
       /\ http.pc = "answer" =>
            \/ x.attempt < http.attempt
            \/ x.attempt = http.attempt /\ (x.redirects < http.redirects \/ x = Request)

HttpInv ==
  HttpTypeOK /\ HopInHand /\ SentBefore /\ (\A x \in wire : GoodHop(x.hop)) /\ AttemptsStartOver

LEMMA HttpInitially == HttpInit => HttpInv
  BY HttpAssumption DEF HttpInit, IdleHttp, NoHop, Methods, HttpInv, HttpTypeOK, HopInHand,
                        SentBefore, AttemptsStartOver, HttpType, HopType, HttpResults

(* The hop to a host, when it may be made, is a good one. *)
LEMMA HopIsGood ==
  ASSUME NEW h \in Hosts \cup {Connector}
  PROVE  /\ Hop(h) \in HopType
         /\ Hop(h).target = h
         /\ Route(h) \notin Refused => GoodHop(Hop(h))
  <1>1. Hop(h) \in HopType /\ Hop(h).target = h
    BY DEF Hop, HopType
  <1>. QED  BY <1>1 DEF GoodHop

(* The step comes to its end; what was sent stays as it is. *)
LEMMA HttpEnding ==
  ASSUME HttpInv, UNCHANGED wire, wire = {} \/ http.pc # "idle",
         NEW result \in {"refused", "blocked", "private_blocked", "error", "http_error",
                         "completed", "too_many_redirects"},
         HttpEnds(result)
  PROVE  HttpInv'
  <1>1. /\ http' = [http EXCEPT !.pc = "done", !.result = result]
        /\ HttpTypeOK
    BY DEF HttpEnds, HttpInv
  <1>2. /\ http'.pc = "done" /\ http'.limit = http.limit /\ http'.url = http.url
        /\ http'.method = http.method
        /\ HttpTypeOK'
    BY <1>1 DEF HttpTypeOK, HttpType, HttpResults
  <1>. QED  BY <1>2 DEF HttpInv, HopInHand, SentBefore, AttemptsStartOver

(* The next request of a step under way: later than all that was sent. *)
LEMMA NextRequest ==
  ASSUME HttpInv, UNCHANGED wire, http.pc = "answer", HttpTypeOK',
         http'.pc = "send", http'.limit = http.limit, http'.url = http.url,
         http'.method = http.method, GoodHop(http'.hop),
         http'.attempt \in 1 .. http.limit, http'.redirects \in 0 .. MaxRedirects,
         \/ http'.attempt > http.attempt
         \/ http'.attempt = http.attempt /\ http'.redirects > http.redirects,
         http'.redirects = 0 => http'.hop = Hop(http.url) /\ http'.verb = http.method
  PROVE  HttpInv'
  <1>1. HopInHand'
    BY DEF HopInHand, HttpInv
  <1>2. ASSUME NEW x \in wire
        PROVE  \/ x.attempt < http'.attempt
               \/ x.attempt = http'.attempt /\ x.redirects < http'.redirects
    <2>1. /\ x.attempt \in Nat /\ x.redirects \in Nat /\ http.attempt \in Nat /\ http.redirects \in Nat
          /\ http'.attempt \in Nat /\ http'.redirects \in Nat
      BY DEF HttpInv, HttpTypeOK, HttpType
    <2>2. \/ x.attempt < http.attempt
          \/ x.attempt = http.attempt /\ (x.redirects < http.redirects \/ x.redirects = http.redirects)
      BY DEF HttpInv, SentBefore, Request
    <2>. QED  BY <2>1, <2>2
  <1>3. SentBefore'
    BY <1>2 DEF SentBefore
  <1>. QED  BY <1>1, <1>3 DEF HttpInv, AttemptsStartOver

LEMMA AnotherAttempt ==
  ASSUME HttpInv, UNCHANGED wire, http.pc = "answer",
         NEW result \in {"error", "http_error", "too_many_redirects"}, NextAttempt(result)
  PROVE  HttpInv'
  <1>0. /\ http.attempt \in Nat /\ http.limit \in Nat /\ http.url \in Hosts \cup {Connector}
        /\ http.method \in Methods /\ MaxRedirects \in Nat /\ Route(http.url) \notin Refused
        /\ HttpTypeOK
    BY HttpAssumption DEF HttpInv, HttpTypeOK, HttpType, HopInHand
  <1>1. CASE http.attempt < http.limit
    <2>1. PICK hop \in HopType : hop = Hop(http.url)
      BY <1>0, HopIsGood
    <2>2. http.attempt + 1 \in 1 .. http.limit /\ http.attempt + 1 > http.attempt /\ 0 \in 0 .. MaxRedirects
      BY <1>0, <1>1
    <2>3. /\ http'.pc = "send" /\ http'.limit = http.limit /\ http'.url = http.url
          /\ http'.method = http.method /\ http'.attempt = http.attempt + 1
          /\ http'.redirects = 0 /\ http'.hop = hop /\ http'.verb = http.method
          /\ http' \in HttpType
      <3>1. PICK a \in Nat : a = http.attempt + 1
        BY <1>0
      <3>2. http' = [http EXCEPT !.pc = "send", !.attempt = a, !.redirects = 0,
                                 !.hop = hop, !.verb = http.method]
        BY <1>1, <2>1, <3>1 DEF NextAttempt
      <3>. QED  BY <1>0, <2>1, <3>1, <3>2 DEF HttpTypeOK, HttpType
    <2>4. GoodHop(http'.hop)
      BY <1>0, <2>1, <2>3, HopIsGood
    <2>5. HttpTypeOK'
      BY <1>0, <2>3 DEF HttpTypeOK
    <2>. QED  BY <2>1, <2>2, <2>3, <2>4, <2>5, NextRequest
  <1>2. CASE ~(http.attempt < http.limit)
    BY <1>2, HttpEnding DEF NextAttempt
  <1>. QED  BY <1>1, <1>2

LEMMA HttpStepKept == HttpInv /\ [HttpNext]_httpVars => HttpInv'
  <1>. SUFFICES ASSUME HttpInv, [HttpNext]_httpVars PROVE HttpInv'
    OBVIOUS
  <1>0. /\ http.attempt \in Nat /\ http.redirects \in Nat /\ http.verb \in Methods
        /\ http.hop.via \in Hosts \cup {Connector} /\ HttpTypeOK
        /\ http.url \in Hosts \cup {Connector} /\ http.method \in Methods /\ http.limit \in Nat
    BY DEF HttpInv, HttpTypeOK, HttpType, HopType
  <1>1. CASE BeginHttp
    <2>0. http.pc = "idle" /\ UNCHANGED wire /\ wire = {}
      BY <1>1 DEF BeginHttp, HttpInv, SentBefore
    <2>1. PICK h \in Hosts, m \in Methods, n \in AttemptLimits :
            \/ HttpEnds("refused")
            \/ Route(h) \in Refused /\ HttpEnds(Route(h))
            \/ /\ Route(h) \notin Refused
               /\ http' = [http EXCEPT !.pc = "send", !.url = h, !.method = m,
                                       !.limit = AttemptLimit(n), !.attempt = 1,
                                       !.hop = Hop(h), !.verb = m]
      BY <1>1 DEF BeginHttp
    <2>2. CASE HttpEnds("refused") \/ (Route(h) \in Refused /\ HttpEnds(Route(h)))
      BY <2>0, <2>2, HttpEnding DEF Refused
    <2>3. CASE /\ Route(h) \notin Refused
               /\ http' = [http EXCEPT !.pc = "send", !.url = h, !.method = m,
                                       !.limit = AttemptLimit(n), !.attempt = 1,
                                       !.hop = Hop(h), !.verb = m]
      <3>1. AttemptLimit(n) \in 1 .. 10
        BY HttpAssumption DEF AttemptLimit
      <3>2. PICK lim \in 1 .. 10 : lim = AttemptLimit(n)
        BY <3>1
      <3>3. /\ http'.pc = "send" /\ http'.limit = lim /\ http'.url = h
            /\ http'.method = m /\ http'.attempt = 1 /\ http'.redirects = http.redirects
            /\ http'.hop = Hop(h) /\ http'.verb = m
            /\ http' \in HttpType
        <4>1. PICK hop \in HopType : hop = Hop(h)
          BY HopIsGood
        <4>2. http' = [http EXCEPT !.pc = "send", !.url = h, !.method = m, !.limit = lim,
                                   !.attempt = 1, !.hop = hop, !.verb = m]
          BY <2>3, <3>2, <4>1
        <4>3. h \in Hosts \cup {Connector} /\ lim \in Nat /\ 1 \in Nat
          OBVIOUS
        <4>. QED  BY <1>0, <4>1, <4>2, <4>3 DEF HttpTypeOK, HttpType
      <3>4. HttpTypeOK'
        BY <1>0, <2>0, <3>3 DEF HttpTypeOK
      <3>5. http.redirects = 0
        BY <2>0 DEF HttpInv, SentBefore
      <3>. QED  BY <2>0, <2>3, <3>3, <3>4, <3>5, HopIsGood, HttpAssumption
                DEF HttpInv, HopInHand, SentBefore, AttemptsStartOver
    <2>. QED  BY <2>1, <2>2, <2>3
  <1>2. CASE SendRequest
    <2>1. /\ http.pc = "send" /\ wire' = wire \cup {Request}
          /\ http' = [http EXCEPT !.pc = "answer"]
      BY <1>2 DEF SendRequest
    <2>2. /\ http'.pc = "answer" /\ http'.limit = http.limit /\ http'.url = http.url
          /\ http'.method = http.method /\ http'.attempt = http.attempt
          /\ http'.redirects = http.redirects /\ http'.hop = http.hop /\ http'.verb = http.verb
          /\ Request' = Request
      BY <1>0, <2>1 DEF HttpTypeOK, HttpType, Request
    <2>3. HttpTypeOK'
      BY <1>0, <2>1 DEF HttpTypeOK, HttpType, Request
    <2>4. HopInHand'
      BY <2>1, <2>2 DEF HttpInv, HopInHand
    <2>5. SentBefore'
      <3>1. /\ Request.attempt = http.attempt /\ Request.redirects = http.redirects
        BY DEF Request
      <3>. QED  BY <2>1, <2>2, <3>1 DEF HttpInv, SentBefore
    <2>6. \A x \in wire' : GoodHop(x.hop)
      BY <2>1 DEF HttpInv, HopInHand, Request
    <2>7. AttemptsStartOver'
      <3>1. /\ Request.attempt = http.attempt /\ Request.redirects = http.redirects
            /\ Request.hop = http.hop /\ Request.verb = http.verb
        BY DEF Request
      <3>2. \A x \in wire : /\ x.attempt \in Nat /\ x.redirects \in Nat
                            /\ \/ x.attempt < http.attempt
                               \/ x.attempt = http.attempt /\ x.redirects < http.redirects
        BY <1>0, <2>1 DEF HttpInv, SentBefore, HttpTypeOK
      <3>3. \A x \in wire : ~(x.attempt = Request.attempt /\ x.redirects = Request.redirects)
        BY <1>0, <3>1, <3>2
      <3>. QED  BY <2>1, <2>2, <3>1, <3>3 DEF HttpInv, AttemptsStartOver, HopInHand
    <2>. QED  BY <2>3, <2>4, <2>5, <2>6, <2>7 DEF HttpInv
  <1>3. CASE RequestThrows
    BY <1>3, AnotherAttempt DEF RequestThrows
  <1>4. CASE Answered
    BY <1>4, AnotherAttempt, HttpEnding DEF Answered
  <1>5. CASE Redirected
    <2>0. http.pc = "answer" /\ UNCHANGED wire
      BY <1>5 DEF Redirected
    <2>1. PICK h \in Locations, see \in BOOLEAN :
            \/ http.redirects >= MaxRedirects /\ NextAttempt("too_many_redirects")
            \/ /\ http.redirects < MaxRedirects
               /\ IF Route(h) \in Refused THEN HttpEnds(Route(h))
                  ELSE http' = [http EXCEPT !.pc = "send", !.redirects = @ + 1, !.hop = Hop(h),
                                            !.verb = IF see THEN "GET" ELSE @]
      BY <1>5 DEF Redirected
    <2>2. h \in Hosts \cup {Connector}
      BY <1>0 DEF Locations
    <2>3. CASE http.redirects >= MaxRedirects /\ NextAttempt("too_many_redirects")
      BY <2>0, <2>3, AnotherAttempt
    <2>4. CASE Route(h) \in Refused /\ HttpEnds(Route(h))
      BY <2>0, <2>4, HttpEnding DEF Refused
    <2>5. CASE /\ http.redirects < MaxRedirects /\ Route(h) \notin Refused
               /\ http' = [http EXCEPT !.pc = "send", !.redirects = @ + 1, !.hop = Hop(h),
                                       !.verb = IF see THEN "GET" ELSE @]
      <3>1. PICK m \in Methods : m = IF see THEN "GET" ELSE http.verb
        BY <1>0 DEF Methods
      <3>2. PICK hop \in HopType : hop = Hop(h)
        BY <2>2, HopIsGood
      <3>3. /\ http'.pc = "send" /\ http'.limit = http.limit /\ http'.url = http.url
            /\ http'.method = http.method /\ http'.attempt = http.attempt
            /\ http'.redirects = http.redirects + 1 /\ http'.hop = Hop(h)
            /\ http' \in HttpType
        <4>1. PICK n \in Nat : n = http.redirects + 1
          BY <1>0
        <4>2. http' = [http EXCEPT !.pc = "send", !.redirects = n, !.hop = hop, !.verb = m]
          BY <2>5, <3>1, <3>2, <4>1
        <4>. QED  BY <1>0, <2>0, <3>2, <4>1, <4>2 DEF HttpTypeOK, HttpType
      <3>4. /\ http.attempt \in 1 .. http.limit
            /\ http.redirects + 1 \in 0 .. MaxRedirects /\ http.redirects + 1 > http.redirects
            /\ http.redirects + 1 # 0
        BY <1>0, <2>0, <2>5, HttpAssumption DEF HttpInv, HopInHand
      <3>5. GoodHop(http'.hop)
        BY <2>2, <2>5, <3>3, HopIsGood
      <3>6. HttpTypeOK'
        BY <1>0, <2>0, <3>3 DEF HttpTypeOK
      <3>. QED  BY <2>0, <3>3, <3>4, <3>5, <3>6, NextRequest
    <2>. QED  BY <2>1, <2>3, <2>4, <2>5
  <1>6. CASE UNCHANGED httpVars
    BY <1>6 DEF httpVars, HttpInv, HttpTypeOK, HopInHand, SentBefore, AttemptsStartOver, Request
  <1>. QED  BY <1>1, <1>2, <1>3, <1>4, <1>5, <1>6 DEF HttpNext

(* Every request of an http step is one its manifest and its routes account   *)
(* for: whatever the hosts, the allowlist, the limits and the answers are,    *)
(* redirects and retries in any order.                                       *)
THEOREM RequestsAreAccountedFor == HttpSpec => []RequestsAccountedFor
  <1>1. HttpInv => RequestsAccountedFor
    <2>. SUFFICES ASSUME HttpInv PROVE HopsKeepTheirRoute
      BY DEF HttpInv, RequestsAccountedFor
    <2>1. ASSUME NEW x \in wire
          PROVE  /\ Route(x.hop.target) \notin Refused
                 /\ x.hop.token <=> Route(x.hop.target) = "connector"
                 /\ x.hop.via = IF x.hop.token THEN Connector ELSE x.hop.target
      <3>1. PICK h : h = x.hop.target
        OBVIOUS
      <3>2. Route(h) \notin Refused /\ x.hop = Hop(h)
        BY <3>1 DEF HttpInv, GoodHop
      <3>3. CASE Route(h) = "connector"
        BY <3>1, <3>2, <3>3 DEF Hop
      <3>4. CASE Route(h) # "connector"
        BY <3>1, <3>2, <3>4 DEF Hop
      <3>. QED  BY <3>3, <3>4
    <2>. QED  BY <2>1 DEF HopsKeepTheirRoute
  <1>. QED  BY <1>1, HttpInitially, HttpStepKept, PTL DEF HttpSpec

----------------------------------------------------------------------------
(* LiveFeed: what a cursor has left behind *)

FeedTypeOK ==
  /\ dated \in Nat
  /\ \A e \in writing \cup feed : e.at \in Nat /\ 1 <= e.at /\ e.at <= dated
  /\ stream \in [stage : {"none", "replay", "open", "ended"}, sawEnd : BOOLEAN,
                 last : Nat, sent : SUBSET Nat]
  /\ over \in BOOLEAN
  /\ poll \in [Polls -> [stage : {"idle", "asked", "read"}, after : Nat, fresh : SUBSET feed]]

(* No two rows have one date, and a row is committed once. *)
OwnDates ==
  /\ \A e, f \in writing \cup feed : e.at = f.at => e = f
  /\ writing \cap feed = {}

(* A cursor stands at a committed row, or before the first; the rows up to it *)
(* were sent, unless they were committed late.                               *)
AtRow(c) == c = 0 \/ \E f \in feed : f.at = c
Covered(c) == \A e \in feed : e.at <= c => e.at \in stream.sent \cup backdated

(* What a poll has read leaves no row out up to any row in it. *)
NoGap(p) ==
  \A e \in feed, f \in poll[p].fresh :
    poll[p].after < e.at /\ e.at <= f.at => e \in poll[p].fresh \/ e.at \in backdated

FeedInv ==
  /\ FeedTypeOK /\ OwnDates
  /\ AtRow(stream.last) /\ Covered(stream.last)
  /\ \A p \in Polls : /\ poll[p].stage \in {"asked", "read"} =>
                           AtRow(poll[p].after) /\ Covered(poll[p].after)
                      /\ poll[p].stage = "read" => NoGap(p)

(* Of dates no later than the clock one is the latest. *)
LEMMA LatestExists ==
  ASSUME NEW S \in SUBSET Nat, S # {}, NEW n \in Nat, \A x \in S : x <= n
  PROVE  Max(S) \in S /\ \A y \in S : y <= Max(S)
  <1>. DEFINE T == {n - x : x \in S}
  <1>1. \A x \in S : n - x \in Nat
    OBVIOUS
  <1>2. T \subseteq Nat /\ T # {}
    BY <1>1
  <1>3. PICK t \in T : \A u \in T : <<u, t>> \notin OpToRel(<, Nat)
    <2>. HIDE DEF T
    <2>. QED  BY <1>2, NatLessThanWellFounded, WFMin
  <1>4. PICK m \in S : t = n - m
    OBVIOUS
  <1>5. ASSUME NEW y \in S PROVE y <= m
    <2>1. n - y \in T /\ n - y \in Nat /\ n - m \in Nat
      BY <1>1
    <2>2. ~(n - y < n - m)
      <3>1. <<n - y, n - m>> \notin OpToRel(<, Nat)
        BY <1>3, <1>4, <2>1
      <3>. QED  BY <2>1, <3>1 DEF OpToRel
    <2>. QED  BY <2>1, <2>2
  <1>. QED  BY <1>5 DEF Max

(* Rows that are sent: the cursor stands at the last of them, or where it was. *)
LEMMA SendsRows ==
  ASSUME FeedTypeOK, NEW rows \in SUBSET feed
  PROVE  /\ Send(rows).sent = stream.sent \cup Dates(rows)
         /\ Send(rows).last \in Nat /\ Send(rows).sent \in SUBSET Nat
         /\ Send(rows).sawEnd \in BOOLEAN
         /\ \/ Send(rows).last = stream.last
            \/ \E f \in rows : Send(rows).last = f.at
         /\ DOMAIN Send(rows) = DOMAIN stream
         /\ Send(rows) \in [stage : {"none", "replay", "open", "ended"}, sawEnd : BOOLEAN,
                            last : Nat, sent : SUBSET Nat]
  <1>1. Dates(rows) \in SUBSET Nat /\ \A x \in Dates(rows) : x <= dated
    BY DEF FeedTypeOK, Dates
  <1>2. rows # {} => Max(Dates(rows)) \in Dates(rows)
    <2>1. rows # {} => Dates(rows) # {}
      BY DEF Dates
    <2>. QED  BY <1>1, <2>1, LatestExists DEF FeedTypeOK
  <1>3. rows # {} => \E f \in rows : Max(Dates(rows)) = f.at
    BY <1>2 DEF Dates
  <1>4. PICK l \in Nat : /\ l = (IF rows = {} THEN stream.last ELSE Max(Dates(rows)))
                         /\ l = stream.last \/ \E f \in rows : l = f.at
    BY <1>1, <1>2, <1>3 DEF FeedTypeOK
  <1>5. PICK d \in SUBSET Nat : d = stream.sent \cup Dates(rows)
    BY <1>1 DEF FeedTypeOK
  <1>6. Send(rows) = [stream EXCEPT !.sent = d, !.last = l]
    BY <1>4, <1>5 DEF Send
  <1>. QED  BY <1>4, <1>5, <1>6 DEF FeedTypeOK

LEMMA FeedInitially == FeedInit => FeedInv
  <1>. SUFFICES ASSUME FeedInit PROVE FeedInv
    OBVIOUS
  <1>1. /\ dated = 0 /\ writing = {} /\ feed = {} /\ over = FALSE
        /\ stream.last = 0 /\ \A p \in Polls : poll[p].stage = "idle"
    BY DEF FeedInit, NoStream, NoPoll
  <1>2. FeedTypeOK
    <2>1. stream \in [stage : {"none", "replay", "open", "ended"}, sawEnd : BOOLEAN,
                      last : Nat, sent : SUBSET Nat]
      BY DEF FeedInit, NoStream
    <2>2. poll \in [Polls -> [stage : {"idle", "asked", "read"}, after : Nat, fresh : SUBSET feed]]
      BY DEF FeedInit, NoPoll
    <2>. QED  BY <1>1, <2>1, <2>2 DEF FeedTypeOK
  <1>3. OwnDates /\ AtRow(stream.last) /\ Covered(stream.last)
    BY <1>1 DEF OwnDates, AtRow, Covered
  <1>. QED  BY <1>1, <1>2, <1>3 DEF FeedInv

(* A row that is committed late counts as such for every cursor beyond it. *)
LEMMA LateIsBackdated ==
  ASSUME FeedInv, NEW e \in writing, WriteCommits(e), NEW c \in Nat, AtRow(c), e.at <= c
  PROVE  e.at \in backdated'
  <1>1. e.at \in Nat /\ 1 <= e.at /\ e \notin feed
    BY DEF FeedInv, FeedTypeOK, OwnDates
  <1>2. PICK f \in feed : f.at = c
    BY <1>1 DEF AtRow
  <1>3. f.at # e.at
    BY <1>1, <1>2 DEF FeedInv, OwnDates
  <1>4. f \in Younger(e.at)
    BY <1>1, <1>2, <1>3 DEF Younger
  <1>. QED  BY <1>4 DEF WriteCommits

LEMMA FeedCommits ==
  ASSUME FeedInv, NEW e \in writing, WriteCommits(e)
  PROVE  FeedInv'
  <1>0. /\ writing' = writing \ {e} /\ feed' = feed \cup {e} /\ backdated \subseteq backdated'
        /\ UNCHANGED <<dated, stream, poll>> /\ FeedTypeOK /\ OwnDates
    BY DEF WriteCommits, FeedInv
  <1>1. FeedTypeOK'
    <2>1. \A x \in writing' \cup feed' : x.at \in Nat /\ 1 <= x.at /\ x.at <= dated
      BY <1>0 DEF FeedTypeOK
    <2>2. poll \in [Polls -> [stage : {"idle", "asked", "read"}, after : Nat, fresh : SUBSET feed']]
      BY <1>0 DEF FeedTypeOK
    <2>3. over' \in BOOLEAN
      BY DEF WriteCommits
    <2>. QED  BY <1>0, <2>1, <2>2, <2>3 DEF FeedTypeOK
  <1>2. OwnDates'
    BY <1>0 DEF OwnDates
  <1>3. ASSUME NEW c \in Nat, AtRow(c), Covered(c) PROVE AtRow(c)' /\ Covered(c)'
    <2>1. AtRow(c)'
      BY <1>0, <1>3 DEF AtRow
    <2>2. ASSUME NEW x \in feed', x.at <= c PROVE x.at \in stream.sent \cup backdated'
      <3>1. CASE x = e
        BY <1>3, <2>2, <3>1, LateIsBackdated
      <3>2. CASE x \in feed
        BY <1>0, <1>3, <2>2, <3>2 DEF Covered
      <3>. QED  BY <1>0, <3>1, <3>2
    <2>. QED  BY <1>0, <2>1, <2>2 DEF Covered
  <1>4. stream.last \in Nat /\ \A p \in Polls : poll[p].after \in Nat /\ poll[p].fresh \subseteq feed
    BY <1>0 DEF FeedTypeOK
  <1>5. AtRow(stream.last)' /\ Covered(stream.last)'
    BY <1>0, <1>3, <1>4 DEF FeedInv
  <1>6. ASSUME NEW p \in Polls, poll[p].stage \in {"asked", "read"}
        PROVE  AtRow(poll[p].after)' /\ Covered(poll[p].after)'
    BY <1>0, <1>3, <1>4, <1>6 DEF FeedInv
  <1>7. ASSUME NEW p \in Polls, poll[p].stage = "read" PROVE NoGap(p)'
    <2>. SUFFICES ASSUME NEW x \in feed', NEW f \in poll[p].fresh, poll[p].after < x.at, x.at <= f.at
                  PROVE  x \in poll[p].fresh \/ x.at \in backdated'
      BY <1>0 DEF NoGap
    <2>1. CASE x = e
      <3>1. f.at \in Nat /\ AtRow(f.at)
        BY <1>4 DEF AtRow, FeedInv, FeedTypeOK
      <3>. QED  BY <2>1, <3>1, LateIsBackdated
    <2>2. CASE x \in feed
      BY <1>0, <1>7, <2>2 DEF FeedInv, NoGap
    <2>. QED  BY <1>0, <2>1, <2>2
  <1>. QED  BY <1>0, <1>1, <1>2, <1>5, <1>6, <1>7 DEF FeedInv

(* The rows of an answer, or the history, reach the client. *)
LEMMA FeedSends ==
  ASSUME FeedInv, NEW rows \in SUBSET feed, UNCHANGED <<dated, writing, feed, backdated, over>>,
         NEW stage \in {"open", "ended"}, stream' = [Send(rows) EXCEPT !.stage = stage],
         NEW c \in Nat, AtRow(c), Covered(c),
         \A e \in feed, f \in rows : c < e.at /\ e.at <= f.at => e \in rows \/ e.at \in backdated,
         poll' \in [Polls -> [stage : {"idle", "asked", "read"}, after : Nat, fresh : SUBSET feed]],
         \A p \in Polls : poll'[p] = poll[p] \/ poll'[p].stage = "idle"
  PROVE  FeedInv'
  <1>0. FeedTypeOK /\ OwnDates
    BY DEF FeedInv
  <1>1. /\ stream'.sent = stream.sent \cup Dates(rows) /\ stream'.last = Send(rows).last
        /\ stream' \in [stage : {"none", "replay", "open", "ended"}, sawEnd : BOOLEAN,
                        last : Nat, sent : SUBSET Nat]
    BY <1>0, SendsRows
  <1>2. FeedTypeOK' /\ OwnDates'
    BY <1>0, <1>1 DEF FeedTypeOK, OwnDates
  <1>3. ASSUME NEW d, Covered(d) PROVE Covered(d)'
    BY <1>1, <1>3 DEF Covered
  <1>4. AtRow(stream.last)' /\ Covered(stream.last)'
    <2>1. CASE stream'.last = stream.last
      BY <1>3, <2>1 DEF FeedInv, AtRow, Covered
    <2>2. ASSUME NEW f \in rows, stream'.last = f.at PROVE AtRow(stream.last)' /\ Covered(stream.last)'
      <3>1. ASSUME NEW e \in feed, e.at <= f.at PROVE e.at \in stream'.sent \cup backdated
        <4>1. e.at \in Nat /\ c \in Nat
          BY <1>0 DEF FeedTypeOK
        <4>2. CASE e.at <= c
          BY <1>1, <4>2 DEF Covered
        <4>3. CASE c < e.at
          BY <1>1, <3>1, <4>3 DEF Dates
        <4>. QED  BY <4>1, <4>2, <4>3
      <3>. QED  BY <2>2, <3>1 DEF AtRow, Covered
    <2>. QED  BY <1>0, <1>1, <2>1, <2>2, SendsRows
  <1>5. ASSUME NEW p \in Polls
        PROVE  /\ poll'[p].stage \in {"asked", "read"} =>
                    AtRow(poll[p].after)' /\ Covered(poll[p].after)'
               /\ poll'[p].stage = "read" => NoGap(p)'
    <2>1. CASE poll'[p] = poll[p]
      BY <1>1, <2>1 DEF FeedInv, AtRow, Covered, NoGap
    <2>. QED  BY <2>1
  <1>. QED  BY <1>2, <1>4, <1>5 DEF FeedInv

(* The rows stay and so do those that were sent: only a poll may have moved. *)
LEMMA FeedPolls ==
  ASSUME FeedInv, UNCHANGED <<dated, writing, feed, backdated, over>>, FeedTypeOK',
         stream'.last = stream.last /\ stream'.sent = stream.sent,
         \A p \in Polls : \/ poll'[p] = poll[p] \/ poll'[p].stage = "idle"
                          \/ /\ poll'[p].stage = "asked"
                             /\ poll'[p].after = stream.last
                          \/ /\ poll[p].stage = "asked" /\ poll'[p].stage = "read"
                             /\ poll'[p].after = poll[p].after
                             /\ poll'[p].fresh = Younger(poll[p].after)
  PROVE  FeedInv'
  <1>1. OwnDates' /\ AtRow(stream.last)' /\ Covered(stream.last)'
    BY DEF FeedInv, OwnDates, AtRow, Covered
  <1>2. ASSUME NEW p \in Polls
        PROVE  /\ poll'[p].stage \in {"asked", "read"} =>
                    AtRow(poll[p].after)' /\ Covered(poll[p].after)'
               /\ poll'[p].stage = "read" => NoGap(p)'
    <2>1. CASE poll'[p] = poll[p]
      BY <2>1 DEF FeedInv, AtRow, Covered, NoGap
    <2>2. CASE poll'[p].stage = "idle"
      BY <2>2
    <2>3. CASE poll'[p].stage = "asked" /\ poll'[p].after = stream.last
      BY <2>3, <1>1
    <2>4. CASE /\ poll[p].stage = "asked" /\ poll'[p].stage = "read"
               /\ poll'[p].after = poll[p].after /\ poll'[p].fresh = Younger(poll[p].after)
      <3>1. AtRow(poll[p].after)' /\ Covered(poll[p].after)'
        BY <2>4 DEF FeedInv, AtRow, Covered
      <3>2. \A e \in feed : poll[p].after < e.at => e \in Younger(poll[p].after)
        BY DEF Younger, FeedInv, FeedTypeOK
      <3>3. NoGap(p)'
        BY <2>4, <3>2 DEF NoGap
      <3>. QED  BY <3>1, <3>3
    <2>. QED  BY <2>1, <2>2, <2>3, <2>4
  <1>. QED  BY <1>1, <1>2 DEF FeedInv

LEMMA FeedStep == FeedInv /\ [FeedNext]_feedVars => FeedInv'
  <1>. SUFFICES ASSUME FeedInv, [FeedNext]_feedVars PROVE FeedInv'
    OBVIOUS
  <1>0. FeedTypeOK /\ OwnDates
    BY DEF FeedInv
  <1>1. ASSUME NEW ends \in BOOLEAN, WriteBegins(ends) PROVE FeedInv'
    <2>1. PICK e : e = [at |-> dated + 1, ends |-> ends]
      OBVIOUS
    <2>2. /\ dated' = dated + 1 /\ writing' = writing \cup {e} /\ e.at = dated + 1
          /\ UNCHANGED <<feed, backdated, over, stream, poll>>
      BY <1>1, <2>1 DEF WriteBegins
    <2>3. FeedTypeOK'
      BY <1>0, <2>2 DEF FeedTypeOK
    <2>4. \A x \in writing \cup feed : x.at # e.at
      BY <1>0, <2>2 DEF FeedTypeOK
    <2>5. OwnDates'
      BY <1>0, <2>2, <2>4 DEF OwnDates
    <2>. QED  BY <2>2, <2>3, <2>5 DEF FeedInv, AtRow, Covered, NoGap
  <1>2. ASSUME NEW e \in writing, WriteRollsBack(e) PROVE FeedInv'
    <2>1. FeedTypeOK' /\ OwnDates'
      BY <1>0, <1>2 DEF WriteRollsBack, FeedTypeOK, OwnDates
    <2>. QED  BY <1>2, <2>1 DEF WriteRollsBack, FeedInv, AtRow, Covered, NoGap
  <1>3. CASE StatusEnds
    <2>1. FeedTypeOK' /\ OwnDates'
      BY <1>0, <1>3 DEF StatusEnds, FeedTypeOK, OwnDates
    <2>. QED  BY <1>3, <2>1 DEF StatusEnds, FeedInv, AtRow, Covered, NoGap
  <1>4. CASE Subscribe \/ ClientLeaves
    <2>1. /\ UNCHANGED <<dated, writing, feed, backdated, over, poll>>
          /\ stream'.last = stream.last /\ stream'.sent = stream.sent
          /\ stream' \in [stage : {"none", "replay", "open", "ended"}, sawEnd : BOOLEAN,
                         last : Nat, sent : SUBSET Nat]
      <3>1. CASE Subscribe
        BY <1>0, <3>1 DEF Subscribe, FeedTypeOK
      <3>2. CASE ClientLeaves
        BY <1>0, <3>2 DEF ClientLeaves, FeedTypeOK
      <3>. QED  BY <1>4, <3>1, <3>2
    <2>2. FeedTypeOK'
      BY <1>0, <2>1 DEF FeedTypeOK
    <2>. QED  BY <2>1, <2>2, FeedPolls
  <1>5. CASE Replay
    <2>1. PICK stage \in {"open", "ended"} : stream' = [Send(feed) EXCEPT !.stage = stage]
      BY <1>5 DEF Replay
    <2>2. UNCHANGED <<dated, writing, feed, backdated, over, poll>>
      BY <1>5 DEF Replay
    <2>3. AtRow(0) /\ Covered(0)
      BY <1>0 DEF AtRow, Covered, FeedTypeOK
    <2>. QED  BY <1>0, <2>1, <2>2, <2>3, FeedSends DEF FeedTypeOK
  <1>6. ASSUME NEW p \in Polls, PollAsks(p) PROVE FeedInv'
    <2>1. poll' \in [Polls -> [stage : {"idle", "asked", "read"}, after : Nat, fresh : SUBSET feed]]
      <3>1. [stage |-> "asked", after |-> Cursor, fresh |-> {}]
              \in [stage : {"idle", "asked", "read"}, after : Nat, fresh : SUBSET feed]
        BY <1>0 DEF FeedTypeOK, Cursor
      <3>. QED  BY <1>0, <1>6, <3>1 DEF PollAsks, FeedTypeOK
    <2>2. \A q \in Polls : \/ poll'[q] = poll[q]
                           \/ poll'[q].stage = "asked" /\ poll'[q].after = stream.last
      BY <1>0, <1>6 DEF PollAsks, FeedTypeOK, Cursor
    <2>3. UNCHANGED <<dated, writing, feed, backdated, over, stream>>
      BY <1>6 DEF PollAsks
    <2>4. FeedTypeOK'
      BY <1>0, <2>1, <2>3 DEF FeedTypeOK
    <2>. QED  BY <2>2, <2>3, <2>4, FeedPolls
  <1>7. ASSUME NEW p \in Polls, PollReads(p) PROVE FeedInv'
    <2>1. PICK read : read = [stage |-> "read", after |-> poll[p].after,
                              fresh |-> Younger(poll[p].after)]
      OBVIOUS
    <2>2. read \in [stage : {"idle", "asked", "read"}, after : Nat, fresh : SUBSET feed]
      BY <1>0, <2>1 DEF FeedTypeOK, Younger
    <2>3. /\ poll' = [poll EXCEPT ![p] = read] /\ poll[p].stage = "asked"
          /\ UNCHANGED <<dated, writing, feed, backdated, over, stream>>
      BY <1>7, <2>1 DEF PollReads
    <2>4. FeedTypeOK'
      BY <1>0, <2>2, <2>3 DEF FeedTypeOK
    <2>5. \A q \in Polls : \/ poll'[q] = poll[q]
                           \/ /\ poll[q].stage = "asked" /\ poll'[q].stage = "read"
                              /\ poll'[q].after = poll[q].after
                              /\ poll'[q].fresh = Younger(poll[q].after)
      BY <1>0, <2>1, <2>3 DEF FeedTypeOK
    <2>. QED  BY <2>3, <2>4, <2>5, FeedPolls
  <1>8. ASSUME NEW p \in Polls, PollAnswers(p) \/ PollFails(p) PROVE FeedInv'
    <2>1. /\ UNCHANGED <<dated, writing, feed, backdated, over>>
          /\ poll' = [poll EXCEPT ![p] = NoPoll]
      BY <1>8 DEF PollAnswers, PollFails
    <2>2. poll' \in [Polls -> [stage : {"idle", "asked", "read"}, after : Nat, fresh : SUBSET feed]]
      <3>1. NoPoll \in [stage : {"idle", "asked", "read"}, after : Nat, fresh : SUBSET feed]
        BY DEF NoPoll
      <3>. QED  BY <1>0, <2>1, <3>1 DEF FeedTypeOK
    <2>3. \A q \in Polls : poll'[q] = poll[q] \/ poll'[q].stage = "idle"
      BY <1>0, <2>1 DEF FeedTypeOK, NoPoll
    <2>4. CASE PollAnswers(p) /\ stream.stage = "open"
      <3>1. PICK rows \in SUBSET feed : rows = poll[p].fresh
        BY <1>0 DEF FeedTypeOK
      <3>2. PICK stage \in {"open", "ended"} : stream' = [Send(rows) EXCEPT !.stage = stage]
        BY <2>4, <3>1 DEF PollAnswers
      <3>3. PICK c \in Nat : c = poll[p].after
        BY <1>0 DEF FeedTypeOK
      <3>4. AtRow(c) /\ Covered(c) /\ NoGap(p)
        BY <2>4, <3>3 DEF FeedInv, PollAnswers
      <3>5. \A e \in feed, f \in rows :
              c < e.at /\ e.at <= f.at => e \in rows \/ e.at \in backdated
        BY <3>1, <3>3, <3>4 DEF NoGap
      <3>. QED  BY <2>1, <2>2, <2>3, <3>2, <3>4, <3>5, FeedSends
    <2>5. CASE ~(PollAnswers(p) /\ stream.stage = "open")
      <3>1. stream' = stream \/ stream' = [stream EXCEPT !.stage = "ended"]
        BY <1>8, <2>5 DEF PollAnswers, PollFails
      <3>2. stream'.last = stream.last /\ stream'.sent = stream.sent
        BY <1>0, <3>1 DEF FeedTypeOK
      <3>3. stream' \in [stage : {"none", "replay", "open", "ended"}, sawEnd : BOOLEAN,
                         last : Nat, sent : SUBSET Nat]
        BY <1>0, <3>1 DEF FeedTypeOK
      <3>4. FeedTypeOK'
        BY <1>0, <2>1, <2>2, <3>3 DEF FeedTypeOK
      <3>. QED  BY <2>1, <2>3, <3>2, <3>4, FeedPolls
    <2>. QED  BY <2>4, <2>5
  <1>9. CASE UNCHANGED feedVars
    <2>1. UNCHANGED <<dated, writing, feed, backdated, over, stream, poll>>
      BY <1>9 DEF feedVars
    <2>2. FeedTypeOK'
      BY <1>0, <2>1 DEF FeedTypeOK
    <2>. QED  BY <2>1, <2>2, FeedPolls
  <1>10. ASSUME NEW e \in writing, WriteCommits(e) PROVE FeedInv'
    BY <1>10, FeedCommits
  <1>. QED  BY <1>1, <1>2, <1>3, <1>4, <1>5, <1>6, <1>7, <1>8, <1>9, <1>10 DEF FeedNext

(* A subscriber misses no row up to the last one it holds but one committed    *)
(* after a younger row: for every number of rows and of overlapping polls.     *)
THEOREM FeedHasNoGaps == FeedSpec => []OnlyBackdatedMissed
  <1>1. FeedInv => OnlyBackdatedMissed
    BY DEF FeedInv, Covered, OnlyBackdatedMissed
  <1>. QED  BY <1>1, FeedInitially, FeedStep, PTL DEF FeedSpec

----------------------------------------------------------------------------
(* SignIn: the failures a lock was earned with *)

LoginTypeOK ==
  /\ attempts \in [n : Nat, start : Nat, until : Nat]
  /\ tries \in Seq(Nat)
  /\ minute \in Nat /\ attempts.start <= minute

(* The failures recorded from a moment on. *)
Since(t, date) == {i \in DOMAIN t : t[i] >= date}

(* The row counts failures of its window only, and a lock is no longer than it. *)
LockInv ==
  /\ LoginTypeOK
  /\ attempts.n <= Cardinality(Since(tries, attempts.start))
  /\ attempts.until # 0 => /\ attempts.n >= MaxFailures
                           /\ attempts.until <= attempts.start + 2 * Window

LEMMA SinceIsFinite ==
  ASSUME NEW t \in Seq(Nat), NEW date
  PROVE  IsFiniteSet(Since(t, date)) /\ Cardinality(Since(t, date)) \in Nat
  <1>1. DOMAIN t = 1 .. Len(t) /\ Len(t) \in Nat
    OBVIOUS
  <1>2. IsFiniteSet(DOMAIN t)
    BY <1>1, FS_Interval
  <1>3. Since(t, date) \subseteq DOMAIN t
    BY DEF Since
  <1>. QED  BY <1>2, <1>3, FS_Subset, FS_CardinalityType

LEMMA SinceAppended ==
  ASSUME NEW t \in Seq(Nat), NEW now \in Nat, NEW date \in Nat, date <= now
  PROVE  Cardinality(Since(Append(t, now), date)) = Cardinality(Since(t, date)) + 1
  <1>1. Len(t) \in Nat /\ DOMAIN t = 1 .. Len(t) /\ DOMAIN Append(t, now) = 1 .. Len(t) + 1
        /\ Append(t, now)[Len(t) + 1] = now /\ \A i \in 1 .. Len(t) : Append(t, now)[i] = t[i]
    OBVIOUS
  <1>2. Since(Append(t, now), date) = Since(t, date) \cup {Len(t) + 1}
    BY <1>1 DEF Since
  <1>3. Len(t) + 1 \notin Since(t, date)
    BY <1>1 DEF Since
  <1>. QED  BY <1>2, <1>3, SinceIsFinite, FS_AddElement

(* A failure is written: counted with those of the window, or alone. *)
LEMMA FailureKept ==
  ASSUME LockInv, NEW count \in Nat, NEW row \in BOOLEAN,
         count = 1 \/ (row /\ count = attempts.n + 1 /\ ~WindowExpired),
         attempts' = Recorded(count, row), tries' = Append(tries, minute), minute' = minute
  PROVE  LockInv'
  <1>0. LoginTypeOK /\ Window \in Nat /\ MaxFailures \in Nat \ {0}
    BY SignInAssumption DEF LockInv
  <1>1. PICK start \in Nat : start = IF row /\ attempts.start >= minute - Window
                                     THEN attempts.start ELSE minute
    BY <1>0 DEF LoginTypeOK
  <1>2. PICK until \in Nat : until = IF count >= MaxFailures THEN minute + Window ELSE 0
    BY <1>0 DEF LoginTypeOK
  <1>3. attempts' = [n |-> count, start |-> start, until |-> until]
    BY <1>1, <1>2 DEF Recorded
  <1>4. start <= minute /\ start >= minute - Window
    BY <1>0, <1>1 DEF LoginTypeOK
  <1>5. LoginTypeOK'
    <2>1. tries' \in Seq(Nat)
      BY <1>0 DEF LoginTypeOK
    <2>. QED  BY <1>0, <1>3, <1>4, <2>1 DEF LoginTypeOK
  <1>6. Cardinality(Since(tries', start)) = Cardinality(Since(tries, start)) + 1
        /\ Cardinality(Since(tries, start)) \in Nat
    BY <1>0, <1>4, SinceAppended, SinceIsFinite DEF LoginTypeOK
  <1>7. count <= Cardinality(Since(tries', start))
    <2>1. CASE count = 1
      BY <1>6, <2>1
    <2>2. CASE row /\ count = attempts.n + 1 /\ ~WindowExpired
      <3>1. start = attempts.start
        BY <1>0, <1>1, <2>2 DEF WindowExpired, LoginTypeOK
      <3>. QED  BY <1>0, <1>6, <2>2, <3>1 DEF LockInv, LoginTypeOK
    <2>. QED  BY <2>1, <2>2
  <1>8. until # 0 => count >= MaxFailures /\ until <= start + 2 * Window
    BY <1>0, <1>2, <1>4 DEF LoginTypeOK
  <1>. QED  BY <1>3, <1>5, <1>7, <1>8 DEF LockInv

LEMMA LockInitially == SignInInit => LockInv
  <1>. SUFFICES ASSUME SignInInit PROVE LockInv
    OBVIOUS
  <1>1. LoginTypeOK /\ attempts.n = 0 /\ attempts.until = 0
    BY DEF SignInInit, NoAttempts, LoginTypeOK
  <1>2. Cardinality(Since(tries, attempts.start)) \in Nat
    BY <1>1, SinceIsFinite DEF LoginTypeOK
  <1>. QED  BY <1>1, <1>2 DEF LockInv

LEMMA LockStep == LockInv /\ [SignInNext]_signInVars => LockInv'
  <1>. SUFFICES ASSUME LockInv, [SignInNext]_signInVars PROVE LockInv'
    OBVIOUS
  <1>0. LoginTypeOK
    BY DEF LockInv
  <1>1. CASE UNCHANGED <<attempts, tries, minute>>
    BY <1>1 DEF LockInv, LoginTypeOK
  <1>2. ASSUME NEW h \in Logins, clearLoginFailures(h) PROVE LockInv'
    <2>1. LoginTypeOK' /\ attempts'.n = 0 /\ attempts'.until = 0
      BY <1>0, <1>2 DEF clearLoginFailures, NoAttempts, LoginTypeOK
    <2>2. Cardinality(Since(tries', attempts'.start)) \in Nat
      BY <2>1, SinceIsFinite DEF LoginTypeOK
    <2>. QED  BY <2>1, <2>2 DEF LockInv
  <1>3. ASSUME NEW h \in Logins, recordLoginFailure(h) PROVE LockInv'
    <2>1. CASE NoRow
      BY <1>1, <1>3, <2>1 DEF recordLoginFailure
    <2>2. CASE ~NoRow
      <3>1. PICK count \in Nat : /\ count = FailureCount
                                 /\ \/ count = 1
                                    \/ count = attempts.n + 1 /\ ~WindowExpired
        BY <1>0 DEF FailureCount, NextCount, LoginTypeOK
      <3>2. /\ attempts' = Recorded(count, TRUE) /\ tries' = Append(tries, minute)
            /\ minute' = minute
        BY <1>3, <2>2, <3>1 DEF recordLoginFailure
      <3>. QED  BY <3>1, <3>2, FailureKept
    <2>. QED  BY <2>1, <2>2
  <1>4. ASSUME NEW h \in Logins, RecordFirst(h) PROVE LockInv'
    <2>1. PICK row \in BOOLEAN : row = ~NoRow
      OBVIOUS
    <2>2. /\ attempts' = Recorded(1, row) /\ tries' = Append(tries, minute)
          /\ minute' = minute
      BY <1>4, <2>1 DEF RecordFirst
    <2>. QED  BY <2>2, FailureKept
  <1>5. CASE MinutePasses
    BY <1>0, <1>5 DEF MinutePasses, LockInv, LoginTypeOK
  <1>6. CASE OidcNext \/ UNCHANGED signInVars
    BY <1>1, <1>6 DEF OidcNext, signInVars, passwordVars
  <1>7. ASSUME NEW h \in Logins, AskLogin(h) PROVE LockInv'
    BY <1>1, <1>7 DEF AskLogin
  <1>. QED  BY <1>2, <1>3, <1>4, <1>5, <1>6, <1>7 DEF SignInNext, PasswordNext

(* An address is locked for failures of its own window and of no earlier one   *)
(* only: however many requests verify passwords beside each other.             *)
THEOREM LocksAreEarned == SignInSpec => []LockIsEarned
  <1>1. LockInv => LockIsEarned
    <2>. SUFFICES ASSUME LockInv, isLoginLocked
                  PROVE  Cardinality({i \in DOMAIN tries : tries[i] + 2 * Window >= attempts.until})
                           >= MaxFailures
      BY DEF LockIsEarned
    <2>. DEFINE E == {i \in DOMAIN tries : tries[i] + 2 * Window >= attempts.until}
    <2>1. LoginTypeOK /\ Window \in Nat /\ MaxFailures \in Nat /\ attempts.until # 0
      BY SignInAssumption DEF LockInv, isLoginLocked, LoginTypeOK
    <2>2. attempts.until <= attempts.start + 2 * Window /\ attempts.n >= MaxFailures
      BY <2>1 DEF LockInv
    <2>3. \A i \in DOMAIN tries : tries[i] \in Nat
      BY <2>1 DEF LoginTypeOK
    <2>4. Since(tries, attempts.start) \subseteq E
      BY <2>1, <2>2, <2>3 DEF Since, LoginTypeOK
    <2>5. IsFiniteSet(E)
      <3>1. IsFiniteSet(DOMAIN tries)
        <4>1. DOMAIN tries = 1 .. Len(tries) /\ Len(tries) \in Nat
          BY <2>1 DEF LoginTypeOK
        <4>. QED  BY <4>1, FS_Interval
      <3>. QED  BY <3>1, FS_Subset
    <2>6. Cardinality(Since(tries, attempts.start)) <= Cardinality(E)
      BY <2>4, <2>5, FS_Subset
    <2>7. Cardinality(E) \in Nat /\ Cardinality(Since(tries, attempts.start)) \in Nat
      BY <2>1, <2>5, SinceIsFinite, FS_CardinalityType DEF LoginTypeOK
    <2>. QED  BY <2>1, <2>2, <2>6, <2>7 DEF LockInv, LoginTypeOK
  <1>. QED  BY <1>1, LockInitially, LockStep, PTL DEF SignInSpec

----------------------------------------------------------------------------
(* SignIn: whose session a callback opens *)

CallbackType ==
  [pc : {"idle", "provider", "exchange", "identity", "user", "new user", "link", "session"},
   state : States \cup {NoClient}, code : Codes \cup {NoClient}, nonce : States \cup {NoClient},
   client : Clients \cup {NoClient}, sub : Subjects \cup {NoClient},
   email : Emails \cup {NoClient}, user : Nat, late : BOOLEAN]

OidcTypeOK ==
  /\ provider \in Clients \cup {NoClient}
  /\ \A s \in DOMAIN states : states[s] \in States \X (Clients \cup {NoClient})
  /\ \A k \in DOMAIN codes :
       codes[k] \in [nonce : States, client : Clients \cup {NoClient}, sub : Subjects, email : Emails]
  /\ links \subseteq States \X Codes
  /\ \A x \in DOMAIN identities : identities[x] \in Nat
  /\ IsFiniteSet(DOMAIN accounts) /\ \A x \in DOMAIN accounts : accounts[x] \in Nat
  /\ callback \in [Callbacks -> CallbackType]

(* A state that a callback works with, or has signed in with, was in a link   *)
(* and is gone: StartOidc never mints it again.                              *)
Spent(s) == s \notin DOMAIN states /\ \E l \in links : l[1] = s

StatesAreSpent ==
  /\ \A c \in Callbacks : callback[c].pc # "idle" => Spent(callback[c].state)
  /\ \A x \in signedIn : Spent(x.state)

StatesAreOnes ==
  /\ \A c, d \in Callbacks :
       callback[c].pc # "idle" /\ callback[d].pc # "idle" /\ callback[c].state = callback[d].state
         => c = d
  /\ \A c \in Callbacks, x \in signedIn : callback[c].pc # "idle" => callback[c].state # x.state
  /\ OneSignInPerState

(* The user is the identity's, or that of the address to one who came late.   *)
Known(x) == x.email \in DOMAIN accounts /\ x.user = accounts[x.email]
Owned(x) == x.sub \in DOMAIN identities /\ (x.user = identities[x.sub] \/ (x.late /\ Known(x)))
Standing(x) == (x.pc = "link" => Known(x)) /\ (x.pc = "session" => Owned(x))

OidcInv ==
  /\ OidcTypeOK /\ StatesAreSpent /\ StatesAreOnes
  /\ \A c \in Callbacks : Standing(callback[c])
  /\ \A x \in signedIn : Owned(x)

Grows(f, g) == DOMAIN f \subseteq DOMAIN g /\ \A x \in DOMAIN f : g[x] = f[x]

(* No callback takes a state and none opens a session: each stays, moves on   *)
(* with its state, or is dropped.                                            *)
LEMMA CallbacksMove ==
  ASSUME OidcInv, OidcTypeOK', signedIn' = signedIn,
         Grows(identities, identities'), Grows(accounts, accounts'), links \subseteq links',
         \A s \in DOMAIN states' : s \in DOMAIN states \/ ~\E l \in links : l[1] = s,
         \A c \in Callbacks : \/ callback'[c] = callback[c]
                              \/ callback'[c].pc = "idle"
                              \/ /\ callback[c].pc # "idle"
                                 /\ callback'[c].state = callback[c].state
                                 /\ Standing(callback[c])'
  PROVE  OidcInv'
  <1>1. ASSUME NEW s, Spent(s) PROVE s \notin DOMAIN states' /\ \E l \in links' : l[1] = s
    BY <1>1 DEF Spent
  <1>2. \A c \in Callbacks : callback'[c].pc # "idle" =>
          callback[c].pc # "idle" /\ callback'[c].state = callback[c].state
    OBVIOUS
  <1>3. StatesAreSpent'
    BY <1>1, <1>2 DEF OidcInv, StatesAreSpent, Spent
  <1>4. StatesAreOnes'
    BY <1>2 DEF OidcInv, StatesAreOnes, OneSignInPerState
  <1>5. ASSUME NEW x, Known(x)
        PROVE  x.email \in DOMAIN accounts' /\ x.user = accounts'[x.email]
    BY <1>5 DEF Known, Grows
  <1>6. ASSUME NEW x, Owned(x)
        PROVE  /\ x.sub \in DOMAIN identities'
               /\ \/ x.user = identities'[x.sub]
                  \/ x.late /\ x.email \in DOMAIN accounts' /\ x.user = accounts'[x.email]
    BY <1>5, <1>6 DEF Owned, Grows
  <1>7. ASSUME NEW c \in Callbacks PROVE Standing(callback[c])'
    <2>1. CASE callback'[c] = callback[c]
      BY <1>5, <1>6, <2>1 DEF OidcInv, Standing, Known, Owned
    <2>2. CASE callback'[c].pc = "idle"
      BY <2>2 DEF Standing
    <2>. QED  BY <2>1, <2>2
  <1>8. ASSUME NEW x \in signedIn' PROVE Owned(x)'
    <2>1. Owned(x)
      BY DEF OidcInv
    <2>. QED  BY <1>6, <2>1 DEF Owned, Known
  <1>. QED  BY <1>3, <1>4, <1>7, <1>8 DEF OidcInv

(* A step of one callback alone. *)
LEMMA OneMoves ==
  ASSUME OidcInv, NEW c \in Callbacks, NEW new \in CallbackType,
         callback' = [callback EXCEPT ![c] = new],
         new.pc = "idle" \/ (callback[c].pc # "idle" /\ new.state = callback[c].state),
         (new.pc = "link" => new.email \in DOMAIN accounts' /\ new.user = accounts'[new.email]),
         (new.pc = "session" =>
            /\ new.sub \in DOMAIN identities'
            /\ \/ new.user = identities'[new.sub]
               \/ new.late /\ new.email \in DOMAIN accounts' /\ new.user = accounts'[new.email]),
         UNCHANGED <<provider, states, links, signedIn>>,
         codes' = codes \/ \E k : codes' = Without(codes, k),
         Grows(identities, identities'), Grows(accounts, accounts'),
         \A x \in DOMAIN identities' : identities'[x] \in Nat,
         IsFiniteSet(DOMAIN accounts'), \A x \in DOMAIN accounts' : accounts'[x] \in Nat
  PROVE  OidcInv'
  <1>0. OidcTypeOK
    BY DEF OidcInv
  <1>1. callback' \in [Callbacks -> CallbackType] /\ callback'[c] = new
        /\ \A d \in Callbacks : d # c => callback'[d] = callback[d]
    BY <1>0 DEF OidcTypeOK
  <1>2. \A k \in DOMAIN codes' : k \in DOMAIN codes /\ codes'[k] = codes[k]
    <2>1. ASSUME NEW k, codes' = Without(codes, k)
          PROVE  \A y \in DOMAIN codes' : y \in DOMAIN codes /\ codes'[y] = codes[y]
      BY <2>1 DEF Without
    <2>2. CASE codes' = codes
      BY <2>2
    <2>3. CASE \E k : codes' = Without(codes, k)
      <3>1. PICK k : codes' = Without(codes, k)
        BY <2>3
      <3>. QED  BY <2>1, <3>1
    <2>. QED  BY <2>2, <2>3
  <1>3. OidcTypeOK'
    <2>1. \A k \in DOMAIN codes' : codes'[k] \in [nonce : States, client : Clients \cup {NoClient},
                                                  sub : Subjects, email : Emails]
      BY <1>0, <1>2 DEF OidcTypeOK
    <2>2. /\ provider' \in Clients \cup {NoClient} /\ links' \subseteq States \X Codes
          /\ \A s \in DOMAIN states' : states'[s] \in States \X (Clients \cup {NoClient})
      BY <1>0 DEF OidcTypeOK
    <2>. QED  BY <1>1, <2>1, <2>2 DEF OidcTypeOK
  <1>4. Standing(callback[c])'
    <2>1. PICK n : n = new /\ callback'[c] = n
      BY <1>1
    <2>2. n.pc = "link" => Known(n)'
      BY <2>1 DEF Known
    <2>3. n.pc = "session" => Owned(n)'
      BY <2>1 DEF Owned, Known
    <2>. QED  BY <2>1, <2>2, <2>3 DEF Standing
  <1>. QED  BY <1>1, <1>3, <1>4, CallbacksMove

LEMMA NothingGrows ==
  /\ UNCHANGED identities => Grows(identities, identities')
  /\ UNCHANGED accounts => Grows(accounts, accounts')
  BY DEF Grows

LEMMA CallbackDrops ==
  ASSUME OidcInv, NEW c \in Callbacks, Drop(c),
         UNCHANGED <<provider, states, links, signedIn, identities, accounts>>,
         codes' = codes \/ \E k : codes' = Without(codes, k)
  PROVE  OidcInv'
  <1>1. NoCallback \in CallbackType /\ NoCallback.pc = "idle"
    BY DEF NoCallback, CallbackType
  <1>2. callback' = [callback EXCEPT ![c] = NoCallback]
    BY DEF Drop
  <1>. QED  BY <1>1, <1>2, OneMoves, NothingGrows DEF OidcInv, OidcTypeOK

LEMMA OidcInitially == SignInInit => OidcInv
  <1>. SUFFICES ASSUME SignInInit PROVE OidcInv
    OBVIOUS
  <1>1. /\ \A c \in Callbacks : callback[c].pc = "idle"
        /\ callback \in [Callbacks -> CallbackType]
    BY DEF SignInInit, NoCallback, CallbackType
  <1>2. /\ DOMAIN states = {} /\ DOMAIN codes = {} /\ DOMAIN identities = {}
        /\ DOMAIN accounts = {} /\ links = {} /\ signedIn = {} /\ provider = NoClient
    BY DEF SignInInit, EmptyMap
  <1>3. OidcTypeOK
    BY <1>1, <1>2, FS_EmptySet DEF OidcTypeOK
  <1>. QED  BY <1>1, <1>2, <1>3 DEF OidcInv, StatesAreSpent, StatesAreOnes, OneSignInPerState, Standing

(* A callback takes its state: no other has it, and none had.                 *)
LEMMA StateTaken ==
  ASSUME OidcInv, NEW c \in Callbacks, NEW l \in links, AskCallback(c, l)
  PROVE  OidcInv'
  <1>0. /\ OidcTypeOK /\ StatesAreSpent /\ StatesAreOnes
        /\ UNCHANGED <<provider, codes, links, identities, accounts, signedIn>>
        /\ callback[c].pc = "idle" /\ l[1] \in DOMAIN states
        /\ states' = Without(states, l[1])
    BY DEF OidcInv, AskCallback, Stored, UseState, AtCallback
  <1>1. /\ DOMAIN states' = DOMAIN states \ {l[1]}
        /\ \A s \in DOMAIN states' : states'[s] = states[s]
    BY <1>0 DEF Without
  <1>2. CASE UNCHANGED callback
    <2>1. OidcTypeOK'
      BY <1>0, <1>1, <1>2 DEF OidcTypeOK
    <2>. QED  BY <1>0, <1>1, <1>2, <2>1, CallbacksMove, NothingGrows
  <1>3. CASE callback' = [callback EXCEPT ![c] = [NoCallback EXCEPT !.pc = "provider", !.state = l[1],
                                                    !.code = l[2], !.nonce = states[l[1]][1]]]
    <2>1. PICK new : new = [NoCallback EXCEPT !.pc = "provider", !.state = l[1],
                                              !.code = l[2], !.nonce = states[l[1]][1]]
      OBVIOUS
    <2>2. new \in CallbackType /\ new.pc = "provider" /\ new.state = l[1]
      <3>1. l[1] \in States /\ l[2] \in Codes /\ states[l[1]][1] \in States
        BY <1>0 DEF OidcTypeOK
      <3>. QED  BY <2>1, <3>1 DEF NoCallback, CallbackType
    <2>3. /\ callback' \in [Callbacks -> CallbackType] /\ callback'[c] = new
          /\ \A d \in Callbacks : d # c => callback'[d] = callback[d]
      BY <1>0, <1>3, <2>1, <2>2 DEF OidcTypeOK
    <2>4. OidcTypeOK'
      BY <1>0, <1>1, <2>3 DEF OidcTypeOK
    <2>5. StatesAreSpent'
      BY <1>0, <1>1, <2>2, <2>3 DEF StatesAreSpent, Spent
    <2>6. \A d \in Callbacks : callback[d].pc # "idle" => callback[d].state # l[1]
      BY <1>0 DEF StatesAreSpent, Spent
    <2>7. \A x \in signedIn : x.state # l[1]
      BY <1>0 DEF StatesAreSpent, Spent
    <2>8. StatesAreOnes'
      BY <1>0, <2>2, <2>3, <2>6, <2>7 DEF StatesAreOnes, OneSignInPerState
    <2>9. \A d \in Callbacks : Standing(callback[d])'
      BY <1>0, <2>2, <2>3 DEF OidcInv, Standing, Owned, Known
    <2>10. \A x \in signedIn' : Owned(x)'
      BY <1>0 DEF OidcInv, Owned, Known
    <2>. QED  BY <2>4, <2>5, <2>8, <2>9, <2>10 DEF OidcInv
  <1>. QED  BY <1>2, <1>3 DEF AskCallback

(* A session is opened once for its state.                                    *)
LEMMA SessionOpened ==
  ASSUME OidcInv, NEW c \in Callbacks, OpenSession(c)
  PROVE  OidcInv'
  <1>1. PICK x : x = [state |-> callback[c].state, code |-> callback[c].code,
                      sub |-> callback[c].sub, email |-> callback[c].email,
                      user |-> callback[c].user, late |-> callback[c].late]
    OBVIOUS
  <1>2. /\ OidcTypeOK /\ StatesAreSpent /\ StatesAreOnes
        /\ UNCHANGED <<provider, states, codes, links, identities, accounts>>
        /\ callback[c].pc = "session" /\ signedIn' = signedIn \cup {x}
        /\ callback' = [callback EXCEPT ![c] = NoCallback]
    BY <1>1 DEF OidcInv, OpenSession, AtCallback, Drop
  <1>3. /\ callback' \in [Callbacks -> CallbackType] /\ callback'[c].pc = "idle"
        /\ \A d \in Callbacks : d # c => callback'[d] = callback[d]
    <2>1. NoCallback \in CallbackType /\ NoCallback.pc = "idle"
      BY DEF NoCallback, CallbackType
    <2>. QED  BY <1>2, <2>1 DEF OidcTypeOK
  <1>4. x.state = callback[c].state /\ x.sub = callback[c].sub /\ x.email = callback[c].email
        /\ x.user = callback[c].user /\ x.late = callback[c].late
    BY <1>1
  <1>5. OidcTypeOK'
    BY <1>2, <1>3 DEF OidcTypeOK
  <1>6. StatesAreSpent'
    BY <1>2, <1>3, <1>4 DEF StatesAreSpent, Spent
  <1>7. StatesAreOnes'
    BY <1>2, <1>3, <1>4 DEF StatesAreOnes, OneSignInPerState
  <1>8. \A d \in Callbacks : Standing(callback[d])'
    BY <1>2, <1>3 DEF OidcInv, Standing, Owned, Known
  <1>9. ASSUME NEW y \in signedIn' PROVE Owned(y)'
    <2>1. Owned(callback[c])
      BY <1>2 DEF OidcInv, Standing
    <2>2. Owned(x)
      BY <1>4, <2>1 DEF Owned, Known
    <2>3. Owned(y)
      BY <1>2, <2>2 DEF OidcInv
    <2>. QED  BY <1>2, <2>3 DEF Owned, Known
  <1>. QED  BY <1>5, <1>6, <1>7, <1>8, <1>9 DEF OidcInv

LEMMA AccountsGrow ==
  ASSUME OidcTypeOK, NEW e, e \notin DOMAIN accounts
  PROVE  LET n == Cardinality(DOMAIN accounts) + 1 IN
         /\ n \in Nat
         /\ IsFiniteSet(DOMAIN Extend(accounts, e, n))
         /\ e \in DOMAIN Extend(accounts, e, n) /\ Extend(accounts, e, n)[e] = n
         /\ \A x \in DOMAIN Extend(accounts, e, n) : Extend(accounts, e, n)[x] \in Nat
         /\ Grows(accounts, Extend(accounts, e, n))
  <1>. DEFINE n == Cardinality(DOMAIN accounts) + 1
  <1>1. n \in Nat
    BY FS_CardinalityType DEF OidcTypeOK
  <1>. HIDE DEF n
  <1>2. /\ DOMAIN Extend(accounts, e, n) = DOMAIN accounts \cup {e}
        /\ Extend(accounts, e, n)[e] = n
        /\ \A y \in DOMAIN accounts : y # e => Extend(accounts, e, n)[y] = accounts[y]
        /\ Grows(accounts, Extend(accounts, e, n))
    BY DEF Extend, Grows
  <1>3. IsFiniteSet(DOMAIN Extend(accounts, e, n))
    BY <1>2, FS_AddElement DEF OidcTypeOK
  <1>4. \A x \in DOMAIN Extend(accounts, e, n) : Extend(accounts, e, n)[x] \in Nat
    BY <1>1, <1>2 DEF OidcTypeOK
  <1>. QED  BY <1>1, <1>2, <1>3, <1>4 DEF n

(* The steps of a callback that has its state and opens no session yet.       *)
LEMMA CallbackKept ==
  ASSUME OidcInv, NEW c \in Callbacks,
         \/ resolveLoginProvider(c) \/ ExchangeCode(c) \/ SelectIdentity(c) \/ SelectUser(c)
         \/ InsertUser(c) \/ LinkIdentity(c) \/ CallbackFails(c)
  PROVE  OidcInv'
  <1>0. /\ OidcTypeOK /\ callback \in [Callbacks -> CallbackType] /\ callback[c] \in CallbackType
        /\ Grows(identities, identities) /\ Grows(accounts, accounts)
        /\ \A x \in DOMAIN identities : identities[x] \in Nat
        /\ IsFiniteSet(DOMAIN accounts) /\ \A x \in DOMAIN accounts : accounts[x] \in Nat
    BY DEF OidcInv, OidcTypeOK, Grows
  <1>1. CASE resolveLoginProvider(c)
    <2>1. UNCHANGED <<provider, states, codes, links, identities, accounts, signedIn>>
      BY <1>1 DEF resolveLoginProvider, Stored
    <2>2. CASE provider = NoClient
      BY <1>1, <2>1, <2>2, CallbackDrops DEF resolveLoginProvider
    <2>3. CASE provider # NoClient
      <3>1. PICK new : new = [callback[c] EXCEPT !.pc = "exchange", !.client = provider]
        OBVIOUS
      <3>2. callback' = [callback EXCEPT ![c] = new]
        BY <1>0, <1>1, <2>3, <3>1 DEF resolveLoginProvider
      <3>3. new \in CallbackType /\ new.pc = "exchange" /\ new.state = callback[c].state
        BY <1>0, <3>1 DEF CallbackType, OidcTypeOK
      <3>4. callback[c].pc # "idle"
        BY <1>1 DEF resolveLoginProvider, AtCallback
      <3>. QED  BY <1>0, <2>1, <3>2, <3>3, <3>4, OneMoves
    <2>. QED  BY <2>2, <2>3
  <1>2. CASE ExchangeCode(c)
    <2>1. UNCHANGED <<provider, states, links, identities, accounts, signedIn>>
          /\ callback[c].pc = "exchange"
      BY <1>2 DEF ExchangeCode, Stored, AtCallback
    <2>2. CASE Drop(c) /\ (codes' = codes \/ \E k : codes' = Without(codes, k))
      BY <2>1, <2>2, CallbackDrops
    <2>3. CASE /\ callback[c].code \in DOMAIN codes
               /\ codes' = Without(codes, callback[c].code)
               /\ callback' = [callback EXCEPT ![c].pc = "identity",
                                               ![c].sub = codes[callback[c].code].sub,
                                               ![c].email = codes[callback[c].code].email]
      <3>1. PICK sub \in Subjects, email \in Emails :
              sub = codes[callback[c].code].sub /\ email = codes[callback[c].code].email
        BY <1>0, <2>3 DEF OidcTypeOK
      <3>2. PICK new : new = [callback[c] EXCEPT !.pc = "identity", !.sub = sub, !.email = email]
        OBVIOUS
      <3>3. callback' = [callback EXCEPT ![c] = new]
        BY <1>0, <2>3, <3>1, <3>2
      <3>4. new \in CallbackType /\ new.pc = "identity" /\ new.state = callback[c].state
        BY <1>0, <3>1, <3>2 DEF CallbackType
      <3>. QED  BY <1>0, <2>1, <2>3, <3>3, <3>4, OneMoves
    <2>. QED  BY <1>2, <2>2, <2>3 DEF ExchangeCode
  <1>3. CASE SelectIdentity(c)
    <2>1. UNCHANGED <<provider, states, codes, links, identities, accounts, signedIn>>
          /\ callback[c].pc = "identity"
      BY <1>3 DEF SelectIdentity, Stored, AtCallback
    <2>2. CASE callback[c].sub \in DOMAIN identities
      <3>1. PICK user \in Nat : user = identities[callback[c].sub]
        BY <1>0, <2>2
      <3>2. PICK new : new = [callback[c] EXCEPT !.pc = "session", !.user = user]
        OBVIOUS
      <3>3. callback' = [callback EXCEPT ![c] = new]
        BY <1>0, <1>3, <2>2, <3>1, <3>2 DEF SelectIdentity, FindIdentity
      <3>4. /\ new \in CallbackType /\ new.pc = "session" /\ new.state = callback[c].state
            /\ new.sub = callback[c].sub /\ new.user = user
        BY <1>0, <3>1, <3>2 DEF CallbackType
      <3>. QED  BY <1>0, <2>1, <2>2, <3>1, <3>3, <3>4, OneMoves
    <2>3. CASE callback[c].sub \notin DOMAIN identities
      <3>1. PICK new : new = [callback[c] EXCEPT !.pc = "user"]
        OBVIOUS
      <3>2. callback' = [callback EXCEPT ![c] = new]
        BY <1>0, <1>3, <2>3, <3>1 DEF SelectIdentity, FindIdentity, Continue
      <3>3. new \in CallbackType /\ new.pc = "user" /\ new.state = callback[c].state
        BY <1>0, <3>1 DEF CallbackType
      <3>. QED  BY <1>0, <2>1, <3>2, <3>3, OneMoves
    <2>. QED  BY <2>2, <2>3
  <1>4. CASE SelectUser(c)
    <2>1. UNCHANGED <<provider, states, codes, links, identities, accounts, signedIn>>
          /\ callback[c].pc = "user"
      BY <1>4 DEF SelectUser, Stored, AtCallback
    <2>2. CASE callback[c].email \in DOMAIN accounts
      <3>1. PICK user \in Nat : user = accounts[callback[c].email]
        BY <1>0, <2>2
      <3>2. PICK new : new = [callback[c] EXCEPT !.pc = "link", !.user = user]
        OBVIOUS
      <3>3. callback' = [callback EXCEPT ![c] = new]
        BY <1>0, <1>4, <2>2, <3>1, <3>2 DEF SelectUser
      <3>4. /\ new \in CallbackType /\ new.pc = "link" /\ new.state = callback[c].state
            /\ new.email = callback[c].email /\ new.user = user
        BY <1>0, <3>1, <3>2 DEF CallbackType
      <3>. QED  BY <1>0, <2>1, <2>2, <3>1, <3>3, <3>4, OneMoves
    <2>3. CASE callback[c].email \notin DOMAIN accounts
      <3>1. PICK new : new = [callback[c] EXCEPT !.pc = "new user"]
        OBVIOUS
      <3>2. callback' = [callback EXCEPT ![c] = new]
        BY <1>0, <1>4, <2>3, <3>1 DEF SelectUser, Continue
      <3>3. new \in CallbackType /\ new.pc = "new user" /\ new.state = callback[c].state
        BY <1>0, <3>1 DEF CallbackType
      <3>. QED  BY <1>0, <2>1, <3>2, <3>3, OneMoves
    <2>. QED  BY <2>2, <2>3
  <1>5. CASE InsertUser(c)
    <2>1. UNCHANGED <<provider, states, codes, links, identities, signedIn>>
          /\ callback[c].pc = "new user"
      BY <1>5 DEF InsertUser, AtCallback
    <2>2. CASE callback[c].email \in DOMAIN accounts
      BY <1>5, <2>1, <2>2, CallbackDrops DEF InsertUser
    <2>3. CASE callback[c].email \notin DOMAIN accounts
      <3>1. PICK n, e : n = Cardinality(DOMAIN accounts) + 1 /\ e = callback[c].email
        OBVIOUS
      <3>2. /\ n \in Nat /\ IsFiniteSet(DOMAIN Extend(accounts, e, n))
            /\ e \in DOMAIN Extend(accounts, e, n) /\ Extend(accounts, e, n)[e] = n
            /\ \A x \in DOMAIN Extend(accounts, e, n) : Extend(accounts, e, n)[x] \in Nat
            /\ Grows(accounts, Extend(accounts, e, n))
        BY <1>0, <2>3, <3>1, AccountsGrow
      <3>3. accounts' = Extend(accounts, e, n)
        BY <1>5, <2>3, <3>1 DEF InsertUser
      <3>4. PICK new : new = [callback[c] EXCEPT !.pc = "link", !.user = n]
        OBVIOUS
      <3>5. callback' = [callback EXCEPT ![c] = new]
        BY <1>0, <1>5, <2>3, <3>1, <3>4 DEF InsertUser
      <3>6. /\ new \in CallbackType /\ new.pc = "link" /\ new.state = callback[c].state
            /\ new.email = e /\ new.user = n
        BY <1>0, <3>1, <3>2, <3>4 DEF CallbackType
      <3>. QED  BY <1>0, <2>1, <3>2, <3>3, <3>5, <3>6, OneMoves
    <2>. QED  BY <2>2, <2>3
  <1>6. CASE LinkIdentity(c)
    <2>1. UNCHANGED <<provider, states, codes, links, accounts, signedIn>>
          /\ callback[c].pc = "link"
      BY <1>6 DEF LinkIdentity, AtCallback
    <2>2. PICK late \in BOOLEAN : late <=> callback[c].sub \in DOMAIN identities
      <3>1. CASE callback[c].sub \in DOMAIN identities
        BY <3>1
      <3>2. CASE callback[c].sub \notin DOMAIN identities
        BY <3>2
      <3>. QED  BY <3>1, <3>2
    <2>3. PICK new : new = [callback[c] EXCEPT !.pc = "session", !.late = late]
      OBVIOUS
    <2>4. callback' = [callback EXCEPT ![c] = new]
      BY <1>0, <1>6, <2>2, <2>3 DEF LinkIdentity
    <2>5. /\ new \in CallbackType /\ new.pc = "session" /\ new.state = callback[c].state
          /\ new.sub = callback[c].sub /\ new.email = callback[c].email
          /\ new.user = callback[c].user /\ new.user \in Nat
      BY <1>0, <2>2, <2>3 DEF CallbackType
    <2>6. new.late <=> late
      BY <1>0, <2>2, <2>3 DEF CallbackType
    <2>7. new.email \in DOMAIN accounts /\ new.user = accounts[new.email]
      BY <2>1, <2>5 DEF OidcInv, Standing, Known
    <2>8. CASE callback[c].sub \in DOMAIN identities
      <3>1. UNCHANGED identities
        BY <1>6, <2>8 DEF LinkIdentity
      <3>2. new.late
        BY <2>2, <2>6, <2>8
      <3>3. new.sub \in DOMAIN identities'
        BY <2>5, <2>8, <3>1
      <3>. QED  BY <1>0, <2>1, <2>4, <2>5, <2>7, <3>1, <3>2, <3>3, OneMoves
    <2>9. CASE callback[c].sub \notin DOMAIN identities
      <3>1. PICK sub, user : sub = callback[c].sub /\ user = callback[c].user /\ user \in Nat
        BY <2>5
      <3>2. identities' = Extend(identities, sub, user)
        BY <1>6, <2>9, <3>1 DEF LinkIdentity
      <3>3. /\ Grows(identities, identities')
            /\ sub \in DOMAIN identities' /\ identities'[sub] = user
            /\ \A x \in DOMAIN identities' : identities'[x] \in Nat
        BY <1>0, <2>9, <3>1, <3>2 DEF Extend, Grows
      <3>. QED  BY <1>0, <2>1, <2>4, <2>5, <3>1, <3>3, OneMoves
    <2>. QED  BY <2>8, <2>9
  <1>7. CASE CallbackFails(c)
    BY <1>7, CallbackDrops DEF CallbackFails, Stored
  <1>. QED  BY <1>1, <1>2, <1>3, <1>4, <1>5, <1>6, <1>7

LEMMA OidcStep == OidcInv /\ [SignInNext]_signInVars => OidcInv'
  <1>. SUFFICES ASSUME OidcInv, [SignInNext]_signInVars PROVE OidcInv'
    OBVIOUS
  <1>0. OidcTypeOK
    BY DEF OidcInv
  <1>1. CASE PasswordNext \/ UNCHANGED signInVars
    <2>1. UNCHANGED oidcVars
      BY <1>1 DEF PasswordNext, signInVars, oidcVars
    <2>2. OidcTypeOK'
      BY <1>0, <2>1 DEF oidcVars, OidcTypeOK
    <2>. QED  BY <2>1, <2>2, CallbacksMove, NothingGrows DEF oidcVars
  <1>2. ASSUME NEW k \in Clients, AddProvider(k) PROVE OidcInv'
    <2>1. UNCHANGED <<states, codes, links, callback, identities, accounts, signedIn>>
      BY <1>2 DEF AddProvider, Stored
    <2>2. OidcTypeOK'
      BY <1>0, <1>2, <2>1 DEF AddProvider, OidcTypeOK
    <2>. QED  BY <2>1, <2>2, CallbacksMove, NothingGrows
  <1>3. CASE RemoveProvider
    <2>1. UNCHANGED <<states, codes, links, callback, identities, accounts, signedIn>>
      BY <1>3 DEF RemoveProvider, Stored
    <2>2. OidcTypeOK'
      BY <1>0, <1>3, <2>1 DEF RemoveProvider, OidcTypeOK
    <2>. QED  BY <2>1, <2>2, CallbacksMove, NothingGrows
  <1>4. ASSUME NEW s \in States, StartOidc(s) PROVE OidcInv'
    <2>1. /\ UNCHANGED <<provider, codes, links, callback, identities, accounts, signedIn>>
          /\ states' = Extend(states, s, <<s, provider>>) /\ ~\E l \in links : l[1] = s
      BY <1>4 DEF StartOidc, Stored
    <2>2. /\ \A x \in DOMAIN states' : x \in DOMAIN states \/ x = s
          /\ \A x \in DOMAIN states' : states'[x] \in States \X (Clients \cup {NoClient})
      BY <1>0, <2>1 DEF Extend, OidcTypeOK
    <2>3. OidcTypeOK'
      BY <1>0, <2>1, <2>2 DEF OidcTypeOK
    <2>. QED  BY <2>1, <2>2, <2>3, CallbacksMove, NothingGrows
  <1>5. ASSUME NEW s \in States, StateExpires(s) PROVE OidcInv'
    <2>1. /\ UNCHANGED <<provider, codes, links, callback, identities, accounts, signedIn>>
          /\ states' = Without(states, s)
      BY <1>5 DEF StateExpires, Stored
    <2>2. \A x \in DOMAIN states' : x \in DOMAIN states /\ states'[x] = states[x]
      BY <2>1 DEF Without
    <2>3. OidcTypeOK'
      BY <1>0, <2>1, <2>2 DEF OidcTypeOK
    <2>. QED  BY <2>1, <2>2, <2>3, CallbacksMove, NothingGrows
  <1>6. ASSUME NEW s \in States, NEW code \in Codes, NEW sub \in Subjects, NEW e \in Emails,
               Authorize(s, code, sub, e)
        PROVE  OidcInv'
    <2>1. /\ UNCHANGED <<provider, states, callback, identities, accounts, signedIn>>
          /\ links' = links \cup {<<s, code>>} /\ s \in DOMAIN states
      BY <1>6 DEF Authorize, Stored
    <2>2. PICK client \in Clients \cup {NoClient} : client = states[s][2]
      BY <1>0, <2>1 DEF OidcTypeOK
    <2>3. codes' = Extend(codes, code, [nonce |-> s, client |-> client, sub |-> sub, email |-> e])
      BY <1>6, <2>2 DEF Authorize
    <2>4. \A k \in DOMAIN codes' : codes'[k] \in [nonce : States, client : Clients \cup {NoClient},
                                                  sub : Subjects, email : Emails]
      BY <1>0, <2>3 DEF Extend, OidcTypeOK
    <2>5. OidcTypeOK'
      BY <1>0, <2>1, <2>4 DEF OidcTypeOK
    <2>. QED  BY <2>1, <2>5, CallbacksMove, NothingGrows
  <1>7. ASSUME NEW code \in Codes, CodeExpires(code) PROVE OidcInv'
    <2>1. /\ UNCHANGED <<provider, states, links, callback, identities, accounts, signedIn>>
          /\ codes' = Without(codes, code)
      BY <1>7 DEF CodeExpires, Stored
    <2>2. \A x \in DOMAIN codes' : x \in DOMAIN codes /\ codes'[x] = codes[x]
      BY <2>1 DEF Without
    <2>3. OidcTypeOK'
      BY <1>0, <2>1, <2>2 DEF OidcTypeOK
    <2>. QED  BY <2>1, <2>3, CallbacksMove, NothingGrows
  <1>8. ASSUME NEW e \in Emails, RegisterAddress(e) PROVE OidcInv'
    <2>1. /\ UNCHANGED <<provider, states, codes, links, callback, identities, signedIn>>
          /\ e \notin DOMAIN accounts
          /\ accounts' = Extend(accounts, e, Cardinality(DOMAIN accounts) + 1)
      BY <1>8 DEF RegisterAddress
    <2>2. /\ IsFiniteSet(DOMAIN accounts') /\ Grows(accounts, accounts')
          /\ \A x \in DOMAIN accounts' : accounts'[x] \in Nat
      BY <1>0, <2>1, AccountsGrow
    <2>3. OidcTypeOK'
      BY <1>0, <2>1, <2>2 DEF OidcTypeOK
    <2>. QED  BY <2>1, <2>2, <2>3, CallbacksMove, NothingGrows
  <1>9. ASSUME NEW c \in Callbacks, CallbackStep(c) PROVE OidcInv'
    <2>1. ASSUME NEW l \in links, AskCallback(c, l) PROVE OidcInv'
      BY <2>1, StateTaken
    <2>2. CASE OpenSession(c)
      BY <2>2, SessionOpened
    <2>. QED  BY <1>9, <2>1, <2>2, CallbackKept DEF CallbackStep
  <1>. QED  BY <1>1, <1>2, <1>3, <1>4, <1>5, <1>6, <1>7, <1>8, <1>9 DEF SignInNext, OidcNext

(* A state opens one session and a person keeps one account: for any number of *)
(* callbacks side by side, expiries, lost answers, providers and addresses.    *)
THEOREM SessionsAreOneUsers == SignInSpec => []SignInsAreOneUsers
  <1>1. OidcInv => SignInsAreOneUsers
    <2>. SUFFICES ASSUME OidcInv PROVE OneSignInPerState /\ IdentityKeepsUser
      BY DEF SignInsAreOneUsers
    <2>1. \A x \in signedIn : Owned(x)
      BY DEF OidcInv
    <2>. QED  BY <2>1 DEF OidcInv, StatesAreOnes, IdentityKeepsUser, Owned, Known
  <1>. QED  BY <1>1, OidcInitially, OidcStep, PTL DEF SignInSpec

----------------------------------------------------------------------------
(* Tenancy: owners, and what members are let in by *)

Pcs == {"idle", "first workspace", "another workspace", "first session", "scope", "drop",
        "token", "join", "remove", "role", "revoke all"}
OpType == [pc : Pcs, u : Users, w : Scopes, t : Users, r : Roles, from : Scopes]

TenancyTypeOK ==
  /\ op \in [Handlers -> OpType]
  /\ sess \subseteq Users \X Scopes
  /\ tokens \subseteq Users \X Scopes \X Roles
  /\ \A i \in DOMAIN invites :
       /\ DOMAIN invites[i] = {"w", "r", "state"}
       /\ invites[i].w \in WsIds /\ invites[i].r \in Roles

(* Of the members m: t is an owner of w, somebody is, somebody other than t is *)
(* or t is not.                                                               *)
OwnerIn(m, w, t) == At(m, <<w, t>>, "none") = "owner"
HasOwner(m, w) == \E u \in Users : OwnerIn(m, w, u)
Dispensable(m, w, t) == OwnerIn(m, w, t) => \E u \in Users \ {t} : OwnerIn(m, w, u)

(* What a handler that is about to write may rely on. *)
Prepared(o, m) ==
  /\ o.pc = "remove" => Dispensable(m, o.w, o.t)
  /\ o.pc = "role" /\ o.r # "owner" => Dispensable(m, o.w, o.t)
  /\ o.pc \in {"scope", "token"} => <<o.w, o.u>> \in DOMAIN m

AccessOf(ss, ts, m) ==
  /\ \A s \in ss : s[2] # NoWs => <<s[2], s[1]>> \in DOMAIN m
  /\ \A k \in ts : <<k[2], k[1]>> \in DOMAIN m

TenancyInv ==
  /\ TenancyTypeOK
  /\ \A w \in DOMAIN spaces : HasOwner(members, w)
  /\ \A h \in Handlers : Prepared(op[h], members)
  /\ AccessOf(sess, tokens, members)

LEMMA UsersAreFinite ==
  /\ IsFiniteSet(Users) /\ AnyUser \in Users /\ "owner" \in Roles /\ NoWs \in Scopes
  /\ WsIds \subseteq Scopes /\ NoWs \notin WsIds /\ Busy \subseteq WsIds
  <1>1. IsFiniteSet(1 .. MaxUsers)
    BY TenancyAssumption, FS_Interval
  <1>2. 1 \in Users
    BY TenancyAssumption DEF Users
  <1>. QED  BY <1>1, <1>2, TenancyAssumption DEF Users, AnyUser, Scopes, NoWs, WsIds

(* The count of the owners says what it is asked for. *)
LEMMA OwnersCounted ==
  ASSUME NEW w
  PROVE  /\ ownerCount(w) >= 1 <=> HasOwner(members, w)
         /\ \A t \in Users : ~LastOwner(w, t) <=> Dispensable(members, w, t)
  <1>1. PICK O : O = {u \in Users : OwnerIn(members, w, u)}
    OBVIOUS
  <1>2. IsFiniteSet(O) /\ ownerCount(w) = Cardinality(O) /\ O \subseteq Users
    <2>1. O \subseteq Users
      BY <1>1
    <2>2. IsFiniteSet(O)
      BY <2>1, UsersAreFinite, FS_Subset
    <2>. QED  BY <1>1, <2>1, <2>2 DEF ownerCount, OwnerIn
  <1>3. Cardinality(O) \in Nat /\ (Cardinality(O) = 0 <=> O = {})
    BY <1>2, FS_CardinalityType, FS_EmptySet
  <1>4. Cardinality(O) = 1 <=> \E u : O = {u}
    BY <1>2, FS_Singleton
  <1>5. ownerCount(w) >= 1 <=> HasOwner(members, w)
    BY <1>1, <1>2, <1>3 DEF HasOwner
  <1>6. ASSUME NEW t \in Users PROVE ~LastOwner(w, t) <=> Dispensable(members, w, t)
    <2>1. CASE t \notin O
      BY <1>1, <2>1 DEF LastOwner, Dispensable, OwnerIn
    <2>2. CASE t \in O /\ \E u \in Users \ {t} : u \in O
      <3>1. Cardinality(O) # 0 /\ Cardinality(O) # 1
        BY <1>3, <1>4, <2>2
      <3>. QED  BY <1>1, <1>2, <1>3, <2>2, <3>1 DEF LastOwner, Dispensable, OwnerIn
    <2>3. CASE t \in O /\ ~ \E u \in Users \ {t} : u \in O
      <3>1. O = {t}
        BY <1>2, <2>3
      <3>2. Cardinality(O) = 1
        BY <1>4, <3>1
      <3>. QED  BY <1>1, <1>2, <2>3, <3>2 DEF LastOwner, Dispensable, OwnerIn
    <2>. QED  BY <2>1, <2>2, <2>3
  <1>. QED  BY <1>5, <1>6

LEMMA TenancyInitially == TenancyInit => TenancyInv
  <1>. SUFFICES ASSUME TenancyInit PROVE TenancyInv
    OBVIOUS
  <1>1. NoOp(AnyUser) \in OpType /\ NoOp(AnyUser).pc = "idle"
    BY UsersAreFinite DEF NoOp, OpType, Pcs
  <1>. QED  BY <1>1 DEF TenancyInit, TenancyInv, TenancyTypeOK, AccessOf, Prepared, EmptyMap

(* A step that changes neither the members nor the roles they have: only what  *)
(* it begins, and whom it lets in, is to be shown.                            *)
LEMMA MembersStay ==
  ASSUME TenancyInv, UNCHANGED <<spaces, members>>, TenancyTypeOK',
         \/ op' = op
         \/ \E h \in Handlers, o \in OpType : op' = [op EXCEPT ![h] = o] /\ Prepared(o, members),
         AccessOf(sess', tokens', members)
  PROVE  TenancyInv'
  <1>1. ASSUME NEW h \in Handlers PROVE Prepared(op'[h], members)
    BY <1>1 DEF TenancyInv, TenancyTypeOK
  <1>2. ASSUME NEW h \in Handlers PROVE Prepared(op[h], members)'
    BY <1>1, <1>2
  <1>. QED  BY <1>2 DEF TenancyInv, AccessOf

LEMMA Finishes ==
  ASSUME TenancyTypeOK, NEW h \in Handlers, Finish(h)
  PROVE  \E o \in OpType : op' = [op EXCEPT ![h] = o] /\ o.pc = "idle"
  <1>1. PICK o : o = NoOp(AnyUser)
    OBVIOUS
  <1>2. o \in OpType /\ o.pc = "idle"
    BY <1>1, UsersAreFinite DEF NoOp, OpType, Pcs
  <1>. QED  BY <1>1, <1>2 DEF Finish

LEMMA GoesTo ==
  ASSUME TenancyTypeOK, NEW h \in Handlers, NEW pc \in Pcs, Then(h, pc)
  PROVE  \E o \in OpType : /\ op' = [op EXCEPT ![h] = o]
                           /\ o.pc = pc /\ o.u = op[h].u /\ o.w = op[h].w
  <1>1. PICK o : o = [op[h] EXCEPT !.pc = pc]
    OBVIOUS
  <1>2. o \in OpType /\ o.pc = pc /\ o.u = op[h].u /\ o.w = op[h].w
    BY <1>1 DEF TenancyTypeOK, OpType
  <1>3. op' = [op EXCEPT ![h] = o]
    BY <1>1 DEF Then, TenancyTypeOK
  <1>. QED  BY <1>2, <1>3

LEMMA Begins ==
  ASSUME NEW h \in Handlers, NEW pc \in Pcs, NEW u \in Users, NEW w \in Scopes,
         NEW t \in Users, NEW r \in Roles, NEW from \in Scopes, Begin(h, pc, u, w, t, r, from)
  PROVE  \E o \in OpType : /\ op' = [op EXCEPT ![h] = o]
                           /\ o.pc = pc /\ o.u = u /\ o.w = w /\ o.t = t /\ o.r = r
  <1>1. PICK o : o = [pc |-> pc, u |-> u, w |-> w, t |-> t, r |-> r, from |-> from]
    OBVIOUS
  <1>2. o \in OpType /\ o.pc = pc /\ o.u = u /\ o.w = w /\ o.t = t /\ o.r = r
    BY <1>1 DEF OpType
  <1>. QED  BY <1>1, <1>2 DEF Begin

LEMMA Writes ==
  ASSUME TenancyTypeOK, NEW h \in Handlers, NEW o \in OpType, op' = [op EXCEPT ![h] = o],
         sess' \subseteq Users \X Scopes, tokens' \subseteq Users \X Scopes \X Roles,
         \A i \in DOMAIN invites' :
           /\ DOMAIN invites'[i] = {"w", "r", "state"}
           /\ invites'[i].w \in WsIds /\ invites'[i].r \in Roles
  PROVE  TenancyTypeOK'
  BY DEF TenancyTypeOK

(* What the single statements do: they let nobody in, and change invitations. *)
LetsNobodyIn ==
  /\ UNCHANGED <<spaces, members, op>> /\ sess' \subseteq sess /\ tokens' \subseteq tokens
  /\ \/ invites' = invites
     \/ \E i, s : i \in DOMAIN invites /\ invites' = [invites EXCEPT ![i].state = s]
     \/ \E i : \E w \in Busy, r \in Roles :
          invites' = Extend(invites, i, [w |-> w, r |-> r, state |-> "open"])

LEMMA AtOnceKept ==
  ASSUME TenancyInv, (\E u \in Users : AtOnce(u)) \/ (\E i \in DOMAIN invites : InviteExpires(i))
  PROVE  TenancyInv'
  <1>1. LetsNobodyIn
    <2>1. CASE \E i \in DOMAIN invites : InviteExpires(i)
      BY <2>1 DEF InviteExpires, LetsNobodyIn
    <2>2. ASSUME NEW u \in Users, AtOnce(u) PROVE LetsNobodyIn
      <3>1. ASSUME NEW w, Logout(u, w) \/ ChangePassword(u, w) PROVE LetsNobodyIn
        BY <3>1 DEF Logout, ChangePassword, LetsNobodyIn
      <3>2. ASSUME NEW t, RevokeToken(u, t) PROVE LetsNobodyIn
        BY <3>2 DEF RevokeToken, LetsNobodyIn
      <3>3. ASSUME NEW w \in Busy, NEW i, NEW r \in Roles, Invite(u, w, i, r) PROVE LetsNobodyIn
        BY <3>3 DEF Invite, LetsNobodyIn
      <3>4. ASSUME NEW i \in DOMAIN invites, RevokeInvite(u, i) \/ ResendInvite(u, i)
            PROVE  LetsNobodyIn
        BY <3>4 DEF RevokeInvite, ResendInvite, LetsNobodyIn
      <3>5. ASSUME NEW w, NEW t, RevokeSessions(u, w, t) PROVE LetsNobodyIn
        <4>1. sess' \subseteq sess
          BY <3>5 DEF RevokeSessions
        <4>. QED  BY <3>5, <4>1 DEF RevokeSessions, LetsNobodyIn
      <3>. QED  BY <2>2, <3>1, <3>2, <3>3, <3>4, <3>5 DEF AtOnce
    <2>. QED  BY <2>1, <2>2
  <1>2. \A i \in DOMAIN invites' :
          /\ DOMAIN invites'[i] = {"w", "r", "state"}
          /\ invites'[i].w \in WsIds /\ invites'[i].r \in Roles
    <2>1. CASE invites' = invites
      BY <2>1 DEF TenancyInv, TenancyTypeOK
    <2>2. ASSUME NEW i, NEW s, i \in DOMAIN invites, invites' = [invites EXCEPT ![i].state = s],
                 NEW j \in DOMAIN invites'
          PROVE  /\ DOMAIN invites'[j] = {"w", "r", "state"}
                 /\ invites'[j].w \in WsIds /\ invites'[j].r \in Roles
      BY <2>2 DEF TenancyInv, TenancyTypeOK
    <2>3. ASSUME NEW i, NEW w \in Busy, NEW r \in Roles,
                 invites' = Extend(invites, i, [w |-> w, r |-> r, state |-> "open"]),
                 NEW j \in DOMAIN invites'
          PROVE  /\ DOMAIN invites'[j] = {"w", "r", "state"}
                 /\ invites'[j].w \in WsIds /\ invites'[j].r \in Roles
      BY <2>3, UsersAreFinite DEF TenancyInv, TenancyTypeOK, Extend
    <2>. QED  BY <1>1, <2>1, <2>2, <2>3 DEF LetsNobodyIn
  <1>3. TenancyTypeOK'
    BY <1>1, <1>2 DEF TenancyInv, TenancyTypeOK, LetsNobodyIn
  <1>4. AccessOf(sess', tokens', members)
    BY <1>1 DEF TenancyInv, AccessOf, LetsNobodyIn
  <1>. QED  BY <1>1, <1>3, <1>4, MembersStay DEF LetsNobodyIn

(* Whoever is authenticated in a workspace is a member of it. *)
LEMMA CallersAreMembers ==
  ASSUME TenancyInv, NEW u, NEW w, NEW r, w # NoWs, requireAuth(u, w, r)
  PROVE  <<w, u>> \in DOMAIN members
  <1>1. PICK s, k : s = <<u, w>> /\ k = <<u, w, r>>
    OBVIOUS
  <1>2. CASE s \in sess
    BY <1>1, <1>2 DEF TenancyInv, AccessOf
  <1>3. CASE k \in tokens
    BY <1>1, <1>3 DEF TenancyInv, AccessOf
  <1>. QED  BY <1>1, <1>2, <1>3 DEF requireAuth

(* The steps of a handler that leave the members alone. *)
LEMMA HandlerReads ==
  ASSUME TenancyInv, NEW h \in Handlers,
         \/ SlugsTaken(h) \/ FirstSession(h) \/ ScopedSession(h) \/ DropSession(h) \/ InsertToken(h)
         \/ RevokeAll(h) \/ HandlerDies(h)
  PROVE  TenancyInv'
  <1>0. TenancyTypeOK /\ op[h] \in OpType
    BY DEF TenancyInv, TenancyTypeOK
  <1>1. UNCHANGED <<spaces, members, invites>>
    BY DEF SlugsTaken, FirstSession, ScopedSession, DropSession, InsertToken, RevokeAll, HandlerDies
  <1>2. PICK o \in OpType : op' = [op EXCEPT ![h] = o] /\ o.pc \in {"idle", "drop"}
    <2>1. CASE ScopedSession(h)
      <3>1. Then(h, "drop") /\ "drop" \in Pcs
        BY <2>1 DEF ScopedSession, Pcs
      <3>. QED  BY <1>0, <3>1, GoesTo
    <2>2. CASE ~ScopedSession(h)
      <3>1. Finish(h)
        BY <2>2 DEF SlugsTaken, FirstSession, DropSession, InsertToken, RevokeAll, HandlerDies
      <3>. QED  BY <1>0, <3>1, Finishes
    <2>. QED  BY <2>1, <2>2
  <1>3. Prepared(o, members)
    BY <1>2 DEF Prepared
  <1>4. PICK c : c = op[h]
    OBVIOUS
  <1>5. c \in OpType /\ (c.pc \in {"scope", "token"} => <<c.w, c.u>> \in DOMAIN members)
    BY <1>0, <1>4 DEF TenancyInv, Prepared
  <1>6. /\ sess' \subseteq Users \X Scopes /\ tokens' \subseteq Users \X Scopes \X Roles
        /\ AccessOf(sess', tokens', members)
    <2>1. CASE SlugsTaken(h) \/ DropSession(h) \/ RevokeAll(h) \/ HandlerDies(h)
      <3>1. sess' \subseteq sess /\ tokens' = tokens
        BY <2>1 DEF SlugsTaken, DropSession, RevokeAll, HandlerDies
      <3>. QED  BY <3>1 DEF TenancyInv, TenancyTypeOK, AccessOf
    <2>2. CASE FirstSession(h)
      <3>1. sess' = sess \cup {<<c.u, NoWs>>} /\ tokens' = tokens
        BY <1>4, <2>2 DEF FirstSession
      <3>. QED  BY <1>5, <3>1, UsersAreFinite DEF TenancyInv, TenancyTypeOK, AccessOf, OpType
    <2>3. CASE ScopedSession(h)
      <3>1. sess' = sess \cup {<<c.u, c.w>>} /\ tokens' = tokens /\ c.pc = "scope"
        BY <1>4, <2>3 DEF ScopedSession, Due
      <3>. QED  BY <1>5, <3>1 DEF TenancyInv, TenancyTypeOK, AccessOf, OpType
    <2>4. CASE InsertToken(h)
      <3>1. sess' = sess /\ tokens' = tokens \cup {<<c.u, c.w, c.r>>} /\ c.pc = "token"
        BY <1>4, <2>4 DEF InsertToken, Due
      <3>. QED  BY <1>5, <3>1 DEF TenancyInv, TenancyTypeOK, AccessOf, OpType
    <2>. QED  BY <2>1, <2>2, <2>3, <2>4
  <1>7. TenancyTypeOK'
    BY <1>0, <1>1, <1>2, <1>6, Writes DEF TenancyTypeOK
  <1>. QED  BY <1>1, <1>2, <1>3, <1>6, <1>7, MembersStay

(* The steps that only note what is to be done. *)
LEMMA HandlerBegins ==
  ASSUME TenancyInv, NEW h \in Handlers, NEW u \in Users,
         \/ Register(h, u) \/ LoginCorrect(h, u)
         \/ \E from \in Scopes : CreateWorkspace(h, u, from)
         \/ \E w \in Busy, from \in Scopes : SelectWorkspace(h, u, w, from)
         \/ \E w \in Busy, r \in Roles : CreateToken(h, u, w, r)
         \/ \E w \in WsIds, t \in Users : CheckRemove(h, u, w, t)
         \/ \E w \in WsIds, t \in Users, r \in Roles : CheckRole(h, u, w, t, r)
  PROVE  TenancyInv'
  <1>1. UNCHANGED <<spaces, members, sess, tokens, invites>>
    BY DEF Register, LoginCorrect, CreateWorkspace, SelectWorkspace, CreateToken, CheckRemove, CheckRole
  <1>2. ASSUME NEW pc \in Pcs, NEW w \in Scopes, NEW t \in Users, NEW r \in Roles,
               NEW from \in Scopes, Begin(h, pc, u, w, t, r, from),
               pc \in {"remove"} => Dispensable(members, w, t),
               pc = "role" /\ r # "owner" => Dispensable(members, w, t),
               pc \in {"scope", "token"} => <<w, u>> \in DOMAIN members
        PROVE  TenancyInv'
    <2>1. PICK o \in OpType :
            /\ op' = [op EXCEPT ![h] = o]
            /\ o.pc = pc /\ o.u = u /\ o.w = w /\ o.t = t /\ o.r = r
      BY <1>2, Begins
    <2>2. Prepared(o, members)
      BY <1>2, <2>1 DEF Prepared
    <2>3. TenancyTypeOK' /\ AccessOf(sess', tokens', members)
      BY <1>1, <2>1 DEF TenancyInv, TenancyTypeOK
    <2>. QED  BY <1>1, <2>1, <2>2, <2>3, MembersStay
  <1>3. CASE Register(h, u)
    <2>1. Begin(h, "first workspace", u, NoWs, u, "owner", NoWs) /\ "first workspace" \in Pcs
      BY <1>3 DEF Register, Pcs
    <2>. QED  BY <1>2, <2>1, UsersAreFinite
  <1>4. CASE LoginCorrect(h, u)
    <2>1. Begin(h, "first session", u, NoWs, u, "owner", NoWs) /\ "first session" \in Pcs
      BY <1>4 DEF LoginCorrect, Pcs
    <2>. QED  BY <1>2, <2>1, UsersAreFinite
  <1>5. ASSUME NEW from \in Scopes, CreateWorkspace(h, u, from) PROVE TenancyInv'
    <2>1. Begin(h, "another workspace", u, NoWs, u, "owner", from) /\ "another workspace" \in Pcs
      BY <1>5 DEF CreateWorkspace, Pcs
    <2>. QED  BY <1>2, <2>1, UsersAreFinite
  <1>6. ASSUME NEW w \in Busy, NEW from \in Scopes, SelectWorkspace(h, u, w, from) PROVE TenancyInv'
    <2>1. /\ Begin(h, "scope", u, w, u, "owner", from) /\ "scope" \in Pcs
          /\ w \in Scopes /\ <<w, u>> \in DOMAIN members
      BY <1>6, UsersAreFinite DEF SelectWorkspace, Pcs
    <2>. QED  BY <1>2, <2>1, UsersAreFinite
  <1>7. ASSUME NEW w \in Busy, NEW r \in Roles, CreateToken(h, u, w, r) PROVE TenancyInv'
    <2>1. /\ Begin(h, "token", u, w, u, r, NoWs) /\ "token" \in Pcs /\ w \in Scopes
          /\ w # NoWs /\ requireAuth(u, w, r)
      BY <1>7, UsersAreFinite DEF CreateToken, Pcs
    <2>2. <<w, u>> \in DOMAIN members
      BY <2>1, CallersAreMembers
    <2>. QED  BY <1>2, <2>1, <2>2, UsersAreFinite
  <1>8. ASSUME NEW w \in WsIds, NEW t \in Users, CheckRemove(h, u, w, t) PROVE TenancyInv'
    <2>1. /\ Begin(h, "remove", u, w, t, "owner", NoWs) /\ "remove" \in Pcs /\ w \in Scopes
          /\ ~LastOwner(w, t)
      BY <1>8, UsersAreFinite DEF CheckRemove, Pcs
    <2>2. Dispensable(members, w, t)
      BY <2>1, OwnersCounted
    <2>. QED  BY <1>2, <2>1, <2>2, UsersAreFinite
  <1>9. ASSUME NEW w \in WsIds, NEW t \in Users, NEW r \in Roles, CheckRole(h, u, w, t, r)
        PROVE  TenancyInv'
    <2>1. /\ Begin(h, "role", u, w, t, r, NoWs) /\ "role" \in Pcs /\ w \in Scopes
          /\ r # "owner" => ~LastOwner(w, t)
      BY <1>9, UsersAreFinite DEF CheckRole, Pcs
    <2>2. r # "owner" => Dispensable(members, w, t)
      BY <2>1, OwnersCounted
    <2>. QED  BY <1>2, <2>1, <2>2, UsersAreFinite
  <1>. QED  BY <1>3, <1>4, <1>5, <1>6, <1>7, <1>8, <1>9

LEMMA InviteAccepted ==
  ASSUME TenancyInv, NEW h \in Handlers, NEW u \in Users, NEW from \in Scopes,
         NEW i \in DOMAIN invites, AcceptInvite(h, u, from, i)
  PROVE  TenancyInv'
  <1>1. PICK w, r : w = invites[i].w /\ r = invites[i].r
    OBVIOUS
  <1>2. w \in Scopes /\ r \in Roles /\ "join" \in Pcs
    BY <1>1, UsersAreFinite DEF TenancyInv, TenancyTypeOK, Pcs
  <1>3. PICK o \in OpType : op' = [op EXCEPT ![h] = o] /\ o.pc = "join"
    <2>1. Begin(h, "join", u, w, u, r, from)
      BY <1>1 DEF AcceptInvite
    <2>. QED  BY <1>2, <2>1, Begins
  <1>4. UNCHANGED <<spaces, members, sess, tokens>>
    BY DEF AcceptInvite
  <1>5. \A j \in DOMAIN invites' :
          /\ DOMAIN invites'[j] = {"w", "r", "state"}
          /\ invites'[j].w \in WsIds /\ invites'[j].r \in Roles
    <2>1. invites' = [invites EXCEPT ![i].state = "accepted"]
      BY DEF AcceptInvite
    <2>. QED  BY <2>1 DEF TenancyInv, TenancyTypeOK
  <1>6. TenancyTypeOK'
    BY <1>3, <1>4, <1>5 DEF TenancyInv, TenancyTypeOK
  <1>7. Prepared(o, members) /\ AccessOf(sess', tokens', members)
    BY <1>3, <1>4 DEF Prepared, TenancyInv
  <1>. QED  BY <1>3, <1>4, <1>6, <1>7, MembersStay

LEMMA SpaceDeleted ==
  ASSUME TenancyInv, NEW h \in Handlers, NEW u \in Users, NEW w \in Busy, DeleteWorkspace(h, u, w)
  PROVE  TenancyInv'
  <1>1. PICK o \in OpType : op' = [op EXCEPT ![h] = o] /\ o.pc = "revoke all"
    <2>1. PICK pc \in Pcs, r \in Roles, n \in Scopes :
            Begin(h, pc, u, w, u, r, n) /\ pc = "revoke all"
      BY UsersAreFinite DEF DeleteWorkspace, Pcs
    <2>2. w \in Scopes
      BY UsersAreFinite
    <2>3. PICK o : o = [pc |-> pc, u |-> u, w |-> w, t |-> u, r |-> r, from |-> n]
      OBVIOUS
    <2>4. o \in OpType /\ o.pc = pc
      BY <2>2, <2>3 DEF OpType
    <2>5. op' = [op EXCEPT ![h] = o]
      BY <2>1, <2>3 DEF Begin
    <2>. QED  BY <2>1, <2>4, <2>5
  <1>2. UNCHANGED <<members, sess, tokens, invites>> /\ DOMAIN spaces' = DOMAIN spaces
    BY DEF DeleteWorkspace
  <1>3. TenancyTypeOK'
    BY <1>1, <1>2 DEF TenancyInv, TenancyTypeOK
  <1>4. ASSUME NEW g \in Handlers PROVE Prepared(op'[g], members)
    BY <1>1, <1>4 DEF TenancyInv, TenancyTypeOK, Prepared
  <1>5. ASSUME NEW g \in Handlers PROVE Prepared(op[g], members)'
    BY <1>2, <1>4, <1>5
  <1>. QED  BY <1>2, <1>3, <1>5 DEF TenancyInv, AccessOf, HasOwner, OwnerIn

----------------------------------------------------------------------------
(* The steps that change the members, of the one handler there is *)

(* What has to be shown of them. *)
LEMMA MembersChange ==
  ASSUME TenancyInv, \A g, h \in Handlers : g = h, NEW h \in Handlers, NEW o \in OpType,
         op' = [op EXCEPT ![h] = o], Prepared(o, members'), TenancyTypeOK',
         \A w \in DOMAIN spaces' : HasOwner(members', w), AccessOf(sess', tokens', members')
  PROVE  TenancyInv'
  <1>1. ASSUME NEW g \in Handlers PROVE Prepared(op'[g], members')
    BY <1>1 DEF TenancyInv, TenancyTypeOK
  <1>2. ASSUME NEW g \in Handlers PROVE Prepared(op[g], members)'
    BY <1>1, <1>2
  <1>. QED  BY <1>2 DEF TenancyInv, AccessOf, HasOwner, OwnerIn

LEMMA SpaceMade ==
  ASSUME TenancyInv, \A g, h \in Handlers : g = h, NEW h \in Handlers, NEW w \in WsIds,
         FirstWorkspace(h, w) \/ AnotherWorkspace(h, w)
  PROVE  TenancyInv'
  <1>1. PICK c : c = op[h] /\ c \in OpType
    BY DEF TenancyInv, TenancyTypeOK
  <1>2. PICK k, m : k = <<w, c.u>> /\ m = members'
    OBVIOUS
  <1>3. /\ m = Extend(members, k, "owner") /\ spaces' = Extend(spaces, w, "live")
        /\ UNCHANGED <<sess, tokens, invites>>
    BY <1>1, <1>2 DEF FirstWorkspace, AnotherWorkspace, NewSpace
  <1>4. DOMAIN members \subseteq DOMAIN m /\ k \in DOMAIN m /\ m[k] = "owner"
    BY <1>3 DEF Extend
  <1>5. PICK o \in OpType : /\ op' = [op EXCEPT ![h] = o]
                            /\ o.pc = "first session" \/ (o.pc = "scope" /\ o.w = w /\ o.u = c.u)
    <2>1. CASE FirstWorkspace(h, w)
      <3>1. PICK pc \in Pcs : Then(h, pc) /\ pc = "first session"
        BY <2>1 DEF FirstWorkspace, Pcs
      <3>2. PICK o : o = [c EXCEPT !.pc = pc]
        OBVIOUS
      <3>3. o \in OpType /\ o.pc = pc
        BY <1>1, <3>2 DEF OpType
      <3>4. op' = [op EXCEPT ![h] = o]
        BY <1>1, <3>1, <3>2 DEF Then, TenancyInv, TenancyTypeOK
      <3>. QED  BY <3>1, <3>3, <3>4
    <2>2. CASE AnotherWorkspace(h, w)
      <3>1. op' = [op EXCEPT ![h].pc = "scope", ![h].w = w]
        BY <2>2 DEF AnotherWorkspace
      <3>2. PICK o : o = [c EXCEPT !.pc = "scope", !.w = w]
        OBVIOUS
      <3>3. w \in Scopes /\ "scope" \in Pcs
        BY UsersAreFinite DEF Pcs
      <3>4. o \in OpType /\ o.pc = "scope" /\ o.w = w /\ o.u = c.u
        BY <1>1, <3>2, <3>3 DEF OpType
      <3>5. op' = [op EXCEPT ![h] = o]
        BY <1>1, <3>1, <3>2 DEF TenancyInv, TenancyTypeOK
      <3>. QED  BY <3>4, <3>5
    <2>. QED  BY <2>1, <2>2
  <1>6. Prepared(o, m)
    BY <1>2, <1>4, <1>5 DEF Prepared
  <1>7. ASSUME NEW x \in DOMAIN spaces' PROVE HasOwner(m, x)
    <2>1. CASE x = w
      <3>1. c.u \in Users /\ OwnerIn(m, x, c.u)
        BY <1>1, <1>2, <1>4, <2>1 DEF OpType, OwnerIn, At
      <3>. QED  BY <3>1 DEF HasOwner
    <2>2. CASE x # w
      <3>1. HasOwner(members, x)
        BY <1>3, <1>7, <2>2 DEF TenancyInv, Extend
      <3>2. PICK u \in Users : OwnerIn(members, x, u)
        BY <3>1 DEF HasOwner
      <3>3. PICK l : l = <<x, u>>
        OBVIOUS
      <3>4. At(m, l, "none") = "owner"
        <4>1. At(members, l, "none") = "owner"
          BY <3>2, <3>3 DEF OwnerIn
        <4>. QED  BY <1>3, <4>1 DEF At, Extend
      <3>5. OwnerIn(m, x, u)
        BY <3>3, <3>4 DEF OwnerIn
      <3>. QED  BY <3>5 DEF HasOwner
    <2>. QED  BY <2>1, <2>2
  <1>8. TenancyTypeOK'
    BY <1>3, <1>5 DEF TenancyInv, TenancyTypeOK
  <1>9. AccessOf(sess', tokens', m)
    BY <1>3, <1>4 DEF TenancyInv, AccessOf
  <1>. QED  BY <1>2, <1>5, <1>6, <1>7, <1>8, <1>9, MembersChange

LEMMA MemberJoined ==
  ASSUME TenancyInv, \A g, h \in Handlers : g = h, NEW h \in Handlers, Join(h)
  PROVE  TenancyInv'
  <1>1. PICK c : c = op[h] /\ c \in OpType
    BY DEF TenancyInv, TenancyTypeOK
  <1>2. PICK k, m : k = <<c.w, c.u>> /\ m = members'
    OBVIOUS
  <1>3. /\ m = IF k \in DOMAIN members THEN members ELSE Extend(members, k, c.r)
        /\ UNCHANGED <<spaces, sess, tokens, invites>>
    BY <1>1, <1>2 DEF Join
  <1>4. /\ DOMAIN members \subseteq DOMAIN m /\ k \in DOMAIN m
        /\ \A x \in DOMAIN members : m[x] = members[x]
    BY <1>3 DEF Extend
  <1>5. PICK o \in OpType : op' = [op EXCEPT ![h] = o] /\ o.pc = "scope" /\ o.w = c.w /\ o.u = c.u
    <2>1. PICK pc \in Pcs : Then(h, pc) /\ pc = "scope"
      BY DEF Join, Pcs
    <2>2. PICK o : o = [c EXCEPT !.pc = pc]
      OBVIOUS
    <2>3. o \in OpType /\ o.pc = pc /\ o.w = c.w /\ o.u = c.u
      BY <1>1, <2>2 DEF OpType
    <2>4. op' = [op EXCEPT ![h] = o]
      BY <1>1, <2>1, <2>2 DEF Then, TenancyInv, TenancyTypeOK
    <2>. QED  BY <2>1, <2>3, <2>4
  <1>6. Prepared(o, m)
    BY <1>2, <1>4, <1>5 DEF Prepared
  <1>7. ASSUME NEW x \in DOMAIN spaces' PROVE HasOwner(m, x)
    <2>1. PICK u \in Users : OwnerIn(members, x, u)
      BY <1>3, <1>7 DEF TenancyInv, HasOwner
    <2>2. PICK l : l = <<x, u>>
      OBVIOUS
    <2>3. At(members, l, "none") = "owner"
      BY <2>1, <2>2 DEF OwnerIn
    <2>4. At(m, l, "none") = "owner"
      BY <1>4, <2>3 DEF At
    <2>5. OwnerIn(m, x, u)
      BY <2>2, <2>4 DEF OwnerIn
    <2>. QED  BY <2>5 DEF HasOwner
  <1>8. TenancyTypeOK'
    BY <1>3, <1>5 DEF TenancyInv, TenancyTypeOK
  <1>9. AccessOf(sess', tokens', m)
    BY <1>3, <1>4 DEF TenancyInv, AccessOf
  <1>. QED  BY <1>2, <1>5, <1>6, <1>7, <1>8, <1>9, MembersChange

(* An owner whom the workspace can spare goes, or steps down. *)
LEMMA OwnerSpared ==
  ASSUME NEW m, NEW n, NEW w, NEW t, Dispensable(m, w, t),
         \A x, u : <<x, u>> # <<w, t>> => At(n, <<x, u>>, "none") = At(m, <<x, u>>, "none"),
         NEW x, HasOwner(m, x)
  PROVE  HasOwner(n, x)
  <1>1. PICK u \in Users : OwnerIn(m, x, u) /\ <<x, u>> # <<w, t>>
    <2>1. PICK u \in Users : OwnerIn(m, x, u)
      BY DEF HasOwner
    <2>2. CASE <<x, u>> # <<w, t>>
      BY <2>1, <2>2
    <2>3. CASE <<x, u>> = <<w, t>>
      <3>1. x = w /\ u = t
        BY <2>3
      <3>2. PICK v \in Users \ {t} : OwnerIn(m, w, v)
        BY <2>1, <3>1 DEF Dispensable
      <3>3. <<x, v>> # <<w, t>>
        BY <3>2
      <3>. QED  BY <3>1, <3>2, <3>3
    <2>. QED  BY <2>2, <2>3
  <1>2. OwnerIn(n, x, u)
    BY <1>1 DEF OwnerIn
  <1>. QED  BY <1>2 DEF HasOwner

LEMMA MemberRemoved ==
  ASSUME TenancyInv, \A g, h \in Handlers : g = h, NEW h \in Handlers, RemoveMember(h)
  PROVE  TenancyInv'
  <1>1. PICK c : c = op[h] /\ c \in OpType /\ c.pc = "remove"
    BY DEF TenancyInv, TenancyTypeOK, RemoveMember, Due
  <1>2. PICK w, t, k, m : w = c.w /\ t = c.t /\ k = <<w, t>> /\ m = members'
    OBVIOUS
  <1>3. PICK o \in OpType : op' = [op EXCEPT ![h] = o] /\ o.pc = "idle"
    BY Finishes DEF TenancyInv, RemoveMember
  <1>4. Prepared(o, m)
    BY <1>3 DEF Prepared
  <1>5. UNCHANGED <<spaces, invites>>
    BY DEF RemoveMember
  <1>6. CASE k \in DOMAIN members
    <2>1. /\ m = Without(members, k)
          /\ tokens' = {x \in tokens : ~(x[1] = t /\ x[2] = w)} /\ sess' = sess \ {<<t, w>>}
      BY <1>1, <1>2, <1>6 DEF RemoveMember
    <2>2. Dispensable(members, w, t)
      BY <1>1, <1>2 DEF TenancyInv, Prepared
    <2>3. ASSUME NEW x, NEW u, <<x, u>> # <<w, t>>
          PROVE  At(m, <<x, u>>, "none") = At(members, <<x, u>>, "none")
      <3>1. PICK l : l = <<x, u>>
        OBVIOUS
      <3>2. At(m, l, "none") = At(members, l, "none")
        BY <1>2, <2>1, <2>3, <3>1 DEF At, Without
      <3>. QED  BY <3>1, <3>2
    <2>4. ASSUME NEW x \in DOMAIN spaces' PROVE HasOwner(m, x)
      <3>1. HasOwner(members, x)
        BY <1>5, <2>4 DEF TenancyInv
      <3>2. PICK n : n = members
        OBVIOUS
      <3>3. /\ Dispensable(n, w, t) /\ HasOwner(n, x)
            /\ \A y, u : <<y, u>> # <<w, t>> => At(m, <<y, u>>, "none") = At(n, <<y, u>>, "none")
        BY <2>2, <2>3, <3>1, <3>2
      <3>. QED  BY <3>3, OwnerSpared
    <2>5. AccessOf(sess', tokens', m)
      <3>1. ASSUME NEW s \in sess', s[2] # NoWs PROVE <<s[2], s[1]>> \in DOMAIN m
        <4>1. s \in sess /\ s # <<t, w>> /\ s = <<s[1], s[2]>>
          BY <2>1, <3>1 DEF TenancyInv, TenancyTypeOK
        <4>2. <<s[2], s[1]>> \in DOMAIN members
          BY <3>1, <4>1 DEF TenancyInv, AccessOf
        <4>3. <<s[2], s[1]>> # k
          BY <1>2, <4>1
        <4>. QED  BY <2>1, <4>2, <4>3 DEF Without
      <3>2. ASSUME NEW x \in tokens' PROVE <<x[2], x[1]>> \in DOMAIN m
        <4>1. x \in tokens /\ ~(x[1] = t /\ x[2] = w)
          BY <2>1, <3>2
        <4>2. <<x[2], x[1]>> \in DOMAIN members
          BY <4>1 DEF TenancyInv, AccessOf
        <4>3. <<x[2], x[1]>> # k
          BY <1>2, <4>1
        <4>. QED  BY <2>1, <4>2, <4>3 DEF Without
      <3>. QED  BY <3>1, <3>2 DEF AccessOf
    <2>6. TenancyTypeOK'
      BY <1>3, <1>5, <2>1 DEF TenancyInv, TenancyTypeOK
    <2>. QED  BY <1>2, <1>3, <1>4, <2>4, <2>5, <2>6, MembersChange
  <1>7. CASE k \notin DOMAIN members
    <2>1. UNCHANGED <<members, tokens, sess>>
      BY <1>1, <1>2, <1>7 DEF RemoveMember
    <2>2. TenancyTypeOK'
      BY <1>3, <1>5, <2>1 DEF TenancyInv, TenancyTypeOK
    <2>3. Prepared(o, members) /\ AccessOf(sess', tokens', members)
      BY <1>2, <1>4, <2>1 DEF TenancyInv
    <2>. QED  BY <1>3, <1>5, <2>1, <2>2, <2>3, MembersStay
  <1>. QED  BY <1>6, <1>7

LEMMA RoleChanged ==
  ASSUME TenancyInv, \A g, h \in Handlers : g = h, NEW h \in Handlers, ChangeRole(h)
  PROVE  TenancyInv'
  <1>1. PICK c : c = op[h] /\ c \in OpType /\ c.pc = "role"
    BY DEF TenancyInv, TenancyTypeOK, ChangeRole, Due
  <1>2. PICK w, t, k, m : w = c.w /\ t = c.t /\ k = <<w, t>> /\ m = members'
    OBVIOUS
  <1>3. PICK o \in OpType : op' = [op EXCEPT ![h] = o] /\ o.pc = "idle"
    BY Finishes DEF TenancyInv, ChangeRole
  <1>4. Prepared(o, m)
    BY <1>3 DEF Prepared
  <1>5. /\ UNCHANGED <<spaces, invites, sess, tokens>>
        /\ m = IF k \in DOMAIN members THEN [members EXCEPT ![k] = c.r] ELSE members
    BY <1>1, <1>2 DEF ChangeRole
  <1>6. DOMAIN m = DOMAIN members
    BY <1>5
  <1>7. ASSUME NEW x, NEW u, <<x, u>> # <<w, t>>
        PROVE  At(m, <<x, u>>, "none") = At(members, <<x, u>>, "none")
    <2>1. PICK l : l = <<x, u>>
      OBVIOUS
    <2>2. At(m, l, "none") = At(members, l, "none")
      BY <1>2, <1>5, <1>7, <2>1 DEF At
    <2>. QED  BY <2>1, <2>2
  <1>8. ASSUME NEW x \in DOMAIN spaces' PROVE HasOwner(m, x)
    <2>1. HasOwner(members, x)
      BY <1>5, <1>8 DEF TenancyInv
    <2>2. PICK n : n = members
      OBVIOUS
    <2>3. CASE c.r # "owner"
      <3>1. /\ Dispensable(n, w, t) /\ HasOwner(n, x)
            /\ \A y, u : <<y, u>> # <<w, t>> => At(m, <<y, u>>, "none") = At(n, <<y, u>>, "none")
        BY <1>1, <1>2, <1>7, <2>1, <2>2, <2>3 DEF TenancyInv, Prepared
      <3>. QED  BY <3>1, OwnerSpared
    <2>4. CASE c.r = "owner"
      <3>1. PICK u \in Users : OwnerIn(members, x, u)
        BY <2>1 DEF HasOwner
      <3>2. PICK l : l = <<x, u>>
        OBVIOUS
      <3>3. At(members, l, "none") = "owner"
        BY <3>1, <3>2 DEF OwnerIn
      <3>4. At(m, l, "none") = "owner"
        BY <1>5, <2>4, <3>3 DEF At
      <3>5. OwnerIn(m, x, u)
        BY <3>2, <3>4 DEF OwnerIn
      <3>. QED  BY <3>5 DEF HasOwner
    <2>. QED  BY <2>3, <2>4
  <1>9. TenancyTypeOK' /\ AccessOf(sess', tokens', m)
    BY <1>3, <1>5, <1>6 DEF TenancyInv, TenancyTypeOK, AccessOf
  <1>. QED  BY <1>2, <1>3, <1>4, <1>8, <1>9, MembersChange

LEMMA TenancyStep ==
  ASSUME TenancyInv, \A g, h \in Handlers : g = h, [TenancyNext]_tenancyVars
  PROVE  TenancyInv'
  <1>1. ASSUME NEW h \in Handlers, Handle(h) PROVE TenancyInv'
    <2>1. ASSUME NEW w \in WsIds, FirstWorkspace(h, w) \/ AnotherWorkspace(h, w) PROVE TenancyInv'
      BY <2>1, SpaceMade
    <2>2. ASSUME NEW u \in Users,
                 \/ Register(h, u) \/ LoginCorrect(h, u)
                 \/ \E from \in Scopes : CreateWorkspace(h, u, from)
                 \/ \E w \in Busy, from \in Scopes : SelectWorkspace(h, u, w, from)
                 \/ \E w \in Busy, r \in Roles : CreateToken(h, u, w, r)
                 \/ \E w \in WsIds, t \in Users : CheckRemove(h, u, w, t)
                 \/ \E w \in WsIds, t \in Users, r \in Roles : CheckRole(h, u, w, t, r)
          PROVE  TenancyInv'
      BY <2>2, HandlerBegins
    <2>3. ASSUME NEW u \in Users, NEW from \in Scopes, NEW i \in DOMAIN invites,
                 AcceptInvite(h, u, from, i)
          PROVE  TenancyInv'
      BY <2>3, InviteAccepted
    <2>4. ASSUME NEW u \in Users, NEW w \in Busy, DeleteWorkspace(h, u, w) PROVE TenancyInv'
      BY <2>4, SpaceDeleted
    <2>. QED  BY <1>1, <2>1, <2>2, <2>3, <2>4, HandlerReads, MemberJoined, MemberRemoved, RoleChanged
              DEF Handle
  <1>2. CASE (\E u \in Users : AtOnce(u)) \/ (\E i \in DOMAIN invites : InviteExpires(i))
    BY <1>2, AtOnceKept
  <1>3. CASE UNCHANGED tenancyVars
    BY <1>3 DEF tenancyVars, TenancyInv, TenancyTypeOK, Prepared, Dispensable, OwnerIn, HasOwner,
                AccessOf
  <1>. QED  BY <1>1, <1>2, <1>3 DEF TenancyNext

(* members.ts:6-7: no operation leaves a workspace without an owner, whatever  *)
(* the accounts, roles, invitations and tokens, and wherever a request dies,   *)
(* as long as one request is served after the other.                          *)
THEOREM OwnersRemain ==
  ASSUME \A g, h \in Handlers : g = h
  PROVE  TenancySpec => []OwnerRemains
  <1>1. TenancyInv => OwnerRemains
    BY OwnersCounted DEF TenancyInv, OwnerRemains
  <1>. QED  BY <1>1, TenancyInitially, TenancyStep, PTL DEF TenancySpec

(* members.ts:8-9: no session and no token outlives the membership it came     *)
(* with, over any sequence of joining, leaving, changes and returning, as long *)
(* as one request is served after the other.                                  *)
THEOREM AccessEndsWithMembership ==
  ASSUME \A g, h \in Handlers : g = h
  PROVE  TenancySpec => []AccessFollowsMembership
  <1>1. TenancyInv => AccessFollowsMembership
    BY DEF TenancyInv, AccessOf, AccessFollowsMembership
  <1>. QED  BY <1>1, TenancyInitially, TenancyStep, PTL DEF TenancySpec

----------------------------------------------------------------------------
(* Pages: what the page of a run shows *)

(* What succeeded stays as it is. *)
Follows(s, z) ==
  \A r \in Runs : s.status[r] = "succeeded" => z.status[r] = "succeeded" /\ z.steps[r] = s.steps[r]

SrvOK(s) ==
  /\ DOMAIN s = {"status", "steps"} /\ DOMAIN s.status = Runs /\ DOMAIN s.steps = Runs

(* An activity holds what it has read of a run, and that is still true of a    *)
(* run that has succeeded.                                                    *)
TaskFields == {"fn", "for", "about", "nav", "pc", "status", "steps", "all", "cards"}
IsTask(t) == DOMAIN t = TaskFields /\ t = [x \in TaskFields |-> t[x]]
TaskOK(t, s) ==
  /\ IsTask(t) /\ t.pc \in Nat \ {0} /\ t.nav \in BOOLEAN
  /\ t.fn = "paint" => t.for \in Runs
  /\ t.fn \in {"cancel", "decide"} => t.for \in Runs \cup {"runs", "approvals"}
  /\ t.all => t.pc # 1
  /\ t.fn = "paint" /\ t.status = "succeeded" =>
       /\ s.status[t.for] = "succeeded"
       /\ t.all => t.steps = s.steps[t.for]

DomFields == {"kind", "run", "status", "steps", "all", "cards", "rows"}
DomOK(d, s) ==
  /\ DOMAIN d = DomFields
  /\ HasDetail(d) => d.run \in Runs
  /\ d.kind = "run" /\ d.status = "succeeded" =>
       /\ s.status[d.run] = "succeeded"
       /\ d.all => d.steps = s.steps[d.run]

BagOK(B, s) == \A t \in DOMAIN B : B[t] \in Nat \ {0} /\ TaskOK(t, s)

Kinds == {"dashboard", "runs", "approvals", "workflow"}
Hashes == Runs \cup Kinds \cup {""}
PageFields == {"user", "hash", "dom", "timer", "tasks", "lost"}
PageOK(p, s) ==
  /\ DOMAIN p = PageFields
  /\ p.hash \in Hashes
  /\ p.timer \in Runs \cup {NoRun} /\ p.lost \in [Runs -> Nat]
  /\ BagOK(p.tasks, s) /\ DomOK(p.dom, s)

(* A timer that is armed, a lost one, or a paint on its way. *)
PaintsAgain(p) ==
  p.timer # NoRun \/ (\E r \in Runs : p.lost[r] > 0) \/ \E t \in DOMAIN p.tasks : t.fn = "paint"

Alive(p) == p.dom.kind = "run" /\ p.user /\ p.dom.status \in Active => PaintsAgain(p)

PagesInv == SrvOK(srv) /\ PageOK(page, srv) /\ Alive(page)

LEMMA PageFollows ==
  ASSUME NEW p, NEW s, NEW z, Follows(s, z), PageOK(p, s)
  PROVE  PageOK(p, z)
  <1>1. ASSUME NEW t, TaskOK(t, s) PROVE TaskOK(t, z)
    BY <1>1 DEF TaskOK, Follows
  <1>2. ASSUME NEW d, DomOK(d, s) PROVE DomOK(d, z)
    BY <1>2 DEF DomOK, Follows, HasDetail
  <1>. QED  BY <1>1, <1>2 DEF PageOK, BagOK

(* Activities end, *)
LEMMA EndOK ==
  ASSUME NEW p, NEW s, PageOK(p, s), NEW t \in DOMAIN p.tasks
  PROVE  /\ PageOK(End(p, t), s)
         /\ \A f \in PageFields \ {"tasks"} : End(p, t)[f] = p[f]
         /\ \A u \in DOMAIN p.tasks : u # t => u \in DOMAIN End(p, t).tasks
  <1>1. PICK B, q : B = p.tasks (-) SetToBag({t}) /\ q = [p EXCEPT !.tasks = B]
    OBVIOUS
  <1>2. /\ DOMAIN q = PageFields /\ q.tasks = B
        /\ \A f \in PageFields \ {"tasks"} : q[f] = p[f]
    BY <1>1 DEF PageOK, PageFields
  <1>3. PICK C : C = [e \in DOMAIN p.tasks |-> IF e \in {t} THEN p.tasks[e] - 1 ELSE p.tasks[e]]
    OBVIOUS
  <1>4. DOMAIN B = {e \in DOMAIN p.tasks : C[e] > 0} /\ \A e \in DOMAIN B : B[e] = C[e]
    <2>1. PICK D : D = SetToBag({t})
      OBVIOUS
    <2>2. DOMAIN D = {t} /\ D[t] = 1
      BY <2>1 DEF SetToBag
    <2>3. C = [e \in DOMAIN p.tasks |-> IF e \in DOMAIN D THEN p.tasks[e] - D[e] ELSE p.tasks[e]]
      BY <1>3, <2>2
    <2>4. B = [e \in {d \in DOMAIN C : C[d] > 0} |-> C[e]]
      BY <1>1, <2>1, <2>3 DEF (-)
    <2>. QED  BY <1>3, <2>4
  <1>5. \A e \in DOMAIN p.tasks : p.tasks[e] \in Nat \ {0} /\ TaskOK(e, s)
    BY DEF PageOK, BagOK
  <1>6. \A e \in DOMAIN p.tasks : C[e] \in Nat /\ (e # t => C[e] > 0)
    BY <1>3, <1>5
  <1>7. BagOK(B, s) /\ \A u \in DOMAIN p.tasks : u # t => u \in DOMAIN B
    BY <1>4, <1>5, <1>6 DEF BagOK
  <1>8. PageOK(q, s)
    BY <1>2, <1>7 DEF PageOK, PageFields
  <1>9. End(p, t) = q
    BY <1>1 DEF End
  <1>. QED  BY <1>2, <1>7, <1>8, <1>9

(* and begin. *)
LEMMA SpawnOK ==
  ASSUME NEW p, NEW s, PageOK(p, s), NEW t, TaskOK(t, s)
  PROVE  /\ PageOK(Spawn(p, t), s)
         /\ \A f \in PageFields \ {"tasks"} : Spawn(p, t)[f] = p[f]
         /\ DOMAIN Spawn(p, t).tasks = DOMAIN p.tasks \cup {t}
  <1>1. PICK B, q : B = p.tasks (+) SetToBag({t}) /\ q = [p EXCEPT !.tasks = B]
    OBVIOUS
  <1>2. /\ DOMAIN q = PageFields /\ q.tasks = B
        /\ \A f \in PageFields \ {"tasks"} : q[f] = p[f]
    BY <1>1 DEF PageOK, PageFields
  <1>3. \A e \in DOMAIN p.tasks : p.tasks[e] \in Nat \ {0} /\ TaskOK(e, s)
    BY DEF PageOK, BagOK
  <1>4. DOMAIN B = DOMAIN p.tasks \cup {t} /\ \A e \in DOMAIN B : B[e] \in Nat \ {0}
    <2>1. PICK D : D = SetToBag({t})
      OBVIOUS
    <2>2. DOMAIN D = {t} /\ \A e \in DOMAIN D : D[e] = 1
      BY <2>1 DEF SetToBag
    <2>3. B = [e \in (DOMAIN p.tasks) \cup (DOMAIN D) |->
                 (IF e \in DOMAIN p.tasks THEN p.tasks[e] ELSE 0)
                 + (IF e \in DOMAIN D THEN D[e] ELSE 0)]
      BY <1>1, <2>1 DEF (+)
    <2>. QED  BY <1>3, <2>2, <2>3
  <1>5. BagOK(B, s)
    BY <1>3, <1>4 DEF BagOK
  <1>6. PageOK(q, s)
    BY <1>2, <1>5 DEF PageOK, PageFields
  <1>7. Spawn(p, t) = q
    BY <1>1 DEF Spawn
  <1>. QED  BY <1>2, <1>4, <1>6, <1>7

(* The content of the page is replaced. *)
LEMMA ShellOK ==
  ASSUME NEW p, NEW s, PageOK(p, s), NEW d, DomOK(d, s)
  PROVE  /\ PageOK(Shell(p, d), s) /\ Shell(p, d).dom = d
         /\ \A f \in PageFields \ {"dom", "tasks"} : Shell(p, d)[f] = p[f]
  <1>1. PICK F : F = [t \in {u \in DOMAIN p.tasks : u.fn = "fill"} |-> p.tasks[t]]
    OBVIOUS
  <1>2. PICK B, q : B = p.tasks (-) F /\ q = [p EXCEPT !.dom = d, !.tasks = B]
    OBVIOUS
  <1>3. /\ DOMAIN q = PageFields /\ q.tasks = B /\ q.dom = d
        /\ \A f \in PageFields \ {"dom", "tasks"} : q[f] = p[f]
    BY <1>2 DEF PageOK, PageFields
  <1>4. \A e \in DOMAIN p.tasks : p.tasks[e] \in Nat \ {0} /\ TaskOK(e, s)
    BY DEF PageOK, BagOK
  <1>5. PICK C : C = [e \in DOMAIN p.tasks |-> IF e \in DOMAIN F THEN p.tasks[e] - F[e] ELSE p.tasks[e]]
    OBVIOUS
  <1>6. B = [e \in {d2 \in DOMAIN C : C[d2] > 0} |-> C[e]]
    BY <1>2, <1>5 DEF (-)
  <1>7. DOMAIN B \subseteq DOMAIN p.tasks /\ \A e \in DOMAIN B : B[e] = C[e] /\ C[e] > 0
    BY <1>5, <1>6
  <1>8. \A e \in DOMAIN p.tasks : C[e] \in Nat
    BY <1>1, <1>4, <1>5
  <1>9. BagOK(B, s)
    BY <1>4, <1>7, <1>8 DEF BagOK
  <1>10. PageOK(q, s)
    BY <1>3, <1>9 DEF PageOK, PageFields
  <1>11. Shell(p, d) = q
    BY <1>1, <1>2 DEF Shell
  <1>. QED  BY <1>3, <1>10, <1>11

(* A page that holds true things and will be painted again. *)
Good(p, s) == PageOK(p, s) /\ Alive(p)

LEMMA ClearOK ==
  ASSUME NEW p, NEW s, PageOK(p, s)
  PROVE  /\ PageOK(clearRunPoll(p), s)
         /\ \A f \in PageFields \ {"timer"} : clearRunPoll(p)[f] = p[f]
  <1>1. PICK q : q = [p EXCEPT !.timer = NoRun]
    OBVIOUS
  <1>2. /\ DOMAIN q = PageFields /\ q.timer = NoRun
        /\ \A f \in PageFields \ {"timer"} : q[f] = p[f]
    BY <1>1 DEF PageOK, PageFields
  <1>3. PageOK(q, s)
    BY <1>2 DEF PageOK, PageFields
  <1>. QED  BY <1>1, <1>2, <1>3 DEF clearRunPoll

(* An activity that has read nothing. *)
LEMMA FreshTask ==
  ASSUME NEW fn, NEW at, NEW nav \in BOOLEAN, NEW s,
         fn = "paint" => at \in Runs,
         fn \in {"cancel", "decide"} => at \in Runs \cup {"runs", "approvals"}
  PROVE  TaskOK(Task(fn, at, nav), s) /\ Task(fn, at, nav).fn = fn
  <1>1. PICK t : t = Task(fn, at, nav)
    OBVIOUS
  <1>2. /\ IsTask(t) /\ t.fn = fn /\ t.for = at /\ t.nav = nav /\ t.pc = 1
        /\ t.status = "none" /\ t.all = FALSE
    BY <1>1 DEF Task, IsTask, TaskFields
  <1>3. TaskOK(t, s)
    BY <1>2 DEF TaskOK
  <1>. QED  BY <1>1, <1>2, <1>3

LEMMA FreshButton ==
  ASSUME NEW fn, NEW at, NEW s, NEW r, fn # "paint",
         fn \in {"cancel", "decide"} => at \in Runs \cup {"runs", "approvals"}
  PROVE  TaskOK(Button(fn, at, r), s)
  <1>1. PICK u : u = [Task(fn, at, FALSE) EXCEPT !.about = r]
    OBVIOUS
  <1>2. /\ IsTask(u) /\ u.fn = fn /\ u.for = at /\ u.nav \in BOOLEAN /\ u.pc = 1
        /\ u.status = "none" /\ u.all = FALSE
    BY <1>1 DEF Task, IsTask, TaskFields
  <1>3. TaskOK(u, s)
    BY <1>2 DEF TaskOK
  <1>. QED  BY <1>1, <1>3 DEF Button

LEMMA FreshDom ==
  ASSUME NEW kind, NEW run, NEW s, kind # "run", kind \in {"loading", "failed"} => run \in Runs
  PROVE  DomOK(Dom(kind, run), s) /\ Dom(kind, run).kind = kind
  BY DEF Dom, DomOK, DomFields, HasDetail

(* A page just rendered shows no run yet. *)
LEMMA RenderOK ==
  ASSUME NEW p, NEW s, PageOK(p, s), NEW a \in Runs \cup Kinds, NEW nav \in BOOLEAN
  PROVE  Good(Render(p, a, nav), s)
  <1>1. CASE a \in Runs
    <2>1. PICK c : c = clearRunPoll(p)
      OBVIOUS
    <2>2. PageOK(c, s)
      BY <2>1, ClearOK
    <2>3. DomOK(Dom("loading", a), s) /\ Dom("loading", a).kind = "loading"
      BY <1>1, FreshDom
    <2>4. PICK d : d = Shell(c, Dom("loading", a))
      OBVIOUS
    <2>5. PageOK(d, s) /\ d.dom = Dom("loading", a)
      BY <2>2, <2>3, <2>4, ShellOK
    <2>6. TaskOK(Task("paint", a, nav), s)
      BY <1>1, FreshTask
    <2>7. PICK e : e = Spawn(d, Task("paint", a, nav))
      OBVIOUS
    <2>8. PageOK(e, s) /\ e.dom = d.dom
      BY <2>5, <2>6, <2>7, SpawnOK DEF PageFields
    <2>9. Render(p, a, nav) = e
      BY <1>1, <2>1, <2>4, <2>7 DEF Render
    <2>. QED  BY <2>3, <2>5, <2>8, <2>9 DEF Good, Alive
  <1>2. CASE a \notin Runs
    <2>1. a \in Kinds /\ a # "run" /\ a \notin {"loading", "failed"}
      BY <1>2 DEF Kinds
    <2>2. DomOK(Dom(a, NoRun), s) /\ Dom(a, NoRun).kind = a
      BY <2>1, FreshDom
    <2>3. PICK d : d = Shell(p, Dom(a, NoRun))
      OBVIOUS
    <2>4. PageOK(d, s) /\ d.dom = Dom(a, NoRun)
      BY <2>2, <2>3, ShellOK
    <2>5. TaskOK(Task("fill", a, nav), s)
      BY FreshTask
    <2>6. PICK e : e = Spawn(d, Task("fill", a, nav))
      OBVIOUS
    <2>7. PageOK(e, s) /\ e.dom = d.dom
      BY <2>4, <2>5, <2>6, SpawnOK DEF PageFields
    <2>8. Render(p, a, nav) = e
      BY <1>2, <2>3, <2>6 DEF Render
    <2>. QED  BY <2>1, <2>2, <2>4, <2>7, <2>8 DEF Good, Alive
  <1>. QED  BY <1>1, <1>2

(* A navigation supersedes the activities, and forgets none of them. *)
LEMMA SupersedeOK ==
  ASSUME NEW p, NEW s, PageOK(p, s)
  PROVE  PageOK([p EXCEPT !.tasks = SupersedeAll(p.tasks)], s)
  <1>1. PICK B : B = p.tasks
    OBVIOUS
  <1>2. BagOK(B, s)
    BY <1>1 DEF PageOK
  <1>3. PICK C : C = SupersedeAll(B)
    OBVIOUS
  <1>4. BagOK(C, s)
    <2>. SUFFICES ASSUME NEW u \in DOMAIN C PROVE C[u] \in Nat \ {0} /\ TaskOK(u, s)
      BY DEF BagOK
    <2>1. PICK t \in DOMAIN B : u = Superseded(t)
      BY <1>3 DEF SupersedeAll
    <2>2. C[u] = Copies(u, B) + Copies([u EXCEPT !.nav = TRUE], B)
      BY <1>3 DEF SupersedeAll
    <2>3. TaskOK(t, s) /\ \A e \in DOMAIN B : B[e] \in Nat \ {0}
      BY <1>2 DEF BagOK
    <2>4. TaskOK(u, s)
      <3>1. u = [t EXCEPT !.nav = FALSE]
        BY <2>1 DEF Superseded
      <3>2. /\ IsTask(u) /\ u.nav = FALSE
            /\ \A f \in TaskFields \ {"nav"} : u[f] = t[f]
        BY <2>3, <3>1 DEF TaskOK, IsTask, TaskFields
      <3>. QED  BY <2>3, <3>2 DEF TaskOK, TaskFields
    <2>5. t = u \/ t = [u EXCEPT !.nav = TRUE]
      <3>1. u = [t EXCEPT !.nav = FALSE]
        BY <2>1 DEF Superseded
      <3>2. t = [x \in TaskFields |-> t[x]]
        BY <2>3 DEF TaskOK, IsTask
      <3>3. CASE t.nav = FALSE
        <4>1. PICK b : b = FALSE
          OBVIOUS
        <4>2. u = [t EXCEPT !.nav = b] /\ t["nav"] = b
          BY <3>1, <3>3, <4>1
        <4>. QED  BY <3>2, <4>2
      <3>4. CASE t.nav = TRUE
        BY <3>1, <3>2, <3>4 DEF TaskFields
      <3>. QED  BY <2>3, <3>3, <3>4 DEF TaskOK
    <2>6. \A e : Copies(e, B) \in Nat /\ (e \in DOMAIN B => Copies(e, B) > 0)
      BY <2>3 DEF Copies, BagIn, BagToSet
    <2>7. PICK m, n : m = Copies(u, B) /\ n = Copies([u EXCEPT !.nav = TRUE], B)
      OBVIOUS
    <2>8. m \in Nat /\ n \in Nat /\ (m > 0 \/ n > 0)
      BY <2>5, <2>6, <2>7
    <2>. QED  BY <2>2, <2>4, <2>7, <2>8
  <1>5. PICK q : q = [p EXCEPT !.tasks = C]
    OBVIOUS
  <1>6. /\ DOMAIN q = PageFields /\ q.tasks = C
        /\ \A f \in PageFields \ {"tasks"} : q[f] = p[f]
    BY <1>5 DEF PageOK, PageFields
  <1>7. PageOK(q, s)
    BY <1>4, <1>6 DEF PageOK, PageFields
  <1>. QED  BY <1>1, <1>3, <1>5, <1>7

LEMMA NavigateOK ==
  ASSUME NEW p, NEW s, PageOK(p, s)
  PROVE  Good(navigate(p), s)
  <1>1. PICK a : a = IF p.hash = "" THEN "dashboard" ELSE p.hash
    OBVIOUS
  <1>2. a \in Runs \cup Kinds
    BY <1>1, PagesAssumption DEF PageOK, Hashes, Kinds
  <1>. QED  BY <1>1, <1>2, SupersedeOK, RenderOK DEF navigate

(* The hash changes: the poll ends, and a user's page is rendered. *)
LEMMA SetHashOK ==
  ASSUME NEW p, NEW s, Good(p, s), NEW a \in Hashes
  PROVE  Good(SetHash(p, a), s)
  <1>1. CASE a = p.hash
    BY <1>1 DEF SetHash
  <1>2. CASE a # p.hash
    <2>1. PICK h : h = [p EXCEPT !.hash = a]
      OBVIOUS
    <2>2. /\ DOMAIN h = PageFields /\ h.hash = a
          /\ \A f \in PageFields \ {"hash"} : h[f] = p[f]
      BY <2>1 DEF Good, PageOK, PageFields
    <2>3. PageOK(h, s)
      BY <2>2 DEF Good, PageOK, PageFields
    <2>4. PICK q : q = clearRunPoll(h)
      OBVIOUS
    <2>5. PageOK(q, s) /\ q.user = h.user
      BY <2>3, <2>4, ClearOK DEF PageFields
    <2>6. h.user = p.user
      BY <2>2 DEF PageFields
    <2>7. SetHash(p, a) = IF p.user THEN navigate(q) ELSE q
      BY <1>2, <2>1, <2>4 DEF SetHash
    <2>8. CASE p.user
      BY <2>5, <2>7, <2>8, NavigateOK
    <2>9. CASE ~p.user
      BY <2>5, <2>6, <2>7, <2>9 DEF Good, Alive
    <2>. QED  BY <2>8, <2>9
  <1>. QED  BY <1>1, <1>2

(* The pages an activity leaves behind. *)
LEMMA EndGood ==
  ASSUME NEW p, NEW s, Good(p, s), NEW t \in DOMAIN p.tasks, t.fn # "paint"
  PROVE  Good(End(p, t), s)
  <1>1. PICK q : q = End(p, t)
    OBVIOUS
  <1>2. /\ PageOK(q, s) /\ \A f \in PageFields \ {"tasks"} : q[f] = p[f]
        /\ \A u \in DOMAIN p.tasks : u # t => u \in DOMAIN q.tasks
    BY <1>1, EndOK DEF Good
  <1>3. q.dom = p.dom /\ q.user = p.user /\ q.timer = p.timer /\ q.lost = p.lost
    BY <1>2 DEF PageFields
  <1>4. PaintsAgain(p) => PaintsAgain(q)
    BY <1>2, <1>3 DEF PaintsAgain
  <1>5. Alive(q)
    BY <1>3, <1>4 DEF Good, Alive
  <1>. QED  BY <1>1, <1>2, <1>5 DEF Good

LEMMA SpawnGood ==
  ASSUME NEW p, NEW s, Good(p, s), NEW u, TaskOK(u, s)
  PROVE  Good(Spawn(p, u), s)
  <1>1. PICK q : q = Spawn(p, u)
    OBVIOUS
  <1>2. /\ PageOK(q, s) /\ \A f \in PageFields \ {"tasks"} : q[f] = p[f]
        /\ DOMAIN q.tasks = DOMAIN p.tasks \cup {u}
    BY <1>1, SpawnOK DEF Good
  <1>3. q.dom = p.dom /\ q.user = p.user /\ q.timer = p.timer /\ q.lost = p.lost
    BY <1>2 DEF PageFields
  <1>4. PaintsAgain(p) => PaintsAgain(q)
    BY <1>2, <1>3 DEF PaintsAgain
  <1>5. Alive(q)
    BY <1>3, <1>4 DEF Good, Alive
  <1>. QED  BY <1>1, <1>2, <1>5 DEF Good

(* An activity goes on as a paint, or a paint begins: the page is alive. *)
LEMMA PaintSpawned ==
  ASSUME NEW p, NEW s, PageOK(p, s), NEW u, TaskOK(u, s), u.fn = "paint"
  PROVE  Good(Spawn(p, u), s) /\ u \in DOMAIN Spawn(p, u).tasks
  BY SpawnOK DEF Good, Alive, PaintsAgain

LEMMA GoGood ==
  ASSUME NEW p, NEW s, PageOK(p, s), NEW t \in DOMAIN p.tasks, NEW u, TaskOK(u, s),
         u.fn = "paint"
  PROVE  Good(Go(p, t, u), s) /\ u \in DOMAIN Go(p, t, u).tasks
  BY EndOK, PaintSpawned DEF Go

LEMMA GoodFollows ==
  ASSUME NEW p, NEW s, NEW z, Follows(s, z), Good(p, s)
  PROVE  Good(p, z)
  BY PageFollows DEF Good

LEMMA PagesInvIsGood == PagesInv <=> SrvOK(srv) /\ Good(page, srv)
  BY DEF PagesInv, Good

LEMMA TasksAreOK ==
  ASSUME PagesInv, NEW t \in Tasks
  PROVE  t \in DOMAIN page.tasks /\ TaskOK(t, srv)
  BY DEF PagesInv, PageOK, BagOK, Tasks, BagToSet

(* The server moves one run. *)
LEMMA StatusMoves ==
  ASSUME SrvOK(srv), NEW r, NEW v, srv.status[r] # "succeeded",
         srv' = [srv EXCEPT !.status[r] = v]
  PROVE  SrvOK(srv') /\ Follows(srv, srv')
  <1>1. PICK z : z = [srv EXCEPT !.status[r] = v]
    OBVIOUS
  <1>2. /\ DOMAIN z = {"status", "steps"} /\ z.steps = srv.steps
        /\ DOMAIN z.status = Runs
        /\ \A x \in Runs : x # r => z.status[x] = srv.status[x]
    BY <1>1 DEF SrvOK
  <1>3. SrvOK(z) /\ Follows(srv, z)
    BY <1>2 DEF SrvOK, Follows
  <1>. QED  BY <1>1, <1>3

LEMMA RunMovesKept == PagesInv /\ RunMoves => PagesInv'
  <1>. SUFFICES ASSUME PagesInv, RunMoves PROVE PagesInv'
    OBVIOUS
  <1>1. SrvOK(srv') /\ Follows(srv, srv')
    <2>1. PICK r \in Runs :
            \/ /\ srv.status[r] \in Active
               /\ \E s \in Active \cup {"succeeded"}, more \in 0 .. 1 :
                    srv' = [srv EXCEPT !.status[r] = s, !.steps[r] = @ + more]
            \/ /\ srv.status[r] = "canceled"
               /\ srv' = [srv EXCEPT !.steps[r] = @ + 1]
      BY DEF RunMoves
    <2>2. srv.status[r] # "succeeded"
      BY <2>1 DEF Active
    <2>3. PICK z : z = srv'
      OBVIOUS
    <2>4. /\ DOMAIN z = {"status", "steps"} /\ DOMAIN z.status = Runs /\ DOMAIN z.steps = Runs
          /\ \A x \in Runs : x # r => z.status[x] = srv.status[x] /\ z.steps[x] = srv.steps[x]
      BY <2>1, <2>3 DEF PagesInv, SrvOK
    <2>5. SrvOK(z) /\ Follows(srv, z)
      BY <2>2, <2>4 DEF SrvOK, Follows
    <2>. QED  BY <2>3, <2>5
  <1>2. page' = page
    BY DEF RunMoves
  <1>. QED  BY <1>1, <1>2, GoodFollows, PagesInvIsGood DEF PagesInv, Good

(* A page loaded anew. *)
LEMMA LoadedOK ==
  ASSUME NEW s, NEW h \in Hashes
  PROVE  Good(Loaded(h), s)
  <1>1. PICK p : p = Loaded(h)
    OBVIOUS
  <1>2. PICK B, t : B = SetToBag({t}) /\ t = Task("boot", h, FALSE)
    OBVIOUS
  <1>3. PICK n : n = [r \in Runs |-> 0]
    OBVIOUS
  <1>4. /\ DOMAIN p = PageFields /\ p.user = FALSE /\ p.hash = h
        /\ p.dom = Dom("blank", NoRun) /\ p.timer = NoRun /\ p.tasks = B /\ p.lost = n
    BY <1>1, <1>2, <1>3 DEF Loaded, PageFields
  <1>5. TaskOK(t, s)
    <2>1. PICK b \in BOOLEAN : b = FALSE
      OBVIOUS
    <2>2. TaskOK(Task("boot", h, b), s)
      BY FreshTask
    <2>. QED  BY <1>2, <2>1, <2>2
  <1>6. BagOK(B, s)
    <2>1. DOMAIN B = {t} /\ B[t] = 1
      BY <1>2 DEF SetToBag
    <2>. QED  BY <1>5, <2>1 DEF BagOK
  <1>7. DomOK(p.dom, s)
    BY <1>4, FreshDom
  <1>8. PageOK(p, s)
    BY <1>3, <1>4, <1>6, <1>7 DEF PageOK
  <1>. QED  BY <1>1, <1>4, <1>8 DEF Good, Alive

LEMMA ReloadKept == PagesInv /\ Reload => PagesInv'
  <1>. SUFFICES ASSUME PagesInv, Reload PROVE PagesInv'
    OBVIOUS
  <1>1. page.hash \in Hashes
    BY DEF PagesInv, PageOK
  <1>2. page' = Loaded(page.hash) /\ srv' = srv
    BY DEF Reload
  <1>. QED  BY <1>1, <1>2, LoadedOK DEF PagesInv, Good

LEMMA BootKept == PagesInv /\ BootAnswered => PagesInv'
  <1>. SUFFICES ASSUME PagesInv, BootAnswered PROVE PagesInv'
    OBVIOUS
  <1>1. srv' = srv
    BY DEF BootAnswered
  <1>2. PICK t \in Tasks :
          \/ page' = navigate([End(page, t) EXCEPT !.user = TRUE])
          \/ page' = Shell(End(page, t), Dom("auth", NoRun))
    BY DEF BootAnswered
  <1>3. PICK e : e = End(page, t)
    OBVIOUS
  <1>4. PageOK(e, srv)
    BY <1>3, TasksAreOK, EndOK DEF PagesInv
  <1>5. ASSUME page' = navigate([e EXCEPT !.user = TRUE]) PROVE Good(page', srv)
    <2>1. PICK q : q = [e EXCEPT !.user = TRUE]
      OBVIOUS
    <2>2. DOMAIN q = PageFields /\ \A f \in PageFields \ {"user"} : q[f] = e[f]
      BY <1>4, <2>1 DEF PageOK, PageFields
    <2>3. PageOK(q, srv)
      BY <1>4, <2>2 DEF PageOK, PageFields
    <2>. QED  BY <1>5, <2>1, <2>3, NavigateOK
  <1>6. ASSUME page' = Shell(e, Dom("auth", NoRun)) PROVE Good(page', srv)
    <2>1. DomOK(Dom("auth", NoRun), srv) /\ Dom("auth", NoRun).kind = "auth"
      BY FreshDom
    <2>2. PageOK(page', srv) /\ page'.dom = Dom("auth", NoRun)
      BY <1>4, <1>6, <2>1, ShellOK
    <2>. QED  BY <2>1, <2>2 DEF Good, Alive
  <1>7. Good(page', srv)
    BY <1>2, <1>3, <1>5, <1>6
  <1>. QED  BY <1>1, <1>7 DEF PagesInv, Good

(* The user of the page changes. *)
LEMMA UserSet ==
  ASSUME NEW p, NEW s, PageOK(p, s), NEW b
  PROVE  /\ PageOK([p EXCEPT !.user = b], s) /\ [p EXCEPT !.user = b].user = b
         /\ [p EXCEPT !.user = b].dom = p.dom
  <1>1. PICK q : q = [p EXCEPT !.user = b]
    OBVIOUS
  <1>2. DOMAIN q = PageFields /\ q.user = b /\ \A f \in PageFields \ {"user"} : q[f] = p[f]
    BY <1>1 DEF PageOK, PageFields
  <1>3. PageOK(q, s) /\ q.dom = p.dom
    BY <1>2 DEF PageOK, PageFields
  <1>. QED  BY <1>1, <1>2, <1>3

LEMMA NoHash == "" \in Hashes
  BY DEF Hashes

LEMMA SignedInKept == PagesInv /\ SignedIn => PagesInv'
  <1>. SUFFICES ASSUME PagesInv, SignedIn PROVE PagesInv'
    OBVIOUS
  <1>1. PICK q : q = [page EXCEPT !.user = TRUE]
    OBVIOUS
  <1>2. page' = SetHash(q, "dashboard") /\ srv' = srv /\ page.dom.kind = "auth"
    BY <1>1 DEF SignedIn
  <1>3. PageOK(q, srv) /\ q.dom = page.dom
    BY <1>1, UserSet DEF PagesInv
  <1>4. Good(q, srv)
    BY <1>2, <1>3 DEF Good, Alive
  <1>5. "dashboard" \in Hashes
    BY Zenon DEF Hashes, Kinds
  <1>. QED  BY <1>2, <1>4, <1>5, SetHashOK DEF PagesInv, Good

LEMMA LoggedOutKept == PagesInv /\ LoggedOut => PagesInv'
  <1>. SUFFICES ASSUME PagesInv, LoggedOut PROVE PagesInv'
    OBVIOUS
  <1>1. PICK q, h : q = [page EXCEPT !.user = FALSE] /\ h = ""
    OBVIOUS
  <1>2. page' = SetHash(q, h) /\ srv' = srv
    BY <1>1 DEF LoggedOut
  <1>3. PageOK(q, srv) /\ q.user = FALSE
    BY <1>1, UserSet DEF PagesInv
  <1>4. Good(q, srv) /\ h \in Hashes
    BY <1>1, <1>3, NoHash DEF Good, Alive
  <1>. QED  BY <1>2, <1>4, SetHashOK DEF PagesInv, Good

LEMMA FollowLinkKept == PagesInv /\ FollowLink => PagesInv'
  <1>. SUFFICES ASSUME PagesInv, FollowLink PROVE PagesInv'
    OBVIOUS
  <1>0. Addresses \subseteq Hashes
    BY Zenon, PagesAssumption DEF Addresses, Hashes, Kinds
  <1>1. PICK a \in Hashes : page' = SetHash(page, a)
    BY <1>0 DEF FollowLink
  <1>2. srv' = srv
    BY DEF FollowLink
  <1>. QED  BY <1>1, <1>2, SetHashOK DEF PagesInv, Good

LEMMA FilledKept == PagesInv /\ (Filled \/ FillFails) => PagesInv'
  <1>. SUFFICES ASSUME PagesInv, Filled \/ FillFails PROVE PagesInv'
    OBVIOUS
  <1>1. srv' = srv
    BY DEF Filled, FillFails
  <1>2. PICK t \in Tasks :
          /\ t.fn = "fill"
          /\ page' = End(page, t) \/ \E R : page' = [End(page, t) EXCEPT !.dom.rows = R]
    BY DEF Filled, FillFails
  <1>3. PICK e : e = End(page, t)
    OBVIOUS
  <1>4. Good(e, srv)
    BY <1>2, <1>3, TasksAreOK, EndGood DEF PagesInv, Good
  <1>5. ASSUME NEW R, page' = [e EXCEPT !.dom.rows = R] PROVE Good(page', srv)
    <2>1. PICK d, q : d = [e.dom EXCEPT !.rows = R] /\ q = [e EXCEPT !.dom = d]
      OBVIOUS
    <2>2. page' = q
      BY <1>5, <2>1
    <2>3. /\ DOMAIN d = DomFields /\ d.kind = e.dom.kind /\ d.run = e.dom.run
          /\ d.status = e.dom.status /\ d.all = e.dom.all /\ d.steps = e.dom.steps
      BY <1>4, <2>1 DEF Good, PageOK, DomOK, DomFields
    <2>4. DomOK(d, srv)
      BY <1>4, <2>3 DEF Good, PageOK, DomOK, HasDetail
    <2>5. DOMAIN q = PageFields /\ q.dom = d /\ \A f \in PageFields \ {"dom"} : q[f] = e[f]
      BY <1>4, <2>1 DEF Good, PageOK, PageFields
    <2>6. PageOK(q, srv)
      BY <1>4, <2>4, <2>5 DEF Good, PageOK, PageFields
    <2>7. PaintsAgain(e) => PaintsAgain(q)
      BY <2>5 DEF PaintsAgain, PageFields
    <2>8. q.user = e.user
      BY <2>5 DEF PageFields
    <2>. QED  BY <1>4, <2>2, <2>3, <2>5, <2>6, <2>7, <2>8 DEF Good, Alive
  <1>. QED  BY <1>1, <1>2, <1>3, <1>4, <1>5 DEF PagesInv, Good

LEMMA ClickKept == PagesInv /\ Click => PagesInv'
  <1>. SUFFICES ASSUME PagesInv, Click PROVE PagesInv'
    OBVIOUS
  <1>1. srv' = srv
    BY DEF Click
  <1>2. page.dom.kind = "run" => page.dom.run \in Runs
    BY DEF PagesInv, PageOK, DomOK, HasDetail
  <1>3. PICK u : page' = Spawn(page, u) /\ TaskOK(u, srv)
    <2>. DEFINE d == page.dom
    <2>1. ASSUME NEW r PROVE /\ TaskOK(Button("cancel", "runs", r), srv)
                             /\ TaskOK(Button("decide", "approvals", r), srv)
                             /\ TaskOK(Button("trigger", "workflow", r), srv)
                             /\ TaskOK(Button("toggle", "workflow", r), srv)
      BY FreshButton
    <2>2. ASSUME NEW x \in Runs PROVE /\ TaskOK(Button("cancel", x, x), srv)
                                      /\ TaskOK(Button("decide", x, x), srv)
      BY FreshButton
    <2>3. ASSUME NEW x \in Runs PROVE TaskOK(Task("paint", x, FALSE), srv)
      <3>1. PICK b \in BOOLEAN : b = FALSE
        OBVIOUS
      <3>2. TaskOK(Task("paint", x, b), srv)
        BY FreshTask
      <3>. QED  BY <3>1, <3>2
    <2>4. CASE d.kind = "runs" /\ \E r \in d.rows : page' = Spawn(page, Button("cancel", "runs", r))
      BY <2>1, <2>4
    <2>5. CASE d.kind = "approvals"
               /\ \E r \in d.rows : page' = Spawn(page, Button("decide", "approvals", r))
      BY <2>1, <2>5
    <2>6. CASE \E fn \in {"trigger", "toggle"} : page' = Spawn(page, Button(fn, "workflow", NoRun))
      BY <2>1, <2>6
    <2>7. CASE d.kind = "run" /\ page' = Spawn(page, Button("cancel", d.run, d.run))
      BY <1>2, <2>2, <2>7
    <2>8. CASE d.kind = "run" /\ page' = Spawn(page, Button("decide", d.run, d.run))
      BY <1>2, <2>2, <2>8
    <2>9. CASE d.kind = "run" /\ page' = Spawn(page, Task("paint", d.run, FALSE))
      BY <1>2, <2>3, <2>9
    <2>. QED  BY <2>4, <2>5, <2>6, <2>7, <2>8, <2>9 DEF Click
  <1>. QED  BY <1>1, <1>3, SpawnGood DEF PagesInv, Good

(* A paint to be sent, of a run. *)
LEMMA FreshPaint ==
  ASSUME NEW x \in Runs, NEW s
  PROVE  TaskOK(Task("paint", x, FALSE), s) /\ Task("paint", x, FALSE).fn = "paint"
  <1>1. PICK b \in BOOLEAN : b = FALSE
    OBVIOUS
  <1>2. TaskOK(Task("paint", x, b), s) /\ Task("paint", x, b).fn = "paint"
    BY FreshTask
  <1>. QED  BY <1>1, <1>2

LEMMA RenderAgain ==
  ASSUME NEW p, NEW s, PageOK(p, s), NEW a \in Runs \cup Kinds
  PROVE  Good(Render(p, a, FALSE), s)
  <1>1. PICK b \in BOOLEAN : b = FALSE
    OBVIOUS
  <1>2. Good(Render(p, a, b), s)
    BY RenderOK
  <1>. QED  BY <1>1, <1>2

LEMMA CancelKept == PagesInv /\ CancelAnswered => PagesInv'
  <1>. SUFFICES ASSUME PagesInv, CancelAnswered PROVE PagesInv'
    OBVIOUS
  <1>1. PICK t \in Tasks :
          /\ t.fn = "cancel"
          /\ \/ /\ srv.status[t.about] \in Active
                /\ srv' = [srv EXCEPT !.status[t.about] = "canceled"]
                /\ page' = IF t.for \in Runs THEN Go(page, t, Task("paint", t.for, FALSE))
                           ELSE Render(End(page, t), t.for, FALSE)
             \/ page' = End(page, t) /\ srv' = srv
    BY DEF CancelAnswered
  <1>2. t \in DOMAIN page.tasks /\ t.for \in Runs \cup Kinds
    BY <1>1, TasksAreOK DEF TaskOK, Kinds
  <1>3. ASSUME page' = End(page, t), srv' = srv PROVE PagesInv'
    BY <1>1, <1>2, <1>3, EndGood DEF PagesInv, Good
  <1>4. ASSUME srv.status[t.about] \in Active,
               srv' = [srv EXCEPT !.status[t.about] = "canceled"],
               page' = IF t.for \in Runs THEN Go(page, t, Task("paint", t.for, FALSE))
                       ELSE Render(End(page, t), t.for, FALSE)
        PROVE  PagesInv'
    <2>1. SrvOK(srv') /\ Follows(srv, srv')
      BY <1>4, StatusMoves DEF PagesInv, Active
    <2>2. PageOK(page, srv')
      BY <2>1, PageFollows DEF PagesInv
    <2>3. CASE t.for \in Runs
      <3>1. Good(Go(page, t, Task("paint", t.for, FALSE)), srv')
        BY <1>2, <2>2, <2>3, FreshPaint, GoGood
      <3>. QED  BY <1>4, <2>1, <2>3, <3>1 DEF PagesInv, Good
    <2>4. CASE t.for \notin Runs
      <3>1. PageOK(End(page, t), srv')
        BY <1>2, <2>2, EndOK
      <3>2. Good(Render(End(page, t), t.for, FALSE), srv')
        BY <1>2, <3>1, RenderAgain
      <3>. QED  BY <1>4, <2>1, <2>4, <3>2 DEF PagesInv, Good
    <2>. QED  BY <2>3, <2>4
  <1>. QED  BY <1>1, <1>3, <1>4

LEMMA AfterDecisionOK ==
  ASSUME NEW s, PageOK(page, s), Alive(page), NEW t \in DOMAIN page.tasks, t.fn = "decide",
         NEW taken, t.for \in Runs \cup Kinds
  PROVE  Good(AfterDecision(page, t, taken), s)
  <1>1. CASE t.for \in Runs
    <2>1. PICK u, g : u = Task("paint", t.for, FALSE) /\ g = Go(page, t, u)
      OBVIOUS
    <2>2. TaskOK(u, s) /\ u.fn = "paint"
      BY <1>1, <2>1, FreshPaint
    <2>3. PageOK(g, s) /\ u \in DOMAIN g.tasks
      BY <2>1, <2>2, GoGood DEF Good
    <2>4. PICK q : q = clearRunPoll(g)
      OBVIOUS
    <2>5. PageOK(q, s) /\ q.tasks = g.tasks
      BY <2>3, <2>4, ClearOK DEF PageFields
    <2>6. AfterDecision(page, t, taken) = q
      BY <1>1, <2>1, <2>4 DEF AfterDecision
    <2>. QED  BY <2>2, <2>3, <2>5, <2>6 DEF Good, Alive, PaintsAgain
  <1>2. CASE t.for \notin Runs
    <2>1. Good(End(page, t), s)
      BY EndGood DEF Good
    <2>2. Good(Render(End(page, t), t.for, FALSE), s)
      BY <2>1, RenderAgain DEF Good
    <2>. QED  BY <1>2, <2>1, <2>2 DEF AfterDecision
  <1>. QED  BY <1>1, <1>2

LEMMA DecisionKept == PagesInv /\ DecisionAnswered => PagesInv'
  <1>. SUFFICES ASSUME PagesInv, DecisionAnswered PROVE PagesInv'
    OBVIOUS
  <1>1. PICK t \in Tasks :
          /\ t.fn = "decide" /\ \E taken : page' = AfterDecision(page, t, taken)
          /\ \/ srv' = srv
             \/ srv.status[t.about] = "paused" /\ srv' = [srv EXCEPT !.status[t.about] = "running"]
    BY DEF DecisionAnswered
  <1>2. t \in DOMAIN page.tasks /\ t.for \in Runs \cup Kinds
    BY <1>1, TasksAreOK DEF TaskOK, Kinds
  <1>3. SrvOK(srv') /\ Follows(srv, srv')
    <2>1. CASE srv' = srv
      BY <2>1 DEF PagesInv, Follows
    <2>2. CASE srv.status[t.about] = "paused" /\ srv' = [srv EXCEPT !.status[t.about] = "running"]
      BY <2>2, StatusMoves DEF PagesInv
    <2>. QED  BY <1>1, <2>1, <2>2
  <1>4. PageOK(page, srv')
    BY <1>3, PageFollows DEF PagesInv
  <1>5. PICK taken : page' = AfterDecision(page, t, taken)
    BY <1>1
  <1>6. Good(page', srv')
    BY <1>1, <1>2, <1>4, <1>5, AfterDecisionOK DEF PagesInv
  <1>. QED  BY <1>3, <1>6 DEF PagesInv, Good

LEMMA TriggerKept == PagesInv /\ TriggerAnswered => PagesInv'
  <1>. SUFFICES ASSUME PagesInv, TriggerAnswered PROVE PagesInv'
    OBVIOUS
  <1>1. PICK t \in Tasks :
          /\ t.fn = "trigger"
          /\ \/ \E r \in Runs : /\ srv.status[r] = "none"
                                /\ srv' = [srv EXCEPT !.status[r] = "running"]
                                /\ page' = SetHash(End(page, t), r)
             \/ srv' = srv /\ page' = End(page, t)
    BY DEF TriggerAnswered
  <1>2. t \in DOMAIN page.tasks
    BY TasksAreOK
  <1>3. ASSUME srv' = srv, page' = End(page, t) PROVE PagesInv'
    BY <1>1, <1>2, <1>3, EndGood DEF PagesInv, Good
  <1>4. ASSUME NEW r \in Runs, srv.status[r] = "none",
               srv' = [srv EXCEPT !.status[r] = "running"], page' = SetHash(End(page, t), r)
        PROVE  PagesInv'
    <2>1. SrvOK(srv') /\ Follows(srv, srv')
      BY <1>4, StatusMoves DEF PagesInv
    <2>2. Good(page, srv')
      BY <2>1, GoodFollows DEF PagesInv, Good
    <2>3. Good(End(page, t), srv')
      BY <1>1, <1>2, <2>2, EndGood
    <2>4. r \in Hashes
      BY Zenon DEF Hashes
    <2>. QED  BY <1>4, <2>1, <2>3, <2>4, SetHashOK DEF PagesInv, Good
  <1>. QED  BY <1>1, <1>3, <1>4

LEMMA ToggleKept == PagesInv /\ ToggleAnswered => PagesInv'
  <1>. SUFFICES ASSUME PagesInv, ToggleAnswered PROVE PagesInv'
    OBVIOUS
  <1>1. srv' = srv
    BY DEF ToggleAnswered
  <1>2. PICK t \in Tasks :
          t.fn = "toggle" /\ (page' = Render(End(page, t), "workflow", FALSE) \/ page' = End(page, t))
    BY DEF ToggleAnswered
  <1>3. Good(End(page, t), srv)
    BY <1>2, TasksAreOK, EndGood DEF PagesInv, Good
  <1>4. "workflow" \in Runs \cup Kinds
    BY DEF Kinds
  <1>5. Good(Render(End(page, t), "workflow", FALSE), srv)
    BY <1>3, <1>4, RenderAgain DEF Good
  <1>. QED  BY <1>1, <1>2, <1>3, <1>5 DEF PagesInv, Good

(* What a paint reads is true of the run it is for. *)
LEMMA ReadOK ==
  ASSUME NEW t, TaskOK(t, srv), t.fn = "paint", t.pc <= Len(ReadOrder)
  PROVE  TaskOK(Read(t), srv) /\ Read(t).fn = "paint"
  <1>1. t.pc \in {1, 2, 3} /\ ReadOrder[1] = "run" /\ ReadOrder[2] = "steps"
        /\ ReadOrder[3] = "approvals"
    BY DEF TaskOK, ReadOrder
  <1>2. t.for \in Runs
    BY DEF TaskOK
  <1>3. PICK n : n = t.pc + 1
    OBVIOUS
  <1>4. n \in Nat \ {0, 1}
    BY <1>1, <1>3
  <1>5. CASE t.pc = 1
    <2>1. PICK u : u = [t EXCEPT !.pc = n, !.status = srv.status[t.for]]
      OBVIOUS
    <2>2. Read(t) = u
      BY <1>1, <1>3, <1>5, <2>1 DEF Read
    <2>3. /\ IsTask(u) /\ u.pc = n /\ u.nav = t.nav /\ u.fn = "paint" /\ u.for = t.for
          /\ u.status = srv.status[t.for] /\ u.all = t.all
      BY <2>1 DEF TaskOK, IsTask, TaskFields
    <2>4. ~t.all
      BY <1>5 DEF TaskOK
    <2>. QED  BY <1>2, <1>4, <2>2, <2>3, <2>4 DEF TaskOK
  <1>6. CASE t.pc = 2
    <2>1. PICK u : u = [t EXCEPT !.pc = n, !.steps = srv.steps[t.for], !.all = TRUE]
      OBVIOUS
    <2>2. Read(t) = u
      BY <1>1, <1>3, <1>6, <2>1 DEF Read
    <2>3. /\ IsTask(u) /\ u.pc = n /\ u.nav = t.nav /\ u.fn = "paint" /\ u.for = t.for
          /\ u.status = t.status /\ u.steps = srv.steps[t.for]
      BY <2>1 DEF TaskOK, IsTask, TaskFields
    <2>. QED  BY <1>2, <1>4, <2>2, <2>3 DEF TaskOK
  <1>7. CASE t.pc = 3
    <2>1. PICK c : c = (srv.status[t.for] = "paused")
      OBVIOUS
    <2>2. PICK u : u = [t EXCEPT !.pc = n, !.cards = c]
      OBVIOUS
    <2>3. Read(t) = u
      BY <1>1, <1>3, <1>7, <2>1, <2>2 DEF Read
    <2>4. /\ IsTask(u) /\ u.pc = n /\ u.nav = t.nav /\ u.fn = "paint" /\ u.for = t.for
          /\ u.status = t.status /\ u.steps = t.steps /\ u.all = t.all
      BY <2>2 DEF TaskOK, IsTask, TaskFields
    <2>. QED  BY <1>2, <1>4, <2>3, <2>4 DEF TaskOK
  <1>. QED  BY <1>1, <1>5, <1>6, <1>7

LEMMA PaintReadsKept == PagesInv /\ PaintReads => PagesInv'
  <1>. SUFFICES ASSUME PagesInv, PaintReads PROVE PagesInv'
    OBVIOUS
  <1>1. PICK t \in Tasks :
          t.fn = "paint" /\ t.pc <= Len(ReadOrder) /\ page' = Go(page, t, Read(t))
    BY DEF PaintReads
  <1>2. srv' = srv
    BY DEF PaintReads
  <1>3. t \in DOMAIN page.tasks /\ TaskOK(t, srv)
    BY TasksAreOK
  <1>. QED  BY <1>1, <1>2, <1>3, ReadOK, GoGood DEF PagesInv, Good

(* An exception reaches a page without a run's detail. *)
LEMMA ThrowsOK ==
  ASSUME NEW s, PageOK(page, s), NEW t \in DOMAIN page.tasks, ~HasDetail(page.dom)
  PROVE  Good(Throws(page, t), s)
  <1>1. PageOK(End(page, t), s) /\ End(page, t).dom = page.dom
    BY EndOK DEF PageFields
  <1>2. Good(End(page, t), s)
    BY <1>1 DEF Good, Alive, HasDetail
  <1>3. DomOK(Dom("error", NoRun), s) /\ Dom("error", NoRun).kind = "error"
    BY FreshDom
  <1>4. /\ PageOK(Shell(End(page, t), Dom("error", NoRun)), s)
        /\ Shell(End(page, t), Dom("error", NoRun)).dom = Dom("error", NoRun)
    BY <1>1, <1>3, ShellOK
  <1>5. Good(Shell(End(page, t), Dom("error", NoRun)), s)
    BY <1>3, <1>4 DEF Good, Alive
  <1>. QED  BY <1>2, <1>5 DEF Throws

(* The detail of a run is replaced. *)
LEMMA DomSet ==
  ASSUME NEW p, NEW s, PageOK(p, s), NEW d, DomOK(d, s)
  PROVE  /\ PageOK([p EXCEPT !.dom = d], s) /\ [p EXCEPT !.dom = d].dom = d
         /\ \A f \in PageFields \ {"dom"} : [p EXCEPT !.dom = d][f] = p[f]
  <1>1. PICK q : q = [p EXCEPT !.dom = d]
    OBVIOUS
  <1>2. DOMAIN q = PageFields /\ q.dom = d /\ \A f \in PageFields \ {"dom"} : q[f] = p[f]
    BY <1>1 DEF PageOK, PageFields
  <1>3. PageOK(q, s)
    BY <1>2 DEF PageOK, PageFields
  <1>. QED  BY <1>1, <1>2, <1>3

LEMMA PaintReadFailsKept == PagesInv /\ PaintReadFails => PagesInv'
  <1>. SUFFICES ASSUME PagesInv, PaintReadFails PROVE PagesInv'
    OBVIOUS
  <1>1. PICK t \in Tasks :
          /\ t.fn = "paint"
          /\ \/ page' = Go(page, t, [t EXCEPT !.pc = Len(ReadOrder) + 1])
             \/ HasDetail(page.dom) /\ page' = [End(page, t) EXCEPT !.dom = Dom("failed", t.for)]
             \/ ~HasDetail(page.dom) /\ page' = Throws(page, t)
    BY DEF PaintReadFails
  <1>2. srv' = srv
    BY DEF PaintReadFails
  <1>3. t \in DOMAIN page.tasks /\ TaskOK(t, srv)
    BY TasksAreOK
  <1>4. CASE page' = Go(page, t, [t EXCEPT !.pc = Len(ReadOrder) + 1])
    <2>1. PICK u, n : u = [t EXCEPT !.pc = n] /\ n = Len(ReadOrder) + 1
      OBVIOUS
    <2>2. n = 4
      BY <2>1 DEF ReadOrder
    <2>3. /\ IsTask(u) /\ u.pc = 4 /\ u.nav = t.nav /\ u.fn = "paint" /\ u.for = t.for
          /\ u.status = t.status /\ u.steps = t.steps /\ u.all = t.all
      BY <1>1, <1>3, <2>1, <2>2 DEF TaskOK, IsTask, TaskFields
    <2>4. TaskOK(u, srv)
      BY <1>1, <1>3, <2>3 DEF TaskOK
    <2>5. Good(Go(page, t, u), srv)
      BY <1>3, <2>3, <2>4, GoGood DEF PagesInv
    <2>. QED  BY <1>2, <1>4, <2>1, <2>5 DEF PagesInv, Good
  <1>5. CASE page' = [End(page, t) EXCEPT !.dom = Dom("failed", t.for)]
    <2>1. PageOK(End(page, t), srv)
      BY <1>3, EndOK DEF PagesInv
    <2>2. t.for \in Runs
      BY <1>1, <1>3 DEF TaskOK
    <2>3. DomOK(Dom("failed", t.for), srv) /\ Dom("failed", t.for).kind = "failed"
      BY <2>2, FreshDom
    <2>4. PageOK(page', srv) /\ page'.dom = Dom("failed", t.for)
      BY <1>5, <2>1, <2>3, DomSet
    <2>. QED  BY <1>2, <2>3, <2>4 DEF PagesInv, Good, Alive
  <1>6. CASE ~HasDetail(page.dom) /\ page' = Throws(page, t)
    BY <1>2, <1>3, <1>6, ThrowsOK DEF PagesInv, Good
  <1>. QED  BY <1>1, <1>4, <1>5, <1>6

LEMMA PaintKept == PagesInv /\ Paint => PagesInv'
  <1>. SUFFICES ASSUME PagesInv, Paint PROVE PagesInv'
    OBVIOUS
  <1>1. srv' = srv
    BY DEF Paint
  <1>2. PICK t \in Tasks :
          /\ t.fn = "paint"
          /\ LET p == [End(page, t) EXCEPT !.dom = [Dom("run", t.for) EXCEPT !.status = t.status,
                         !.steps = t.steps, !.all = t.all, !.cards = t.cards /\ t.status = "paused"]]
             IN page' = IF ~HasDetail(page.dom) THEN Throws(page, t)
                        ELSE IF t.status \in ACTIVE_RUN_STATUSES THEN Arm(p, t.for) ELSE p
    BY DEF Paint
  <1>3. t \in DOMAIN page.tasks /\ TaskOK(t, srv) /\ t.for \in Runs
    BY <1>2, TasksAreOK DEF TaskOK
  <1>4. CASE ~HasDetail(page.dom)
    BY <1>1, <1>2, <1>3, <1>4, ThrowsOK DEF PagesInv, Good
  <1>5. CASE HasDetail(page.dom)
    <2>1. PICK c : c = (t.cards /\ t.status = "paused")
      OBVIOUS
    <2>2. PICK d : d = [Dom("run", t.for) EXCEPT !.status = t.status, !.steps = t.steps,
                          !.all = t.all, !.cards = c]
      OBVIOUS
    <2>3. PICK p : p = [End(page, t) EXCEPT !.dom = d]
      OBVIOUS
    <2>4. page' = IF t.status \in Active THEN Arm(p, t.for) ELSE p
      BY <1>2, <1>5, <2>1, <2>2, <2>3 DEF ACTIVE_RUN_STATUSES
    <2>5. /\ DOMAIN d = DomFields /\ d.kind = "run" /\ d.run = t.for
          /\ d.status = t.status /\ d.steps = t.steps /\ d.all = t.all
      BY <2>2 DEF Dom, DomFields
    <2>6. DomOK(d, srv)
      BY <1>2, <1>3, <2>5 DEF DomOK, TaskOK, HasDetail
    <2>7. PageOK(End(page, t), srv)
      BY <1>3, EndOK DEF PagesInv
    <2>8. PageOK(p, srv) /\ p.dom = d
      BY <2>3, <2>6, <2>7, DomSet
    <2>9. CASE t.status \notin Active
      BY <1>1, <2>4, <2>5, <2>8, <2>9 DEF PagesInv, Good, Alive
    <2>10. CASE t.status \in Active
      <3>1. PICK L : L = IF p.timer = NoRun THEN p.lost ELSE [p.lost EXCEPT ![p.timer] = @ + 1]
        OBVIOUS
      <3>2. L \in [Runs -> Nat]
        BY <2>8, <3>1 DEF PageOK
      <3>3. PICK q : q = [p EXCEPT !.timer = t.for, !.lost = L]
        OBVIOUS
      <3>4. page' = q
        BY <2>4, <2>10, <3>1, <3>3 DEF Arm
      <3>5. /\ DOMAIN q = PageFields /\ q.timer = t.for /\ q.lost = L
            /\ \A f \in PageFields \ {"timer", "lost"} : q[f] = p[f]
        BY <2>8, <3>3 DEF PageOK, PageFields
      <3>6. PageOK(q, srv)
        BY <1>3, <2>8, <3>2, <3>5 DEF PageOK, PageFields
      <3>7. PaintsAgain(q)
        BY <1>3, <3>5, PagesAssumption DEF PaintsAgain
      <3>. QED  BY <1>1, <3>4, <3>6, <3>7 DEF PagesInv, Alive
    <2>. QED  BY <2>9, <2>10
  <1>. QED  BY <1>4, <1>5

LEMMA TimerKept == PagesInv /\ TimerFires => PagesInv'
  <1>. SUFFICES ASSUME PagesInv, TimerFires PROVE PagesInv'
    OBVIOUS
  <1>1. srv' = srv
    BY DEF TimerFires
  <1>2. PICK r \in Runs :
          \/ page' = Spawn([page EXCEPT !.timer = NoRun], Task("paint", r, FALSE))
          \/ /\ page.lost[r] > 0
             /\ page' = Spawn([page EXCEPT !.lost[r] = @ - 1], Task("paint", r, FALSE))
    BY DEF TimerFires
  <1>3. CASE page' = Spawn([page EXCEPT !.timer = NoRun], Task("paint", r, FALSE))
    <2>1. PageOK([page EXCEPT !.timer = NoRun], srv)
      BY ClearOK DEF PagesInv, clearRunPoll
    <2>. QED  BY <1>1, <1>3, <2>1, FreshPaint, PaintSpawned DEF PagesInv, Good
  <1>4. CASE /\ page.lost[r] > 0
             /\ page' = Spawn([page EXCEPT !.lost[r] = @ - 1], Task("paint", r, FALSE))
    <2>1. PICK n : n = page.lost[r] - 1
      OBVIOUS
    <2>2. n \in Nat
      BY <1>4, <2>1 DEF PagesInv, PageOK
    <2>3. PICK L, q : L = [page.lost EXCEPT ![r] = n] /\ q = [page EXCEPT !.lost = L]
      OBVIOUS
    <2>4. L \in [Runs -> Nat]
      BY <2>2, <2>3 DEF PagesInv, PageOK
    <2>5. DOMAIN q = PageFields /\ q.lost = L /\ \A f \in PageFields \ {"lost"} : q[f] = page[f]
      BY <2>3 DEF PagesInv, PageOK, PageFields
    <2>6. PageOK(q, srv)
      BY <2>4, <2>5 DEF PagesInv, PageOK, PageFields
    <2>7. page' = Spawn(q, Task("paint", r, FALSE))
      BY <1>4, <2>1, <2>3
    <2>. QED  BY <1>1, <2>6, <2>7, FreshPaint, PaintSpawned DEF PagesInv, Good
  <1>. QED  BY <1>2, <1>3, <1>4

LEMMA PagesStep == PagesInv /\ [PagesNext]_pagesVars => PagesInv'
  <1>1. ASSUME PagesInv, UNCHANGED pagesVars PROVE PagesInv'
    BY <1>1 DEF pagesVars, PagesInv
  <1>. QED  BY <1>1, RunMovesKept, ReloadKept, BootKept, SignedInKept, LoggedOutKept,
               FollowLinkKept, FilledKept, ClickKept, CancelKept, DecisionKept, TriggerKept,
               ToggleKept, PaintReadsKept, PaintReadFailsKept, PaintKept, TimerKept DEF PagesNext

LEMMA PagesInitially == PagesInit => PagesInv
  <1>. SUFFICES ASSUME PagesInit PROVE PagesInv
    OBVIOUS
  <1>1. SrvOK(srv)
    <2>1. PICK new \in SUBSET Runs :
            srv = [status |-> [r \in Runs |-> IF r \in new THEN "none" ELSE "running"],
                   steps |-> [r \in Runs |-> 0]]
      BY DEF PagesInit
    <2>. QED  BY <2>1 DEF SrvOK
  <1>2. PICK a \in Hashes : page = Loaded(a)
    <2>1. Addresses \cup {""} \subseteq Hashes
      BY Zenon, PagesAssumption DEF Addresses, Hashes, Kinds
    <2>. QED  BY Zenon, <2>1 DEF PagesInit
  <1>. QED  BY <1>1, <1>2, LoadedOK DEF PagesInv, Good

(* However navigations, buttons, refused decisions, failed reads and timers   *)
(* come in between, the page of an active run that somebody watches is going  *)
(* to be painted again, and the steps it shows of a finished run are all of   *)
(* them: a timer knows only the latest run, yet no paint ends without a timer  *)
(* for an active run, and no step follows the success of a run                *)
(* (renderRunDetail, load, clearRunPoll).                                    *)
THEOREM PageKeepsUp == PagesSpec => []RunPageKeepsUp
  <1>1. PagesInv => RunPageKeepsUp
    <2>. SUFFICES ASSUME PagesInv, page.dom.kind = "run" PROVE RunPageKeepsUp
      BY DEF RunPageKeepsUp
    <2>1. page.user /\ page.dom.status \in Active => Repainted
      <3>. SUFFICES ASSUME PaintsAgain(page) PROVE Repainted
        BY DEF PagesInv, Alive
      <3>1. ASSUME NEW r \in Runs, page.lost[r] > 0 PROVE LostTimers(page) # {}
        <4>1. PICK n : n = page.lost[r]
          OBVIOUS
        <4>2. n \in Nat /\ n > 0
          BY <3>1, <4>1 DEF PagesInv, PageOK
        <4>3. 1 \in 1 .. MaxChains + 1 /\ 1 <= n
          BY <4>2, PagesAssumption
        <4>4. <<r, 1>> \in LostTimers(page)
          BY <4>1, <4>3 DEF LostTimers
        <4>. QED  BY <4>4
      <3>. QED  BY <3>1 DEF PaintsAgain, Repainted, Tasks, BagToSet
    <2>2. page.dom.status = "succeeded" /\ page.dom.all
            => page.dom.steps = srv.steps[page.dom.run]
      BY DEF PagesInv, PageOK, DomOK
    <2>. QED  BY <2>1, <2>2 DEF RunPageKeepsUp
  <1>. QED  BY <1>1, PagesInitially, PagesStep, PTL DEF PagesSpec

----------------------------------------------------------------------------
(* Startup: boots side by side *)

Files == ToSet(Migrations)
First(k) == {Migrations[j] : j \in 1 .. k}
Rest(list, i) == SubSeq(list, i, Len(list))
Full == Len(db.ran) = Len(Migrations)

DbOK ==
  /\ db \in [lock : Booting \cup {Nobody}, schema : SUBSET Files, ran : Seq(Files),
             rows : [RowNames -> Nat]]
  /\ Len(db.ran) <= Len(Migrations) /\ db.ran = SubSeq(Migrations, 1, Len(db.ran))
  /\ db.schema = First(Len(db.ran))

(* The walk over the files: k had their row when the process looked, and       *)
(* those before i that had none have been applied since, by nobody else.       *)
Applying(p, i, k) ==
  /\ proc[p].todo = Rest(Migrations, i) /\ proc[p].applied = First(k)
  /\ Len(db.ran) = IF i - 1 <= k THEN k ELSE i - 1

Seeding(p, i) ==
  /\ proc[p].todo = Rest(Sections, i)
  /\ \A j \in 1 .. i - 1 : Present(Sections[j])
  /\ proc[p].at # "seed" => i <= Len(Sections)
  /\ proc[p].at = "version" => Present(Sections[i])

Seeds == {"seed", "insert", "version"}

ProcOK(p) ==
  /\ DOMAIN proc[p] = {"at", "key", "todo", "applied"}
  /\ proc[p].at \in {"versions", "apply"} => db.lock = p
  /\ proc[p].at = "apply" =>
       \E i \in 1 .. Len(Migrations) + 1, k \in 0 .. Len(Migrations) : Applying(p, i, k)
  /\ proc[p].at \in Seeds => Full /\ \E i \in 1 .. Len(Sections) + 1 : Seeding(p, i)
  /\ proc[p].at = "up" /\ p \in Servers => Full /\ \A n \in ToSet(Sections) : Present(n)
  /\ proc[p].at = "start" => p \in Workers

StartupInv == DbOK /\ DOMAIN proc = Booting /\ \A p \in Booting : ProcOK(p)

----------------------------------------------------------------------------
(* Lists *)

LEMMA FilesAreAList == Migrations \in Seq(Files) /\ Len(Migrations) \in Nat
  BY StartupAssumption DEF Files

LEMMA SectionsAreRows ==
  /\ Sections \in Seq(RowNames)
  /\ ToSet(Sections) = {Sections[i] : i \in 1 .. Len(Sections)}
  <1> DEFINE Always == ToSet(PlainSections \o DemoSections)
             Shown == [i \in DOMAIN Examples |-> <<"workflow", Examples[i]>>]
             Row == ToSet(PlainSections) \cup ToSet(DemoSections)
  <1>1. PlainSections \in Seq(Row) /\ DemoSections \in Seq(Row)
    <2>1. ASSUME NEW a, NEW b PROVE <<a, b>> \in Seq({a, b})
      OBVIOUS
    <2>2. ASSUME NEW a, NEW b, NEW c, NEW d, NEW e PROVE <<a, b, c, d, e>> \in Seq({a, b, c, d, e})
      OBVIOUS
    <2>3. PICK S : PlainSections \in Seq(S)
      BY <2>1, Zenon DEF PlainSections
    <2>4. PICK T : DemoSections \in Seq(T)
      BY <2>2, Zenon DEF DemoSections
    <2> QED
      BY <2>3, <2>4 DEF ToSet
  <1>2. PlainSections \o DemoSections \in Seq(Row)
    BY <1>1, ConcatProperties
  <1>3. \A i \in 1 .. Len(PlainSections) + Len(DemoSections) :
          (PlainSections \o DemoSections)[i] \in Always
    BY <1>1, <1>2, ConcatProperties DEF ToSet
  <1>4. \A i \in 1 .. Len(PlainSections) : PlainSections[i] \in Always
    BY <1>1, <1>3, ConcatProperties
  <1>5. \A i \in 1 .. Len(DemoSections) : DemoSections[i] \in Always
    <2> TAKE i \in 1 .. Len(DemoSections)
    <2>1. /\ Len(PlainSections) \in Nat /\ Len(DemoSections) \in Nat
          /\ i + Len(PlainSections) \in 1 .. Len(PlainSections) + Len(DemoSections)
      BY <1>1
    <2>2. (PlainSections \o DemoSections)[i + Len(PlainSections)] = DemoSections[i]
      BY <1>1, <2>1, ConcatProperties
    <2> QED
      BY <1>3, <2>1, <2>2
  <1>6. PlainSections \in Seq(RowNames) /\ DemoSections \in Seq(RowNames)
    BY <1>1, <1>4, <1>5 DEF RowNames
  <1>7. Shown \in Seq(RowNames)
    <2>1. Examples \in Seq(ToSet(Examples))
      BY StartupAssumption
    <2>2. \A i \in DOMAIN Examples : Shown[i] \in ExampleRows
      BY <2>1 DEF ExampleRows, ToSet
    <2> QED
      BY <2>1, <2>2 DEF RowNames
  <1>8. <<>> \in Seq(RowNames)
    OBVIOUS
  <1>9. Sections \in Seq(RowNames)
    BY <1>6, <1>7, <1>8, ConcatProperties DEF Sections
  <1> QED
    BY <1>9 DEF ToSet

(* Taking the first off what is left of a list.                               *)
LEMMA RestGoesOn ==
  ASSUME NEW S, NEW list \in Seq(S), NEW i \in 1 .. Len(list) + 1
  PROVE  /\ Rest(list, i) = <<>> <=> i = Len(list) + 1
         /\ i <= Len(list) => Head(Rest(list, i)) = list[i] /\ Tail(Rest(list, i)) = Rest(list, i + 1)
  <1>1. Len(list) \in Nat
    OBVIOUS
  <1>2. CASE i = Len(list) + 1
    <2>1. Rest(list, i) = <<>>
      BY <1>1, <1>2, SubSeqEmpty DEF Rest
    <2> QED
      BY <1>1, <1>2, <2>1
  <1>3. CASE i <= Len(list)
    <2>1. Head(Rest(list, i)) = list[i] /\ Tail(Rest(list, i)) = Rest(list, i + 1)
      BY <1>1, <1>3, HeadTailOfSubSeq DEF Rest
    <2>2. Len(Rest(list, i)) = Len(list) - i + 1
      BY <1>1, <1>3, SubSeqProperties DEF Rest
    <2> QED
      BY <1>1, <1>3, <2>1, <2>2
  <1> QED
    BY <1>1, <1>2, <1>3

LEMMA RestOfAll ==
  ASSUME NEW S, NEW list \in Seq(S)
  PROVE  Rest(list, 1) = list
  BY SubSeqFull DEF Rest

----------------------------------------------------------------------------
(* A step of one process *)

Fields == {"at", "key", "todo", "applied"}

(* The database as the others see it: the lock stays with its holder, only     *)
(* the holder applies, and rows stay.                                         *)
Respects(p) ==
  /\ \A q \in Booting : q # p /\ db.lock = q => db'.lock = q
  /\ db'.ran = db.ran \/ (db.lock = p /\ Len(db.ran) <= Len(db'.ran))
  /\ \A n \in RowNames : db.rows[n] > 0 => db'.rows[n] > 0

LEMMA OthersStay ==
  ASSUME StartupInv, DbOK', NEW p \in Booting, Respects(p),
         NEW q \in Booting, q # p, proc'[q] = proc[q]
  PROVE  ProcOK(q)'
  <1>1. ProcOK(q) /\ DbOK /\ Nobody \notin Booting
    BY StartupAssumption DEF StartupInv, Booting
  <1>2. /\ Len(db.ran) \in Nat /\ Len(db'.ran) \in Nat /\ Len(Migrations) \in Nat
        /\ Len(db'.ran) <= Len(Migrations) /\ Len(db.ran) <= Len(Migrations)
    BY <1>1, FilesAreAList DEF DbOK
  <1>3. Full => Full'
    BY <1>2 DEF Full, Respects
  <1>4. \A i \in 1 .. Len(Sections) : Present(Sections[i]) => Present(Sections[i])'
    BY SectionsAreRows DEF Present, Respects
  <1>5. proc'[q].at \in {"versions", "apply"} => db'.lock = q /\ db'.ran = db.ran
    BY <1>1 DEF ProcOK, Respects
  <1>6. proc'[q].at = "apply" =>
          \E i \in 1 .. Len(Migrations) + 1, k \in 0 .. Len(Migrations) : Applying(q, i, k)'
    BY <1>1, <1>5 DEF ProcOK, Applying
  <1>7. proc'[q].at \in Seeds => Full' /\ \E i \in 1 .. Len(Sections) + 1 : Seeding(q, i)'
    <2> SUFFICES ASSUME proc'[q].at \in Seeds
                 PROVE  Full' /\ \E i \in 1 .. Len(Sections) + 1 : Seeding(q, i)'
      OBVIOUS
    <2>1. PICK i \in 1 .. Len(Sections) + 1 : Seeding(q, i)
      BY <1>1 DEF ProcOK
    <2>2. Len(Sections) \in Nat
      BY SectionsAreRows
    <2>3. Seeding(q, i)'
      BY <1>4, <2>1, <2>2 DEF Seeding
    <2> QED
      BY <1>1, <1>3, <2>3 DEF ProcOK
  <1>8. proc'[q].at = "up" /\ q \in Servers => Full' /\ \A n \in ToSet(Sections) : Present(n)'
    BY <1>1, <1>3, <1>4, SectionsAreRows DEF ProcOK
  <1> QED
    BY <1>1, <1>5, <1>6, <1>7, <1>8 DEF ProcOK

LEMMA ProcessSteps ==
  ASSUME StartupInv, DbOK', NEW p \in Booting, Respects(p), NEW rec, Becomes(p, rec),
         (proc'[p] = rec) => ProcOK(p)'
  PROVE  StartupInv'
  <1>1. DOMAIN proc' = Booting /\ proc'[p] = rec /\ \A q \in Booting : q # p => proc'[q] = proc[q]
    BY DEF StartupInv, Becomes
  <1>2. \A q \in Booting : q # p => ProcOK(q)'
    BY <1>1, OthersStay
  <1> QED
    BY <1>1, <1>2 DEF StartupInv

(* A process that neither migrates nor seeds afterwards.                      *)
Idle(p, rec) ==
  /\ DOMAIN rec = Fields
  /\ rec.at \notin {"versions", "apply"} \cup Seeds
  /\ rec.at = "up" => p \notin Servers
  /\ rec.at = "start" => p \in Workers

LEMMA IdleOK ==
  ASSUME NEW p, NEW rec, Idle(p, rec), proc'[p] = rec
  PROVE  ProcOK(p)'
  BY DEF Idle, ProcOK, Fields

LEMMA DbStays ==
  ASSUME StartupInv, UNCHANGED db, NEW p
  PROVE  DbOK' /\ Respects(p)
  BY DEF StartupInv, DbOK, Respects

LEMMA Idles ==
  ASSUME StartupInv, UNCHANGED db, NEW p \in Booting, NEW rec, Becomes(p, rec), Idle(p, rec)
  PROVE  StartupInv'
  BY DbStays, IdleOK, ProcessSteps

LEMMA IdlesAt ==
  ASSUME StartupInv, UNCHANGED db, NEW p \in Booting, NEW at, Reaches(p, at),
         at \notin {"versions", "apply", "start", "up"} \cup Seeds
  PROVE  StartupInv'
  <1>1. DOMAIN [proc[p] EXCEPT !.at = at] = Fields /\ [proc[p] EXCEPT !.at = at].at = at
    BY DEF StartupInv, ProcOK, Fields
  <1> QED
    BY <1>1, Idles DEF Reaches, Idle

LEMMA ResolvedOK ==
  ASSUME StartupInv, UNCHANGED db, NEW p \in Booting, NEW key, Resolved(p, key)
  PROVE  StartupInv'
  <1> DEFINE rec == [proc[p] EXCEPT !.key = key, !.at = IF p \in Servers THEN "lock" ELSE "start"]
  <1>1. DOMAIN rec = Fields /\ rec.at = IF p \in Servers THEN "lock" ELSE "start"
    BY DEF StartupInv, ProcOK, Fields
  <1>2. Becomes(p, rec)
    BY DEF Resolved
  <1> HIDE DEF rec
  <1>3. Idle(p, rec)
    BY <1>1 DEF Idle, Booting, Seeds
  <1> QED
    BY <1>2, <1>3, Idles

LEMMA StartupBegins == StartupInit => StartupInv
  <1> SUFFICES ASSUME StartupInit PROVE StartupInv
    OBVIOUS
  <1>1. /\ db.lock = Nobody /\ db.schema = {} /\ db.ran = <<>> /\ db.rows = [n \in RowNames |-> 0]
        /\ db \in [lock : Booting \cup {Nobody}, schema : SUBSET Files, ran : Seq(Files),
                   rows : [RowNames -> Nat]]
    BY DEF StartupInit
  <1>2. Len(db.ran) = 0 /\ First(Len(db.ran)) = {} /\ SubSeq(Migrations, 1, Len(db.ran)) = <<>>
    BY <1>1, FilesAreAList, SubSeqEmpty DEF First
  <1>3. DbOK
    BY <1>1, <1>2, FilesAreAList DEF DbOK
  <1>4. DOMAIN proc = Booting /\ \A p \in Booting : proc[p] = Down
    BY DEF StartupInit
  <1>5. DOMAIN Down = Fields /\ Down.at = "down"
    BY DEF Down, Fields
  <1> QED
    BY <1>3, <1>4, <1>5 DEF StartupInv, ProcOK, Fields, Seeds

(* Until the secrets are in hand, and after the end, the database stays.      *)
LEMMA SecretsStep ==
  ASSUME StartupInv, NEW p \in Booting,
         \/ Boot(p) \/ LooksForFile(p) \/ ReadsFile(p) \/ MovesAside(p)
         \/ CreatesFile(p) \/ FillsFile(p) \/ AdoptsWinner(p)
         \/ WorkerStarts(p) \/ Stops(p) \/ WorkerStops(p)
  PROVE  StartupInv'
  <1>1. DOMAIN proc[p] = Fields
    BY DEF StartupInv, ProcOK, Fields
  <1>2. CASE Boot(p)
    BY <1>2, IdlesAt DEF Boot, Seeds
  <1>3. CASE LooksForFile(p)
    BY <1>3, IdlesAt DEF LooksForFile, Seeds
  <1>4. CASE ReadsFile(p)
    BY <1>4, IdlesAt, ResolvedOK DEF ReadsFile, Seeds
  <1>5. CASE MovesAside(p)
    BY <1>5, IdlesAt, ResolvedOK DEF MovesAside, Seeds
  <1>6. CASE CreatesFile(p)
    <2>1. PICK at \in {"fill", "adopt"} : Becomes(p, [proc[p] EXCEPT !.key = Fresh, !.at = at])
      BY <1>6 DEF CreatesFile
    <2> DEFINE rec == [proc[p] EXCEPT !.key = Fresh, !.at = at]
    <2>2. DOMAIN rec = Fields /\ rec.at = at
      BY <1>1 DEF Fields
    <2> HIDE DEF rec
    <2>3. Idle(p, rec)
      BY <2>1, <2>2 DEF Idle, Seeds
    <2>4. Becomes(p, rec)
      BY <2>1 DEF rec
    <2> QED
      BY <1>6, <2>3, <2>4, Idles DEF CreatesFile
  <1>7. CASE FillsFile(p)
    BY <1>7, ResolvedOK DEF FillsFile
  <1>8. CASE AdoptsWinner(p)
    BY <1>8, ResolvedOK DEF AdoptsWinner
  <1>9. CASE WorkerStarts(p)
    <2> DEFINE rec == [proc[p] EXCEPT !.at = "up"]
    <2>1. p \in Workers /\ p \notin Servers
      BY <1>9, StartupAssumption DEF WorkerStarts, StartupInv, ProcOK
    <2>2. DOMAIN rec = Fields /\ rec.at = "up" /\ Becomes(p, rec) /\ UNCHANGED db
      BY <1>1, <1>9 DEF WorkerStarts, Reaches, Fields
    <2> HIDE DEF rec
    <2> QED
      BY <2>1, <2>2, Idles DEF Idle, Seeds
  <1>10. CASE GoesDown(p)
    <2>1. DOMAIN Down = Fields /\ Down.at = "down"
      BY DEF Down, Fields
    <2> QED
      BY <1>10, <2>1, Idles DEF GoesDown, Idle, Seeds
  <1> QED
    BY <1>2, <1>3, <1>4, <1>5, <1>6, <1>7, <1>8, <1>9, <1>10 DEF Stops, WorkerStops

----------------------------------------------------------------------------
(* The migrations *)

LEMMA LockMoves ==
  ASSUME StartupInv, NEW p \in Booting, NEW holder \in {p, Nobody},
         db.lock \in {p, Nobody} \/ holder = db.lock, db' = [db EXCEPT !.lock = holder]
  PROVE  /\ DbOK' /\ Respects(p) /\ db'.lock = holder
         /\ db'.ran = db.ran /\ db'.schema = db.schema /\ db'.rows = db.rows
  <1>1. DbOK /\ Nobody \notin Booting
    BY StartupAssumption DEF StartupInv, Booting
  <1>2. /\ db' \in [lock : Booting \cup {Nobody}, schema : SUBSET Files, ran : Seq(Files),
                    rows : [RowNames -> Nat]]
        /\ db'.lock = holder /\ db'.ran = db.ran /\ db'.schema = db.schema /\ db'.rows = db.rows
    BY <1>1 DEF DbOK
  <1> QED
    BY <1>1, <1>2 DEF DbOK, Respects

LEMMA DiesKeeps ==
  ASSUME StartupInv, NEW p \in Booting, Dies(p)
  PROVE  StartupInv'
  <1>1. DOMAIN Down = Fields /\ Down.at = "down"
    BY DEF Down, Fields
  <1>2. Becomes(p, Down) /\ db' = [db EXCEPT !.lock = Unlocked(p)]
    BY DEF Dies
  <1>3. CASE db.lock = p
    <2>1. db' = [db EXCEPT !.lock = Nobody]
      BY <1>2, <1>3 DEF Unlocked
    <2> QED
      BY <1>1, <1>2, <1>3, <2>1, LockMoves, IdleOK, ProcessSteps DEF Idle, Seeds
  <1>4. CASE db.lock # p
    <2>1. db' = db
      BY <1>2, <1>4 DEF Unlocked, StartupInv, DbOK
    <2> QED
      BY <1>1, <1>2, <2>1, Idles DEF Idle, Seeds
  <1> QED
    BY <1>3, <1>4

LEMMA TakesLockKeeps ==
  ASSUME StartupInv, NEW p \in Booting, TakesLock(p)
  PROVE  StartupInv'
  <1> DEFINE rec == [proc[p] EXCEPT !.at = "versions"]
  <1>1. DOMAIN rec = Fields /\ rec.at = "versions"
    BY DEF StartupInv, ProcOK, Fields
  <1>2. Becomes(p, rec) /\ db' = [db EXCEPT !.lock = p] /\ db.lock = Nobody
    BY DEF TakesLock, Reaches, LockFree
  <1> HIDE DEF rec
  <1>3. DbOK' /\ Respects(p) /\ db'.lock = p
    BY <1>2, LockMoves
  <1>4. proc'[p] = rec => ProcOK(p)'
    BY <1>1, <1>3 DEF ProcOK, Fields, Seeds
  <1> QED
    BY <1>2, <1>3, <1>4, ProcessSteps

LEMMA ReadsVersionsKeeps ==
  ASSUME StartupInv, NEW p \in Booting, ReadsVersions(p)
  PROVE  StartupInv'
  <1> DEFINE rec == [proc[p] EXCEPT !.at = "apply", !.todo = Migrations, !.applied = db.schema]
  <1>1. /\ DOMAIN rec = Fields /\ rec.at = "apply" /\ rec.todo = Migrations
        /\ rec.applied = db.schema
    BY DEF StartupInv, ProcOK, Fields
  <1>2. Becomes(p, rec) /\ UNCHANGED db /\ proc[p].at = "versions"
    BY DEF ReadsVersions
  <1> HIDE DEF rec
  <1>3. DbOK' /\ Respects(p) /\ db.lock = p /\ DbOK
    BY <1>2, DbStays DEF StartupInv, ProcOK
  <1>4. ASSUME proc'[p] = rec PROVE ProcOK(p)'
    <2>1. PICK k \in 0 .. Len(Migrations) : k = Len(db.ran)
      BY <1>3, FilesAreAList DEF DbOK
    <2>2. rec.todo = Rest(Migrations, 1)
      BY <1>1, FilesAreAList, RestOfAll
    <2>3. Applying(p, 1, k)'
      BY <1>1, <1>2, <1>3, <1>4, <2>1, <2>2 DEF Applying, DbOK
    <2>4. 1 \in 1 .. Len(Migrations) + 1
      BY FilesAreAList
    <2> QED
      BY <1>1, <1>2, <1>3, <1>4, <2>3, <2>4 DEF ProcOK, Fields, Seeds
  <1> QED
    BY <1>2, <1>3, <1>4, ProcessSteps

(* The holder applies the next file, or passes one that had its row.          *)
LEMMA AppliesKeeps ==
  ASSUME StartupInv, NEW p \in Booting, Applies(p)
  PROVE  StartupInv'
  <1> DEFINE rec == [proc[p] EXCEPT !.todo = Tail(@)]
             n == Len(db.ran)
  <1>1. /\ DOMAIN rec = Fields /\ rec.at = "apply" /\ rec.todo = Tail(proc[p].todo)
        /\ rec.applied = proc[p].applied
    BY DEF Applies, StartupInv, ProcOK, Fields
  <1>2. Becomes(p, rec) /\ proc[p].at = "apply" /\ proc[p].todo # <<>>
    BY DEF Applies
  <1> HIDE DEF rec
  <1>3. DbOK /\ db.lock = p
    BY <1>2 DEF StartupInv, ProcOK
  <1>4. PICK i \in 1 .. Len(Migrations) + 1, k \in 0 .. Len(Migrations) : Applying(p, i, k)
    BY <1>2 DEF StartupInv, ProcOK
  <1>5. /\ i \in 1 .. Len(Migrations) /\ Head(proc[p].todo) = Migrations[i]
        /\ Tail(proc[p].todo) = Rest(Migrations, i + 1)
    BY <1>2, <1>4, FilesAreAList, RestGoesOn DEF Applying
  <1>6. Migrations[i] \in First(k) <=> i <= k
    BY <1>5, FilesAreAList, StartupAssumption DEF First
  <1>7. CASE i <= k
    <2>1. db' = db
      BY <1>4, <1>5, <1>6, <1>7 DEF Applies, Applying
    <2>2. ASSUME proc'[p] = rec PROVE ProcOK(p)'
      <3>3. proc'[p].todo = Rest(Migrations, i + 1) /\ proc'[p].applied = First(k)
        BY <1>1, <1>4, <1>5, <2>2 DEF Applying
      <3>4. Len(db'.ran) = k /\ (i + 1) - 1 <= k
        BY <1>4, <1>5, <1>7, <2>1, FilesAreAList DEF Applying
      <3>1. Applying(p, i + 1, k)'
        BY <3>3, <3>4 DEF Applying
      <3>2. i + 1 \in 1 .. Len(Migrations) + 1
        BY <1>5, FilesAreAList
      <3> QED
        BY <1>1, <1>3, <2>1, <2>2, <3>1, <3>2 DEF ProcOK, Fields, Seeds
    <2> QED
      BY <1>2, <2>1, <2>2, DbStays, ProcessSteps
  <1>8. CASE k < i
    <2>1. n = i - 1 /\ n \in Nat /\ i \in Nat
      BY <1>4, <1>5, <1>8, FilesAreAList DEF Applying
    <2>2. db' = [db EXCEPT !.schema = @ \cup {Migrations[i]}, !.ran = Append(@, Migrations[i])]
      <3>1. ~(i <= k)
        BY <1>5, <1>8, FilesAreAList
      <3> QED
        BY <1>4, <1>5, <1>6, <3>1 DEF Applies, Applying
    <2>3. Migrations[i] \in Files
      BY <1>5, FilesAreAList
    <2>4. /\ db' \in [lock : Booting \cup {Nobody}, schema : SUBSET Files, ran : Seq(Files),
                      rows : [RowNames -> Nat]]
          /\ db'.lock = p /\ db'.rows = db.rows
          /\ db'.schema = db.schema \cup {Migrations[i]} /\ db'.ran = Append(db.ran, Migrations[i])
      <3>1. Append(db.ran, Migrations[i]) \in Seq(Files) /\ db.schema \cup {Migrations[i]} \in SUBSET Files
        BY <1>3, <2>3 DEF DbOK
      <3> DEFINE ran == Append(db.ran, Migrations[i])
      <3>2. db' = [db EXCEPT !.schema = @ \cup {Migrations[i]}, !.ran = ran]
        BY <2>2
      <3>3. ran \in Seq(Files)
        BY <3>1
      <3> HIDE DEF ran
      <3>4. /\ db' \in [lock : Booting \cup {Nobody}, schema : SUBSET Files, ran : Seq(Files),
                        rows : [RowNames -> Nat]]
            /\ db'.lock = p /\ db'.rows = db.rows
            /\ db'.schema = db.schema \cup {Migrations[i]} /\ db'.ran = ran
        BY <1>3, <3>1, <3>2, <3>3 DEF DbOK
      <3> QED
        BY <3>4 DEF ran
    <2>5. Len(db'.ran) = i
      BY <1>3, <2>1, <2>4 DEF DbOK
    <2>6. db'.ran = SubSeq(Migrations, 1, i)
      <3>1. CASE i = 1
        <4>1. db.ran = <<>>
          BY <1>3, <2>1, <3>1 DEF DbOK
        <4>2. SubSeq(Migrations, 1, 1) = SubSeq(Migrations, 1, 1 - 1) \o <<Migrations[1]>>
          BY <1>5, <3>1, FilesAreAList, SubSeqRecursiveSecond
        <4>3. SubSeq(Migrations, 1, 1 - 1) = <<>>
          BY SubSeqEmpty
        <4>4. db'.ran = db.ran \o <<Migrations[1]>>
          BY <1>3, <2>3, <2>4, <3>1, AppendIsConcat DEF DbOK
        <4> QED
          BY <3>1, <4>1, <4>2, <4>3, <4>4
      <3>2. CASE i > 1
        <4>1. db.ran = SubSeq(Migrations, 1, i - 1)
          BY <1>3, <2>1 DEF DbOK
        <4>2. SubSeq(Migrations, 1, i) = SubSeq(Migrations, 1, i - 1) \o <<Migrations[i]>>
          BY <1>5, <3>2, FilesAreAList, SubSeqRecursiveSecond
        <4>3. db'.ran = db.ran \o <<Migrations[i]>>
          BY <1>3, <2>3, <2>4, AppendIsConcat DEF DbOK
        <4> QED
          BY <4>1, <4>2, <4>3
      <3> QED
        BY <1>5, <3>1, <3>2, FilesAreAList
    <2>7. db'.schema = First(i)
      <3>1. First(i) = First(i - 1) \cup {Migrations[i]}
        BY <2>1, <1>5 DEF First
      <3> QED
        BY <1>3, <2>1, <2>4, <3>1 DEF DbOK
    <2>8. DbOK'
      BY <1>5, <2>4, <2>5, <2>6, <2>7, FilesAreAList DEF DbOK
    <2>9. Respects(p)
      BY <1>3, <2>1, <2>4, <2>5, StartupAssumption DEF Respects
    <2>10. ASSUME proc'[p] = rec PROVE ProcOK(p)'
      <3>3. proc'[p].todo = Rest(Migrations, i + 1) /\ proc'[p].applied = First(k)
        BY <1>1, <1>4, <1>5, <2>10 DEF Applying
      <3>4. Len(db'.ran) = (i + 1) - 1 /\ ~((i + 1) - 1 <= k)
        BY <1>8, <2>1, <2>5, FilesAreAList
      <3>1. Applying(p, i + 1, k)'
        BY <3>3, <3>4 DEF Applying
      <3>2. i + 1 \in 1 .. Len(Migrations) + 1
        BY <1>5, FilesAreAList
      <3> QED
        BY <1>1, <2>4, <2>10, <3>1, <3>2 DEF ProcOK, Fields, Seeds
    <2> QED
      BY <1>2, <2>8, <2>9, <2>10, ProcessSteps
  <1> QED
    BY <1>5, <1>7, <1>8, FilesAreAList

(* Once nothing is left to do, every file has been applied.                   *)
LEMMA UnlocksKeeps ==
  ASSUME StartupInv, NEW p \in Booting, Unlocks(p)
  PROVE  StartupInv'
  <1> DEFINE rec == [proc[p] EXCEPT !.at = "seed", !.todo = Sections, !.applied = {}]
  <1>1. DOMAIN rec = Fields /\ rec.at = "seed" /\ rec.todo = Sections
    BY DEF StartupInv, ProcOK, Fields
  <1>2. Becomes(p, rec) /\ proc[p].at = "apply" /\ proc[p].todo = <<>>
    BY DEF Unlocks
  <1> HIDE DEF rec
  <1>3. DbOK /\ db.lock = p
    BY <1>2 DEF StartupInv, ProcOK
  <1>4. db' = [db EXCEPT !.lock = Nobody]
    BY <1>3 DEF Unlocks, Unlocked
  <1>5. DbOK' /\ Respects(p) /\ db'.ran = db.ran
    BY <1>3, <1>4, LockMoves
  <1>6. Full
    <2>1. PICK i \in 1 .. Len(Migrations) + 1, k \in 0 .. Len(Migrations) : Applying(p, i, k)
      BY <1>2 DEF StartupInv, ProcOK
    <2>2. i = Len(Migrations) + 1
      BY <1>2, <2>1, FilesAreAList, RestGoesOn DEF Applying
    <2> QED
      BY <2>1, <2>2, FilesAreAList DEF Full, Applying
  <1>7. ASSUME proc'[p] = rec PROVE ProcOK(p)'
    <2>1. Len(Sections) \in Nat /\ Rest(Sections, 1) = Sections
      BY SectionsAreRows, RestOfAll
    <2>2. Seeding(p, 1)' /\ 1 \in 1 .. Len(Sections) + 1
      BY <1>1, <1>7, <2>1 DEF Seeding
    <2> QED
      BY <1>1, <1>5, <1>6, <1>7, <2>2 DEF ProcOK, Fields, Seeds, Full
  <1> QED
    BY <1>2, <1>5, <1>7, ProcessSteps

----------------------------------------------------------------------------
(* The seed *)

(* A row is written, and none goes: a name that is no row changes nothing.    *)
LEMMA RowWritten ==
  ASSUME StartupInv, NEW p, NEW n, NEW c, n \in RowNames => c \in Nat \ {0},
         db' = [db EXCEPT !.rows[n] = c]
  PROVE  /\ DbOK' /\ Respects(p) /\ db'.ran = db.ran
         /\ n \in RowNames => Present(n)'
  <1> DEFINE rows == [db.rows EXCEPT ![n] = c]
  <1>1. DbOK
    BY DEF StartupInv
  <1>2. /\ rows \in [RowNames -> Nat] /\ \A m \in RowNames : db.rows[m] > 0 => rows[m] > 0
        /\ n \in RowNames => rows[n] > 0
    <2>1. db.rows \in [RowNames -> Nat]
      BY <1>1 DEF DbOK
    <2>2. CASE n \in RowNames
      BY <2>1, <2>2
    <2>3. CASE n \notin RowNames
      <3>1. rows = db.rows
        BY <2>1, <2>3
      <3> QED
        BY <2>1, <2>3, <3>1
    <2> QED
      BY <2>2, <2>3
  <1>3. db' = [db EXCEPT !.rows = rows]
    BY <1>1 DEF DbOK
  <1> HIDE DEF rows
  <1>4. /\ db' \in [lock : Booting \cup {Nobody}, schema : SUBSET Files, ran : Seq(Files),
                    rows : [RowNames -> Nat]]
        /\ db'.lock = db.lock /\ db'.schema = db.schema /\ db'.ran = db.ran /\ db'.rows = rows
    BY <1>1, <1>2, <1>3 DEF DbOK
  <1>5. DbOK'
    BY <1>1, <1>4 DEF DbOK
  <1>6. Respects(p)
    BY <1>2, <1>4 DEF Respects
  <1> QED
    BY <1>2, <1>4, <1>5, <1>6 DEF Present

LEMMA RowInserted ==
  ASSUME StartupInv, NEW p, NEW n, db' = Inserted(n)
  PROVE  /\ DbOK' /\ Respects(p) /\ db'.ran = db.ran
         /\ n \in RowNames => Present(n)'
  <1>1. n \in RowNames => db.rows[n] + 1 \in Nat \ {0}
    BY DEF StartupInv, DbOK
  <1>2. db' = [db EXCEPT !.rows[n] = db.rows[n] + 1]
    BY DEF Inserted
  <1> QED
    BY <1>1, <1>2, RowWritten

LEMMA AtSection ==
  ASSUME NEW p, NEW i \in 1 .. Len(Sections) + 1, Seeding(p, i),
         proc[p].at # "seed" \/ proc[p].todo # <<>>
  PROVE  /\ i \in 1 .. Len(Sections) /\ Section(p) = Sections[i] /\ Sections[i] \in RowNames
         /\ Tail(proc[p].todo) = Rest(Sections, i + 1)
  <1>1. Len(Sections) \in Nat /\ Sections \in Seq(RowNames)
    BY SectionsAreRows
  <1>2. i \in 1 .. Len(Sections)
    BY <1>1, RestGoesOn DEF Seeding
  <1> QED
    BY <1>1, <1>2, RestGoesOn DEF Seeding, Section

(* The sections before stay as they are.                                      *)
LEMMA SectionsStay ==
  ASSUME StartupInv, DbOK', NEW p, Respects(p), NEW i \in 1 .. Len(Sections) + 1, Seeding(p, i), Full,
         db'.ran = db.ran
  PROVE  Full' /\ \A j \in 1 .. i - 1 : Present(Sections[j])'
  <1>1. \A j \in 1 .. Len(Sections) : Sections[j] \in RowNames
    BY SectionsAreRows
  <1>2. i - 1 \in Int /\ i - 1 <= Len(Sections)
    BY SectionsAreRows
  <1>3. \A j \in 1 .. i - 1 : Present(Sections[j]) /\ Sections[j] \in RowNames
    BY <1>1, <1>2 DEF Seeding
  <1>4. \A n \in RowNames : Present(n) => Present(n)'
    BY DEF Respects, Present
  <1>5. Full'
    BY DEF Full
  <1> QED
    BY <1>3, <1>4, <1>5

LEMMA SectionPasses ==
  ASSUME StartupInv, DbOK', NEW p \in Booting, Respects(p), db'.ran = db.ran, Full,
         NEW i \in 1 .. Len(Sections), Seeding(p, i), Tail(proc[p].todo) = Rest(Sections, i + 1),
         Becomes(p, SectionDone(p)), Present(Sections[i])'
  PROVE  StartupInv'
  <1> DEFINE rec == SectionDone(p)
  <1>1. DOMAIN rec = Fields /\ rec.at = "seed" /\ rec.todo = Rest(Sections, i + 1)
    BY DEF SectionDone, StartupInv, ProcOK, Fields
  <1> HIDE DEF rec
  <1>2. Len(Sections) \in Nat /\ i + 1 \in 1 .. Len(Sections) + 1 /\ i \in 1 .. Len(Sections) + 1
    BY SectionsAreRows
  <1>3. Full' /\ \A j \in 1 .. i - 1 : Present(Sections[j])'
    BY <1>2, SectionsStay
  <1>4. \A j \in 1 .. (i + 1) - 1 : Present(Sections[j])'
    <2> SUFFICES ASSUME NEW j \in 1 .. (i + 1) - 1 PROVE Present(Sections[j])'
      OBVIOUS
    <2>1. j = i \/ j \in 1 .. i - 1
      BY <1>2
    <2> QED
      BY <1>3, <2>1
  <1>5. ASSUME proc'[p] = rec PROVE ProcOK(p)'
    <2>1. Seeding(p, i + 1)'
      BY <1>1, <1>4, <1>5 DEF Seeding
    <2> QED
      BY <1>1, <1>2, <1>3, <1>5, <2>1 DEF ProcOK, Fields, Seeds
  <1> QED
    BY <1>5, ProcessSteps DEF rec

(* The process stays at its section.                                          *)
LEMMA SectionGoesOn ==
  ASSUME StartupInv, DbOK', NEW p \in Booting, Respects(p), db'.ran = db.ran, Full,
         NEW i \in 1 .. Len(Sections), Seeding(p, i), NEW at \in {"insert", "version"},
         Reaches(p, at), at = "version" => Present(Sections[i])'
  PROVE  StartupInv'
  <1> DEFINE rec == [proc[p] EXCEPT !.at = at]
  <1>1. DOMAIN rec = Fields /\ rec.at = at /\ rec.todo = proc[p].todo
    BY DEF StartupInv, ProcOK, Fields
  <1>2. Becomes(p, rec)
    BY DEF Reaches
  <1> HIDE DEF rec
  <1>3. Len(Sections) \in Nat /\ i \in 1 .. Len(Sections) + 1 /\ i <= Len(Sections)
    BY SectionsAreRows
  <1>4. Full' /\ \A j \in 1 .. i - 1 : Present(Sections[j])'
    BY <1>3, SectionsStay
  <1>5. ASSUME proc'[p] = rec PROVE ProcOK(p)'
    <2>1. Seeding(p, i)'
      BY <1>1, <1>3, <1>4, <1>5 DEF Seeding
    <2> QED
      BY <1>1, <1>3, <1>4, <1>5, <2>1 DEF ProcOK, Fields, Seeds
  <1> QED
    BY <1>2, <1>5, ProcessSteps

LEMMA SeedsFrom ==
  ASSUME StartupInv, NEW p \in Booting, proc[p].at \in Seeds
  PROVE  Full /\ \E i \in 1 .. Len(Sections) + 1 : Seeding(p, i)
  BY DEF StartupInv, ProcOK

LEMMA UpsertsKeeps ==
  ASSUME StartupInv, NEW p \in Booting, Upserts(p)
  PROVE  StartupInv'
  <1>1. PICK i \in 1 .. Len(Sections) + 1 : Full /\ Seeding(p, i)
    BY SeedsFrom DEF Upserts, Seeds
  <1>2. /\ i \in 1 .. Len(Sections) /\ Section(p) = Sections[i] /\ Sections[i] \in RowNames
        /\ Tail(proc[p].todo) = Rest(Sections, i + 1)
    BY <1>1, AtSection DEF Upserts
  <1>3. Becomes(p, SectionDone(p)) /\ db' = [db EXCEPT !.rows[Sections[i]] = 1]
    BY <1>2 DEF Upserts
  <1>4. DbOK' /\ Respects(p) /\ db'.ran = db.ran /\ Present(Sections[i])'
    <2>1. PICK n \in RowNames, one \in Nat \ {0} : n = Sections[i] /\ one = 1
      BY <1>2
    <2>2. db' = [db EXCEPT !.rows[n] = one]
      BY <1>3, <2>1
    <2>3. DbOK' /\ Respects(p) /\ db'.ran = db.ran /\ Present(n)'
      BY <2>2, RowWritten
    <2> QED
      BY <2>1, <2>3 DEF Present
  <1> QED
    BY <1>1, <1>2, <1>3, <1>4, SectionPasses

LEMMA SelectsRowKeeps ==
  ASSUME StartupInv, NEW p \in Booting, SelectsRow(p)
  PROVE  StartupInv'
  <1>1. PICK i \in 1 .. Len(Sections) + 1 : Full /\ Seeding(p, i)
    BY SeedsFrom DEF SelectsRow, Seeds
  <1>2. /\ i \in 1 .. Len(Sections) /\ Section(p) = Sections[i]
        /\ Tail(proc[p].todo) = Rest(Sections, i + 1)
    BY <1>1, AtSection DEF SelectsRow
  <1>3. DbOK' /\ Respects(p) /\ db' = db
    BY DbStays DEF SelectsRow
  <1>4. CASE Present(Sections[i])
    <2>1. Present(Sections[i])' /\ Becomes(p, SectionDone(p))
      BY <1>2, <1>3, <1>4 DEF SelectsRow, Present
    <2> QED
      BY <1>1, <1>2, <1>3, <2>1, SectionPasses
  <1>5. CASE ~Present(Sections[i])
    <2>1. Reaches(p, "insert")
      BY <1>2, <1>5 DEF SelectsRow, Reaches
    <2> QED
      BY <1>1, <1>2, <1>3, <2>1, SectionGoesOn
  <1> QED
    BY <1>4, <1>5

LEMMA InsertsRowKeeps ==
  ASSUME StartupInv, NEW p \in Booting, InsertsRow(p)
  PROVE  StartupInv'
  <1>1. PICK i \in 1 .. Len(Sections) + 1 : Full /\ Seeding(p, i)
    BY SeedsFrom DEF InsertsRow, Seeds
  <1>2. /\ i \in 1 .. Len(Sections) /\ Section(p) = Sections[i] /\ Sections[i] \in RowNames
        /\ Tail(proc[p].todo) = Rest(Sections, i + 1)
    BY <1>1, AtSection DEF InsertsRow
  <1>3. CASE Conflict(p)
    <2>1. DbOK' /\ Respects(p) /\ db' = db
      BY <1>3, DbStays DEF InsertsRow
    <2>2. Present(Sections[i])'
      BY <1>2, <1>3, <2>1 DEF Conflict, Present
    <2>3. CASE Survives(p)
      <3>1. Becomes(p, SectionDone(p))
        BY <1>3, <2>3 DEF InsertsRow
      <3> QED
        BY <1>1, <1>2, <2>1, <2>2, <3>1, SectionPasses
    <2>4. CASE ~Survives(p)
      <3>1. Becomes(p, Down)
        BY <1>3, <2>4 DEF InsertsRow
      <3>2. DOMAIN Down = Fields /\ Down.at = "down"
        BY DEF Down, Fields
      <3> QED
        BY <2>1, <3>1, <3>2, Idles DEF Idle, Seeds
    <2> QED
      BY <2>3, <2>4
  <1>4. CASE ~Conflict(p)
    <2>1. db' = Inserted(Sections[i])
      BY <1>2, <1>4 DEF InsertsRow
    <2>2. DbOK' /\ Respects(p) /\ db'.ran = db.ran /\ Present(Sections[i])'
      BY <1>2, <2>1, RowInserted
    <2>3. CASE Section(p)[1] = "workflow"
      <3>1. Reaches(p, "version")
        BY <1>4, <2>3 DEF InsertsRow, Reaches
      <3> QED
        BY <1>1, <1>2, <2>2, <3>1, SectionGoesOn
    <2>4. CASE Section(p)[1] # "workflow"
      <3>1. Becomes(p, SectionDone(p))
        BY <1>4, <2>4 DEF InsertsRow
      <3> QED
        BY <1>1, <1>2, <2>2, <3>1, SectionPasses
    <2> QED
      BY <2>3, <2>4
  <1> QED
    BY <1>3, <1>4

LEMMA InsertsVersionKeeps ==
  ASSUME StartupInv, NEW p \in Booting, InsertsVersion(p)
  PROVE  StartupInv'
  <1>1. PICK i \in 1 .. Len(Sections) + 1 : Full /\ Seeding(p, i)
    BY SeedsFrom DEF InsertsVersion, Seeds
  <1>2. /\ i \in 1 .. Len(Sections) /\ Sections[i] \in RowNames
        /\ Tail(proc[p].todo) = Rest(Sections, i + 1)
    BY <1>1, AtSection DEF InsertsVersion
  <1>3. Becomes(p, SectionDone(p)) /\ db' = Inserted(<<"version", Section(p)[2]>>)
    BY DEF InsertsVersion
  <1>4. DbOK' /\ Respects(p) /\ db'.ran = db.ran
    BY <1>3, RowInserted
  <1>5. Present(Sections[i])'
    BY <1>1, <1>2, <1>4 DEF InsertsVersion, Seeding, Present, Respects
  <1> QED
    BY <1>1, <1>2, <1>3, <1>4, <1>5, SectionPasses

(* Every section has its row when the server listens.                         *)
LEMMA ListensKeeps ==
  ASSUME StartupInv, NEW p \in Booting, Listens(p)
  PROVE  StartupInv'
  <1> DEFINE rec == [proc[p] EXCEPT !.at = "up"]
  <1>1. DOMAIN rec = Fields /\ rec.at = "up"
    BY DEF StartupInv, ProcOK, Fields
  <1>2. Becomes(p, rec) /\ UNCHANGED db /\ proc[p].at = "seed" /\ proc[p].todo = <<>>
    BY DEF Listens, Reaches
  <1> HIDE DEF rec
  <1>3. DbOK' /\ Respects(p)
    BY <1>2, DbStays
  <1>4. PICK i \in 1 .. Len(Sections) + 1 : Full /\ Seeding(p, i)
    BY <1>2, SeedsFrom DEF Seeds
  <1>5. i = Len(Sections) + 1 /\ Len(Sections) \in Nat
    BY <1>2, <1>4, SectionsAreRows, RestGoesOn DEF Seeding
  <1>6. Full' /\ \A n \in ToSet(Sections) : Present(n)'
    BY <1>2, <1>4, <1>5, SectionsAreRows DEF Seeding, Present, Full
  <1>7. proc'[p] = rec => ProcOK(p)'
    BY <1>1, <1>6 DEF ProcOK, Fields, Seeds
  <1> QED
    BY <1>2, <1>3, <1>7, ProcessSteps

----------------------------------------------------------------------------

LEMMA StartupStep == StartupInv /\ [StartupNext]_startupVars => StartupInv'
  <1> SUFFICES ASSUME StartupInv, [StartupNext]_startupVars PROVE StartupInv'
    OBVIOUS
  <1>1. CASE UNCHANGED startupVars
    BY <1>1 DEF startupVars, StartupInv, DbOK, ProcOK, Applying, Seeding, Present, Full
  <1>2. CASE StartupNext
    <2>1. PICK p \in Booting :
            \/ Boot(p) \/ LooksForFile(p) \/ ReadsFile(p) \/ MovesAside(p)
            \/ CreatesFile(p) \/ FillsFile(p) \/ AdoptsWinner(p)
            \/ TakesLock(p) \/ ReadsVersions(p) \/ Applies(p) \/ Unlocks(p)
            \/ Upserts(p) \/ SelectsRow(p) \/ InsertsRow(p) \/ InsertsVersion(p) \/ Listens(p)
            \/ WorkerStarts(p)
            \/ Dies(p) \/ Stops(p) \/ WorkerStops(p)
      BY <1>2 DEF StartupNext
    <2> QED
      BY <2>1, SecretsStep, DiesKeeps, TakesLockKeeps, ReadsVersionsKeeps, AppliesKeeps,
         UnlocksKeeps, UpsertsKeeps, SelectsRowKeeps, InsertsRowKeeps, InsertsVersionKeeps,
         ListensKeeps
  <1> QED
    BY <1>1, <1>2

(* However boots overlap, die and start again: the body of every migration     *)
(* runs once, in the order of the files, and a server that listens has the      *)
(* whole schema and a row of every section of the seed (migration-runner.ts,    *)
(* seed.ts).                                                                   *)
THEOREM BootsAlwaysConverge == StartupSpec => []BootsConverge
  <1>1. StartupInv => BootsConverge
    <2> SUFFICES ASSUME StartupInv PROVE BootsConverge
      OBVIOUS
    <2>1. DbOK
      BY DEF StartupInv
    <2>2. MigratedOnce
      <3>1. SubSeq(db.ran, 1, Len(db.ran)) = db.ran
        BY <2>1, SubSeqFull DEF DbOK
      <3> QED
        BY <2>1, <3>1 DEF DbOK, MigratedOnce, IsPrefix
    <2>3. ASSUME NEW p \in Servers, proc[p].at = "up"
          PROVE  db.schema = ToSet(Migrations) /\ \A n \in ToSet(Sections) : Present(n)
      <3>1. Full /\ \A n \in ToSet(Sections) : Present(n)
        BY <2>3 DEF StartupInv, ProcOK, Booting
      <3>2. db.schema = First(Len(Migrations))
        BY <2>1, <3>1 DEF DbOK, Full
      <3>3. First(Len(Migrations)) = ToSet(Migrations)
        BY FilesAreAList DEF First, ToSet
      <3> QED
        BY <3>1, <3>2, <3>3
    <2> QED
      BY <2>2, <2>3 DEF BootsConverge, SeedHeals, Healed
  <1> QED
    BY <1>1, StartupBegins, StartupStep, PTL DEF StartupSpec

----------------------------------------------------------------------------
(* CliSync: files the workspace knows *)

WorkflowFields == {"name", "slug", "live", "newest", "on"}
ForgeFields == {"pc", "creds", "listed", "left", "rows", "known", "steady", "commands", "edits"}

HostedOK ==
  /\ DOMAIN hosted = {"wf", "tokens"}
  /\ \E n \in 0 .. MaxHosted : HostedIds = 1 .. n
  /\ \A w \in HostedIds : DOMAIN hosted.wf[w] = WorkflowFields

(* The workflow a file belongs to.                                            *)
Home(f, w) == w \in Enabled /\ (hosted.wf[w].slug = f \/ hosted.wf[w].name = files[f])

(* A row of the list that still says what is so.                              *)
Current(x) ==
  /\ x.id \in Enabled /\ x.name = hosted.wf[x.id].name /\ x.slug = hosted.wf[x.id].slug

KnownOK ==
  /\ forge.known \subseteq DOMAIN files
  /\ \A f \in forge.known : \E w \in HostedIds : Home(f, w)
  /\ forge.steady \/ forge.known = {}

CommandOK ==
  /\ DOMAIN forge = ForgeFields
  /\ \A x \in forge.listed : x.id \in HostedIds
  /\ forge.steady => \A x \in forge.listed : Current(x)
  /\ forge.pc = "push" => forge.left \subseteq DOMAIN files
  /\ forge.pc = "push" => \A f \in forge.known \cap forge.left : Recognised(f) # {}
  /\ forge.pc = "pull" => \A w \in forge.left : \E x \in forge.listed : x.id = w

CliInv == HostedOK /\ KnownOK /\ CommandOK

(* The workspace afterwards has every enabled workflow under its name and slug. *)
Keeps ==
  \A w \in HostedIds :
    /\ w \in HostedIds'
    /\ hosted'.wf[w].name = hosted.wf[w].name /\ hosted'.wf[w].slug = hosted.wf[w].slug
    /\ w \in Enabled => w \in Enabled'

LEMMA CliBegins == CliInit => CliInv
  <1> SUFFICES ASSUME CliInit PROVE CliInv
    OBVIOUS
  <1>1. HostedIds = {}
    BY DEF CliInit, HostedIds
  <1>2. HostedOK
    <2>1. 0 \in 0 .. MaxHosted /\ HostedIds = 1 .. 0
      BY <1>1, CliAssumption
    <2> QED
      BY <1>1, <2>1 DEF HostedOK, CliInit
  <1>3. /\ forge.pc = "idle" /\ forge.known = {} /\ forge.listed = {} /\ DOMAIN forge = ForgeFields
    BY DEF CliInit, ForgeFields
  <1> QED
    BY <1>2, <1>3 DEF CliInv, KnownOK, CommandOK

LEMMA WorkspaceStays ==
  ASSUME CliInv, UNCHANGED hosted
  PROVE  HostedOK' /\ Keeps
  BY DEF CliInv, HostedOK, Keeps, HostedIds, Enabled

(* A workflow more: it is enabled and has the name it was created under.       *)
LEMMA WorkflowCreated ==
  ASSUME CliInv, RoomForOne, NEW name, NEW m, hosted' = Created(name, m)
  PROVE  /\ HostedOK' /\ Keeps
         /\ \E w \in HostedIds' : w \in Enabled' /\ hosted'.wf[w].name = name
  <1>1. PICK n \in 0 .. MaxHosted : HostedIds = 1 .. n
    BY DEF CliInv, HostedOK
  <1>2. Cardinality(HostedIds) = n /\ n \in Nat /\ n < MaxHosted /\ MaxHosted \in Nat
    <2>1. n \in Nat /\ MaxHosted \in Nat
      BY <1>1, CliAssumption
    <2>2. Cardinality(1 .. n) = n
      BY <2>1, FS_Interval
    <2> QED
      BY <1>1, <2>1, <2>2 DEF RoomForOne
  <1> DEFINE new == HostedRow(name, m)
             wf == [w \in HostedIds \cup {n + 1} |-> IF w \in HostedIds THEN hosted.wf[w] ELSE new]
  <1>3. DOMAIN new = WorkflowFields /\ new.name = name /\ new.on
    BY DEF HostedRow, WorkflowFields
  <1>4. hosted' = [hosted EXCEPT !.wf = wf]
    BY <1>2 DEF Created
  <1> HIDE DEF new
  <1>5. /\ DOMAIN wf = 1 .. n + 1 /\ wf[n + 1] = new /\ n + 1 \notin HostedIds
        /\ \A w \in HostedIds : wf[w] = hosted.wf[w]
    BY <1>1, <1>2
  <1> HIDE DEF wf
  <1>6. DOMAIN hosted' = {"wf", "tokens"} /\ hosted'.wf = wf /\ HostedIds' = 1 .. n + 1
    BY <1>4, <1>5 DEF CliInv, HostedOK, HostedIds
  <1>7. \A w \in 1 .. n + 1 : w \in HostedIds \/ w = n + 1
    BY <1>1, <1>2
  <1>8. HostedOK'
    <2>1. n + 1 \in 0 .. MaxHosted
      BY <1>2
    <2>2. \A w \in HostedIds' : DOMAIN hosted'.wf[w] = WorkflowFields
      BY <1>3, <1>5, <1>6, <1>7 DEF CliInv, HostedOK
    <2> QED
      BY <1>6, <2>1, <2>2 DEF HostedOK
  <1>9. Keeps
    BY <1>1, <1>2, <1>5, <1>6 DEF Keeps, Enabled
  <1>10. n + 1 \in Enabled' /\ hosted'.wf[n + 1].name = name
    BY <1>2, <1>3, <1>5, <1>6 DEF Enabled
  <1> QED
    BY <1>8, <1>9, <1>10 DEF Enabled

(* A new version or a promotion leaves the name and the slug.                 *)
LEMMA ManifestChanges ==
  ASSUME CliInv, NEW w \in HostedIds, NEW m,
         \/ hosted' = [hosted EXCEPT !.wf[w].newest = m]
         \/ hosted' = [hosted EXCEPT !.wf[w].live = m]
  PROVE  HostedOK' /\ Keeps
  <1>1. PICK row : /\ row = [hosted.wf[w] EXCEPT !.newest = m] \/ row = [hosted.wf[w] EXCEPT !.live = m]
                   /\ hosted' = [hosted EXCEPT !.wf[w] = row]
    OBVIOUS
  <1>2. /\ DOMAIN row = WorkflowFields /\ row.name = hosted.wf[w].name /\ row.slug = hosted.wf[w].slug
        /\ row.on = hosted.wf[w].on
    BY <1>1 DEF CliInv, HostedOK, WorkflowFields
  <1>3. /\ DOMAIN hosted' = {"wf", "tokens"} /\ HostedIds' = HostedIds /\ hosted'.wf[w] = row
        /\ \A v \in HostedIds : v # w => hosted'.wf[v] = hosted.wf[v]
    BY <1>1 DEF CliInv, HostedOK, HostedIds
  <1>4. HostedOK'
    BY <1>2, <1>3 DEF CliInv, HostedOK
  <1>5. Keeps
    BY <1>2, <1>3 DEF Keeps, Enabled
  <1> QED
    BY <1>4, <1>5

(* Known files and a current list survive what keeps the workspace.            *)
LEMMA HomesStay ==
  ASSUME CliInv, Keeps, NEW f \in forge.known, files'[f] = files[f]
  PROVE  \E w \in HostedIds' : Home(f, w)'
  BY DEF CliInv, KnownOK, Keeps, Home

LEMMA RowsStayCurrent ==
  ASSUME CliInv, Keeps, forge.steady, NEW x \in forge.listed
  PROVE  Current(x)'
  BY DEF CliInv, CommandOK, Keeps, Current, Enabled

(* Nothing is learned, and the command goes on with what it had.              *)
LEMMA NothingLearned ==
  ASSUME CliInv, HostedOK', Keeps, NEW known, known \subseteq forge.known,
         NEW rec, forge' = rec, DOMAIN rec = ForgeFields, rec.known = known,
         rec.steady = forge.steady,
         DOMAIN files \subseteq DOMAIN files', \A f \in known : files'[f] = files[f],
         rec.listed \subseteq forge.listed,
         rec.pc = "push" => forge.pc = "push" /\ rec.left \subseteq forge.left /\ rec.listed = forge.listed,
         rec.pc = "pull" => forge.pc = "pull" /\ rec.left \subseteq forge.left /\ rec.listed = forge.listed
  PROVE  CliInv'
  <1>1. KnownOK'
    BY HomesStay DEF CliInv, KnownOK
  <1>2. rec.steady => \A x \in rec.listed : Current(x)'
    BY RowsStayCurrent
  <1>3. rec.pc = "push" => \A f \in rec.known \cap rec.left : Recognised(f)' # {}
    BY DEF CliInv, CommandOK, Recognised
  <1>4. rec.pc = "pull" => \A w \in rec.left : \E x \in rec.listed : x.id = w
    BY DEF CliInv, CommandOK
  <1>6. rec.pc = "push" => rec.left \subseteq DOMAIN files'
    BY DEF CliInv, CommandOK
  <1>7. \A x \in rec.listed : x.id \in HostedIds'
    BY DEF CliInv, CommandOK, Keeps
  <1>5. CommandOK'
    BY <1>2, <1>3, <1>4, <1>6, <1>7 DEF CommandOK
  <1> QED
    BY <1>1, <1>5 DEF CliInv

LEMMA CommandStarts ==
  ASSUME CliInv, NEW pc, pc \notin {"push", "pull"}, forge' = Command(pc), UNCHANGED <<hosted, files>>
  PROVE  CliInv'
  <1> DEFINE rec == Command(pc)
  <1>1. /\ DOMAIN rec = ForgeFields /\ rec.known = forge.known /\ rec.steady = forge.steady
        /\ rec.listed = {} /\ rec.pc = pc
    BY DEF Command, CliInv, CommandOK, ForgeFields
  <1> HIDE DEF rec
  <1>2. HostedOK' /\ Keeps
    BY WorkspaceStays
  <1>3. forge' = rec
    BY DEF rec
  <1> QED
    BY <1>1, <1>2, <1>3, NothingLearned DEF CliInv, KnownOK

(* The command goes on to pc, perhaps with other credentials.                 *)
Moves(pc, creds) ==
  forge' = [forge EXCEPT !.pc = pc] \/ forge' = [forge EXCEPT !.pc = pc, !.creds = creds]

LEMMA CommandMoves ==
  ASSUME CliInv, HostedOK', Keeps, UNCHANGED files, NEW pc, NEW creds, pc \notin {"push", "pull"},
         Moves(pc, creds)
  PROVE  CliInv'
  <1>1. PICK rec : /\ rec = [forge EXCEPT !.pc = pc] \/ rec = [forge EXCEPT !.pc = pc, !.creds = creds]
                   /\ forge' = rec
    BY DEF Moves
  <1>2. /\ DOMAIN rec = ForgeFields /\ rec.known = forge.known /\ rec.steady = forge.steady
        /\ rec.listed = forge.listed /\ rec.pc = pc
    BY <1>1 DEF CliInv, CommandOK, ForgeFields
  <1> QED
    BY <1>1, <1>2, NothingLearned DEF CliInv, KnownOK

LEMMA LoginKeeps ==
  ASSUME CliInv, LoginStep \/ LoginFails
  PROVE  CliInv'
  <1>1. HostedOK' /\ Keeps
    <2>1. CASE hosted' = [hosted EXCEPT !.tokens = @ \cup {forge.commands}]
      <3>1. DOMAIN hosted' = {"wf", "tokens"} /\ hosted'.wf = hosted.wf
        BY <2>1 DEF CliInv, HostedOK
      <3> QED
        BY <3>1 DEF CliInv, HostedOK, Keeps, HostedIds, Enabled
    <2> QED
      BY <2>1, WorkspaceStays DEF LoginStep, LoginFails
  <1>2. PICK pc \in {"workspace", "mint", "save", "idle"}, creds \in {forge.commands} :
          Moves(pc, creds)
    BY DEF LoginStep, LoginFails, Moves
  <1>3. UNCHANGED files
    BY DEF LoginStep, LoginFails
  <1> QED
    BY <1>1, <1>2, <1>3, CommandMoves

----------------------------------------------------------------------------

(* The page holds all enabled workflows when the workspace fits in one.        *)
LEMMA PageIsAll ==
  ASSUME HostedOK, MaxHosted <= ListLimit, NEW S \in Page
  PROVE  S = Enabled
  <1>1. PICK n \in 0 .. MaxHosted : HostedIds = 1 .. n
    BY DEF HostedOK
  <1>2. n \in Nat /\ n <= MaxHosted /\ MaxHosted \in Nat /\ ListLimit \in Nat
    BY <1>1, CliAssumption
  <1>3. IsFiniteSet(HostedIds) /\ Cardinality(HostedIds) = n
    BY <1>1, <1>2, FS_Interval
  <1>4. Enabled \in SUBSET HostedIds
    BY DEF Enabled
  <1>5. IsFiniteSet(Enabled) /\ Cardinality(Enabled) <= n
    BY <1>3, <1>4, FS_Subset
  <1>6. Cardinality(Enabled) \in Nat
    BY <1>5, FS_CardinalityType
  <1>7. S \in SUBSET Enabled /\ Cardinality(S) = Cardinality(Enabled)
    BY <1>2, <1>5, <1>6 DEF Page
  <1> QED
    BY <1>5, <1>7, FS_Subset

LEMMA ListWorkflowsKeeps ==
  ASSUME CliInv, MaxHosted <= ListLimit, ListWorkflows
  PROVE  CliInv'
  <1>1. HostedOK' /\ Keeps /\ UNCHANGED <<hosted, files>>
    BY WorkspaceStays DEF ListWorkflows
  <1>2. CASE ~Authorized
    <2>1. PICK pc \in {"idle"}, creds \in {0} : Moves(pc, creds)
      BY <1>2 DEF ListWorkflows, Moves
    <2> QED
      BY <1>1, <2>1, CommandMoves
  <1>3. CASE Authorized
    <2>1. PICK S \in Page, pc \in {"push", "pull"}, left \in Page \cup {DOMAIN files} :
            /\ forge' = [forge EXCEPT !.listed = ListRows(S), !.steady = TRUE, !.pc = pc, !.left = left]
            /\ pc = "push" => left = DOMAIN files
            /\ pc = "pull" => left = S
      BY <1>3 DEF ListWorkflows
    <2> DEFINE rows == ListRows(S)
    <2>2. /\ DOMAIN forge' = ForgeFields /\ forge'.listed = rows /\ forge'.steady /\ forge'.pc = pc
          /\ forge'.left = left /\ forge'.known = forge.known
      BY <2>1 DEF CliInv, CommandOK, ForgeFields
    <2>3. S = Enabled
      BY PageIsAll DEF CliInv
    <2>4. \A x \in rows : Current(x) /\ x.id \in HostedIds
      BY <2>3 DEF ListRows, Current, Enabled
    <2>5. \A w \in Enabled : \E x \in rows :
             x.id = w /\ x.name = hosted.wf[w].name /\ x.slug = hosted.wf[w].slug
      <3> TAKE w \in Enabled
      <3> DEFINE x == [id |-> w, name |-> hosted.wf[w].name, slug |-> hosted.wf[w].slug]
      <3>1. x \in rows
        BY <2>3 DEF ListRows
      <3> QED
        BY <3>1
    <2> HIDE DEF rows
    <2>6. \A f \in forge.known : \E x \in rows : x.slug = f \/ x.name = files[f]
      BY <2>5 DEF CliInv, KnownOK, Home
    <2>7. KnownOK'
      BY <1>1, <2>2, HomesStay DEF CliInv, KnownOK
    <2>8. \A x \in forge'.listed : Current(x)' /\ x.id \in HostedIds'
      BY <1>1, <2>2, <2>4 DEF Current, Enabled, HostedIds
    <2>9. \A f \in forge'.known : Recognised(f)' # {}
      BY <1>1, <2>2, <2>6 DEF Recognised
    <2>10. CommandOK'
      BY <1>1, <2>1, <2>2, <2>3, <2>5, <2>8, <2>9 DEF CommandOK
    <2> QED
      BY <1>1, <2>7, <2>10 DEF CliInv
  <1> QED
    BY <1>2, <1>3

(* A file is done with, and may be known from then on.                        *)
LEMMA FileIsDone ==
  ASSUME CliInv, HostedOK', Keeps, UNCHANGED files, forge.pc = "push",
         NEW f \in forge.left, NEW action, Pushed(f, action),
         action # "error" /\ forge.steady => \E w \in HostedIds' : Home(f, w)'
  PROVE  CliInv'
  <1>1. /\ DOMAIN forge' = ForgeFields /\ forge'.pc = "push" /\ forge'.listed = forge.listed
        /\ forge'.steady = forge.steady /\ forge'.left = forge.left \ {f}
        /\ forge'.known = IF action # "error" /\ forge.steady THEN forge.known \cup {f} ELSE forge.known
    BY DEF Pushed, CliInv, CommandOK, ForgeFields
  <1>2. f \in DOMAIN files
    BY DEF CliInv, CommandOK
  <1>3. KnownOK'
    <2>1. forge'.known \subseteq DOMAIN files'
      BY <1>1, <1>2 DEF CliInv, KnownOK
    <2>2. \A g \in forge'.known : \E w \in HostedIds' : Home(g, w)'
      BY <1>1, HomesStay
    <2>3. forge'.steady \/ forge'.known = {}
      BY <1>1 DEF CliInv, KnownOK
    <2> QED
      BY <2>1, <2>2, <2>3 DEF KnownOK
  <1>4. \A x \in forge'.listed : x.id \in HostedIds'
    BY <1>1 DEF CliInv, CommandOK, Keeps
  <1>5. forge'.steady => \A x \in forge'.listed : Current(x)'
    BY <1>1, RowsStayCurrent
  <1>6. /\ forge'.left \subseteq DOMAIN files'
        /\ \A g \in forge'.known \cap forge'.left : Recognised(g)' # {}
    BY <1>1 DEF CliInv, CommandOK, Recognised
  <1> QED
    BY <1>1, <1>3, <1>4, <1>5, <1>6 DEF CliInv, CommandOK

LEMMA PushFileKeeps ==
  ASSUME CliInv, PushFile
  PROVE  CliInv'
  <1>1. PICK f \in forge.left : PushVersion(f) \/ PushCreate(f) \/ PushError(f)
    BY DEF PushFile
  <1>2. forge.pc = "push" /\ UNCHANGED files
    BY DEF PushFile, ForgeAt
  <1>3. CASE PushVersion(f)
    <2>1. PICK x \in Recognised(f), m \in {files[f]} : hosted' = [hosted EXCEPT !.wf[x.id].newest = m]
      BY <1>3 DEF PushVersion
    <2>2. x \in forge.listed /\ x.id \in HostedIds /\ (x.slug = f \/ x.name = files[f])
      BY <2>1 DEF Recognised, CliInv, CommandOK
    <2>3. HostedOK' /\ Keeps
      BY <2>1, <2>2, ManifestChanges
    <2>4. forge.steady => Home(f, x.id)' /\ x.id \in HostedIds'
      BY <1>2, <2>2, <2>3 DEF CliInv, CommandOK, Current, Home, Keeps
    <2>5. PICK action \in {"versioned"} : Pushed(f, action)
      BY <1>3 DEF PushVersion
    <2> QED
      BY <1>2, <2>3, <2>4, <2>5, FileIsDone
  <1>4. CASE PushCreate(f)
    <2>1. PICK m : m = files[f] /\ hosted' = Created(m, m) /\ RoomForOne
      BY <1>4 DEF PushCreate
    <2>2. HostedOK' /\ Keeps /\ \E w \in HostedIds' : w \in Enabled' /\ hosted'.wf[w].name = m
      BY <2>1, WorkflowCreated
    <2>3. \E w \in HostedIds' : Home(f, w)'
      BY <1>2, <2>1, <2>2 DEF Home
    <2>4. PICK action \in {"created", "error"} : Pushed(f, action)
      BY <1>4 DEF PushCreate
    <2> QED
      BY <1>2, <2>2, <2>3, <2>4, FileIsDone
  <1>5. CASE PushError(f)
    <2>1. PICK action \in {"error"} : Pushed(f, action)
      BY <1>5 DEF PushError
    <2>2. HostedOK' /\ Keeps
      BY <1>5, WorkspaceStays DEF PushError
    <2> QED
      BY <1>2, <2>1, <2>2, FileIsDone
  <1> QED
    BY <1>1, <1>3, <1>4, <1>5

LEMMA PullFileKeeps ==
  ASSUME CliInv, PullFile
  PROVE  CliInv'
  <1>1. HostedOK' /\ Keeps /\ hosted' = hosted /\ forge.pc = "pull"
    BY WorkspaceStays DEF PullFile, ForgeAt
  <1> DEFINE Listed(w) == CHOOSE y \in forge.listed : y.id = w
             File(w) == sanitizeSlug(Listed(w).slug)
             Left(w, action) == [forge EXCEPT !.left = @ \ {w}, !.rows = @ \cup {ReportRow(File(w), action)}]
             Knows(w) == IF File(w) = Listed(w).slug /\ forge.steady
                         THEN forge.known \cup {File(w)} ELSE forge.known \ {File(w)}
             Written(w) == [g \in DOMAIN files \cup {File(w)} |->
                              IF g = File(w) THEN hosted.wf[w].live ELSE files[g]]
  <1>6. PICK w \in forge.left :
          \/ /\ files' = Written(w)
             /\ forge' = [forge EXCEPT !.left = @ \ {w}, !.rows = @ \cup {ReportRow(File(w), "pulled")},
                            !.known = Knows(w)]
          \/ files' = files /\ forge' = Left(w, "error")
    BY DEF PullFile
  <1>2. PICK x, f : x = Listed(w) /\ f = sanitizeSlug(x.slug)
    OBVIOUS
  <1>3. x \in forge.listed /\ x.id = w
    BY <1>1, <1>2 DEF CliInv, CommandOK
  <1>4. CASE files' = files /\ forge' = Left(w, "error")
    <2>1. PICK rec : rec = Left(w, "error") /\ forge' = rec
      BY <1>4
    <2>2. /\ DOMAIN rec = ForgeFields /\ rec.known = forge.known /\ rec.steady = forge.steady
          /\ rec.listed = forge.listed /\ rec.pc = forge.pc /\ rec.left \subseteq forge.left
      BY <2>1 DEF CliInv, CommandOK, ForgeFields
    <2> QED
      BY <1>1, <1>4, <2>1, <2>2, NothingLearned
  <1>5. CASE /\ files' = Written(w)
             /\ forge' = [forge EXCEPT !.left = @ \ {w}, !.rows = @ \cup {ReportRow(File(w), "pulled")},
                            !.known = Knows(w)]
    <2>1. /\ DOMAIN forge' = ForgeFields /\ forge'.pc = "pull" /\ forge'.listed = forge.listed
          /\ forge'.steady = forge.steady /\ forge'.left = forge.left \ {w}
          /\ forge'.known = IF f = x.slug /\ forge.steady THEN forge.known \cup {f} ELSE forge.known \ {f}
      BY <1>1, <1>2, <1>5 DEF CliInv, CommandOK, ForgeFields
    <2>2. DOMAIN files' = DOMAIN files \cup {f} /\ \A g \in DOMAIN files : g # f => files'[g] = files[g]
      BY <1>2, <1>5
    <2>3. \A g \in forge.known : g # f => \E v \in HostedIds' : Home(g, v)'
      BY <1>1, <2>2, HomesStay DEF CliInv, KnownOK
    <2>4. forge.steady /\ f = x.slug => w \in HostedIds' /\ Home(f, w)'
      BY <1>1, <1>3 DEF CliInv, CommandOK, Current, Home, HostedIds, Enabled
    <2>5. KnownOK'
      BY <2>1, <2>2, <2>3, <2>4 DEF CliInv, KnownOK
    <2>6. \A v \in forge'.listed : v.id \in HostedIds' /\ (forge'.steady => Current(v)')
      BY <1>1, <2>1, RowsStayCurrent DEF CliInv, CommandOK, Keeps
    <2>7. \A v \in forge'.left : \E y \in forge'.listed : y.id = v
      BY <1>1, <2>1 DEF CliInv, CommandOK
    <2> QED
      BY <1>1, <2>1, <2>5, <2>6, <2>7 DEF CliInv, CommandOK
  <1> QED
    BY <1>4, <1>5, <1>6

LEMMA WebEditKeeps ==
  ASSUME CliInv, WebEdit
  PROVE  CliInv'
  <1>1. UNCHANGED files
    BY DEF WebEdit
  <1>2. ASSUME HostedOK', Keeps, forge' = [forge EXCEPT !.edits = @ + 1] PROVE CliInv'
    <2>1. PICK rec : rec = [forge EXCEPT !.edits = @ + 1] /\ forge' = rec
      BY <1>2
    <2>2. /\ DOMAIN rec = ForgeFields /\ rec.known = forge.known /\ rec.steady = forge.steady
          /\ rec.listed = forge.listed /\ rec.pc = forge.pc /\ rec.left = forge.left
      BY <2>1 DEF CliInv, CommandOK, ForgeFields
    <2> QED
      BY <1>1, <1>2, <2>1, <2>2, NothingLearned
  <1>3. ASSUME RoomForOne, NEW n, NEW m, hosted' = Created(n, m) PROVE HostedOK' /\ Keeps
    BY <1>3, WorkflowCreated
  <1>4. ASSUME NEW w \in HostedIds, hosted' = [hosted EXCEPT !.wf[w].live = hosted.wf[w].newest]
        PROVE  HostedOK' /\ Keeps
    <2>1. PICK m : hosted' = [hosted EXCEPT !.wf[w].live = m]
      BY <1>4
    <2> QED
      BY <2>1, ManifestChanges
  <1>5. ASSUME NEW t, hosted' = [hosted EXCEPT !.tokens = @ \ {t}] PROVE HostedOK' /\ Keeps
    <2>1. DOMAIN hosted' = {"wf", "tokens"} /\ hosted'.wf = hosted.wf
      BY <1>5 DEF CliInv, HostedOK
    <2> QED
      BY <2>1 DEF CliInv, HostedOK, Keeps, HostedIds, Enabled
  <1>6. ASSUME NEW w \in HostedIds, NEW on, NEW n,
               \/ hosted' = [hosted EXCEPT !.wf[w].on = on] \/ hosted' = [hosted EXCEPT !.wf[w].name = n],
               forge' = [forge EXCEPT !.edits = @ + 1, !.known = {}, !.steady = FALSE]
        PROVE  CliInv'
    <2>1. PICK row : /\ row = [hosted.wf[w] EXCEPT !.on = on] \/ row = [hosted.wf[w] EXCEPT !.name = n]
                     /\ hosted' = [hosted EXCEPT !.wf[w] = row]
      BY <1>6
    <2>2. DOMAIN row = WorkflowFields
      BY <2>1 DEF CliInv, HostedOK, WorkflowFields
    <2>3. /\ DOMAIN hosted' = {"wf", "tokens"} /\ HostedIds' = HostedIds /\ hosted'.wf[w] = row
          /\ \A v \in HostedIds : v # w => hosted'.wf[v] = hosted.wf[v]
      BY <2>1 DEF CliInv, HostedOK, HostedIds
    <2>4. HostedOK'
      BY <2>2, <2>3 DEF CliInv, HostedOK
    <2>5. /\ DOMAIN forge' = ForgeFields /\ forge'.known = {} /\ ~forge'.steady
          /\ forge'.listed = forge.listed /\ forge'.pc = forge.pc /\ forge'.left = forge.left
      BY <1>6 DEF CliInv, CommandOK, ForgeFields
    <2>6. KnownOK'
      BY <2>5 DEF KnownOK
    <2>7. CommandOK'
      BY <1>1, <2>3, <2>5 DEF CliInv, CommandOK
    <2> QED
      BY <2>4, <2>6, <2>7 DEF CliInv
  <1> QED
    BY <1>2, <1>3, <1>4, <1>5, <1>6 DEF WebEdit

LEMMA EditFileKeeps ==
  ASSUME CliInv, EditFile
  PROVE  CliInv'
  <1>1. HostedOK' /\ Keeps
    BY WorkspaceStays DEF EditFile
  <1>5. PICK f \in Names \X {1}, m \in Names \cup {Broken} :
          /\ files' = [g \in DOMAIN files \cup {f} |-> IF g = f THEN m ELSE files[g]]
          /\ forge' = [forge EXCEPT !.edits = @ + 1, !.known = @ \ {f}]
    BY DEF EditFile
  <1>2. PICK rec : rec = [forge EXCEPT !.edits = @ + 1, !.known = @ \ {f}] /\ forge' = rec
    BY <1>5
  <1>3. /\ DOMAIN rec = ForgeFields /\ rec.known = forge.known \ {f} /\ rec.steady = forge.steady
        /\ rec.listed = forge.listed /\ rec.pc = forge.pc /\ rec.left = forge.left
    BY <1>2 DEF CliInv, CommandOK, ForgeFields
  <1>4. /\ DOMAIN files \subseteq DOMAIN files'
        /\ \A g \in forge.known \ {f} : files'[g] = files[g]
    BY <1>5 DEF CliInv, KnownOK
  <1> QED
    BY <1>1, <1>2, <1>3, <1>4, NothingLearned

LEMMA CliStep == MaxHosted <= ListLimit /\ CliInv /\ [CliNext]_cliVars => CliInv'
  <1> SUFFICES ASSUME MaxHosted <= ListLimit, CliInv, [CliNext]_cliVars PROVE CliInv'
    OBVIOUS
  <1>1. CASE UNCHANGED cliVars
    BY <1>1 DEF cliVars, CliInv, HostedOK, KnownOK, CommandOK, HostedIds, Enabled, Home, Current,
                Recognised
  <1>2. CASE StartLogin
    BY <1>2, CommandStarts DEF StartLogin
  <1>3. CASE LoginStep \/ LoginFails
    BY <1>3, LoginKeeps
  <1>4. CASE StartSync
    BY <1>4, CommandStarts DEF StartSync
  <1>5. CASE ListWorkflows
    BY <1>5, ListWorkflowsKeeps
  <1>6. CASE PushFile
    BY <1>6, PushFileKeeps
  <1>7. CASE PullFile
    BY <1>7, PullFileKeeps
  <1>8. CASE SyncEnds
    <2>1. PICK pc \in {"idle"}, creds \in {0} : Moves(pc, creds)
      BY <1>8 DEF SyncEnds, Moves
    <2> QED
      BY <1>8, <2>1, WorkspaceStays, CommandMoves DEF SyncEnds
  <1>9. CASE WebEdit
    BY <1>9, WebEditKeeps
  <1>10. CASE EditFile
    BY <1>10, EditFileKeeps
  <1> QED
    BY <1>1, <1>2, <1>3, <1>4, <1>5, <1>6, <1>7, <1>8, <1>9, <1>10 DEF CliNext

(* A step that reports a file as created has found nothing that it recognises. *)
LEMMA KnownIsNotCreated ==
  ASSUME CliInv, [CliNext]_cliVars, NEW f \in forge.known,
         ReportRow(f, "created") \in forge'.rows
  PROVE  ReportRow(f, "created") \in forge.rows
  <1> DEFINE same == forge'.rows = forge.rows
  <1>1. DOMAIN forge = ForgeFields
    BY DEF CliInv, CommandOK
  <1>2. CASE UNCHANGED cliVars
    BY <1>2 DEF cliVars
  <1>3. CASE StartLogin \/ StartSync
    BY <1>1, <1>3 DEF StartLogin, StartSync, Command, ForgeFields
  <1>4. CASE LoginStep \/ LoginFails \/ SyncEnds \/ ListWorkflows
    <2>1. forge'.rows = forge.rows
      BY <1>1, <1>4 DEF LoginStep, LoginFails, SyncEnds, ListWorkflows, ForgeFields
    <2> QED
      BY <2>1
  <1>5. CASE WebEdit \/ EditFile
    <2>1. forge'.rows = forge.rows
      BY <1>1, <1>5 DEF WebEdit, EditFile, ForgeFields
    <2> QED
      BY <2>1
  <1>6. CASE PullFile
    <2>1. PICK g, action : action \in {"pulled", "error"} /\ forge'.rows = forge.rows \cup {ReportRow(g, action)}
      BY <1>1, <1>6 DEF PullFile, ForgeFields
    <2> QED
      BY <2>1 DEF ReportRow
  <1>7. CASE PushFile
    <2>1. PICK g \in forge.left : PushVersion(g) \/ PushCreate(g) \/ PushError(g)
      BY <1>7 DEF PushFile
    <2>2. PICK action : /\ Pushed(g, action)
                        /\ action = "created" => Recognised(g) = {}
      BY <2>1 DEF PushVersion, PushCreate, PushError
    <2>3. forge'.rows = forge.rows \cup {ReportRow(g, action)}
      BY <1>1, <2>2 DEF Pushed, ForgeFields
    <2>4. ReportRow(f, "created") = ReportRow(g, action) => f = g /\ action = "created"
      BY DEF ReportRow
    <2>5. ~(f = g /\ action = "created")
      BY <1>7, <2>1, <2>2 DEF CliInv, CommandOK, PushFile, ForgeAt
    <2> QED
      BY <2>3, <2>4, <2>5
  <1> QED
    BY <1>2, <1>3, <1>4, <1>5, <1>6, <1>7 DEF CliNext

(* In a workspace that fits in one page of the list, a file that was pulled or  *)
(* pushed is a new version when it is pushed again, never a second workflow,    *)
(* whatever the web and the user do between the requests (forge push, pull).    *)
THEOREM KnownFilesStayVersioned ==
  ASSUME MaxHosted <= ListLimit
  PROVE  CliSpec => KnownFilesAreVersioned
  <1>1. CliInv /\ [CliNext]_cliVars =>
          [\A f \in forge.known :
             ReportRow(f, "created") \in forge'.rows => ReportRow(f, "created") \in forge.rows]_cliVars
    BY KnownIsNotCreated
  <1>2. CliInv /\ [CliNext]_cliVars => CliInv'
    BY CliStep
  <1> QED
    BY <1>1, <1>2, CliBegins, PTL DEF CliSpec, KnownFilesAreVersioned

=============================================================================
