------------------------------ MODULE HttpStep ------------------------------
(***************************************************************************)
(* executeHttpStep: one http step with its attempts, the redirects of each *)
(* attempt, and the route of each hop (checkEgressRoute).  The hosts, the  *)
(* allowlist and the answers of the services are the environment's.        *)
(***************************************************************************)
EXTENDS Naturals, FiniteSets

CONSTANTS
  Hosts,          \* hosts of the targets
  Connector,      \* the host of FF_CONNECTOR_URL
  Allowed,        \* hosts on the workspace's allowlist, in FF_HTTP_ALLOWLIST, or of the app
  Private,        \* hosts with a private address, or that do not resolve
  WithConnector,  \* is FF_CONNECTOR_URL set?
  MaxRedirects,   \* MAX_REDIRECTS (3 in the code)
  AttemptLimits   \* values of retry.attempts

ASSUME HttpAssumption ==
  /\ Connector \notin Hosts
  /\ WithConnector \in BOOLEAN
  /\ MaxRedirects \in Nat /\ AttemptLimits \subseteq Nat

VARIABLES
  http,  \* the step: program counter, attempt, redirects, the hop it is about to make
  wire   \* history: the requests that were sent, one record each

httpVars == <<http, wire>>

(* checkEgressRoute: the address is looked at before the allowlist. *)
Route(h) ==
  IF h \in Private THEN "private_blocked"
  ELSE IF h \in Allowed \/ (WithConnector /\ h = Connector) THEN "direct"
  ELSE IF WithConnector THEN "connector" ELSE "blocked"

Refused == {"blocked", "private_blocked"}

(* What a hop to host h looks like: a connector hop is sent to the connector,  *)
(* with the engine's token and the target's address.                         *)
Hop(h) ==
  IF Route(h) = "connector" THEN [via |-> Connector, target |-> h, token |-> TRUE]
  ELSE [via |-> h, target |-> h, token |-> FALSE]

Methods == {"GET", "POST"}
NoHop == [via |-> Connector, target |-> Connector, token |-> FALSE]
IdleHttp == [pc |-> "idle", url |-> Connector, method |-> "GET", limit |-> 1,
             attempt |-> 0, redirects |-> 0, hop |-> NoHop, verb |-> "GET", result |-> "none"]

HttpInit == http = IdleHttp /\ wire = {}

HttpEnds(result) == http' = [http EXCEPT !.pc = "done", !.result = result]

(* Math.min(Math.max(1, retry.attempts), 10) *)
AttemptLimit(n) == IF n < 1 THEN 1 ELSE IF n > 10 THEN 10 ELSE n

(* The step is reached with a URL, a method and a retry policy; a forbidden    *)
(* header, a missing secret or credential, a plan without the vault, or a      *)
(* first hop that may not be made ends it before anything is sent.           *)
BeginHttp ==
  /\ http.pc = "idle"
  /\ \E h \in Hosts, m \in Methods, n \in AttemptLimits :
       \/ HttpEnds("refused")
       \/ /\ Route(h) \in Refused
          /\ HttpEnds(Route(h))
       \/ /\ Route(h) \notin Refused
          /\ http' = [http EXCEPT !.pc = "send", !.url = h, !.method = m, !.limit = AttemptLimit(n),
                                  !.attempt = 1, !.hop = Hop(h), !.verb = m]
  /\ wire' = wire

(* Another attempt from the beginning, or the end of the step. *)
NextAttempt(result) ==
  IF http.attempt < http.limit
  THEN http' = [http EXCEPT !.pc = "send", !.attempt = @ + 1, !.redirects = 0,
                            !.hop = Hop(http.url), !.verb = http.method]
  ELSE HttpEnds(result)

(* fetch with redirect: manual and the same X-Idempotency-Key every time. *)
Request == [attempt |-> http.attempt, redirects |-> http.redirects,
            hop |-> http.hop, verb |-> http.verb]

SendRequest ==
  /\ http.pc = "send"
  /\ wire' = wire \cup {Request}
  /\ http' = [http EXCEPT !.pc = "answer"]

(* fetch or the body fails, or the time of the request is over. *)
RequestThrows ==
  /\ http.pc = "answer"
  /\ NextAttempt("error")
  /\ wire' = wire

(* 408, 429, 500, 502, 503, 504 are retried, any other error ends the step. *)
Answered ==
  /\ http.pc = "answer"
  /\ \/ HttpEnds("completed")
     \/ HttpEnds("http_error")
     \/ NextAttempt("http_error")
  /\ wire' = wire

(* The Location is resolved against the URL that was fetched, which is the     *)
(* connector's after a connector hop.                                        *)
Locations == Hosts \cup {http.hop.via}

(* Mutation: the hop after a redirect keeps the way of the one before. *)
HopAsBefore(h) == [http.hop EXCEPT !.target = h, !.via = IF http.hop.token THEN Connector ELSE h]
RedirectAsBefore ==
  /\ http.pc = "answer"
  /\ http.redirects < MaxRedirects
  /\ \E h \in Locations, see \in BOOLEAN :
       IF Route(h) \in Refused THEN HttpEnds(Route(h))
       ELSE http' = [http EXCEPT !.pc = "send", !.redirects = @ + 1, !.hop = HopAsBefore(h),
                                 !.verb = IF see THEN "GET" ELSE @]
  /\ wire' = wire

(* 301, 302, 303, 307, 308 with a Location: the next hop has a route of its     *)
(* own; 303 turns into a GET without a body; one redirect too many fails the   *)
(* attempt, a hop that may not be made ends the step.                        *)
Redirected ==
  /\ http.pc = "answer"
  /\ \E h \in Locations, see \in BOOLEAN :
       \/ /\ http.redirects >= MaxRedirects
          /\ NextAttempt("too_many_redirects")
       \/ /\ http.redirects < MaxRedirects
          /\ IF Route(h) \in Refused THEN HttpEnds(Route(h))
             ELSE http' = [http EXCEPT !.pc = "send", !.redirects = @ + 1, !.hop = Hop(h),
                                       !.verb = IF see THEN "GET" ELSE @]
  /\ wire' = wire

HttpNext == BeginHttp \/ SendRequest \/ RequestThrows \/ Answered \/ Redirected

HttpSpec == HttpInit /\ [][HttpNext]_httpVars

----------------------------------------------------------------------------
(* Properties *)

(* Per-hop routing, over redirects and retries: no request reaches a host that *)
(* was refused, a request goes through the connector, with the engine's token, *)
(* exactly when its own target is not allowlisted, and a hop straight to a      *)
(* target never carries the token of a connector hop before it.              *)
HopsKeepTheirRoute ==
  \A x \in wire :
    /\ Route(x.hop.target) \notin Refused
    /\ x.hop.token <=> Route(x.hop.target) = "connector"
    /\ x.hop.via = IF x.hop.token THEN Connector ELSE x.hop.target

(* What a step may cost its target: at most MaxRedirects + 1 requests in each   *)
(* of its attempts, and each attempt asks again what the manifest says, however *)
(* the attempt before it was redirected.                                     *)
AttemptsStartOver ==
  /\ \A x \in wire : x.attempt \in 1 .. http.limit /\ x.redirects \in 0 .. MaxRedirects
  /\ \A x \in wire : x.redirects = 0 => x.hop = Hop(http.url) /\ x.verb = http.method
  /\ \A x, y \in wire : x.attempt = y.attempt /\ x.redirects = y.redirects => x = y

(* Every request of a step is one its manifest and its routes account for. *)
RequestsAccountedFor == HopsKeepTheirRoute /\ AttemptsStartOver

=============================================================================
