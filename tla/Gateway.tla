------------------------------ MODULE Gateway ------------------------------
(***************************************************************************)
(* The request pipeline (src/src/app.ts, plugins/ip-filter.ts, pressure.ts,*)
(* redis.ts, rate-limit.ts, core/service-gateway.ts, routes/): concurrent  *)
(* requests pass the gates in the order the hooks run, which is that of    *)
(* registration for the hooks of the app, then of the service's scope,     *)
(* then of the route:                                                      *)
(*                                                                         *)
(*   onRequest:  ip filter, load shedding, cache lookup, rate limiter      *)
(*   preHandler: edge authentication                                       *)
(*   handler:    the proxy, or the gateway's own answer                    *)
(*                                                                         *)
(* The lookup and the limiter wait for Redis, whose connection may break   *)
(* with commands in flight: the client keeps them and sends them again     *)
(* when it has reconnected (maxRetriesPerRequest: null), whereas a command *)
(* issued without a connection fails at once (enableOfflineQueue: false).  *)
(* The bearer guard waits for the auth service.  What is stored and found  *)
(* in the response cache is module ResponseCache; what the bearer guard    *)
(* caches and how tokens are revoked under it is module BearerAuth, so     *)
(* here a token is one that the service calls active or one it does not.   *)
(***************************************************************************)
EXTENDS EdgeAuth, EdgePolicy

CONSTANTS
  Request,      \* requests
  Asks,         \* what they may be: route, client, apiKey, header, looksUp
  Setups,       \* what to boot: services (name, auth, cacheable), and whether
                \* REDIS_URL (redisUrl) and CACHE_ENABLED (cache) are set
  ApiKey,       \* GATEWAY_API_KEY
  UserEntries,  \* BASIC_AUTH_USERS
  JwtTokens,    \* what JWT_SECRET or JWT_JWKS_URI verifies; {} when neither is set
  BearerUrl,    \* BEARER_INTROSPECTION_URL, "" when it is not set
  BearerTokens, \* what the auth service calls active
  MetricsToken, \* METRICS_TOKEN
  Allow, Deny,  \* IP_ALLOW_LIST, IP_DENY_LIST
  Limit,        \* RATE_LIMIT_MAX
  Ban,          \* RATE_LIMIT_BAN
  MaxWindows,   \* bound: limiter windows of one client
  MaxBreaks     \* bound: broken Redis connections

ASSUME GatewayAssumption ==
  /\ IsFiniteSet(Request)
  /\ \A s \in Setups : /\ s.redisUrl \in BOOLEAN /\ s.cache \in BOOLEAN
                        /\ \A service \in s.services :
                             service.name \notin {"/healthz", "/readyz", "/metrics"}
  /\ Limit \in Nat \ {0} /\ Ban \in Nat
  /\ MaxWindows \in Nat \ {0} /\ MaxBreaks \in Nat

VARIABLES
  setup,        \* the services the subclasses declare, and the configuration
  boot,         \* "starting", "serving" or "refused"
  shuttingDown, \* fastify.shuttingDown
  pressed,      \* a pressure threshold is exceeded
  req,          \* each request's progress
  used,         \* the limiter's count of each client in its present window
  windows,      \* how many windows each client has had
  link,         \* the connection to Redis: "up" or "down"
  breaks        \* how often it has broken

vars == <<setup, boot, shuttingDown, pressed, req, used, windows, link, breaks>>
env  == <<setup, boot, shuttingDown, pressed>>

(* The limiter keys a client by its address as it is written: an IPv4      *)
(* address and its IPv6 form are two clients to it.                        *)
Clients == {a.client : a \in Asks}
NoAsk   == [route |-> "none"]

-----------------------------------------------------------------------------
(* Routes.                                                                 *)

Probes == {"/healthz", "/readyz"}
Own    == Probes \union {"/metrics"}

(* Seeded change: the probes lose their exemption from the filter.         *)
IpFilteredProbes(route) == TRUE

(* What a route's config opts out of.                                      *)
IpFiltered(route)  == route \notin Probes
Sheddable(route)   == route \notin Own

(* The limiter hooks into routes; an unmatched URL has none.               *)
RateLimited(route) == \E s \in setup.services : s.name = route

Service(route) == CHOOSE s \in setup.services : s.name = route

-----------------------------------------------------------------------------
(* Booting.                                                                *)

(* The schemes auth.ts registers a guard for.                              *)
Registered == AuthSchemes \ {"none"}

(* Seeded change: toPlugin mounts a cacheable service whatever its auth.   *)
MountsAnyCacheable(service) == service.auth = "none" \/ service.auth \in Registered

(* toPlugin mounts the service or throws.                                  *)
Mounts(service) ==
  /\ service.auth = "none" \/ service.auth \in Registered
  /\ service.cacheable => service.auth = "none"

(* Every plugin, in whatever order, has to start.                          *)
BootSucceeds ==
  /\ Bootable(Allow) /\ Bootable(Deny)
  /\ ValidUserList(UserEntries)
  /\ setup.cache => setup.redisUrl
  /\ \A s \in setup.services : Mounts(s)

Boot ==
  /\ boot = "starting"
  /\ boot' = IF BootSucceeds THEN "serving" ELSE "refused"
  /\ UNCHANGED <<setup, shuttingDown, pressed, req, used, windows, link, breaks>>

-----------------------------------------------------------------------------
(* The guard of a scheme, applied to a request (auth.ts, strategies/).     *)
Guard(auth, ask) ==
  IF auth = "none" THEN Pass
  ELSE IF auth = "api-key" THEN ApiKeyGuard(ApiKey, ask.apiKey)
  ELSE IF auth = "basic" THEN BasicGuard(parseUserList(UserEntries), ask.header)
  ELSE IF auth = "jwt" THEN JwtGuard(JwtTokens # {}, JwtTokens, ask.header)
  ELSE JwtGuard(BearerUrl # "", BearerTokens, ask.header)   \* "bearer"

New == [stage |-> "new", ask |-> NoAsk, by |-> "none", status |-> 0, limiter |-> "no", count |-> 0]

Client(r) == req[r].ask.client
Auth(r)   == Service(req[r].ask.route).auth

(* Seeded change: a hook ends the request and sends nothing.               *)
DoneSilently(state, by, status) ==
  [state EXCEPT !.stage = "done", !.by = by, !.count = 0]

Done(state, by, status) ==
  [state EXCEPT !.stage = "done", !.by = by, !.status = status, !.count = 0]

(* Progress of request r, and of nothing else.                             *)
Moves(r, state) ==
  /\ req' = [req EXCEPT ![r] = state]
  /\ UNCHANGED <<env, used, windows, link, breaks>>

(* Seeded change: the limit itself is already over.                        *)
JudgeLenient(state, count) ==
  IF count <= Limit + 1 THEN [state EXCEPT !.stage = "auth", !.limiter = "counted", !.count = 0]
  ELSE [Done(state, "limiter", 429) EXCEPT !.limiter = "counted"]

(* The limiter's decision on a client's count, this request included.      *)
Judge(state, count) ==
  IF count <= Limit THEN [state EXCEPT !.stage = "auth", !.limiter = "counted", !.count = 0]
  ELSE [Done(state, "limiter", IF Ban = 0 \/ count - Limit <= Ban THEN 429 ELSE 403)
          EXCEPT !.limiter = "counted"]

(* A limiter that cannot ask its store lets the request pass.              *)
SkipOnError(state) == [state EXCEPT !.stage = "auth", !.limiter = "skipped"]

(* The limiter's hook: in memory it decides at once; with Redis it sends a *)
(* command, which fails at once without a connection.                      *)
EnterLimiter(r, state) ==
  LET c == state.ask.client IN
  /\ IF ~setup.redisUrl
     THEN /\ used' = [used EXCEPT ![c] = @ + 1]
          /\ req' = [req EXCEPT ![r] = Judge(state, used'[c])]
     ELSE /\ UNCHANGED used
          /\ req' = [req EXCEPT ![r] = IF link = "up" THEN [state EXCEPT !.stage = "limit"]
                                       ELSE SkipOnError(state)]
  /\ UNCHANGED <<env, windows, link, breaks>>

-----------------------------------------------------------------------------
(* Arrival.  Up to its first wait a request runs without interruption.     *)

Arrives(r, ask) == boot = "serving" /\ req[r].stage = "new"

(* The filter's verdict: an error of its hook becomes a 500.               *)
IpFilter(ask) ==
  IF ~IpFiltered(ask.route) THEN Pass
  ELSE IF Unreadable(Allow, Deny, ask.client) THEN 500
  ELSE IF Blocked(Allow, Deny, ask.client) THEN 403
  ELSE Pass

Shed(ask) == pressed /\ Sheddable(ask.route)

LooksUpFirst(ask) ==
  /\ setup.cache /\ ask.looksUp /\ link = "up"
  /\ RateLimited(ask.route) /\ Service(ask.route).cacheable

ArriveFiltered(r, ask) ==
  /\ Arrives(r, ask) /\ IpFilter(ask) # Pass
  /\ Moves(r, Done([New EXCEPT !.ask = ask], "ip-filter", IpFilter(ask)))

ArriveShed(r, ask) ==
  /\ Arrives(r, ask) /\ IpFilter(ask) = Pass /\ Shed(ask)
  /\ Moves(r, Done([New EXCEPT !.ask = ask], "pressure", 503))

(* A route of the gateway's own, or none at all.                           *)
OwnAnswer(ask) ==
  LET metrics == MetricsGuard(MetricsToken, ask.header) IN
  IF ask.route = "/healthz" THEN 200
  ELSE IF ask.route = "/readyz" THEN (IF shuttingDown \/ pressed THEN 503 ELSE 200)
  ELSE IF ask.route = "/metrics" THEN (IF metrics = Pass THEN 200 ELSE metrics)
  ELSE 404

ArriveOwn(r, ask) ==
  /\ Arrives(r, ask) /\ IpFilter(ask) = Pass /\ ~Shed(ask) /\ ~RateLimited(ask.route)
  /\ Moves(r, Done([New EXCEPT !.ask = ask], "route", OwnAnswer(ask)))

ArriveLookup(r, ask) ==
  /\ Arrives(r, ask) /\ IpFilter(ask) = Pass /\ ~Shed(ask) /\ LooksUpFirst(ask)
  /\ Moves(r, [New EXCEPT !.ask = ask, !.stage = "lookup"])

ArriveLimiter(r, ask) ==
  /\ Arrives(r, ask) /\ IpFilter(ask) = Pass /\ ~Shed(ask)
  /\ RateLimited(ask.route) /\ ~LooksUpFirst(ask)
  /\ EnterLimiter(r, [New EXCEPT !.ask = ask])

-----------------------------------------------------------------------------
(* The cache lookup (serveHook): a hit answers the request then and there. *)

Hit(r) ==
  /\ req[r].stage = "lookup" /\ link = "up"
  /\ Moves(r, Done(req[r], "cache", 200))

Miss(r) ==
  /\ req[r].stage = "lookup" /\ link = "up"
  /\ EnterLimiter(r, req[r])

(* Seeded change: the timer needs the connection too.                      *)
LookupTimesOutLinked(r) ==
  /\ req[r].stage = "lookup" /\ link = "up"
  /\ EnterLimiter(r, req[r])

(* The timer of the race, the only way out when the connection is broken.  *)
LookupTimesOut(r) ==
  /\ req[r].stage = "lookup"
  /\ EnterLimiter(r, req[r])

-----------------------------------------------------------------------------
(* The limiter's command in Redis.                                         *)

Pending(r) == req[r].stage = "limit" /\ req[r].count = 0

(* Redis runs it: one atomic script per command.                           *)
RedisCounts(r) ==
  /\ Pending(r) /\ link = "up"
  /\ used' = [used EXCEPT ![Client(r)] = @ + 1]
  /\ req' = [req EXCEPT ![r].count = used'[Client(r)]]
  /\ UNCHANGED <<env, windows, link, breaks>>

(* Its reply arrives.                                                      *)
LimiterAnswers(r) ==
  /\ req[r].stage = "limit" /\ req[r].count > 0 /\ link = "up"
  /\ Moves(r, Judge(req[r], req[r].count))

(* Redis refuses the command.                                              *)
LimiterErrs(r) ==
  /\ Pending(r) /\ link = "up"
  /\ Moves(r, SkipOnError(req[r]))

(* Replies on the way are lost; the commands stay with the client, which   *)
(* will send them again, those that Redis has run included.                *)
LinkBreaks ==
  /\ setup.redisUrl /\ link = "up" /\ breaks < MaxBreaks
  /\ link' = "down"
  /\ breaks' = breaks + 1
  /\ req' = [r \in Request |-> [req[r] EXCEPT !.count = 0]]
  /\ UNCHANGED <<env, used, windows>>

Reconnect ==
  /\ link = "down"
  /\ link' = "up"
  /\ UNCHANGED <<env, req, used, windows, breaks>>

(* A client's window is over.                                              *)
WindowEnds(c) ==
  /\ used[c] > 0 /\ windows[c] < MaxWindows
  /\ used' = [used EXCEPT ![c] = 0]
  /\ windows' = [windows EXCEPT ![c] = @ + 1]
  /\ UNCHANGED <<env, req, link, breaks>>

-----------------------------------------------------------------------------
(* Authentication, and the proxy.                                          *)

Anonymous(r) == parseBearerToken(req[r].ask.header) = Null

(* Seeded change: only a wrong credential stops, not a missing key.        *)
AuthenticateOpen(r) ==
  LET verdict == Guard(Auth(r), req[r].ask) IN
  /\ req[r].stage = "auth"
  /\ Moves(r, IF verdict \in {Pass, 500} THEN [req[r] EXCEPT !.stage = "upstream"]
              ELSE Done(req[r], "auth", verdict))

Authenticate(r) ==
  LET verdict == Guard(Auth(r), req[r].ask) IN
  /\ req[r].stage = "auth" /\ (Auth(r) = "bearer" => verdict # 401 \/ Anonymous(r))
  /\ Moves(r, IF verdict = Pass THEN [req[r] EXCEPT !.stage = "upstream"]
              ELSE Done(req[r], "auth", verdict))

(* The bearer guard asks the auth service about a token it has not cached. *)
Introspect(r) ==
  /\ req[r].stage = "auth" /\ Auth(r) = "bearer"
  /\ BearerUrl # "" /\ ~Anonymous(r)
  /\ Moves(r, [req[r] EXCEPT !.stage = "introspect"])

(* The service answers; or it fails or lets the timer fire, which refuses. *)
Introspected(r) ==
  /\ req[r].stage = "introspect"
  /\ \E verdict \in {Guard("bearer", req[r].ask), 401} :
       Moves(r, IF verdict = Pass THEN [req[r] EXCEPT !.stage = "upstream"]
                ELSE Done(req[r], "auth", verdict))

UpstreamAnswers(r) ==
  /\ req[r].stage = "upstream"
  /\ \E status \in {200, 503} : Moves(r, Done(req[r], "upstream", status))

(* One error of each class of resolveStatus.                               *)
UpstreamErrors ==
  [code : {"ETIMEDOUT", "ECONNREFUSED", REPLY_FROM_WRAPPER_CODE}, saysTimeout : {FALSE},
   statusCode : {500}]

UpstreamFails(r) ==
  /\ req[r].stage = "upstream"
  /\ \E err \in UpstreamErrors : Moves(r, Done(req[r], "error-handler", resolveStatus(err)))

-----------------------------------------------------------------------------
PressureChanges ==
  /\ pressed' = ~pressed
  /\ UNCHANGED <<setup, boot, shuttingDown, req, used, windows, link, breaks>>

BeginDrain ==
  /\ boot = "serving" /\ ~shuttingDown
  /\ shuttingDown' = TRUE
  /\ UNCHANGED <<setup, boot, pressed, req, used, windows, link, breaks>>

Init ==
  /\ setup \in Setups
  /\ boot = "starting"
  /\ shuttingDown = FALSE
  /\ pressed = FALSE
  /\ req = [r \in Request |-> New]
  /\ used = [c \in Clients |-> 0]
  /\ windows = [c \in Clients |-> 1]
  /\ link = "up"
  /\ breaks = 0

Arrive(r) ==
  \E ask \in Asks :
    \/ ArriveFiltered(r, ask) \/ ArriveShed(r, ask) \/ ArriveOwn(r, ask)
    \/ ArriveLookup(r, ask) \/ ArriveLimiter(r, ask)

(* What the gateway, Redis behind a live connection and an upstream bound  *)
(* by its timeouts do for a request.                                       *)
Progress(r) ==
  \/ Hit(r) \/ Miss(r) \/ LookupTimesOut(r)
  \/ RedisCounts(r) \/ LimiterAnswers(r) \/ LimiterErrs(r)
  \/ Authenticate(r) \/ Introspect(r) \/ Introspected(r)
  \/ UpstreamAnswers(r) \/ UpstreamFails(r)

Next ==
  \/ Boot
  \/ \E r \in Request : Arrive(r) \/ Progress(r)
  \/ LinkBreaks
  \/ Reconnect
  \/ \E c \in Clients : WindowEnds(c)
  \/ PressureChanges
  \/ BeginDrain

Spec == Init /\ [][Next]_vars

(* Every request that can be served on is; nobody reconnects Redis.        *)
LiveSpec == Spec /\ \A r \in Request : WF_vars(Progress(r))

-----------------------------------------------------------------------------
Stages == {"new", "lookup", "limit", "auth", "introspect", "upstream", "done"}

(* Who has answered.                                                       *)
Answerers == {"none", "ip-filter", "pressure", "route", "cache", "limiter", "auth", "upstream",
              "error-handler"}

TypeOK ==
  /\ setup \in Setups
  /\ boot \in {"starting", "serving", "refused"}
  /\ shuttingDown \in BOOLEAN /\ pressed \in BOOLEAN
  /\ req \in [Request -> [stage : Stages, ask : Asks \union {NoAsk}, by : Answerers,
                          status : Nat, limiter : {"no", "counted", "skipped"}, count : Nat]]
  /\ \A r \in Request :
       /\ req[r].stage # "new" => req[r].ask \in Asks
       /\ req[r].stage # "limit" => req[r].count = 0
       /\ req[r].stage = "done" <=> req[r].status # 0
  /\ used \in [Clients -> Nat] /\ windows \in [Clients -> 1..MaxWindows]
  /\ link \in {"up", "down"} /\ breaks \in 0..MaxBreaks

(* The requests the proxy has sent on.                                     *)
Proxied(r) == req[r].stage = "upstream" \/ req[r].by \in {"upstream", "error-handler"}

(* An upstream hears only of requests of clients the filter can read and   *)
(* lets through, that the limiter has counted or could not count, and      *)
(* whose credentials the service's scheme accepts; a scheme that is not    *)
(* configured accepts none (app.ts:77-99, service-gateway.ts:163-196).     *)
UpstreamIsGuarded ==
  \A r \in Request : Proxied(r) =>
    /\ ~Unreadable(Allow, Deny, req[r].ask.client)
    /\ ~Blocked(Allow, Deny, req[r].ask.client)
    /\ req[r].limiter # "no"
    /\ Guard(Auth(r), req[r].ask) = Pass

(* "failed credential attempts consume the budget too" (rate-limit.ts:     *)
(* 9-10): however requests interleave, however often commands are sent     *)
(* again, a client's credentials are looked at no more often than its      *)
(* windows allow, requests the store failed on aside.  A client is an      *)
(* address as it is written (line 29).                                     *)
BruteForceIsThrottled ==
  \A c \in Clients :
    LET looked == {r \in Request : /\ req[r].stage # "new" /\ Client(r) = c
                                   /\ req[r].limiter # "skipped"
                                   /\ \/ req[r].stage = "introspect" \/ Proxied(r)
                                      \/ req[r].by = "auth"}
    IN  Cardinality(looked) <= Limit * windows[c]

(* Whatever becomes of Redis, of the lists and of the load, liveness is    *)
(* answered 200, and readiness by the gateway itself (health.ts:5-45).     *)
ProbesAreNeverGated ==
  \A r \in Request : req[r].stage # "new" =>
    /\ req[r].ask.route \in Probes => req[r].by = "route"
    /\ req[r].ask.route = "/healthz" => req[r].status = 200

(* The shared cache answers only where no credential is asked for          *)
(* (service-gateway.ts:50-56, 171-185).                                    *)
HitsAskForNoCredentials ==
  \A r \in Request : req[r].by = "cache" => Auth(r) = "none"

(* What the gateway takes on it answers, whatever Redis, the auth service  *)
(* and the upstream do: a lookup, an introspection and a proxied request   *)
(* end by their timers.  Only the limiter's command waits for a broken     *)
(* connection (cache.ts:115-134: "a cache outage never takes the gateway   *)
(* down"; bearer-auth.strategy.ts:122-135).                                *)
RequestsEnd ==
  \A r \in Request :
    req[r].stage \notin {"new", "done"}
      ~> req[r].stage = "done" \/ (req[r].stage = "limit" /\ link = "down")

(* rate-limit.ts:17-19: "a Redis outage means unthrottled traffic, never   *)
(* hung or failed requests"; docs/operations.md:71-75 says it again.       *)
LimiterNeverHangs == \A r \in Request : req[r].stage = "limit" ~> req[r].stage # "limit"

(* docs/architecture.md:59: "Caching (feature flag CACHE_ENABLED) sits     *)
(* between rate-limit and proxy", so a cached answer has been counted.     *)
HitsAreCounted == \A r \in Request : req[r].by = "cache" => req[r].limiter # "no"
=============================================================================
