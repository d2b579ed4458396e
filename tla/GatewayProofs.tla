--------------------------- MODULE GatewayProofs ---------------------------
(***************************************************************************)
(* What holds of the request pipeline for any number of requests, clients  *)
(* and services, any lists, credentials and limits, and however often the  *)
(* connection to Redis breaks.                                             *)
(***************************************************************************)
EXTENDS Gateway, FiniteSetTheorems, TLAPS

Record ==
  [stage : Stages, ask : Asks \union {NoAsk}, by : Answerers,
   status : Nat, limiter : {"no", "counted", "skipped"}, count : Nat]

(* What the filter lets through: an address it can read and does not       *)
(* block.                                                                  *)
Welcome(client) == ~Unreadable(Allow, Deny, client) /\ ~Blocked(Allow, Deny, client)

(* A request that the filter and the shedder have let into a service.      *)
Admitted(q) ==
  \/ q.stage \in {"lookup", "limit", "auth", "introspect", "upstream"}
  \/ q.by \in {"cache", "limiter", "auth", "upstream", "error-handler"}

(* One that the limiter has let through.                                   *)
Passed(q) ==
  q.stage \in {"auth", "introspect", "upstream"} \/ q.by \in {"auth", "upstream", "error-handler"}

Sent(q) == q.stage = "upstream" \/ q.by \in {"upstream", "error-handler"}

(***************************************************************************)
(* The inductive invariant, request by request: what each gate has         *)
(* established stays with the request through all later stages.            *)
(***************************************************************************)
Shaped(q) ==
  /\ q \in Record
  /\ q.stage # "new" => q.ask \in Asks /\ boot = "serving"
  /\ q.stage # "limit" => q.count = 0
  /\ q.stage = "done" <=> q.status # 0
  /\ q.stage = "done" <=> q.by # "none"

Sound(q) ==
  /\ Admitted(q) => RateLimited(q.ask.route) /\ Welcome(q.ask.client)
  /\ q.stage = "lookup" \/ q.by = "cache" => Service(q.ask.route).cacheable
  /\ Passed(q) => q.limiter # "no"
  /\ q.stage = "introspect" => Service(q.ask.route).auth = "bearer"
  /\ Sent(q) => Guard(Service(q.ask.route).auth, q.ask) = Pass
  /\ q.stage # "new" /\ q.ask.route \in Probes => q.by = "route"
  /\ q.by = "route" /\ q.ask.route = "/healthz" => q.status = 200

Environment ==
  /\ setup \in Setups
  /\ boot \in {"starting", "serving", "refused"}
  /\ boot = "serving" => \A s \in setup.services : Mounts(s)
  /\ shuttingDown \in BOOLEAN /\ pressed \in BOOLEAN
  /\ used \in [Clients -> Nat] /\ windows \in [Clients -> 1..MaxWindows]
  /\ link \in {"up", "down"} /\ breaks \in 0..MaxBreaks

GInv ==
  /\ Environment
  /\ req \in [Request -> Record]
  /\ \A r \in Request : Shaped(req[r]) /\ Sound(req[r])

-----------------------------------------------------------------------------
(* What the guards, the routes and the error handler may answer.           *)

LEMMA GuardAnswers ==
  ASSUME NEW auth \in AuthSchemes, NEW ask
  PROVE  Guard(auth, ask) \in {Pass, 401, 500}
BY DEF Guard, ApiKeyGuard, BasicGuard, JwtGuard, Pass

LEMMA OwnAnswers ==
  ASSUME NEW ask
  PROVE  /\ OwnAnswer(ask) \in {200, 401, 404, 503}
         /\ ask.route = "/healthz" => OwnAnswer(ask) = 200
<1>1. MetricsGuard(MetricsToken, ask.header) \in {Pass, 401}
  BY DEF MetricsGuard, Pass
<1> QED BY <1>1 DEF OwnAnswer, Pass

LEMMA ErrorAnswers ==
  ASSUME NEW err \in UpstreamErrors
  PROVE  resolveStatus(err) \in {502, 504}
BY DEF UpstreamErrors, resolveStatus, UPSTREAM_TIMEOUT_CODES, UPSTREAM_CONNECTION_CODES,
       REPLY_FROM_WRAPPER_CODE

(* A service is declared under the route it is found by, which is none of  *)
(* the gateway's own; mounted, its scheme is one of the five.              *)
LEMMA ServiceFound ==
  ASSUME setup \in Setups, NEW route, RateLimited(route)
  PROVE  Service(route) \in setup.services /\ route \notin Own
BY GatewayAssumption DEF RateLimited, Service, Own, Probes

LEMMA ServiceMounted ==
  ASSUME Environment, boot = "serving", NEW route, RateLimited(route)
  PROVE  /\ Service(route).auth \in AuthSchemes
         /\ Service(route).cacheable => Service(route).auth = "none"
BY ServiceFound DEF Environment, Mounts, Registered, AuthSchemes

(* Done ends a request and changes nothing else of it.                     *)
LEMMA Answered ==
  ASSUME NEW q \in Record, q.ask \in Asks, boot = "serving",
         NEW by \in Answerers \ {"none"}, NEW status \in Nat \ {0}, NEW e, e = Done(q, by, status)
  PROVE  /\ Shaped(e)
         /\ e.ask = q.ask /\ e.limiter = q.limiter
         /\ e.stage = "done" /\ e.by = by /\ e.status = status
<1>1. e = [stage |-> "done", ask |-> q.ask, by |-> by, status |-> status,
           limiter |-> q.limiter, count |-> 0]
  BY DEF Done, Record
<1>2. e \in Record
  BY <1>1 DEF Record, Stages
<1> QED BY <1>1, <1>2 DEF Shaped

(* Judge and SkipOnError lead a request that is admitted and not sent to a *)
(* sound one.                                                              *)
LEMMA LimiterSound ==
  ASSUME NEW q \in Record, q.ask \in Asks, boot = "serving", setup \in Setups,
         q.status = 0, q.by = "none", q.stage \in {"new", "lookup", "limit"},
         RateLimited(q.ask.route), Welcome(q.ask.client), NEW n \in Nat
  PROVE  /\ Shaped(Judge(q, n)) /\ Sound(Judge(q, n))
         /\ q.count = 0 => /\ Shaped(SkipOnError(q)) /\ Sound(SkipOnError(q))
                           /\ Shaped([q EXCEPT !.stage = "limit"])
                           /\ Sound([q EXCEPT !.stage = "limit"])
<1> USE GatewayAssumption DEF Record, Stages, Answerers
<1>1. q.ask.route \notin Probes
  BY ServiceFound DEF Own
<1>2. q.count = 0 => Shaped(SkipOnError(q)) /\ Sound(SkipOnError(q))
  BY <1>1 DEF SkipOnError, Shaped, Sound, Admitted, Passed, Sent
<1>3. q.count = 0 => /\ Shaped([q EXCEPT !.stage = "limit"])
                     /\ Sound([q EXCEPT !.stage = "limit"])
  BY <1>1 DEF Shaped, Sound, Admitted, Passed, Sent
<1>4. Shaped(Judge(q, n)) /\ Sound(Judge(q, n))
  <2>1. CASE n <= Limit
    BY <1>1, <2>1 DEF Judge, Shaped, Sound, Admitted, Passed, Sent
  <2>2. CASE ~(n <= Limit)
    <3> DEFINE status == IF Ban = 0 \/ n - Limit <= Ban THEN 429 ELSE 403
               after == [q EXCEPT !.stage = "done", !.by = "limiter", !.status = status,
                                  !.count = 0, !.limiter = "counted"]
    <3>1. status \in Nat \ {0}
      OBVIOUS
    <3>2. Judge(q, n) = after
      BY <2>2 DEF Judge, Done
    <3> HIDE DEF status
    <3>3. Shaped(after) /\ Sound(after)
      BY <1>1, <3>1 DEF Shaped, Sound, Admitted, Passed, Sent
    <3> QED BY <3>2, <3>3
  <2> QED BY <2>1, <2>2
<1> QED BY <1>2, <1>3, <1>4

-----------------------------------------------------------------------------
(* A request moves on, and the rest of the world stays: its new state has  *)
(* to be sound.                                                            *)
LEMMA OneMoves ==
  ASSUME GInv, NEW r \in Request, NEW q, Shaped(q), Sound(q),
         req' = [req EXCEPT ![r] = q], UNCHANGED <<setup, boot>>
  PROVE  /\ req' \in [Request -> Record]
         /\ \A s \in Request : (Shaped(req[s]) /\ Sound(req[s]))'
<1>1. q \in Record
  BY DEF Shaped
<1>2. req' \in [Request -> Record]
  BY <1>1 DEF GInv
<1>3. ASSUME NEW s \in Request PROVE Shaped(req'[s]) /\ Sound(req'[s])
  BY <1>1 DEF GInv
<1>4. ASSUME NEW s \in Request PROVE (Shaped(req[s]) /\ Sound(req[s]))'
  <2> DEFINE p == req'[s]
  <2>1. Shaped(p) /\ Sound(p)
    BY <1>3
  <2> QED BY <2>1 DEF Shaped, Sound, Admitted, Passed, Sent, RateLimited, Service
<1> QED BY <1>2, <1>4

LEMMA Initially == Init => GInv
<1> SUFFICES ASSUME Init PROVE GInv
  OBVIOUS
<1> USE GatewayAssumption DEF Init
<1>1. Environment
  <2>1. used \in [Clients -> Nat] /\ windows \in [Clients -> 1..MaxWindows]
    OBVIOUS
  <2>2. breaks \in 0..MaxBreaks
    OBVIOUS
  <2> QED BY <2>1, <2>2 DEF Environment
<1>2. New \in Record
  BY DEF New, Record, Stages, Answerers
<1>3. ASSUME NEW r \in Request PROVE Shaped(req[r]) /\ Sound(req[r])
  BY <1>2 DEF New, Shaped, Sound, Admitted, Passed, Sent
<1> QED BY <1>1, <1>2, <1>3 DEF GInv

(* So it does when the request makes a plain move.                         *)
LEMMA PlainMove ==
  ASSUME GInv, NEW r \in Request, NEW q, Shaped(q), Sound(q), Moves(r, q)
  PROVE  GInv'
<1>1. Environment'
  BY DEF GInv, Environment, Moves, env
<1>2. /\ req' \in [Request -> Record]
      /\ \A s \in Request : (Shaped(req[s]) /\ Sound(req[s]))'
  BY OneMoves DEF Moves, env
<1> QED BY <1>1, <1>2 DEF GInv

(* And when it enters the limiter.                                         *)
LEMMA LimiterEntered ==
  ASSUME GInv, NEW r \in Request, NEW q \in Record, q.ask \in Asks, boot = "serving",
         q.status = 0, q.by = "none", q.stage \in {"new", "lookup"}, q.count = 0,
         RateLimited(q.ask.route), Welcome(q.ask.client), EnterLimiter(r, q)
  PROVE  GInv'
<1> DEFINE c == q.ask.client
<1>1. c \in Clients
  BY DEF Clients
<1>2. used[c] + 1 \in Nat
  BY <1>1 DEF GInv, Environment
<1> DEFINE after == IF ~setup.redisUrl THEN Judge(q, used[c] + 1)
                    ELSE IF link = "up" THEN [q EXCEPT !.stage = "limit"] ELSE SkipOnError(q)
<1>3. Shaped(after) /\ Sound(after)
  BY <1>2, LimiterSound DEF GInv, Environment
<1>4. req' = [req EXCEPT ![r] = after]
  BY <1>1 DEF EnterLimiter, GInv, Environment
<1>5. Environment'
  BY <1>1, <1>2 DEF EnterLimiter, GInv, Environment, env
<1>6. /\ req' \in [Request -> Record]
      /\ \A s \in Request : (Shaped(req[s]) /\ Sound(req[s]))'
  <2> HIDE DEF after
  <2> QED BY <1>3, <1>4, OneMoves DEF EnterLimiter, env
<1> QED BY <1>5, <1>6 DEF GInv

(* A step that leaves every request alone, or takes back its count.        *)
LEMMA NobodyMoves ==
  ASSUME GInv, Environment', setup' = setup, boot = "serving" => boot' = "serving",
         \/ req' = req
         \/ req' = [r \in Request |-> [req[r] EXCEPT !.count = 0]]
  PROVE  GInv'
<1>1. ASSUME NEW r \in Request PROVE Shaped(req[r])' /\ Sound(req[r])'
  <2>1. Shaped(req[r]) /\ Sound(req[r]) /\ req[r] \in Record
    BY DEF GInv
  <2>2. CASE req' = req
    BY <2>1, <2>2 DEF Shaped, Sound, Admitted, Passed, Sent, RateLimited, Service
  <2>3. CASE req' = [s \in Request |-> [req[s] EXCEPT !.count = 0]]
    <3>1. req'[r] = [req[r] EXCEPT !.count = 0]
      BY <2>3
    <3>2. Shaped(req[r])'
      BY <2>1, <3>1 DEF Shaped, Record
    <3>3. Sound(req[r])'
      BY <2>1, <3>1 DEF Sound, Record, Admitted, Passed, Sent, RateLimited, Service
    <3> QED BY <3>2, <3>3
  <2> QED BY <2>2, <2>3
<1>2. req' \in [Request -> Record]
  BY DEF GInv, Record
<1> QED BY <1>1, <1>2 DEF GInv

(* Every step keeps the invariant.                                         *)
LEMMA Stepwise == GInv /\ [Next]_vars => GInv'
<1> SUFFICES ASSUME GInv, [Next]_vars PROVE GInv'
  OBVIOUS
<1> USE GatewayAssumption
<1> DEFINE Fresh(ask) == [New EXCEPT !.ask = ask]
<1>a. ASSUME NEW ask \in Asks
      PROVE  /\ Fresh(ask) \in Record /\ Fresh(ask).ask = ask /\ Fresh(ask).status = 0
             /\ Fresh(ask).by = "none" /\ Fresh(ask).stage = "new" /\ Fresh(ask).count = 0
             /\ Fresh(ask).limiter = "no"
  BY DEF New, Record, Stages, Answerers
<1>r. ASSUME NEW r \in Request
      PROVE  req[r] \in Record /\ Shaped(req[r]) /\ Sound(req[r])
  BY DEF GInv
<1>1. CASE Boot
  <2>1. boot' = "serving" => \A s \in setup.services : Mounts(s)
    BY <1>1 DEF Boot, BootSucceeds
  <2>2. Environment'
    BY <1>1, <2>1 DEF Boot, GInv, Environment, Mounts, Registered
  <2> QED BY <1>1, <2>2, NobodyMoves DEF Boot
<1>2. ASSUME NEW r \in Request, NEW ask \in Asks,
             \/ ArriveFiltered(r, ask) \/ ArriveShed(r, ask) \/ ArriveOwn(r, ask)
             \/ ArriveLookup(r, ask) \/ ArriveLimiter(r, ask)
      PROVE  GInv'
  <2> USE <1>a DEF Record, Stages, Answerers, Arrives
  <2>1. CASE ArriveFiltered(r, ask)
    <3> DEFINE q == Done(Fresh(ask), "ip-filter", IpFilter(ask))
    <3>0. IpFilter(ask) \in {403, 500} /\ ask.route \notin Probes
      BY <2>1 DEF ArriveFiltered, IpFilter, IpFiltered
    <3>1. Shaped(q) /\ q.ask = ask /\ q.stage = "done" /\ q.by = "ip-filter"
      BY <2>1, <3>0, Answered DEF ArriveFiltered
    <3> HIDE DEF q
    <3>2. Sound(q)
      BY <3>0, <3>1 DEF Sound, Admitted, Passed, Sent
    <3> USE DEF q
    <3> QED BY <2>1, <3>1, <3>2, PlainMove DEF ArriveFiltered
  <2>2. CASE ArriveShed(r, ask)
    <3> DEFINE q == Done(Fresh(ask), "pressure", 503)
    <3>1. Shaped(q) /\ q.ask = ask /\ q.stage = "done" /\ q.by = "pressure"
      BY <2>2, Answered DEF ArriveShed
    <3> HIDE DEF q
    <3>2. Sound(q)
      BY <2>2, <3>1 DEF ArriveShed, Shed, Sheddable, Own, Sound, Admitted, Passed, Sent
    <3> USE DEF q
    <3> QED BY <2>2, <3>1, <3>2, PlainMove DEF ArriveShed
  <2>3. CASE ArriveOwn(r, ask)
    <3> DEFINE q == Done(Fresh(ask), "route", OwnAnswer(ask))
    <3>1. /\ Shaped(q) /\ q.ask = ask /\ q.stage = "done"
          /\ q.by = "route" /\ q.status = OwnAnswer(ask)
      BY <2>3, OwnAnswers, Answered DEF ArriveOwn
    <3> HIDE DEF q
    <3>2. Sound(q)
      BY <3>1, OwnAnswers DEF Sound, Admitted, Passed, Sent
    <3> USE DEF q
    <3> QED BY <2>3, <3>1, <3>2, PlainMove DEF ArriveOwn
  <2>4. CASE ArriveLookup(r, ask)
    <3> DEFINE q == [Fresh(ask) EXCEPT !.stage = "lookup"]
    <3>1. RateLimited(ask.route) /\ ask.route \notin Own
      BY <2>4, ServiceFound DEF ArriveLookup, LooksUpFirst, GInv, Environment
    <3>2. Welcome(ask.client)
      BY <2>4, <3>1 DEF ArriveLookup, IpFilter, IpFiltered, Welcome, Pass, Own
    <3>3. Shaped(q) /\ Sound(q)
      BY <2>4, <3>1, <3>2 DEF ArriveLookup, LooksUpFirst, Own, Shaped, Sound, Admitted, Passed,
                              Sent
    <3>4. Moves(r, q)
      BY <2>4 DEF ArriveLookup, New
    <3> QED BY <3>3, <3>4, PlainMove
  <2>5. CASE ArriveLimiter(r, ask)
    <3>1. RateLimited(ask.route) /\ ask.route \notin Own
      BY <2>5, ServiceFound DEF ArriveLimiter, GInv, Environment
    <3>2. Welcome(ask.client)
      BY <2>5, <3>1 DEF ArriveLimiter, IpFilter, IpFiltered, Welcome, Pass, Own
    <3> HIDE DEF Fresh
    <3>3. EnterLimiter(r, Fresh(ask))
      BY <2>5 DEF ArriveLimiter, Fresh
    <3> QED BY <2>5, <3>1, <3>2, <3>3, LimiterEntered DEF ArriveLimiter
  <2> QED BY <1>2, <2>1, <2>2, <2>3, <2>4, <2>5
<1>3. ASSUME NEW r \in Request, Hit(r) PROVE GInv'
  <2> DEFINE q == Done(req[r], "cache", 200)
  <2>1. /\ req[r].ask \in Asks /\ boot = "serving" /\ req[r].ask.route \notin Probes
        /\ RateLimited(req[r].ask.route) /\ Welcome(req[r].ask.client)
        /\ Service(req[r].ask.route).cacheable
    BY <1>3, <1>r, ServiceFound DEF Hit, Shaped, Sound, Admitted, GInv, Environment, Own
  <2>2. Shaped(q) /\ q.ask = req[r].ask /\ q.stage = "done" /\ q.by = "cache"
    BY <1>r, <2>1, Answered DEF Answerers
  <2> HIDE DEF q
  <2>3. Sound(q)
    BY <2>1, <2>2 DEF Sound, Admitted, Passed, Sent
  <2> USE DEF q
  <2> QED BY <1>3, <2>2, <2>3, PlainMove DEF Hit
<1>4. ASSUME NEW r \in Request, Miss(r) \/ LookupTimesOut(r) PROVE GInv'
  <2>1. /\ req[r].ask \in Asks /\ boot = "serving" /\ req[r].status = 0 /\ req[r].by = "none"
        /\ req[r].stage = "lookup" /\ req[r].count = 0
        /\ RateLimited(req[r].ask.route) /\ Welcome(req[r].ask.client)
    BY <1>4, <1>r DEF Miss, LookupTimesOut, Shaped, Sound, Admitted, Record, Answerers
  <2>2. EnterLimiter(r, req[r])
    BY <1>4 DEF Miss, LookupTimesOut
  <2> QED BY <1>r, <2>1, <2>2, LimiterEntered
<1>5. ASSUME NEW r \in Request, RedisCounts(r) PROVE GInv'
  <2> DEFINE n == used[Client(r)] + 1
             q == [req[r] EXCEPT !.count = n]
  <2>1. Client(r) \in Clients
    BY <1>5, <1>r DEF RedisCounts, Pending, Client, Clients, Shaped
  <2>2. n \in Nat
    BY <2>1 DEF GInv, Environment
  <2>3. Environment' /\ req' = [req EXCEPT ![r] = q]
    BY <1>5, <2>1, <2>2 DEF RedisCounts, GInv, Environment, env
  <2>4. Shaped(q) /\ Sound(q)
    <3> HIDE DEF n
    <3> QED BY <1>5, <1>r, <2>2 DEF RedisCounts, Pending, Record, Shaped, Sound, Admitted, Passed, Sent
  <2>5. UNCHANGED <<setup, boot>>
    BY <1>5 DEF RedisCounts, env
  <2> HIDE DEF q
  <2> QED BY <2>3, <2>4, <2>5, OneMoves DEF GInv
<1>6. ASSUME NEW r \in Request, LimiterAnswers(r) \/ LimiterErrs(r) PROVE GInv'
  <2>1. /\ req[r].ask \in Asks /\ boot = "serving" /\ req[r].status = 0 /\ req[r].by = "none"
        /\ req[r].stage = "limit" /\ req[r].count \in Nat
        /\ RateLimited(req[r].ask.route) /\ Welcome(req[r].ask.client)
        /\ LimiterErrs(r) => req[r].count = 0
    BY <1>6, <1>r
    DEF LimiterAnswers, LimiterErrs, Pending, Shaped, Sound, Admitted, Record, Answerers
  <2>2. /\ Shaped(Judge(req[r], req[r].count)) /\ Sound(Judge(req[r], req[r].count))
        /\ LimiterErrs(r) => Shaped(SkipOnError(req[r])) /\ Sound(SkipOnError(req[r]))
    BY <1>r, <2>1, LimiterSound DEF GInv, Environment
  <2> QED BY <1>6, <2>2, PlainMove DEF LimiterAnswers, LimiterErrs
<1>7. ASSUME NEW r \in Request, Authenticate(r) \/ Introspect(r) \/ Introspected(r) PROVE GInv'
  <2> DEFINE verdict == Guard(Auth(r), req[r].ask)
             on      == [req[r] EXCEPT !.stage = "upstream"]
  <2>1. /\ req[r].ask \in Asks /\ boot = "serving" /\ req[r].by = "none"
        /\ req[r].status = 0 /\ req[r].stage \in {"auth", "introspect"} /\ req[r].limiter # "no"
        /\ RateLimited(req[r].ask.route) /\ Welcome(req[r].ask.client)
        /\ req[r].stage = "introspect" => Auth(r) = "bearer"
    <3>1. req[r].stage \in {"auth", "introspect"}
      BY <1>7 DEF Authenticate, Introspect, Introspected
    <3>2. req[r].ask \in Asks /\ boot = "serving" /\ req[r].by = "none" /\ req[r].status = 0
      BY <1>r, <3>1 DEF Shaped, Record, Answerers
    <3>3. /\ req[r].limiter # "no" /\ RateLimited(req[r].ask.route) /\ Welcome(req[r].ask.client)
          /\ req[r].stage = "introspect" => Auth(r) = "bearer"
      BY <1>r, <3>1 DEF Auth, Sound, Admitted, Passed
    <3> QED BY <3>1, <3>2, <3>3
  <2>2. verdict \in {Pass, 401, 500} /\ req[r].ask.route \notin Probes
    BY <2>1, ServiceMounted, ServiceFound, GuardAnswers DEF GInv, Environment, Auth, Own
  <2>3. ASSUME NEW v \in {401, 500} PROVE Shaped(Done(req[r], "auth", v)) /\ Sound(Done(req[r], "auth", v))
    <3> DEFINE q == Done(req[r], "auth", v)
    <3>1. /\ Shaped(q) /\ q.ask = req[r].ask /\ q.stage = "done" /\ q.by = "auth"
          /\ q.limiter = req[r].limiter
      BY <1>r, <2>1, Answered DEF Answerers
    <3> HIDE DEF q
    <3>2. Sound(q)
      BY <2>1, <2>2, <3>1 DEF Sound, Admitted, Passed, Sent
    <3> USE DEF q
    <3> QED BY <3>1, <3>2
  <2>4. verdict = Pass => Shaped(on) /\ Sound(on)
    BY <1>r, <2>1, <2>2 DEF Record, Stages, Answerers, Shaped, Sound, Admitted, Passed, Sent, Auth
  <2>5. CASE Authenticate(r)
    <3> HIDE DEF on
    <3>1. Moves(r, IF verdict = Pass THEN on ELSE Done(req[r], "auth", verdict))
      BY <2>5 DEF Authenticate, on
    <3> HIDE DEF verdict
    <3> QED BY <2>2, <2>3, <2>4, <3>1, PlainMove DEF Pass
  <2>6. CASE Introspect(r)
    <3> DEFINE q == [req[r] EXCEPT !.stage = "introspect"]
    <3>1. Shaped(q)
      BY <1>r, <2>1, <2>6 DEF Introspect, Record, Stages, Shaped
    <3>2. /\ q.ask = req[r].ask /\ q.stage = "introspect" /\ q.by = "none"
          /\ q.limiter = req[r].limiter
      BY <1>r, <2>1 DEF Record
    <3>3. Sound(q)
      <4> HIDE DEF q, verdict
      <4>1. Service(q.ask.route).auth = "bearer" /\ q.ask.route \notin Probes
        BY <2>2, <2>6, <3>2 DEF Introspect, Auth
      <4> QED BY <2>1, <3>2, <4>1 DEF Sound, Admitted, Passed, Sent
    <3>4. Moves(r, q)
      BY <2>6 DEF Introspect
    <3> HIDE DEF q
    <3> QED BY <3>1, <3>3, <3>4, PlainMove
  <2>7. CASE Introspected(r)
    <3> HIDE DEF on
    <3>1. Auth(r) = "bearer"
      BY <2>1, <2>7 DEF Introspected
    <3>2. PICK v \in {verdict, 401} :
             Moves(r, IF v = Pass THEN on ELSE Done(req[r], "auth", v))
      BY <2>7, <3>1 DEF Introspected, on
    <3> HIDE DEF verdict
    <3> QED BY <2>2, <2>3, <2>4, <3>2, PlainMove DEF Pass
  <2> QED BY <1>7, <2>5, <2>6, <2>7
<1>8. ASSUME NEW r \in Request, UpstreamAnswers(r) \/ UpstreamFails(r) PROVE GInv'
  <2>1. ASSUME NEW by \in {"upstream", "error-handler"}, NEW status \in Nat \ {0},
               req[r].stage = "upstream"
        PROVE  Shaped(Done(req[r], by, status)) /\ Sound(Done(req[r], by, status))
    <3> DEFINE q == Done(req[r], by, status)
    <3>1. /\ Shaped(q) /\ q.ask = req[r].ask /\ q.stage = "done" /\ q.by = by
          /\ q.limiter = req[r].limiter
      BY <1>r, <2>1, Answered DEF Answerers, Shaped
    <3> HIDE DEF q
    <3>2. Sound(q)
      BY <1>r, <2>1, <3>1, ServiceFound
      DEF Sound, Admitted, Passed, Sent, GInv, Environment, Own
    <3> USE DEF q
    <3> QED BY <3>1, <3>2
  <2>2. CASE UpstreamAnswers(r)
    BY <2>1, <2>2, PlainMove DEF UpstreamAnswers
  <2>3. CASE UpstreamFails(r)
    BY <2>1, <2>3, ErrorAnswers, PlainMove DEF UpstreamFails
  <2> QED BY <1>8, <2>2, <2>3
<1>9. CASE LinkBreaks
  <2>1. Environment'
    BY <1>9 DEF LinkBreaks, GInv, Environment, env
  <2> QED BY <1>9, <2>1, NobodyMoves DEF LinkBreaks, env
<1>10. ASSUME NEW c \in Clients, WindowEnds(c) PROVE GInv'
  <2>1. Environment'
    BY <1>10 DEF WindowEnds, GInv, Environment, env
  <2> QED BY <1>10, <2>1, NobodyMoves DEF WindowEnds, env
<1>11. CASE Reconnect \/ PressureChanges \/ BeginDrain \/ UNCHANGED vars
  <2>1. Environment'
    BY <1>11 DEF Reconnect, PressureChanges, BeginDrain, vars, GInv, Environment, env
  <2> QED BY <1>11, <2>1, NobodyMoves DEF Reconnect, PressureChanges, BeginDrain, vars, env
<1> QED
  BY <1>1, <1>2, <1>3, <1>4, <1>5, <1>6, <1>7, <1>8, <1>9, <1>10, <1>11
  DEF Next, Arrive, Progress

(* The invariant holds throughout, which all that follows rests on.        *)
THEOREM Inductive == Spec => []GInv
BY Initially, Stepwise, PTL DEF Spec

(* Every request is in one of its stages, is answered exactly when it is   *)
(* done, and holds a count only while its command is in Redis.             *)
THEOREM TypeCorrect == Spec => []TypeOK
<1>1. GInv => TypeOK
  BY DEF GInv, Environment, Shaped, TypeOK, Record
<1> QED BY <1>1, Inductive, PTL

(* An upstream hears only of requests that every gate has let through,     *)
(* whatever the services, the lists, the credentials and the load.         *)
THEOREM GuardedForAll == Spec => []UpstreamIsGuarded
<1>1. GInv => UpstreamIsGuarded
  BY DEF GInv, Sound, Welcome, Admitted, Passed, Sent, UpstreamIsGuarded, Proxied, Auth
<1> QED BY <1>1, Inductive, PTL

(* The probes answer for themselves in every state.                        *)
THEOREM ProbesOpenForAll == Spec => []ProbesAreNeverGated
<1>1. GInv => ProbesAreNeverGated
  <2> SUFFICES ASSUME GInv, NEW r \in Request, req[r].stage # "new"
               PROVE  /\ req[r].ask.route \in Probes => req[r].by = "route"
                      /\ req[r].ask.route = "/healthz" => req[r].status = 200
    BY DEF ProbesAreNeverGated
  <2> QED BY DEF GInv, Sound, Probes
<1> QED BY <1>1, Inductive, PTL

(* No cached answer is ever given where a credential is asked for.         *)
THEOREM HitsOpenForAll == Spec => []HitsAskForNoCredentials
<1>1. GInv => HitsAskForNoCredentials
  <2> SUFFICES ASSUME GInv, NEW r \in Request, req[r].by = "cache"
               PROVE  Auth(r) = "none"
    BY DEF HitsAskForNoCredentials
  <2>1. /\ boot = "serving" /\ RateLimited(req[r].ask.route)
        /\ Service(req[r].ask.route).cacheable
    BY DEF GInv, Shaped, Sound, Admitted, Record, Answerers
  <2> QED BY <2>1, ServiceMounted DEF GInv, Auth
<1> QED BY <1>1, Inductive, PTL

-----------------------------------------------------------------------------
(***************************************************************************)
(* Brute force.  A request whose credentials may still be looked at holds  *)
(* a place in a window of its client: it has passed the limiter, or its    *)
(* command has run within the limit and the reply is on the way.  A window *)
(* that is over has given at most Limit places, the present one as many as *)
(* it has counted; a command that is sent again is counted again, and the  *)
(* place of its first run is lost with the reply.                          *)
(***************************************************************************)
Holds(q, c) ==
  /\ q.stage # "new" /\ q.ask.client = c
  /\ \/ Passed(q) /\ q.limiter = "counted"
     \/ q.stage = "limit" /\ 0 < q.count /\ q.count <= Limit

Holders(c) == {r \in Request : Holds(req[r], c)}

Places(c) == Limit * (windows[c] - 1) + (IF used[c] <= Limit THEN used[c] ELSE Limit)

BInv == \A c \in Clients : Cardinality(Holders(c)) <= Places(c)

(* Nobody takes a place, or one request does while the window counts it.   *)
LEMMA PlacesSuffice ==
  ASSUME GInv, BInv, GInv', NEW r, NEW c \in Clients,
         \/ Holders(c)' \subseteq Holders(c) /\ Places(c)' >= Places(c)
         \/ Holders(c)' \subseteq Holders(c) \union {r} /\ Places(c)' >= Places(c) + 1
  PROVE  (Cardinality(Holders(c)) <= Places(c))'
<1>1. IsFiniteSet(Holders(c)) /\ IsFiniteSet(Holders(c)')
  BY GatewayAssumption, FS_Subset DEF Holders
<1>2. /\ Cardinality(Holders(c)) \in Nat /\ Cardinality(Holders(c)') \in Nat
      /\ Cardinality(Holders(c)) <= Places(c)
  BY <1>1, FS_CardinalityType DEF BInv
<1>3. Places(c) \in Int /\ Places(c)' \in Int
  BY GatewayAssumption DEF GInv, Environment, Places
<1>4. CASE Holders(c)' \subseteq Holders(c) /\ Places(c)' >= Places(c)
  <2>1. Cardinality(Holders(c)') <= Cardinality(Holders(c))
    BY <1>1, <1>4, FS_Subset
  <2> QED BY <1>2, <1>3, <1>4, <2>1
<1>5. CASE Holders(c)' \subseteq Holders(c) \union {r} /\ Places(c)' >= Places(c) + 1
  <2>1. /\ IsFiniteSet(Holders(c) \union {r})
        /\ Cardinality(Holders(c) \union {r}) \in {Cardinality(Holders(c)), Cardinality(Holders(c)) + 1}
    BY <1>1, FS_AddElement
  <2>2. Cardinality(Holders(c)') <= Cardinality(Holders(c) \union {r})
    BY <1>5, <2>1, FS_Subset
  <2> QED BY <1>2, <1>3, <1>5, <2>1, <2>2
<1> QED BY <1>4, <1>5

(* A request that takes no place leaves the bound as it is.                *)
LEMMA NoPlaceTaken ==
  ASSUME GInv, BInv, GInv', NEW r \in Request, NEW q, req' = [req EXCEPT ![r] = q],
         UNCHANGED <<used, windows>>, \A c \in Clients : Holds(q, c) => Holds(req[r], c)
  PROVE  BInv'
<1> SUFFICES ASSUME NEW c \in Clients PROVE (Cardinality(Holders(c)) <= Places(c))'
  BY DEF BInv
<1>1. Holders(c)' \subseteq Holders(c)
  BY DEF Holders, GInv, Holds, Passed
<1>2. Places(c)' >= Places(c)
  BY GatewayAssumption DEF Places, GInv, Environment
<1> QED BY <1>1, <1>2, PlacesSuffice

(* A request that is counted takes a place only within the limit.          *)
LEMMA PlaceCounted ==
  ASSUME GInv, BInv, GInv', NEW r \in Request, NEW q, req' = [req EXCEPT ![r] = q],
         NEW d \in Clients, used' = [used EXCEPT ![d] = @ + 1], UNCHANGED windows,
         \A c \in Clients : Holds(q, c) => c = d /\ used[d] + 1 <= Limit
  PROVE  BInv'
<1> SUFFICES ASSUME NEW c \in Clients PROVE (Cardinality(Holders(c)) <= Places(c))'
  BY DEF BInv
<1>1. used \in [Clients -> Nat] /\ windows \in [Clients -> 1..MaxWindows] /\ Limit \in Nat
  BY GatewayAssumption DEF GInv, Environment
<1>2. Places(c)' >= Places(c)
  BY <1>1 DEF Places
<1>3. CASE ~Holds(q, c)
  <2>1. Holders(c)' \subseteq Holders(c)
    BY <1>3 DEF Holders, GInv, Holds, Passed
  <2> QED BY <1>2, <2>1, PlacesSuffice
<1>4. CASE Holds(q, c)
  <2>1. c = d /\ used[c] + 1 <= Limit
    BY <1>4
  <2>2. Places(c)' >= Places(c) + 1
    BY <1>1, <2>1 DEF Places
  <2>3. Holders(c)' \subseteq Holders(c) \union {r}
    BY DEF Holders, GInv, Holds, Passed
  <2> QED BY <2>2, <2>3, PlacesSuffice
<1> QED BY <1>3, <1>4

(* The limiter's hook counts the request, or lets it wait, or lets it pass *)
(* uncounted.                                                              *)
LEMMA EntryCounted ==
  ASSUME GInv, BInv, GInv', NEW r \in Request, NEW q \in Record, q.ask \in Asks,
         q.by = "none", q.count = 0, EnterLimiter(r, q)
  PROVE  BInv'
<1> DEFINE d == q.ask.client
<1>1. d \in Clients /\ used[d] + 1 \in Nat
  BY DEF Clients, GInv, Environment
<1>2. CASE ~setup.redisUrl
  <2> DEFINE e == Judge(q, used[d] + 1)
  <2>1. req' = [req EXCEPT ![r] = e] /\ used' = [used EXCEPT ![d] = @ + 1] /\ UNCHANGED windows
    BY <1>1, <1>2 DEF EnterLimiter, GInv, Environment
  <2>2. ASSUME NEW c \in Clients, Holds(e, c) PROVE c = d /\ used[d] + 1 <= Limit
    BY <1>1, <2>2, GatewayAssumption DEF Judge, Done, Holds, Passed, Record
  <2> HIDE DEF d, e
  <2> QED BY <1>1, <2>1, <2>2, PlaceCounted
<1>3. CASE setup.redisUrl
  <2> DEFINE e == IF link = "up" THEN [q EXCEPT !.stage = "limit"] ELSE SkipOnError(q)
  <2>1. req' = [req EXCEPT ![r] = e] /\ UNCHANGED <<used, windows>>
    BY <1>3 DEF EnterLimiter
  <2>2. ASSUME NEW c \in Clients PROVE ~Holds(e, c)
    BY DEF SkipOnError, Holds, Passed, Record
  <2> HIDE DEF e
  <2> QED BY <2>1, <2>2, NoPlaceTaken
<1> QED BY <1>2, <1>3, GatewayAssumption DEF GInv, Environment

LEMMA CountStepwise == GInv /\ BInv /\ GInv' /\ [Next]_vars => BInv'
<1> SUFFICES ASSUME GInv, BInv, GInv', [Next]_vars PROVE BInv'
  OBVIOUS
<1> USE GatewayAssumption
<1>a. ASSUME NEW p \in Record, NEW by, NEW status, NEW q, q = Done(p, by, status),
             NEW c, Holds(q, c)
      PROVE  by \in {"auth", "upstream", "error-handler"} /\ (Passed(p) /\ p.stage # "new" => Holds(p, c))
  <2>1. q.stage = "done" /\ q.by = by /\ q.ask = p.ask /\ q.limiter = p.limiter
    BY <1>a DEF Done, Record
  <2> QED BY <1>a, <2>1 DEF Holds, Passed
<1>1. ASSUME NEW r \in Request, NEW ask \in Asks,
             \/ ArriveFiltered(r, ask) \/ ArriveShed(r, ask) \/ ArriveOwn(r, ask)
             \/ ArriveLookup(r, ask)
      PROVE  BInv'
  <2> DEFINE p == [New EXCEPT !.ask = ask]
  <2>1. p \in Record
    BY DEF New, Record, Stages, Answerers
  <2>2. CASE ArriveLookup(r, ask)
    <3> DEFINE q == [New EXCEPT !.ask = ask, !.stage = "lookup"]
    <3>1. Moves(r, q) /\ \A c \in Clients : ~Holds(q, c)
      BY <2>2 DEF ArriveLookup, New, Holds, Passed
    <3> HIDE DEF q
    <3> QED BY <3>1, NoPlaceTaken DEF Moves
  <2>3. ASSUME NEW by \in {"ip-filter", "pressure", "route"}, NEW status, Moves(r, Done(p, by, status))
        PROVE  BInv'
    <3> DEFINE q == Done(p, by, status)
    <3>1. \A c \in Clients : ~Holds(q, c)
      BY <1>a, <2>1
    <3> HIDE DEF q
    <3> QED BY <2>3, <3>1, NoPlaceTaken DEF Moves, q
  <2> HIDE DEF p
  <2>4. \E by \in {"ip-filter", "pressure", "route"} : \E status : Moves(r, Done(p, by, status))
        \/ ArriveLookup(r, ask)
    <3>1. ASSUME ArriveFiltered(r, ask) PROVE Moves(r, Done(p, "ip-filter", IpFilter(ask)))
      BY <3>1 DEF ArriveFiltered, p
    <3>2. ASSUME ArriveShed(r, ask) PROVE Moves(r, Done(p, "pressure", 503))
      BY <3>2 DEF ArriveShed, p
    <3>3. ASSUME ArriveOwn(r, ask) PROVE Moves(r, Done(p, "route", OwnAnswer(ask)))
      BY <3>3 DEF ArriveOwn, p
    <3> QED BY <1>1, <3>1, <3>2, <3>3
  <2> QED BY <2>2, <2>3, <2>4
<1>2. ASSUME NEW r \in Request, NEW ask \in Asks, ArriveLimiter(r, ask) PROVE BInv'
  <2> DEFINE q == [New EXCEPT !.ask = ask]
  <2>1. q \in Record /\ q.ask = ask /\ q.by = "none" /\ q.count = 0
    BY DEF New, Record, Stages, Answerers
  <2>2. EnterLimiter(r, q)
    BY <1>2 DEF ArriveLimiter
  <2> HIDE DEF q
  <2> QED BY <2>1, <2>2, EntryCounted
<1>3. ASSUME NEW r \in Request, Hit(r) PROVE BInv'
  <2> DEFINE q == Done(req[r], "cache", 200)
  <2>1. Moves(r, q) /\ \A c \in Clients : ~Holds(q, c)
    BY <1>3, <1>a DEF Hit, GInv
  <2> HIDE DEF q
  <2> QED BY <2>1, NoPlaceTaken DEF Moves
<1>4. ASSUME NEW r \in Request, Miss(r) \/ LookupTimesOut(r) PROVE BInv'
  <2>1. req[r] \in Record /\ req[r].ask \in Asks /\ req[r].by = "none" /\ req[r].count = 0
    BY <1>4 DEF Miss, LookupTimesOut, GInv, Shaped, Record, Answerers
  <2> QED BY <1>4, <2>1, EntryCounted DEF Miss, LookupTimesOut
<1>5. ASSUME NEW r \in Request, RedisCounts(r) PROVE BInv'
  <2> DEFINE d == Client(r)
             q == [req[r] EXCEPT !.count = used[d] + 1]
  <2>1. d \in Clients /\ used[d] + 1 \in Nat /\ req[r].stage = "limit" /\ req[r].by = "none"
    BY <1>5 DEF RedisCounts, Pending, GInv, Environment, Shaped, Client, Clients
  <2>2. req' = [req EXCEPT ![r] = q] /\ used' = [used EXCEPT ![d] = @ + 1] /\ UNCHANGED windows
    BY <1>5, <2>1 DEF RedisCounts, GInv, Environment
  <2>3. ASSUME NEW c \in Clients, Holds(q, c) PROVE c = d /\ used[d] + 1 <= Limit
    BY <2>1, <2>3 DEF GInv, Record, Holds, Passed, Client
  <2> HIDE DEF d, q
  <2> QED BY <2>1, <2>2, <2>3, PlaceCounted
<1>6. ASSUME NEW r \in Request, LimiterAnswers(r) PROVE BInv'
  <2> DEFINE q == Judge(req[r], req[r].count)
  <2>1. Moves(r, q)
    BY <1>6 DEF LimiterAnswers
  <2>2. ASSUME NEW c \in Clients, Holds(q, c) PROVE Holds(req[r], c)
    BY <1>6, <2>2 DEF LimiterAnswers, GInv, Record, Judge, Done, Holds, Passed
  <2> HIDE DEF q
  <2> QED BY <2>1, <2>2, NoPlaceTaken DEF Moves
<1>7. ASSUME NEW r \in Request, LimiterErrs(r) PROVE BInv'
  <2> DEFINE q == SkipOnError(req[r])
  <2>1. Moves(r, q) /\ \A c \in Clients : ~Holds(q, c)
    BY <1>7 DEF LimiterErrs, GInv, Record, SkipOnError, Holds, Passed
  <2> HIDE DEF q
  <2> QED BY <2>1, NoPlaceTaken DEF Moves
<1>8. ASSUME NEW r \in Request,
             Authenticate(r) \/ Introspect(r) \/ Introspected(r) \/ UpstreamAnswers(r) \/ UpstreamFails(r)
      PROVE  BInv'
  <2>1. Passed(req[r]) /\ req[r] \in Record /\ req[r].stage # "new"
    BY <1>8
    DEF Authenticate, Introspect, Introspected, UpstreamAnswers, UpstreamFails, Passed, GInv
  <2>2. ASSUME NEW stage \in {"upstream", "introspect"}, Moves(r, [req[r] EXCEPT !.stage = stage])
        PROVE  BInv'
    <3> DEFINE q == [req[r] EXCEPT !.stage = stage]
    <3>1. \A c \in Clients : Holds(q, c) => Holds(req[r], c)
      BY <2>1 DEF Record, Holds, Passed
    <3> HIDE DEF q
    <3> QED BY <2>2, <3>1, NoPlaceTaken DEF Moves, q
  <2>3. ASSUME NEW by, NEW status, Moves(r, Done(req[r], by, status)) PROVE BInv'
    <3> DEFINE q == Done(req[r], by, status)
    <3>1. \A c \in Clients : Holds(q, c) => Holds(req[r], c)
      BY <1>a, <2>1
    <3> HIDE DEF q
    <3> QED BY <2>3, <3>1, NoPlaceTaken DEF Moves, q
  <2>4. CASE Authenticate(r)
    BY <2>2, <2>3, <2>4 DEF Authenticate
  <2>5. CASE Introspect(r)
    BY <2>2, <2>5 DEF Introspect
  <2>6. CASE Introspected(r)
    BY <2>2, <2>3, <2>6 DEF Introspected
  <2>7. CASE UpstreamAnswers(r)
    BY <2>3, <2>7 DEF UpstreamAnswers
  <2>8. CASE UpstreamFails(r)
    BY <2>3, <2>8 DEF UpstreamFails
  <2> QED BY <1>8, <2>4, <2>5, <2>6, <2>7, <2>8
<1>9. CASE LinkBreaks
  <2>1. ASSUME NEW c \in Clients PROVE Holders(c)' \subseteq Holders(c) /\ Places(c)' >= Places(c)
    <3>1. Holders(c)' \subseteq Holders(c)
      BY <1>9 DEF LinkBreaks, GInv, Record, Holders, Holds, Passed
    <3>2. Places(c)' >= Places(c)
      BY <1>9 DEF LinkBreaks, GInv, Environment, Places
    <3> QED BY <3>1, <3>2
  <2> QED BY <2>1, PlacesSuffice DEF BInv
<1>10. ASSUME NEW d \in Clients, WindowEnds(d) PROVE BInv'
  <2>1. ASSUME NEW c \in Clients PROVE Holders(c)' \subseteq Holders(c) /\ Places(c)' >= Places(c)
    <3>1. Holders(c)' \subseteq Holders(c)
      BY <1>10 DEF WindowEnds, env, Holders
    <3>2. /\ used \in [Clients -> Nat] /\ windows \in [Clients -> 1..MaxWindows] /\ Limit \in Nat
          /\ used' = [used EXCEPT ![d] = 0] /\ windows' = [windows EXCEPT ![d] = @ + 1]
      BY <1>10 DEF WindowEnds, GInv, Environment
    <3>3. CASE c = d
      <4>1. Places(c)' = Limit * windows[c]
        BY <3>2, <3>3 DEF Places
      <4>2. Places(c) <= Limit * windows[c]
        BY <3>2 DEF Places
      <4>3. Places(c) \in Int /\ Limit * windows[c] \in Int
        BY <3>2 DEF Places
      <4> QED BY <3>1, <4>1, <4>2, <4>3
    <3>4. CASE c # d
      BY <3>1, <3>2, <3>4 DEF Places
    <3> QED BY <3>3, <3>4
  <2> QED BY <2>1, PlacesSuffice DEF BInv
<1>11. CASE Boot \/ Reconnect \/ PressureChanges \/ BeginDrain \/ UNCHANGED vars
  <2> UNCHANGED <<req, used, windows>>
    BY <1>11 DEF Boot, Reconnect, PressureChanges, BeginDrain, vars, env
  <2> QED BY DEF BInv, Holders, Places
<1> QED
  BY <1>1, <1>2, <1>3, <1>4, <1>5, <1>6, <1>7, <1>8, <1>9, <1>10, <1>11 DEF Next, Arrive, Progress

(* For any limit, any number of requests and windows, and any number of    *)
(* broken connections, guessing is throttled.                              *)
THEOREM ThrottledForAll == Spec => []BruteForceIsThrottled
<1>1. Init => BInv
  <2> SUFFICES ASSUME Init, NEW c \in Clients PROVE Cardinality(Holders(c)) <= Places(c)
    BY DEF BInv
  <2>1. Holders(c) = {} /\ Places(c) = 0
    BY GatewayAssumption DEF Init, New, Holders, Holds, Places
  <2> QED BY <2>1, FS_EmptySet
<1>2. GInv /\ BInv => BruteForceIsThrottled
  <2> SUFFICES ASSUME GInv, BInv, NEW c \in Clients, NEW looked \in SUBSET Holders(c)
               PROVE  Cardinality(looked) <= Limit * windows[c]
    BY DEF BruteForceIsThrottled, Holders, Holds, Passed, Proxied, Client, GInv, Sound, Record
  <2>1. IsFiniteSet(Holders(c)) /\ Cardinality(Holders(c)) <= Places(c)
    BY GatewayAssumption, FS_Subset DEF Holders, BInv
  <2>2. /\ Cardinality(looked) <= Cardinality(Holders(c))
        /\ Cardinality(looked) \in Nat /\ Cardinality(Holders(c)) \in Nat
    BY <2>1, FS_Subset, FS_CardinalityType
  <2>3. /\ Places(c) \in Int /\ Limit * windows[c] \in Int
        /\ Places(c) <= Limit * windows[c]
    BY GatewayAssumption DEF GInv, Environment, Places
  <2> QED BY <2>1, <2>2, <2>3
<1> QED BY <1>1, <1>2, Inductive, CountStepwise, PTL DEF Spec
=============================================================================
