# Verification of fastify-gateway

TLA+ models of the API gateway in `src/src/`, the TLC runs that check them on
small instances, and the theorems that TLAPS proves about them. Paths and line
numbers refer to the sources under `src/`; `PROJECT.json` maps every
definition that models code to its lines.

    tlc -workers 2 -config BearerAuth.cfg MCBearerAuth   # one of the runs below
    tlapm BearerAuthProofs.tla                           # the proofs

## 1. The system

One Node.js process (any number of replicas) in front of a few upstream
services. It keeps no durable state of its own; replicas share one Redis when
`REDIS_URL` is set. A request passes a fixed sequence of hooks:

    onRequest    request context -> ip filter -> load shedding -> cache lookup -> rate limiter
    preHandler   edge authentication (api-key | basic | jwt | bearer)
    handler      proxy to the upstream, or the gateway's own route
    onSend       cache store          onResponse   alerts, metrics, access log

| Component | State | Operations | What makes it correct |
|---|---|---|---|
| bearer strategy (`strategies/bearer-auth.strategy.ts`) | Map of active decisions with expiry, in insertion order; calls in flight | guard: look up, introspect (await), insert, evict | a revoked token dies within timeout + TTL; the Map stays within its cap; expired decisions go before live ones, and of those the oldest; a mute auth service stalls nobody |
| response cache (`plugins/cache.ts`) | entries in Redis, a key on each request, tees of streaming bodies | serve hook (lookup races a timer), store hook (tee, unawaited SET) | no private, truncated, over-long or mis-negotiated response is shared; entries die |
| alerts (`plugins/alerts.ts`) | time of the last delivery; deliveries in flight | onResponse hook, attempt, backoff, give up | deliveries stay few and short, alerts are spaced |
| process lifecycle (`server.ts`) | signal handlers, shutdown deadlines, connections and their requests, log buffer | boot, listen, SIGINT/SIGTERM, close, exit | a clean exit drained; an exit of a booted process flushed its logs; a shutdown ends in its grace period |
| request pipeline (`app.ts`, `plugins/ip-filter`, `pressure`, `rate-limit`, `redis`, `routes/`) | pressure, limiter budgets, Redis connection and its queue of commands | the gates, in hook order | an upstream hears only of admitted requests; credentials cannot be guessed beyond the budget; probes always answer |
| service gateway (`core/service-gateway.ts`, `gateways/`) | declared services | boot checks, mounting, header rewriting | impossible declarations do not boot; edge credentials stay at the edge |
| credential guards (`plugins/auth.ts`, `strategies/`, `utils/basic-auth`, `bearer`) | none | decide on one header | exactly the configured credentials pass; a missing configuration is 500, never open |
| error handler, request context and tracing, IP lists, environment readers | none | functions of one input | see `EdgeCases` |
| boot-time choices: schema (`config/schema.ts`), log channels (`config/logger.ts`), CORS (`plugins/security.ts`), alert channel (`utils/alert-channels`) | none | functions of the configuration | what is misspelt does not boot; lines reach their channels and survive an exit; credentials need a list of origins; alerts go where selected |
| observation: request lines (`plugins/logging.ts`), metrics (`plugins/metrics.ts`) | none of its own | onResponse hooks | one completion line per response in every style; labels a client cannot multiply |
| telemetry, end-to-end script | none that gates anything | | not modelled, section 7 |

**Interaction.** Hooks share the request object (the cache's serve hook leaves
a key there that its store hook uses; the limiter's decision precedes the
guard). The cache and the limiter share one Redis connection. `server.ts`
raises `shuttingDown`, which the readiness route reads. Alerts observe
responses and feed nothing back.

**What is hard.** Every `await` is a point where other requests run: the bearer
Map, the Redis entries and the limiter's counts change between a decision and
its use. Timers race answers (introspection, lookup, webhook, shutdown).
Commands, posts and writes may be lost, late or done twice. Hook order is the
order of registration over three scopes, which is easy to misread. Two signals
run two shutdown handlers over one app. `PROJECT.json` lists these hazards at
their lines with the properties that guard them.

## 2. The modules

    TokenGuard  <- refined by -  BearerAuth  <- BearerAuthProofs
                                             <- MCBearerAuth
    SharedCache <- refined by -  ResponseCache <- ResponseCacheProofs
                  CachePolicy <- ResponseCache <- MCResponseCache
    EdgeAuth, EdgePolicy <- Gateway <- GatewayProofs
                                    <- MCGateway
    EdgeAuth, EdgePolicy, CachePolicy, BootPolicy <- EdgeCases <- MCEdgeCases
                                             EdgeCases, PowerProofs <- EdgeProofs
    Lifecycle           <- LifecycleProofs
    Alerts, PowerProofs <- AlertsProofs

**TokenGuard** is the abstract specification of any bearer guard: a request is
admitted only on a token the auth service honoured at some instant of the last
`Window` time units; refusing is always permitted.

**BearerAuth** models `createBearerAuthStrategy`. A guard call is two steps,
split at the only await: `AdmitFromCache`, `StartIntrospection`,
`RefuseAnonymous` and `RefuseMisconfigured` are the code before the fetch,
`FinishActive`, `FinishInactive`, `FinishFailed` and `FinishTimedOut` the code
after it. The Map is `expiresAt` plus the insertion order `older`;
`KeptForInsert` is `evictForInsert` (sweep at the cap, then drop the oldest
until one fits). The SHA-256 of a token stands for the token. The auth service
issues, revokes and evaluates tokens at any time; its answer is what it saw
when it evaluated the token, however late it arrives.

**SharedCache** is the abstract specification of any shared response cache: a
client that asks may be served a kept response to the same question, whole, not
withheld from caches, given to a client without credentials, at most `Window`
ago. Not serving and forgetting are always permitted.

**CachePolicy** has the pure rules of `cache.ts` (`resolveTtl`, `varyIsKeyed`,
`CacheKey`, eligibility), **ResponseCache** its two hooks. A request is idle,
looking up, being served, upstream, streaming or storing. `RedisReads` fixes
what a lookup will answer; `ServeHit`, `Miss`, `LookupFails` and
`LookupTimesOut` are the ways out of the race. `Chunk`, `StreamEnds` and
`StreamBreaks` are the tee; `Over` is the eligibility check and the unawaited
SET. `WriteRuns` completes it some time later, and once more when its reply was
lost with the connection; `WriteLost` drops it. A served hit passes the store
hook too (`HitSent`), with the key cleared (`HitKey`). `WriteDelay` bounds, as
an assumption on the environment, the time from a response to the end of its
write: it is what the age of an entry depends on beside its TTL.

Under the refinement the shelf is every copy of an entry, stored, on its way to
Redis or on its way back, and a request in phase "hit" has been served.
`RedisReads`, expiry and a SET that overwrites another are steps that only
forget.

**Alerts** models the onResponse hook (`OnResponse`, `IgnoreResponse`) and the
delivery it starts: attempts with a timeout, backoff that doubles, giving up.
The webhook may post the message, answer, fail or stay mute in any order, so an
attempt can post and still time out. `Restart` is a crash or a replacement: the
deliveries under way and the throttle's memory are gone. `ClockIsSet` moves
`Date.now()`, which the throttle reads, against the time, which timers follow.

**Lifecycle** models `server.ts`: boot, the two one-shot signal handlers side
by side, the listener, client connections with and without a request on them,
the deadline each handler sets, the log buffer, and the four ways to end (0, 1,
killed, or not at all). Plugins log while the app is built (`BootLogs`), and a
boot that fails exits without a flush. A signal may come while listen is
pending: the listener may then still open, be shut before it has, or fail.
Connections are kept alive, so requests arrive while the process drains. Of
Fastify's `close()` only this is assumed: it shuts the listener some time after
it is called, and resolves once the listener is shut and the last connection is
gone.

**EdgeAuth** and **EdgePolicy** are the stateless decisions, as operators named
like the functions they model: parsers and guards; environment readers, IP
lists, request ids and trace context, header rewriting, error mapping, request
lines and metric labels. Texts are members of small sets or sequences of the
parts they split into. What `req.hostname` and `req.protocol` make of a claimed
host and protocol (`Told`) is Fastify's.

**BootPolicy** has the choices made once at boot: what the schema makes of each
variable (`config`), the destinations of log lines
and which of their streams an exit flushes, the CORS options (the check of an
origin by `@fastify/cors` is external), the alert channel; `features` puts
together what the plugins for security, alerts and caching make of one
environment.

**EdgeCases** puts one input at a time into a variable and compares what the
operators decide with an independent statement of what they are for. The sets
the inputs are from (user lists, headers, IP lists, proxy chains, error codes,
statuses, amounts, texts, origins, methods, routes) are constants: **MCEdgeCases**
gives them small values for TLC, the proofs leave them open. Where the code
tells only a handful of texts apart (what a variable is set to) the classes are
written out in the module.

**PowerProofs** has facts about numbers that both proofs above it need: powers
of two, and least elements.

**Gateway** composes them into the request pipeline for concurrent requests.
One action per gate; a request runs without interruption up to the cache
lookup, the limiter's Redis command or the bearer guard's introspection
(`Introspect`, `Introspected`), and between those. The Redis
connection may break with commands in flight: the client keeps them and sends
them again after reconnecting (`maxRetriesPerRequest: null`), while a command
issued without a connection fails at once (`enableOfflineQueue: false`). So
`LinkBreaks` loses replies but no commands, and Redis may count one request
twice. `Boot` is the sum of the boot checks. The limiter keys on an address as it
is written (`rate-limit.ts:29`), the filter on its normal form: `::ffff:a` and
`a` have a budget each. An address that is none (a forwarded header says what it
likes) makes the filter's hook fail, which is a 500 (`Unreadable`, `IpFilter`).

Three libraries are modelled from how `src/src` uses them and marked external:
`@fastify/rate-limit` (a route-level onRequest hook, which Fastify runs after
the hooks of the enclosing scopes; the decision on a count; fixed windows),
`@fastify/under-pressure` (answers and thereby ends the request), and ioredis.

Operators whose comment begins "Seeded change" are not part of any
specification. Each is a definition with a plausible bug; substituting it for
the definition that follows must make TLC report the property `PROJECT.json`
names beside it, which shows that the property depends on that code.

## 3. The runs

| Run | Module, config | Checks | Shows |
|---|---|---|---|
| bearer_cached | MCBearerAuth, BearerAuth.cfg | TypeOK, CachedDecisionsAge, CacheBounded, EvictionSparesLive, ImplementsTokenGuard | overlapping introspections with a Map smaller than the set of tokens never stretch a revocation beyond timeout + TTL, overfill the Map or displace a live decision while an expired or older one could go; the guard refines TokenGuard |
| bearer_uncached | MCBearerAuth, BearerAuthUncached.cfg | ImplementsTokenGuard, EveryRequestDecided | without a cache the window is the timeout alone; a mute auth service stalls nobody |
| response_cache | MCResponseCache, ResponseCache.cfg | TypeOK, SharedEntriesArePublic, StoredBodiesAreWhole, EntriesDie, ImplementsSharedCache | concurrent lookups, streams and writes that run late, twice or never do not leak, truncate or prolong a response; what clients see refines SharedCache |
| alerts | Alerts, Alerts.cfg | TypeOK, DeliveriesDoNotPileUp, DeliveriesAreShort, AlertsAreSpaced, SilenceIsExplained, DeliveriesEnd | unawaited deliveries stay few, short and spaced, whatever the webhook does, while the process crashes and the clock is set; silence always has a recent alert of the same process behind it |
| alerts_throttle | Alerts, AlertsThrottle.cfg | OneNotificationPerInterval (violated) | finding 3 |
| lifecycle | Lifecycle, Lifecycle.cfg | TypeOK, CleanExitDrained, ExitsFlushed, GraceIsNotExtended, ShutdownEnds | however signals, listen, kept-alive connections, requests and deadlines interleave, exit 0 has drained, a booted process that exits has flushed, a second signal buys no time, a shutdown ends |
| gateway | MCGateway, Gateway.cfg | TypeOK, UpstreamIsGuarded, BruteForceIsThrottled, ProbesAreNeverGated, HitsAskForNoCredentials, RequestsEnd | every gate is passed before an upstream hears of a request, in every configuration that boots, while Redis breaks and pressure comes and goes; what is taken on is answered, unless the limiter's command waits for a broken connection |
| gateway_hang | MCGateway, GatewayHang.cfg | LimiterNeverHangs (violated) | finding 1 |
| gateway_hits | MCGateway, GatewayHits.cfg | HitsAreCounted (violated) | finding 2 |
| edge_cases | MCEdgeCases, EdgeCases.cfg | BasicAcceptsExactlyTheList, FilterMatchesLists, EnvReadersFailFast, ContextIsClean, KeysAndPasswordsStayHome, InternalsStayInside, TtlFollowsTheOrigin, LogsReachTheirChannels, FeaturesAreMeant, ResponsesAreObserved | the stateless rules do what they are for on every input of the set |
| blank_numbers | MCEdgeCases, BlankNumbers.cfg | BlanksAreRefused (violated) | finding 4 |
| consumed_authorization | MCEdgeCases, ConsumedAuthorization.cfg | ConsumedAuthorizationStaysHome (violated) | finding 5 |

### Bounds, and why they are enough

- *bearer_cached*: 2 requests, 4 tokens, cap 3, TTL 2, timeout 1, horizon 3.
  Two misses overlap, the Map fills and must evict (4 > 3), and a revocation
  can fall before, between and after the evaluation of a token and the arrival
  of the answer. A cap of 3 is the least at which the sweep matters: with room
  to spare an overlapping miss renews an entry in its old place, which then
  outlives a younger one, and evicting by age alone would displace it.
  `StartIntrospection` is bounded so that deadlines stay on the time line.
  What the bounds leave open is proved (section 5).
- *bearer_uncached*: 1 token, timeout 2, so a call can age before it expires.
- *response_cache*: 2 slots, one URL in two representations, asks that may and
  may not use the cache, bodies of 1 and 2 chunks around a limit of 1, TTL cap
  2 below an s-maxage of 3, horizon 3: an entry is stored,
  served, expires and is stored again, while another request is in any phase;
  a late write overwrites the entry of a revalidation. 1.07 million states.
  Three responses may be stored and two may not (`private`, a `Vary` on
  cookies); the theorems take any.
- *alerts*: 2 attempts of 1, one wait of 1, interval 3, a clock off by at most
  1: a lifetime of 3, so two deliveries overlap when the clock is set forward;
  one crash; horizon 6. The clock starts beyond `Throttle`, as the epoch lies
  far behind. Every delivery begun fits on the time line. 0.5 million states.
  An interval of 0 (`ALERT_THROTTLE_MS=0`, as some tests set it) spaces nothing
  and is outside the model.
  *alerts_throttle*: attempts of 2, a clock that is right and no crash, so that
  nothing but the throttle can be the cause.
- *lifecycle*: 2 connections, each with or without a request, grace period 2,
  horizon 5, telemetry on: both handlers run, the second starting at any time
  before the first one's deadline, before or after the listener is shut.
  `CHECK_DEADLOCK FALSE`, for the process ends. 4,154 states.
- *gateway*: 2 requests, limit 1, ban 1, 2 windows, 2 broken connections; eleven
  asks over all routes from a client in both spellings of its address, one that
  is denied and one whose address is none; one service behind each scheme; two
  setups that boot (with and without Redis) and three that must not. A client
  exceeds its budget, is banned by commands sent twice, gets a new window, and
  loses the connection in a lookup and in the limiter. 0.7 million states.
- *edge_cases*: address widths 2 and 3 instead of 32 and 128 (each family has
  one prefix per bit and one beyond), user lists of up to two entries, every
  class of header and error, every set of two or fewer configured texts in the
  boot-time lists, every number, flag, choice and URL of the schema against
  every class of text. 71,300 states; what the sizes leave open is proved.

Symmetry is declared in the runs without liveness only, over values that the
specification does not distinguish (requests, tokens).

### Fairness

Timers fire: `Tick` never passes a pending deadline, and the specifications for
liveness assume weak fairness of `Tick` and of the timer's action
(`FinishTimedOut`; `TimeOut` and `NextAttempt`; `DeadlineFires`), which is what
`AbortSignal.timeout` and `setTimeout` give in a process whose event loop
turns. Nothing is assumed of the auth service, the webhook, hung requests,
crashes, or the reconnection of Redis. In `Gateway`, `Progress(r)` is weakly fair: whenever
the gateway, a connected Redis or an upstream bounded by its own timeouts can
take the request on, one of them eventually does.

## 4. What the runs found

1. **gateway_hang** A limiter command in flight when the Redis connection
   breaks is kept until a reconnection, which may never come: the client has
   `maxRetriesPerRequest: null` and no command timeout (`plugins/redis.ts:29`).
   `plugins/rate-limit.ts:18-19` and `docs/operations.md:72-75` promise that
   requests never hang. The cache's lookup has its own timer and does not hang
   (`RequestsEnd`).
2. **gateway_hits** A hit is served by a hook that runs before the limiter's,
   so it costs no budget; `docs/architecture.md:59` places caching after
   rate limiting.
3. **alerts_throttle** The interval is measured between the beginnings of
   deliveries, so two notifications can reach the channel closer together than
   `ALERT_THROTTLE_MS`, which `plugins/alerts.ts:17-18` excludes: those of one
   delivery whose attempt posts, times out and is repeated (the trace), or a
   late one of a delivery and the first of the next. What does hold is
   `AlertsAreSpaced`.
4. **blank_numbers** `Number("")` and `Number(" ")` are 0. So a number variable
   that holds only blanks reads as 0 where the minimum is 0 (`env.ts:23`), and in
   the schema anywhere; and the list entry `10.0.0.0/` matches every IPv4 address
   (`ip-list.util.ts:32`). `env.ts:4-7,17`, `docs/configuration.md:25-26,38-41` and
   `ip-list.util.ts:5-6` promise that such a text does not boot. The property asks
   that one of the readers keep its promise, so its violation shows that none
   does. `EnvReadersFailFast` is about all the other texts.
5. **consumed_authorization** Only Basic auth is said to consume the header
   (`service-gateway.ts:88`), so the token that JWT or bearer auth has checked
   goes upstream; `docs/security-model.md:34-36` says it is stripped when consumed
   by edge auth. `docs/authentication.md:97` limits the rule to Basic, so the two
   documents disagree as well. `KeysAndPasswordsStayHome` is what does hold.

Reading the code for the models showed these as well, for which there is no run:

- The default TTL applies also to a response whose `Cache-Control` names no age
  (`plugins/cache.ts:149-151`); `docs/configuration.md:155` gives it to responses
  that send no `Cache-Control`. `TtlFollowsTheOrigin` leaves this case open.
- `parseTraceparent` refuses version ff only (`tracing.util.ts:40`), while its
  comment (lines 30-31) says null for anything but a valid version-00 header.
  `ContextIsClean` leaves other versions open.
- An error that is no upstream's is answered with whatever 5xx it carries
  (`error-handler.ts:43`); the diagram at `docs/operations.md:42` says 500.
- The signal handler raises `shuttingDown` and calls `app.close()` in the same
  turn (`server.ts:34,44`), so the listener may close while `/readyz` last answered
  ready; `docs/deployment.md:91-93` has Kubernetes route away before that.
- The schema has no minima: it takes a negative limit or interval.
- A boot that fails loses the lines its plugins have buffered
  (`server.ts:28-29`); the docs promise the buffer to an orderly shutdown
  (`config/logger.ts:108-110`).
- A miss that renews a key still in a full decision cache displaces the oldest
  live decision although the Map would not grow
  (`bearer-auth.strategy.ts:84-95,139`), which costs an introspection.

## 5. The proofs

`BearerAuthProofs` proves, for every set of requests, every finite set of
tokens, every TTL, cap, timeout and horizon:

| Theorem | States |
|---|---|
| `TypeCorrect` | `Spec => []TypeOK` |
| `RevocationLatency` | `Spec => []CachedDecisionsAge` |
| `CacheCapacity` | `Spec => []CacheBounded` |
| `LiveAreSpared` | `Spec => EvictionSparesLive` |
| `Refinement` | `Spec => ImplementsTokenGuard` |

*Assumptions.* `TokensAssumption`: `Token` is finite and `NoToken` is not one of
them. `TimesAssumption`: times are natural numbers, the cap is positive (the
strategy's default is a positive constant).

*Revocation.* `CachedDecisionsAge` is not inductive: an entry is written from an
answer evaluated earlier. `IInv` adds `PendingCalls` (a pending call is within
its timeout, and an active answer on its way was true after the call was sent:
its token is active still, or was revoked no earlier than the call was sent),
`RevocationsPast` (revocations lie in the past) and `EntriesWithinTtl` (no
entry lives longer than a TTL from now, which is what a revocation finds).
`Tick` keeps `PendingCalls` because timers fire on time; `FinishActive` turns
it into the bound on the new entry.

*Refinement.* A request's token is what it holds, its state maps to a verdict.
Both ways to be admitted are on honoured tokens: `LiveIsHonoured` (from
`CachedDecisionsAge`) and `AnswerIsHonoured` (from `PendingCalls`). Answers
evaluated by the service are stutters.

*Capacity.* Eviction keeps the entries with fewer than `CacheMax - 1` younger
ones. That these are fewer than `CacheMax` needs the insertion order to be a
strict linear order of the Map (`CapInv`), and `FewWithFewYounger`: of a finite
linearly ordered set, at most n elements have fewer than n younger ones (its
oldest such element, which exists by `OldestExists`, has the others above it).
`DropKeepsCap` and `InsertKeepsCap` preserve `CapInv`.

*Eviction.* A live entry that is not kept has at least `CacheMax - 1` younger
ones; the Map holds at most `CacheMax` (`CapInv`), so the Map is full and all
the others are younger (`DisplacedIsOldest`). Besides an insertion only the
removal of an expired entry changes the Map.

`GatewayProofs` proves, for any set of requests, any asks, setups, lists,
credentials, limits, windows and broken connections:

| Theorem | States |
|---|---|
| `TypeCorrect` | `Spec => []TypeOK` |
| `GuardedForAll` | `Spec => []UpstreamIsGuarded` |
| `ProbesOpenForAll` | `Spec => []ProbesAreNeverGated` |
| `HitsOpenForAll` | `Spec => []HitsAskForNoCredentials` |
| `ThrottledForAll` | `Spec => []BruteForceIsThrottled` |

*Assumption.* `GatewayAssumption`: finitely many requests, a positive limit, and
no service mounted on a path of the gateway's own.

*Gates.* What a gate has established must stay with the request through the
later stages, and stay true: `GInv` says, request by request, that beyond the
filter the client is not blocked and the route is a service's (`Admitted`),
that beyond the limiter it was counted or could not be (`Passed`), that what
the proxy has sent satisfies the guard (`Sent`), and that a lookup or a hit
belongs to a cacheable service, which by the boot check has no credentials.
The lemmas `PlainMove`, `LimiterEntered` and `NobodyMoves` carry it through each
kind of step; the actions then only name their kind.

*Brute force.* The property counts requests whose credentials have been looked
at; a window counts commands. `BInv` relates them: a request holds a place once
its command has run within the limit, and a client's places are `Limit` for each
window that is over and at most what the present one has counted
(`Holders`, `Places`). A command that is sent again is counted again while its
first place is lost with the reply, so breaking connections can only cost a
client places. `PlacesSuffice` is the one argument about cardinalities.

`ResponseCacheProofs` proves, for any requests, asks and responses, and any
limits and delays:

| Theorem | States |
|---|---|
| `TypeCorrect` | `Spec => []TypeOK` |
| `PublicForAll` | `Spec => []SharedEntriesArePublic` |
| `WholeForAll` | `Spec => []StoredBodiesAreWhole` |
| `DeathForAll` | `Spec => []EntriesDie` |
| `SharedForAll` | `Spec => ImplementsSharedCache` |

*Assumptions.* `TtlAssumption`, `CacheTimesAssumption`: times and sizes are natural
numbers; `ResponsesAssumption`: responses have the fields the hooks read.

*Entries.* `RInv` says that wherever an entry is (on its way to Redis, kept there,
read by a lookup) it is `Good`: a whole storable response to a question that may
use the cache, under that question's key, dying within the cap. For this a key
on a request must belong to its question (`Keyed`), a tee that has not
overflowed must have kept what has flowed (`Teeing`), a write must be within its
delay (`Storing`), and a reply must have been live no longer ago than the
lookup's timer allows (`Asking`), which is where the timer enters the age of a
hit.

*Refinement.* `CopiesMove` gives the effect of one request's move on the set of
copies; most steps forget or leave the shelf alone, `OverKeeps` shows that a
sent SET is the abstract `Keep`, and `ServeHit` is `Serve`, with the age from
`Asking`.

`AlertsProofs` proves, for any interval, retries, timeouts and crashes:

| Theorem | States |
|---|---|
| `TypeCorrect` | `Spec => []TypeOK` |
| `SilenceForAll` | `Spec => []SilenceIsExplained` |
| `SpacingForAll` | `Spec => []AlertsAreSpaced` |
| `ShortForAll` | `Spec => []DeliveriesAreShort` |
| `PileForAll` | `Spec => []DeliveriesDoNotPileUp` |

*Assumption.* `AlertsAssumption`: positive intervals and timeouts, and a clock off
by less than half an interval; with more, two deliveries of one process could
begin at the same instant.

*Throttle.* It remembers the beginning of the last delivery up to the
clock's error (`Remembered`); deliveries and posts of one life begin apart
(`Spaced`) and no later than the last (`Ordered`); each attempt shows up at most
once (`Counted`); the last delivery is under way, has shown up or has used its
attempts (`Explained`). That no alert shows up more often than it was attempted
follows by injecting its posts into the numbers of the attempts.

*Lifetime.* `DeliveriesAreShort` is not inductive: a delivery in its first
attempt may be young or late. `Timely` says when each timer is due: attempt n
ends by n timeouts and the n - 1 waits before it (`Spent`), a wait that much
later, and no timer is overdue, for `Tick` stops at each. The waits double, so
they add up to the least one times 2^(n-1) - 1 (`Spending`), which needs of
powers only that one more exponent doubles them and that they grow. `PowerStep`
gets the first by counting the subsets of 1..n, for a definition by recursion
on n is nothing the provers can unfold.

*Pile-up.* Beginnings are not an interval apart on the time line, since the
clock that spaces them is set now and then. `Dated` states that there is a
reading of `Date.now()` for the beginning of each delivery under way, within the
skew of it, an interval from every other and no later than the last. Counted
from the earliest that a delivery still under way can have read, the readings
lie in `Lifetime + 2 * MaxSkew` and fall into different intervals
(`ApartDivide`), of which there are as many as the property says.

`LifecycleProofs` proves, for every grace period, any number of connections, and
with and without telemetry:

| Theorem | States |
|---|---|
| `TypeCorrect` | `Spec => []TypeOK` |
| `CleanExit` | `Spec => []CleanExitDrained` |
| `FlushedExit` | `Spec => []ExitsFlushed` |
| `GraceForAll` | `Spec => []GraceIsNotExtended` |

*Assumption.* `LifecycleAssumption`: the numbers are natural, the grace period is
positive (`SHUTDOWN_TIMEOUT_MS` has a minimum), telemetry is on
or off.

*Drain.* `CleanExitDrained` is not inductive: a handler that waits for telemetry
exits without looking at the requests again. The invariant adds that the server
stays drained once a handler has seen it so (`TelemetryAfterDrain`): requests
come on connections, connections come through an open listener, and none of
these is left. `HandlersShutDown` says that a process with a handler at work is
shutting down. All orderly exits go through `FlushingExits`; `QuietBoot` says
that a process that still boots has no handler and is not shutting down; of the
exits only a boot that fails and a kill leave the buffer as it is.

*Grace.* `GraceIsNotExtended` is about the first handler only, whose name no
variable keeps. `FirstDeadlineStands` says that there is one at work whose
deadline counts from `since`, and `NoneOverdue` that time has passed no deadline
of a handler at work, which is how `Tick` is guarded.

`EdgeProofs` proves every property of `EdgeCases` but the findings, for any
values of its constants:

| Theorem | States |
|---|---|
| `FilterForAll` | `Spec => []FilterMatchesLists` |
| `BasicForAll` | `Spec => []BasicAcceptsExactlyTheList` |
| `EnvForAll` | `Spec => []EnvReadersFailFast` |
| `ContextForAll` | `Spec => []ContextIsClean` |
| `CredentialsForAll` | `Spec => []KeysAndPasswordsStayHome` |
| `InternalsForAll` | `Spec => []InternalsStayInside` |
| `TtlForAll` | `Spec => []TtlFollowsTheOrigin` |
| `LogsForAll` | `Spec => []LogsReachTheirChannels` |
| `FeaturesForAll` | `Spec => []FeaturesAreMeant` |
| `ObservedForAll` | `Spec => []ResponsesAreObserved` |

*Assumptions.* `CasesAssumption`: the constants are of the types the code gives
them; a split text has at least one part; the address of a list entry fits its
family; "*" is no origin. `WidthsAssumption`, `TtlAssumption`: widths, the cap
and the default are natural numbers.

*Argument.* A state is one input (`Considered`), and its kind tells which set it
is from (`Kinds`); what is left is about operators.

*Filter.* `BlockList` divides by a power of two, the property compares leading
bits, and the theorem says that these agree at every width. `Quotient` and
`OneMoreBit` give the division one bit at a time; `LeadingBits` is the induction
over the length of the prefix. The library's induction takes an operator, so it
is done with `Least`: were there a prefix on which the two disagree there would
be a shortest, which is not empty, and the one before it gives the
contradiction.

*Basic.* The list is a function from a name to the parts of a password, the
header a sequence of parts of any length, and the two agree because a text is
its first part and the rest (`HeadAndTail`). The names of a list that boots
differ, so `CHOOSE` takes the entry meant.

*Boot.* No variable has two types (`OneType`), so the cases of `config` exclude
each other. `features` is a product of its plugins' choices and boots when each does;
CORS is refused exactly for a wildcard with credentials (`CorsBuilt`), wherever
the wildcard stands and however it is padded (`ListedText`).

What these theorems leave finite is the classes of text that `EnvCases`,
`ConfigCases` and `FeatureCases` write out: they are the model's abstraction of
all texts, and TLC goes through the same ones.

*Only model-checked:* all liveness (`DeliveriesEnd`, `RequestsEnd`,
`ShutdownEnds`, `EveryRequestDecided`), since fairness and ENABLED are beyond
the prover. Every safety property and every refinement that a passing run checks
is proved.

## 6. Plan

Done, in this order: TokenGuard and BearerAuth with their proofs; CachePolicy
and ResponseCache; Alerts; Lifecycle with its proofs; EdgeAuth, EdgePolicy,
BootPolicy and EdgeCases; Gateway; SharedCache and its refinement, the proofs
of ResponseCache; crashes and the clock in Alerts, its proofs; the waiting
bearer guard in Gateway, its proofs; the schema, request lines and metrics;
the proofs of how long deliveries live and how many overlap, and of the
stateless rules for any lists, texts and address widths.

Next, most important first:

1. Compose Gateway with ResponseCache, so that a hit is an entry and not a
   choice, and with BearerAuth, so that tokens are revoked under the pipeline.
2. A Lifecycle in which requests in flight leave deliveries and unawaited SETs
   behind: what an exit code 0 says of them.
3. State the schema's missing minima (a negative limit or interval boots) once
   the documentation says what they should be.

## 7. What is not modelled, and why

- Of `config/schema.ts` the free texts, of which the schema asks nothing, and
  the one number with a fraction; the coercion of `@fastify/env` is external.
- Of `plugins/logging.ts`, `plugins/metrics.ts` and `config/logger.ts` the
  contents of lines, formats, redaction, rotation and the counting itself:
  output only. The unflushed log buffer is a variable of Lifecycle; whether a
  stream is flushed at all is decided in BootPolicy.
- `otel.ts`: wiring; its shutdown is a step of Lifecycle.
- The headers helmet adds (`plugins/security.ts`): constants.
- `utils/crypto.util.ts`: comparison in constant time is equality here.
- `connectionOptions` and `registerAuthStrategy`'s duplicate check: the first
  only hands numbers to undici, the second is reached by no code of the
  repository with a scheme that is taken.
- `scripts/e2e.mjs`: a test that drives a running gateway.
- Header bytes, hashing, regular expressions, JSON: abstracted to the classes
  the code tells apart. JWT verification is the set of tokens it accepts.
- Clock steps outside Alerts: the bearer cache's `Date.now()` is taken as
  monotone. The collision of hashes.
- In Gateway, what is stored in the response cache (a hit is a choice), and
  which introspections the bearer guard's cache spares and how tokens are
  revoked meanwhile: these are ResponseCache and BearerAuth.
- Connection pools and timeouts of the proxy are the upstream's failures in
  Gateway.
