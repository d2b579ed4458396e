----------------------------- MODULE BearerAuth -----------------------------
(***************************************************************************)
(* The bearer strategy of the edge authentication layer                    *)
(* (src/src/strategies/bearer-auth.strategy.ts): a request guard that      *)
(* introspects the client's token at an external auth service and caches   *)
(* active decisions in an in-process Map.                                  *)
(*                                                                         *)
(* Guards of concurrent requests interleave at their one await: everything *)
(* before the fetch is one step, everything after it another.  The Map is  *)
(* modelled by the expiry of each entry and by the insertion order of the  *)
(* entries.  The SHA-256 of a token is the token: equal keys mean equal    *)
(* tokens.                                                                 *)
(***************************************************************************)
EXTENDS Integers, FiniteSets

CONSTANTS
  Request,    \* request slots: concurrent requests of the process
  Token,      \* bearer tokens clients may present
  NoToken,    \* the Authorization header holds no bearer token
  CacheTtl,   \* BEARER_CACHE_TTL_MS; 0 disables the cache
  CacheMax,   \* cacheMaxEntries
  Timeout,    \* INTROSPECTION_TIMEOUT_MS
  Horizon     \* bound: the last instant of the explored time line

ASSUME TokensAssumption == IsFiniteSet(Token) /\ NoToken \notin Token
ASSUME TimesAssumption ==
  /\ CacheTtl \in Nat /\ Timeout \in Nat /\ Horizon \in Nat
  /\ CacheMax \in Nat \ {0}

VARIABLES
  clock,      \* Date.now()
  configured, \* BEARER_INTROSPECTION_URL is set; fixed at boot
  status,     \* auth service: is the token unissued, active or revoked
  revokedAt,  \* auth service: when a revoked token was revoked
  state,      \* where each request stands
  token,      \* the token a request being introspected presented
  sentAt,     \* when its introspection call was sent
  answer,     \* what the auth service made of it, on its way back
  expiresAt,  \* cache: expiry of the token's entry, Absent without one
  older       \* cache: <<s, t>> when the entry of s was inserted before t's

authVars  == <<configured, status, revokedAt>>
reqVars   == <<state, token, sentAt, answer>>
cacheVars == <<expiresAt, older>>
vars      == <<clock, authVars, reqVars, cacheVars>>

States   == {"idle", "introspecting", "allowed", "unauthorized", "misconfigured"}
Statuses == {"unissued", "active", "revoked"}
Answers  == {"none", "active", "inactive"}
Absent   == 0

TypeOK ==
  /\ clock \in 0..Horizon
  /\ configured \in BOOLEAN
  /\ status \in [Token -> Statuses]
  /\ revokedAt \in [Token -> Nat]
  /\ state \in [Request -> States]
  /\ token \in [Request -> Token \union {NoToken}]
  /\ \A r \in Request : state[r] = "introspecting" <=> token[r] # NoToken
  /\ sentAt \in [Request -> Nat]
  /\ answer \in [Request -> Answers]
  /\ expiresAt \in [Token -> Nat]
  /\ older \in SUBSET (Token \X Token)

Init ==
  /\ clock = 0
  /\ configured \in BOOLEAN
  /\ status \in [Token -> {"unissued", "active"}]
  /\ revokedAt = [t \in Token |-> 0]
  /\ state = [r \in Request |-> "idle"]
  /\ token = [r \in Request |-> NoToken]
  /\ sentAt = [r \in Request |-> 0]
  /\ answer = [r \in Request |-> "none"]
  /\ expiresAt = [t \in Token |-> Absent]
  /\ older = {}

-----------------------------------------------------------------------------
(* The decision cache.                                                     *)

Caching == CacheTtl > 0

(* The keys of the Map.                                                    *)
Cached == {t \in Token : expiresAt[t] # Absent}

(* Seeded change: an entry still counts at the instant it expires.         *)
LiveInclusive(t) == expiresAt[t] >= clock

Live(t) == expiresAt[t] > clock

(* What is left of the Map once the expired entries are swept.             *)
Swept == {t \in Cached : Live(t)}
(* Seeded change: room is made one entry too late.                         *)
KeptOffByOne ==
  IF Cardinality(Cached) <= CacheMax THEN Cached
  ELSE {t \in Swept : Cardinality({u \in Swept : <<t, u>> \in older}) < CacheMax - 1}

(* Seeded change: the oldest insertions go without sweeping first.         *)
KeptUnswept ==
  IF Cardinality(Cached) < CacheMax THEN Cached
  ELSE {t \in Cached : Cardinality({u \in Cached : <<t, u>> \in older}) < CacheMax - 1}

(* evictForInsert: the keys left to insert beside.  Below the cap nothing  *)
(* is touched; at the cap the expired entries go, and then the oldest      *)
(* insertions until there is room for one.                                 *)
KeptForInsert ==
  IF Cardinality(Cached) < CacheMax THEN Cached
  ELSE {t \in Swept : Cardinality({u \in Swept : <<t, u>> \in older}) < CacheMax - 1}

(* cache.set: a key still in the Map keeps its place in the order.         *)
Insert(t) ==
  /\ expiresAt' = [u \in Token |-> IF u = t THEN clock + CacheTtl
                                   ELSE IF u \in KeptForInsert THEN expiresAt[u]
                                   ELSE Absent]
  /\ older' = (older \intersect (KeptForInsert \X KeptForInsert))
                \union (IF t \in KeptForInsert THEN {} ELSE KeptForInsert \X {t})

(* cache.delete of one key.                                                *)
Drop(t) ==
  /\ expiresAt' = [expiresAt EXCEPT ![t] = Absent]
  /\ older' = {p \in older : t \notin {p[1], p[2]}}

-----------------------------------------------------------------------------
(* The guard, up to its await.                                             *)

Fresh(r) == state[r] # "introspecting"

(* Seeded change: the guard returns, and what it held is kept alive.       *)
LeaveHolding(r, outcome) ==
  /\ state' = [state EXCEPT ![r] = outcome]
  /\ UNCHANGED <<token, sentAt, answer>>

(* The request leaves the guard and holds nothing any more.                *)
Leave(r, outcome) ==
  /\ state' = [state EXCEPT ![r] = outcome]
  /\ token' = [token EXCEPT ![r] = NoToken]
  /\ sentAt' = [sentAt EXCEPT ![r] = 0]
  /\ answer' = [answer EXCEPT ![r] = "none"]

(* No endpoint to ask: 500, whatever the client sent.                      *)
RefuseMisconfigured(r) ==
  /\ Fresh(r)
  /\ ~configured
  /\ Leave(r, "misconfigured")
  /\ UNCHANGED <<clock, authVars, cacheVars>>

(* parseBearerToken found none: 401.                                       *)
RefuseAnonymous(r) ==
  /\ Fresh(r)
  /\ configured
  /\ Leave(r, "unauthorized")
  /\ UNCHANGED <<clock, authVars, cacheVars>>

(* The token's cached decision is still live: let the request through.     *)
AdmitFromCache(r, t) ==
  /\ Fresh(r)
  /\ configured
  /\ Caching /\ t \in Cached /\ Live(t)
  /\ Leave(r, "allowed")
  /\ UNCHANGED <<clock, authVars, cacheVars>>

(* No live decision: drop an expired one and send the introspection call.  *)
(* The bound keeps the call's deadline on the explored time line.          *)
StartIntrospection(r, t) ==
  /\ Fresh(r)
  /\ configured
  /\ ~(Caching /\ t \in Cached /\ Live(t))
  /\ clock + Timeout <= Horizon
  /\ IF Caching /\ t \in Cached THEN Drop(t) ELSE UNCHANGED cacheVars
  /\ state' = [state EXCEPT ![r] = "introspecting"]
  /\ token' = [token EXCEPT ![r] = t]
  /\ sentAt' = [sentAt EXCEPT ![r] = clock]
  /\ answer' = [answer EXCEPT ![r] = "none"]
  /\ UNCHANGED <<clock, authVars>>

-----------------------------------------------------------------------------
(* The guard, after its await.                                             *)

(* Seeded change: an inactive answer is cached and admitted like an active *)
(* one.                                                                    *)
FinishAnyAnswer(r) ==
  /\ state[r] = "introspecting"
  /\ answer[r] # "none"
  /\ IF Caching THEN Insert(token[r]) ELSE UNCHANGED cacheVars
  /\ Leave(r, "allowed")
  /\ UNCHANGED <<clock, authVars>>

(* The service honoured the token: cache the decision, admit.              *)
FinishActive(r) ==
  /\ state[r] = "introspecting"
  /\ answer[r] = "active"
  /\ IF Caching THEN Insert(token[r]) ELSE UNCHANGED cacheVars
  /\ Leave(r, "allowed")
  /\ UNCHANGED <<clock, authVars>>

(* A non-2xx response or an inactive token: 401, the cache left alone.     *)
FinishInactive(r) ==
  /\ state[r] = "introspecting"
  /\ answer[r] = "inactive"
  /\ Leave(r, "unauthorized")
  /\ UNCHANGED <<clock, authVars, cacheVars>>

(* The catch block: service unreachable, connection lost, invalid JSON.    *)
FinishFailed(r) ==
  /\ state[r] = "introspecting"
  /\ Leave(r, "unauthorized")
  /\ UNCHANGED <<clock, authVars, cacheVars>>

(* Seeded change: the fetch carries no abort signal.                       *)
FinishNeverTimedOut(r) ==
  /\ FALSE
  /\ FinishFailed(r)

(* The catch block again: AbortSignal.timeout fired.                       *)
FinishTimedOut(r) ==
  /\ state[r] = "introspecting"
  /\ clock >= sentAt[r] + Timeout
  /\ Leave(r, "unauthorized")
  /\ UNCHANGED <<clock, authVars, cacheVars>>

-----------------------------------------------------------------------------
(* The auth service and time.                                              *)

(* The service evaluates the token; its answer travels back for a while.   *)
ServiceAnswers(r) ==
  /\ state[r] = "introspecting"
  /\ answer[r] = "none"
  /\ answer' = [answer EXCEPT ![r] =
                  IF status[token[r]] = "active" THEN "active" ELSE "inactive"]
  /\ UNCHANGED <<clock, authVars, state, token, sentAt, cacheVars>>

Issue(t) ==
  /\ status[t] = "unissued"
  /\ status' = [status EXCEPT ![t] = "active"]
  /\ UNCHANGED <<clock, configured, revokedAt, reqVars, cacheVars>>

Revoke(t) ==
  /\ status[t] = "active"
  /\ status' = [status EXCEPT ![t] = "revoked"]
  /\ revokedAt' = [revokedAt EXCEPT ![t] = clock]
  /\ UNCHANGED <<clock, configured, reqVars, cacheVars>>

(* Seeded change: nothing holds a pending call to its deadline.            *)
TickPastDeadlines ==
  /\ clock < Horizon
  /\ clock' = clock + 1
  /\ UNCHANGED <<authVars, reqVars, cacheVars>>

(* Timers fire on time: time does not pass an introspection's deadline.    *)
Tick ==
  /\ clock < Horizon
  /\ \A r \in Request : state[r] = "introspecting" => clock < sentAt[r] + Timeout
  /\ clock' = clock + 1
  /\ UNCHANGED <<authVars, reqVars, cacheVars>>

Next ==
  \/ \E r \in Request :
       \/ RefuseMisconfigured(r)
       \/ RefuseAnonymous(r)
       \/ \E t \in Token : AdmitFromCache(r, t) \/ StartIntrospection(r, t)
       \/ FinishActive(r)
       \/ FinishInactive(r)
       \/ FinishFailed(r)
       \/ FinishTimedOut(r)
       \/ ServiceAnswers(r)
  \/ \E t \in Token : Issue(t) \/ Revoke(t)
  \/ Tick

Spec == Init /\ [][Next]_vars

(* Time passes, and the abort timer of a pending call fires.  Nothing is   *)
(* assumed of the auth service: it may never answer.                       *)
Fairness == WF_vars(Tick) /\ \A r \in Request : WF_vars(FinishTimedOut(r))

LiveSpec == Spec /\ Fairness

-----------------------------------------------------------------------------
(* How long a revoked token may be honoured: an answer evaluated just      *)
(* before the revocation may arrive a timeout later, and is cached from    *)
(* its arrival on.  The last instant at which an entry is live comes one   *)
(* unit before its expiry.                                                 *)
Window == IF CacheTtl > 0 THEN Timeout + CacheTtl - 1 ELSE Timeout

VerdictOf(s) ==
  CASE s = "idle" -> "none"
    [] s = "introspecting" -> "pending"
    [] s = "allowed" -> "allowed"
    [] OTHER -> "refused"

Guard == INSTANCE TokenGuard WITH
  holding <- token,
  verdict <- [r \in Request |-> VerdictOf(state[r])]

(* The guard, with its cache and its overlapping calls, admits a request   *)
(* only on a token the auth service honoured within the window, and        *)
(* refuses every other one (bearer-auth.strategy.ts:97-142: "fails         *)
(* closed", and revocation latency traded for throughput).                 *)
ImplementsTokenGuard == Guard!Spec

(* No cached decision outlives the revocation of its token by more than    *)
(* the introspection timeout plus the TTL, and no token the service never  *)
(* issued has an entry, however calls, revocations and evictions overlap   *)
(* (lines 110-141: entries are written after the await).                   *)
CachedDecisionsAge ==
  \A t \in Cached :
    \/ status[t] = "active"
    \/ status[t] = "revoked" /\ expiresAt[t] <= revokedAt[t] + Timeout + CacheTtl

(* The Map never grows past its cap, also when several requests miss on    *)
(* different tokens at once and insert one after another (line 13,         *)
(* lines 84-95: rotated-away tokens cannot accumulate).                    *)
CacheBounded == Cardinality(Cached) <= CacheMax

(* A decision that is still live is displaced only when the cache is full  *)
(* of live decisions, and then an older one is never spared in favour of a *)
(* younger one (lines 84-95: expired first, then the oldest insertions).   *)
EvictionSparesLive ==
  [][\A t \in Cached :
       Live(t) /\ expiresAt'[t] = Absent =>
         /\ Cardinality(Swept) = CacheMax
         /\ \A u \in Swept : expiresAt'[u] = expiresAt[u] => <<t, u>> \in older]_vars

(* Every request the guard takes up is decided, even if the auth service   *)
(* never answers (lines 6-7: a slow auth service cannot stall requests).   *)
EveryRequestDecided ==
  \A r \in Request : state[r] = "introspecting" ~> state[r] # "introspecting"
=============================================================================
