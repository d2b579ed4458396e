--------------------------- MODULE ResponseCache ---------------------------
(***************************************************************************)
(* The shared response cache (src/src/plugins/cache.ts): the serve and     *)
(* store hooks of concurrent requests, of any number of replicas, against  *)
(* one Redis and one upstream.                                             *)
(*                                                                         *)
(* A lookup races a timer; its answer may be stale when it arrives, or     *)
(* arrive after the request has moved on.  A streamed body is teed while   *)
(* it flows and stored when it has flowed to its end.  A store is sent and *)
(* forgotten: Redis runs it later, twice, or never.                        *)
(***************************************************************************)
EXTENDS CachePolicy, FiniteSets

CONSTANTS
  Request,       \* request slots over all replicas; the write a request leaves
                 \* behind occupies its slot until Redis runs or refuses it
  Nobody,        \* no request, no response
  Asks,          \* what clients may ask: url, accept, get, credentials, control
  Responses,     \* what upstreams may answer: ok, vary, control, stream, size
  LookupTimeout, \* LOOKUP_TIMEOUT_MS
  MaxBody,       \* CACHE_MAX_BODY_BYTES, in chunks
  WriteDelay,    \* environment: from a response to the end of its write
  Horizon        \* bound: the last instant of the explored time line

ASSUME CacheTimesAssumption ==
  /\ LookupTimeout \in Nat /\ MaxBody \in Nat
  /\ WriteDelay \in Nat /\ Horizon \in Nat

ASSUME ResponsesAssumption ==
  Responses \subseteq [ok : BOOLEAN, vary : SUBSET STRING, control : Controls,
                      stream : BOOLEAN, size : Nat]

VARIABLES
  clock,    \* time, in ms
  open,     \* the Redis client is connected; a Redis that hangs just never answers
  req,      \* each request's progress
  entries   \* Redis: under each key, at most one entry

vars == <<clock, open, req, entries>>

Keys    == {CacheKey(a) : a \in Asks}
NoKey   == <<>>

(* An entry as it travels and is kept: its key, whose response it is, when *)
(* the upstream gave it, how much of the body was kept, and its expiry.    *)
Entries == [key : Keys, ask : Asks, resp : Responses, made : Nat, kept : Nat, expiresAt : Nat]

Entry(key, ask, resp, made, kept) ==
  [key |-> key, ask |-> ask, resp |-> resp, made |-> made, kept |-> kept, expiresAt |-> 0]

(* A request between two uses of its slot.                                 *)
Idle == [phase |-> "idle", ask |-> Nobody, key |-> NoKey, due |-> 0, answered |-> FALSE,
         reply |-> {}, resp |-> Nobody, made |-> 0, got |-> 0, kept |-> 0,
         write |-> {}]

Phases == {"idle", "lookup", "hit", "upstream", "streaming", "storing"}

Requests ==
  [phase : Phases, ask : Asks \union {Nobody}, key : Keys \union {NoKey}, due : Nat,
   answered : BOOLEAN, reply : SUBSET Entries, resp : Responses \union {Nobody}, made : Nat,
   got : Nat, kept : 0..MaxBody, write : SUBSET Entries]

TypeOK ==
  /\ clock \in 0..Horizon
  /\ open \in BOOLEAN
  /\ req \in [Request -> Requests]
  /\ entries \in [Keys -> SUBSET Entries]
  /\ \A r \in Request :
       /\ req[r].phase \in {"lookup", "hit", "upstream", "streaming"} => req[r].ask \in Asks
       /\ req[r].phase = "streaming" => req[r].resp \in Responses

Init ==
  /\ clock = 0
  /\ open = TRUE
  /\ req = [r \in Request |-> Idle]
  /\ entries = [k \in Keys |-> {}]

-----------------------------------------------------------------------------
(* serveHook.                                                              *)

(* A request arrives.  One that may not use the cache gets no key; one     *)
(* that looks up waits for Redis, unless the client is known to be closed. *)
Arrive(r, ask) ==
  /\ req[r].phase = "idle"
  /\ LET key   == IF UsesCache(ask) THEN CacheKey(ask) ELSE NoKey
         waits == LooksUp(ask) /\ open
     IN  /\ waits => clock + LookupTimeout <= Horizon
         /\ req' = [req EXCEPT ![r] =
              [Idle EXCEPT !.phase = IF waits THEN "lookup" ELSE "upstream",
                           !.ask = ask, !.key = key,
                           !.due = IF waits THEN clock + LookupTimeout ELSE 0]]
  /\ UNCHANGED <<clock, open, entries>>

(* Redis reads the key; an expired entry is gone.                          *)
RedisReads(r) ==
  /\ req[r].phase = "lookup" /\ ~req[r].answered
  /\ open
  /\ req' = [req EXCEPT ![r].answered = TRUE,
                        ![r].reply = {e \in entries[req[r].key] : e.expiresAt > clock}]
  /\ UNCHANGED <<clock, open, entries>>

-----------------------------------------------------------------------------
(* storeHook.                                                              *)

(* The request is over, with the payload e observed by storeHook: a whole  *)
(* body under a key, of a storable response and within the size limit, is  *)
(* sent to Redis and forgotten; a closed client refuses the command.       *)
Over(r, e) ==
  req' = [req EXCEPT ![r] =
    IF e.key # NoKey /\ Storable(e.resp) /\ e.kept <= MaxBody /\ open
    THEN [Idle EXCEPT !.phase = "storing", !.write = {e}]
    ELSE Idle]

(* Seeded change: a served hit still carries its key when onSend runs.     *)
HitKeyKept(r) == req[r].key

(* The key under which storeHook sees a hit: it was cleared.               *)
HitKey(r) == NoKey

(* Redis answered in time with an entry: it is the response.               *)
ServeHit(r) ==
  /\ req[r].phase = "lookup" /\ req[r].reply # {}
  /\ req' = [req EXCEPT ![r].phase = "hit", ![r].due = 0]
  /\ UNCHANGED <<clock, open, entries>>

(* It passes storeHook on its way out, like any response.                  *)
HitSent(r) ==
  /\ req[r].phase = "hit"
  /\ \E e \in req[r].reply : Over(r, [e EXCEPT !.key = HitKey(r), !.expiresAt = 0])
  /\ UNCHANGED <<clock, open, entries>>

GoUpstream(r) ==
  /\ req' = [req EXCEPT ![r].phase = "upstream", ![r].due = 0,
                        ![r].answered = FALSE, ![r].reply = {}]
  /\ UNCHANGED <<clock, open, entries>>

Miss(r) ==
  /\ req[r].phase = "lookup" /\ req[r].answered /\ req[r].reply = {}
  /\ GoUpstream(r)

(* The command failed or the entry does not parse: a miss.                 *)
LookupFails(r) ==
  /\ req[r].phase = "lookup"
  /\ GoUpstream(r)

(* The timer wins the race: a miss; a later answer is for nobody.          *)
LookupTimesOut(r) ==
  /\ req[r].phase = "lookup"
  /\ clock >= req[r].due
  /\ GoUpstream(r)

(* The upstream's response reaches storeHook: a stored stream is teed, any *)
(* other payload is passed on at once.                                     *)
UpstreamAnswers(r, resp) ==
  /\ req[r].phase = "upstream"
  /\ IF ~resp.stream
     THEN Over(r, Entry(req[r].key, req[r].ask, resp, clock, resp.size))
     ELSE req' = [req EXCEPT ![r] =
            IF req[r].key # NoKey /\ Storable(resp)
            THEN [@ EXCEPT !.phase = "streaming", !.resp = resp, !.made = clock]
            ELSE Idle]
  /\ UNCHANGED <<clock, open, entries>>

(* Seeded change: the chunks already buffered outlive an overflow.         *)
ChunkKept(r) ==
  /\ req[r].phase = "streaming" /\ req[r].got < req[r].resp.size
  /\ req' = [req EXCEPT ![r].got = @ + 1, ![r].kept = @ + 1]
  /\ UNCHANGED <<clock, open, entries>>

(* A chunk flows to the client and is retained, until the body proves too  *)
(* large: then what was retained is let go.                                *)
Chunk(r) ==
  /\ req[r].phase = "streaming" /\ req[r].got < req[r].resp.size
  /\ req' = [req EXCEPT ![r].got = @ + 1,
                        ![r].kept = IF req[r].got + 1 > MaxBody THEN 0 ELSE @ + 1]
  /\ UNCHANGED <<clock, open, entries>>

(* The pipeline ends: what was teed is stored, unless it overflowed.       *)
Finish(r) ==
  /\ IF req[r].got > MaxBody THEN req' = [req EXCEPT ![r] = Idle]
     ELSE Over(r, Entry(req[r].key, req[r].ask, req[r].resp, req[r].made, req[r].kept))
  /\ UNCHANGED <<clock, open, entries>>

(* Seeded change: a broken pipeline stores like a finished one.            *)
StreamEndsAnyhow(r) == req[r].phase = "streaming" /\ Finish(r)

StreamEnds(r) ==
  /\ req[r].phase = "streaming" /\ req[r].got = req[r].resp.size
  /\ Finish(r)

(* The client leaves or the upstream's connection breaks, at any point.    *)
StreamBreaks(r) ==
  /\ req[r].phase = "streaming"
  /\ req' = [req EXCEPT ![r] = Idle]
  /\ UNCHANGED <<clock, open, entries>>

-----------------------------------------------------------------------------
(* Redis, its connection, and time.                                        *)

(* SET key entry PX ttl: the TTL runs from here.  A reply that is lost with *)
(* the connection leaves the command with the client, which sends it again *)
(* (maxRetriesPerRequest: null), so an entry may be written twice.         *)
WriteRuns(r) ==
  /\ open
  /\ \E w \in req[r].write :
       entries' = [entries EXCEPT ![w.key] =
                    {[w EXCEPT !.expiresAt = clock + resolveTtl(w.resp.control)]}]
  /\ req' = [req EXCEPT ![r] = Idle] \/ UNCHANGED req
  /\ UNCHANGED <<clock, open>>

(* The command fails; the failure is logged and swallowed.                 *)
WriteLost(r) ==
  /\ req[r].phase = "storing"
  /\ req' = [req EXCEPT ![r] = Idle]
  /\ UNCHANGED <<clock, open, entries>>

ConnectionChanges ==
  /\ open' = ~open
  /\ UNCHANGED <<clock, req, entries>>

(* Timers fire on time, and the environment's bound on writes holds.       *)
(* Redis drops what has expired.                                           *)
Tick ==
  /\ clock < Horizon
  /\ \A r \in Request : req[r].phase = "lookup" => clock < req[r].due
  /\ \A r \in Request : req[r].phase = "streaming" => clock < req[r].made + WriteDelay
  /\ \A r \in Request : \A w \in req[r].write : clock < w.made + WriteDelay
  /\ clock' = clock + 1
  /\ entries' = [k \in Keys |-> {e \in entries[k] : e.expiresAt > clock'}]
  /\ UNCHANGED <<open, req>>

Next ==
  \/ \E r \in Request :
       \/ \E ask \in Asks : Arrive(r, ask)
       \/ RedisReads(r)
       \/ ServeHit(r) \/ HitSent(r) \/ Miss(r) \/ LookupFails(r) \/ LookupTimesOut(r)
       \/ \E resp \in Responses : UpstreamAnswers(r, resp)
       \/ Chunk(r) \/ StreamEnds(r) \/ StreamBreaks(r)
       \/ WriteRuns(r) \/ WriteLost(r)
  \/ ConnectionChanges
  \/ Tick

Spec == Init /\ [][Next]_vars

-----------------------------------------------------------------------------
(* Every entry on its way to Redis, kept there, or on its way to a client. *)
Copies ==
  UNION ({entries[k] : k \in Keys} \union {req[r].reply \union req[r].write : r \in Request})

(* No response to a credentialed, non-GET or no-store request ever enters  *)
(* the store shared by all clients and replicas (cache.ts:155-161, and the *)
(* key that stays unset until storeHook runs, line 182).                   *)
SharedEntriesArePublic ==
  \A e \in Copies : e.ask.get /\ ~e.ask.credentials /\ e.ask.control # "no-store"

(* What is stored is a whole body within the size limit, never the prefix  *)
(* of a stream that broke or overflowed (lines 216-239).                   *)
StoredBodiesAreWhole ==
  \A e \in Copies : e.kept = e.resp.size /\ e.kept <= MaxBody

(* An entry dies a TTL cap after its write, however often it is served:    *)
(* serving it does not store it anew (lines 168, 182-183).                 *)
EntriesDie ==
  \A e \in Copies : e.expiresAt <= e.made + WriteDelay + MaxTtl

(* What a client sees of the cache: a hit is a whole public response to    *)
(* the same question, at most a TTL cap, a write and a lookup old, however *)
(* lookups, tees, delayed writes and expiry interleave (lines 83-103).     *)
Shelved(e) == [ask |-> e.ask, resp |-> e.resp, made |-> e.made, size |-> e.kept]

Doing(q) ==
  IF q.phase = "lookup" THEN "asking" ELSE IF q.phase = "hit" THEN "served" ELSE "nothing"

Client(q) ==
  IF Doing(q) = "nothing" THEN [doing |-> "nothing", ask |-> {}, got |-> {}]
  ELSE [doing |-> Doing(q), ask |-> {q.ask},
        got |-> IF Doing(q) = "served" THEN {Shelved(e) : e \in q.reply} ELSE {}]

Shelf == {Shelved(e) : e \in Copies}
Seats == [r \in Request |-> Client(req[r])]

Abstract == INSTANCE SharedCache WITH
  Delay  <- WriteDelay,
  Window <- WriteDelay + MaxTtl + LookupTimeout,
  shelf  <- Shelf,
  client <- Seats

ImplementsSharedCache == Abstract!Spec
=============================================================================
