------------------------ MODULE ResponseCacheProofs ------------------------
(***************************************************************************)
(* What holds of the response cache for any number of requests, replicas,  *)
(* URLs and responses and any limits, and that it is the shared cache of   *)
(* module SharedCache.                                                     *)
(***************************************************************************)
EXTENDS ResponseCache, TLAPS

(***************************************************************************)
(* The inductive invariant.  Whatever is under way to Redis, kept there or *)
(* read from there is a whole storable response to a public question, kept *)
(* under that question's key.                                              *)
(***************************************************************************)
Good(e) ==
  /\ e \in Entries
  /\ UsesCache(e.ask) /\ e.key = CacheKey(e.ask)
  /\ Storable(e.resp)
  /\ e.kept = e.resp.size /\ e.kept <= MaxBody
  /\ e.expiresAt <= e.made + WriteDelay + MaxTtl

(* A key is there only for a question that may use the cache.              *)
Keyed(q) == q.key # NoKey => UsesCache(q.ask) /\ q.key = CacheKey(q.ask)

(* A lookup, and the hit that ends it.                                     *)
Asking(q) ==
  /\ q.phase \in {"lookup", "hit"} => LooksUp(q.ask) /\ q.key = CacheKey(q.ask)
  /\ q.phase = "lookup" => clock <= q.due /\ q.due <= clock + LookupTimeout
  /\ q.phase = "hit" => q.reply # {}
  /\ q.phase \notin {"lookup", "hit"} => q.reply = {}
  /\ \A e \in q.reply : /\ Good(e) /\ e.key = q.key
                        /\ q.phase = "lookup" => q.due < e.expiresAt + LookupTimeout
  /\ \A e, f \in q.reply : e = f

(* A tee: what it has kept is what has flowed, unless that is too much.    *)
Teeing(q) ==
  /\ q.phase # "streaming" => q.got = 0
  /\ q.phase = "streaming" => /\ q.key # NoKey /\ Storable(q.resp)
                              /\ q.made <= clock /\ clock <= q.made + WriteDelay
                              /\ q.got <= q.resp.size
  /\ q.kept = IF q.got <= MaxBody THEN q.got ELSE 0

(* A write on its way, within the bound on its delay.                      *)
Storing(q) ==
  /\ q.phase # "storing" => q.write = {}
  /\ \A w \in q.write : Good(w) /\ w.made <= clock /\ clock <= w.made + WriteDelay

Fine(q) ==
  /\ q \in Requests
  /\ q.phase \in {"lookup", "hit", "upstream", "streaming"} => q.ask \in Asks
  /\ q.phase = "streaming" => q.resp \in Responses
  /\ Keyed(q) /\ Asking(q) /\ Teeing(q) /\ Storing(q)

Kept(k, stored) ==
  /\ \A e \in stored : Good(e) /\ e.key = k
  /\ \A e, f \in stored : e = f

RInv ==
  /\ clock \in 0..Horizon /\ open \in BOOLEAN
  /\ req \in [Request -> Requests] /\ entries \in [Keys -> SUBSET Entries]
  /\ \A r \in Request : Fine(req[r])
  /\ \A k \in Keys : Kept(k, entries[k])

-----------------------------------------------------------------------------
LEMMA IdleFine == Fine(Idle)
<1>1. Idle \in Requests
  BY CacheTimesAssumption DEF Idle, Requests, Phases
<1> QED BY <1>1 DEF Idle, Fine, Keyed, Asking, Teeing, Storing

(* The cap on the TTL, and what storing a response rules out.              *)
LEMMA TtlCapped ==
  ASSUME NEW resp \in Responses
  PROVE  /\ resp.size \in Nat
         /\ resolveTtl(resp.control) \in Nat /\ resolveTtl(resp.control) <= MaxTtl
         /\ Storable(resp) => resp.ok /\ ~resp.control.forbids /\ resp.vary \subseteq SafeVary
<1>1. resp.control \in Controls /\ resp.size \in Nat
  BY ResponsesAssumption
<1>2. resolveTtl(resp.control) \in Nat /\ resolveTtl(resp.control) <= MaxTtl
  BY <1>1, TtlAssumption DEF resolveTtl, Controls, Unset
<1>3. resp.control.forbids => resolveTtl(resp.control) = 0
  BY DEF resolveTtl
<1> QED BY <1>1, <1>2, <1>3 DEF Storable, varyIsKeyed

LEMMA KeysAreKeys ==
  ASSUME NEW ask \in Asks PROVE CacheKey(ask) \in Keys /\ CacheKey(ask) # NoKey
BY DEF Keys, CacheKey, NoKey

(* One request gets a new state, and the store stays as it is.             *)
LEMMA OneMoves ==
  ASSUME RInv, NEW r \in Request, NEW q, Fine(q), req' = [req EXCEPT ![r] = q],
         UNCHANGED <<clock, open, entries>>
  PROVE  RInv'
<1>1. q \in Requests
  BY DEF Fine
<1>2. req' \in [Request -> Requests]
  BY <1>1 DEF RInv
<1>3. ASSUME NEW s \in Request PROVE Fine(req'[s])
  BY <1>1 DEF RInv
<1>4. ASSUME NEW s \in Request PROVE Fine(req[s])'
  BY <1>3 DEF Fine, Keyed, Asking, Teeing, Storing
<1> QED BY <1>2, <1>4 DEF RInv

(* What is sent to the store at the end of a request, or not, is good.     *)
LEMMA OverFine ==
  ASSUME RInv, NEW r \in Request, NEW e, Over(r, e), UNCHANGED <<clock, open, entries>>,
         e.key # NoKey /\ Storable(e.resp) /\ e.kept <= MaxBody
           => Good(e) /\ e.made <= clock /\ clock <= e.made + WriteDelay
  PROVE  RInv'
<1> DEFINE stores == e.key # NoKey /\ Storable(e.resp) /\ e.kept <= MaxBody /\ open
           after  == IF stores THEN [Idle EXCEPT !.phase = "storing", !.write = {e}] ELSE Idle
<1>1. Fine(after)
  <2>1. CASE stores
    <3> DEFINE q == [Idle EXCEPT !.phase = "storing", !.write = {e}]
    <3>1. Good(e) /\ e \in Entries /\ e.made <= clock /\ clock <= e.made + WriteDelay
      BY <2>1 DEF Good
    <3>2. q \in Requests
      BY <3>1, IdleFine DEF Fine, Requests, Phases
    <3>3. /\ q.phase = "storing" /\ q.write = {e} /\ q.reply = {} /\ q.key = NoKey
          /\ q.got = 0 /\ q.kept = 0
      BY DEF Idle
    <3> HIDE DEF q
    <3>4. Fine(q)
      <4>1. Keyed(q) /\ Asking(q) /\ Teeing(q)
        BY <3>3, CacheTimesAssumption DEF Keyed, Asking, Teeing
      <4>2. Storing(q)
        BY <3>1, <3>3 DEF Storing
      <4> QED BY <3>2, <3>3, <4>1, <4>2 DEF Fine
    <3> QED BY <2>1, <3>4 DEF q
  <2>2. CASE ~stores
    BY <2>2, IdleFine
  <2> QED BY <2>1, <2>2
<1>2. req' = [req EXCEPT ![r] = after]
  BY DEF Over
<1> HIDE DEF after
<1> QED BY <1>1, <1>2, OneMoves

LEMMA Initially == Init => RInv
<1> SUFFICES ASSUME Init PROVE RInv
  OBVIOUS
<1>1. \A r \in Request : Fine(req[r])
  BY IdleFine DEF Init
<1>2. Idle \in Requests
  BY IdleFine DEF Fine
<1> QED BY <1>1, <1>2, CacheTimesAssumption DEF Init, RInv, Kept

(* Every step keeps the invariant.                                         *)
LEMMA Stepwise == RInv /\ [Next]_vars => RInv'
<1> SUFFICES ASSUME RInv, [Next]_vars PROVE RInv'
  OBVIOUS
<1> USE CacheTimesAssumption
<1>r. ASSUME NEW r \in Request PROVE Fine(req[r]) /\ req[r] \in Requests /\ clock \in Nat
  BY DEF RInv
<1>1. ASSUME NEW r \in Request, NEW ask \in Asks, Arrive(r, ask) PROVE RInv'
  <2> DEFINE waits == LooksUp(ask) /\ open
             phase == IF waits THEN "lookup" ELSE "upstream"
             key   == IF UsesCache(ask) THEN CacheKey(ask) ELSE NoKey
             due   == IF waits THEN clock + LookupTimeout ELSE 0
             q == [Idle EXCEPT !.phase = phase, !.ask = ask, !.key = key, !.due = due]
  <2>0. phase \in {"lookup", "upstream"} /\ key \in Keys \union {NoKey} /\ due \in Nat
    BY <1>r, KeysAreKeys
  <2>1. q \in Requests
    <3> HIDE DEF phase, key, due
    <3> QED BY <2>0, IdleFine DEF Fine, Requests, Phases
  <2>2. Fine(q)
    <3>1. /\ q.phase = IF waits THEN "lookup" ELSE "upstream"
          /\ q.ask = ask /\ q.key = IF UsesCache(ask) THEN CacheKey(ask) ELSE NoKey
          /\ q.due = IF waits THEN clock + LookupTimeout ELSE 0
          /\ q.reply = {} /\ q.write = {} /\ q.got = 0 /\ q.kept = 0
      BY DEF Idle
    <3> HIDE DEF q
    <3>2. Keyed(q) /\ Teeing(q) /\ Storing(q)
      BY <3>1 DEF Keyed, Teeing, Storing
    <3>3. Asking(q)
      BY <1>r, <3>1 DEF Asking, LooksUp, RInv
    <3> QED BY <2>1, <3>1, <3>2, <3>3 DEF Fine
  <2> QED BY <1>1, <2>2, OneMoves DEF Arrive
<1>2. ASSUME NEW r \in Request, RedisReads(r) PROVE RInv'
  <2> DEFINE reply == {e \in entries[req[r].key] : e.expiresAt > clock}
             q == [req[r] EXCEPT !.answered = TRUE, !.reply = reply]
  <2>1. /\ req[r].phase = "lookup" /\ req[r].ask \in Asks /\ req[r].key = CacheKey(req[r].ask)
        /\ req' = [req EXCEPT ![r] = q] /\ UNCHANGED <<clock, open, entries>>
    BY <1>2, <1>r DEF RedisReads, Fine, Asking
  <2>2. req[r].key \in Keys /\ Kept(req[r].key, entries[req[r].key])
    BY <2>1, KeysAreKeys DEF RInv
  <2>3. \A e \in reply : Good(e) /\ e.key = req[r].key /\ e \in Entries /\ e.expiresAt > clock
    BY <2>2 DEF Kept, Good
  <2>4. \A e, f \in reply : e = f
    BY <2>2 DEF Kept
  <2>5. q \in Requests
    BY <1>r, <2>3 DEF Requests
  <2>6. /\ q.phase = "lookup" /\ q.ask = req[r].ask /\ q.key = req[r].key /\ q.due = req[r].due
        /\ q.reply = reply /\ q.write = req[r].write /\ q.got = req[r].got /\ q.kept = req[r].kept
    BY <1>r, <2>1 DEF Requests
  <2>7. req[r].due \in Nat /\ req[r].due <= clock + LookupTimeout
    BY <1>r, <2>1 DEF Requests, Fine, Asking
  <2> HIDE DEF q, reply
  <2>8. \A e \in reply : q.due < e.expiresAt + LookupTimeout
    BY <1>r, <2>3, <2>6, <2>7 DEF Entries
  <2>9. Fine(q)
    BY <1>r, <2>1, <2>3, <2>4, <2>5, <2>6, <2>8 DEF Fine, Keyed, Asking, Teeing, Storing
  <2> QED BY <2>1, <2>9, OneMoves
<1>3. ASSUME NEW r \in Request, ServeHit(r) PROVE RInv'
  <2> DEFINE q == [req[r] EXCEPT !.phase = "hit", !.due = 0]
  <2>1. /\ req[r].phase = "lookup" /\ req[r].reply # {}
        /\ req' = [req EXCEPT ![r] = q] /\ UNCHANGED <<clock, open, entries>>
    BY <1>3, <1>r DEF ServeHit
  <2>2. q \in Requests
    BY <1>r DEF Requests, Phases
  <2>3. /\ q.phase = "hit" /\ q.ask = req[r].ask /\ q.key = req[r].key
        /\ q.reply = req[r].reply /\ q.write = req[r].write
        /\ q.got = req[r].got /\ q.kept = req[r].kept
    BY <1>r DEF Requests
  <2> HIDE DEF q
  <2>4. Fine(q)
    BY <1>r, <2>1, <2>2, <2>3 DEF Fine, Keyed, Asking, Teeing, Storing
  <2> QED BY <2>1, <2>4, OneMoves
<1>4. ASSUME NEW r \in Request, HitSent(r) PROVE RInv'
  <2>1. PICK e \in req[r].reply : Over(r, [e EXCEPT !.key = NoKey, !.expiresAt = 0])
    BY <1>4 DEF HitSent, HitKey
  <2> DEFINE f == [e EXCEPT !.key = NoKey, !.expiresAt = 0]
  <2>2. f.key = NoKey
    BY <1>r DEF Requests, Entries
  <2> HIDE DEF f
  <2> QED BY <1>4, <2>1, <2>2, OverFine DEF HitSent, f
<1>5. ASSUME NEW r \in Request, Miss(r) \/ LookupFails(r) \/ LookupTimesOut(r) PROVE RInv'
  <2> DEFINE q == [req[r] EXCEPT !.phase = "upstream", !.due = 0, !.answered = FALSE, !.reply = {}]
  <2>1. /\ req[r].phase = "lookup" /\ req' = [req EXCEPT ![r] = q] /\ UNCHANGED <<clock, open, entries>>
    BY <1>5, <1>r DEF Miss, LookupFails, LookupTimesOut, GoUpstream
  <2>2. q \in Requests
    BY <1>r DEF Requests, Phases
  <2>3. /\ q.phase = "upstream" /\ q.ask = req[r].ask /\ q.key = req[r].key
        /\ q.reply = {} /\ q.write = req[r].write
        /\ q.got = req[r].got /\ q.kept = req[r].kept
    BY <1>r DEF Requests
  <2> HIDE DEF q
  <2>4. Fine(q)
    BY <1>r, <2>1, <2>2, <2>3 DEF Fine, Keyed, Asking, Teeing, Storing
  <2> QED BY <2>1, <2>4, OneMoves
<1>6. ASSUME NEW r \in Request, NEW resp \in Responses, UpstreamAnswers(r, resp) PROVE RInv'
  <2>1. /\ req[r].phase = "upstream" /\ req[r].ask \in Asks /\ Keyed(req[r])
        /\ req[r].reply = {} /\ req[r].write = {}
    BY <1>6, <1>r DEF UpstreamAnswers, Fine, Asking, Storing
  <2>2. CASE ~resp.stream
    <3> DEFINE e == Entry(req[r].key, req[r].ask, resp, clock, resp.size)
    <3>1. /\ e.key = req[r].key /\ e.ask = req[r].ask /\ e.resp = resp /\ e.made = clock
          /\ e.kept = resp.size /\ e.expiresAt = 0
      BY DEF Entry
    <3>2. e.key # NoKey => e \in Entries
      BY <1>r, <2>1, KeysAreKeys, TtlCapped DEF Entry, Entries, Keyed
    <3>3. Over(r, e) /\ UNCHANGED <<clock, open, entries>>
      BY <1>6, <2>2 DEF UpstreamAnswers
    <3> HIDE DEF e
    <3>4. e.key # NoKey /\ Storable(e.resp) /\ e.kept <= MaxBody
            => Good(e) /\ e.made <= clock /\ clock <= e.made + WriteDelay
      BY <1>r, <2>1, <3>1, <3>2, TtlAssumption DEF Good, Keyed
    <3> QED BY <3>3, <3>4, OverFine
  <2>3. CASE resp.stream /\ req[r].key # NoKey /\ Storable(resp)
    <3> DEFINE q == [req[r] EXCEPT !.phase = "streaming", !.resp = resp, !.made = clock]
    <3>1. req' = [req EXCEPT ![r] = q] /\ UNCHANGED <<clock, open, entries>>
      BY <1>6, <2>3 DEF UpstreamAnswers
    <3>2. q \in Requests
      BY <1>r DEF Requests, Phases
    <3>3. /\ q.phase = "streaming" /\ q.ask = req[r].ask /\ q.key = req[r].key
          /\ q.reply = {} /\ q.write = {} /\ q.resp = resp /\ q.made = clock
          /\ q.got = req[r].got /\ q.kept = req[r].kept
      BY <1>r, <2>1 DEF Requests
    <3> HIDE DEF q
    <3>4. Fine(q)
      BY <1>r, <2>1, <2>3, <3>2, <3>3, TtlCapped DEF Fine, Keyed, Asking, Teeing, Storing
    <3> QED BY <3>1, <3>4, OneMoves
  <2>4. CASE resp.stream /\ ~(req[r].key # NoKey /\ Storable(resp))
    BY <1>6, <2>4, IdleFine, OneMoves DEF UpstreamAnswers
  <2> QED BY <2>2, <2>3, <2>4
<1>7. ASSUME NEW r \in Request, Chunk(r) PROVE RInv'
  <2> DEFINE got  == req[r].got + 1
             kept == IF got > MaxBody THEN 0 ELSE req[r].kept + 1
             q    == [req[r] EXCEPT !.got = got, !.kept = kept]
  <2>1. /\ req[r].phase = "streaming" /\ req[r].got < req[r].resp.size
        /\ req' = [req EXCEPT ![r] = q] /\ UNCHANGED <<clock, open, entries>>
    BY <1>7, <1>r DEF Chunk
  <2>2. /\ req[r].got \in Nat /\ req[r].resp.size \in Nat
        /\ got \in Nat /\ kept \in 0..MaxBody
        /\ got <= req[r].resp.size /\ kept = IF got <= MaxBody THEN got ELSE 0
    BY <1>r, <2>1, TtlCapped DEF Fine, Requests, Teeing
  <2> HIDE DEF got, kept
  <2>3. q \in Requests
    BY <1>r, <2>2 DEF Requests
  <2>4. /\ q.phase = "streaming" /\ q.ask = req[r].ask /\ q.key = req[r].key
        /\ q.reply = req[r].reply /\ q.write = req[r].write /\ q.resp = req[r].resp
        /\ q.made = req[r].made /\ q.got = got /\ q.kept = kept
    BY <1>r, <2>1 DEF Requests
  <2> HIDE DEF q
  <2>5. Fine(q)
    BY <1>r, <2>1, <2>2, <2>3, <2>4 DEF Fine, Keyed, Asking, Teeing, Storing
  <2> QED BY <2>1, <2>5, OneMoves
<1>8. ASSUME NEW r \in Request, StreamEnds(r) PROVE RInv'
  <2> DEFINE e == Entry(req[r].key, req[r].ask, req[r].resp, req[r].made, req[r].kept)
  <2>1. /\ req[r].phase = "streaming" /\ req[r].got = req[r].resp.size /\ UNCHANGED <<clock, open, entries>>
        /\ req[r].ask \in Asks /\ req[r].resp \in Responses
        /\ UsesCache(req[r].ask) /\ req[r].key = CacheKey(req[r].ask)
        /\ req[r].made \in Nat /\ req[r].made <= clock /\ clock <= req[r].made + WriteDelay
        /\ req[r].kept = IF req[r].got <= MaxBody THEN req[r].got ELSE 0
        /\ req[r].kept \in Nat /\ req[r].got \in Nat
    BY <1>8, <1>r DEF StreamEnds, Finish, Fine, Keyed, Teeing, Requests
  <2>2. CASE req[r].got > MaxBody
    BY <1>8, <2>1, <2>2, IdleFine, OneMoves DEF StreamEnds, Finish
  <2>3. CASE ~(req[r].got > MaxBody)
    <3>1. /\ e.key = req[r].key /\ e.ask = req[r].ask /\ e.resp = req[r].resp
          /\ e.made = req[r].made /\ e.kept = req[r].kept /\ e.expiresAt = 0
      BY DEF Entry
    <3>2. e \in Entries
      BY <2>1, KeysAreKeys DEF Entry, Entries
    <3>3. Over(r, e)
      BY <1>8, <2>3 DEF StreamEnds, Finish
    <3> HIDE DEF e
    <3>4. Storable(e.resp) => Good(e) /\ e.made <= clock /\ clock <= e.made + WriteDelay
      BY <2>1, <2>3, <3>1, <3>2, TtlAssumption DEF Good
    <3> QED BY <2>1, <3>3, <3>4, OverFine
  <2> QED BY <2>2, <2>3
<1>9. ASSUME NEW r \in Request, StreamBreaks(r) \/ WriteLost(r) PROVE RInv'
  BY <1>9, IdleFine, OneMoves DEF StreamBreaks, WriteLost
<1>10. ASSUME NEW r \in Request, WriteRuns(r) PROVE RInv'
  <2>1. PICK w \in req[r].write :
          entries' = [entries EXCEPT ![w.key] =
                       {[w EXCEPT !.expiresAt = clock + resolveTtl(w.resp.control)]}]
    BY <1>10 DEF WriteRuns
  <2> DEFINE e == [w EXCEPT !.expiresAt = clock + resolveTtl(w.resp.control)]
  <2>2. /\ w \in Entries /\ Good(w) /\ w.made \in Nat /\ w.resp \in Responses /\ w.key \in Keys
        /\ w.made <= clock /\ clock <= w.made + WriteDelay
    BY <1>r, <2>1 DEF Fine, Storing, Good, Entries
  <2>3. /\ clock + resolveTtl(w.resp.control) \in Nat
        /\ clock + resolveTtl(w.resp.control) <= w.made + WriteDelay + MaxTtl
    BY <1>r, <2>2, TtlCapped, TtlAssumption
  <2>4. /\ e \in Entries /\ e.expiresAt <= e.made + WriteDelay + MaxTtl
        /\ e.key = w.key /\ e.ask = w.ask /\ e.resp = w.resp /\ e.kept = w.kept
    BY <2>2, <2>3 DEF Entries
  <2>5. entries' = [entries EXCEPT ![w.key] = {e}]
    BY <2>1
  <2> HIDE DEF e
  <2>6. Good(e) /\ e.key = w.key
    BY <2>2, <2>4 DEF Good
  <2>7. Kept(w.key, {e})
    BY <2>6 DEF Kept
  <2>8. entries' \in [Keys -> SUBSET Entries] /\ \A k \in Keys : Kept(k, entries'[k])
    BY <2>2, <2>4, <2>5, <2>7 DEF RInv
  <2>9. (req' = [req EXCEPT ![r] = Idle] \/ req' = req) /\ clock' = clock /\ open' = open
    BY <1>10 DEF WriteRuns
  <2>10. req' \in [Request -> Requests] /\ \A s \in Request : Fine(req'[s])
    BY <2>9, IdleFine DEF RInv, Fine
  <2>11. \A s \in Request : Fine(req[s])'
    BY <2>9, <2>10 DEF Fine, Keyed, Asking, Teeing, Storing
  <2>12. \A k \in Keys : Kept(k, entries[k])'
    BY <2>8 DEF Kept
  <2> QED BY <2>8, <2>9, <2>10, <2>11, <2>12 DEF RInv
<1>11. CASE ConnectionChanges \/ UNCHANGED vars
  <2>1. UNCHANGED <<clock, req, entries>> /\ open' \in BOOLEAN
    BY <1>11 DEF ConnectionChanges, vars, RInv
  <2>2. \A s \in Request : Fine(req[s])'
    BY <2>1 DEF RInv, Fine, Keyed, Asking, Teeing, Storing
  <2>3. \A k \in Keys : Kept(k, entries[k])'
    BY <2>1 DEF RInv
  <2> QED BY <2>1, <2>2, <2>3 DEF RInv
<1>12. CASE Tick
  <2>1. /\ clock' = clock + 1 /\ clock' \in 0..Horizon /\ UNCHANGED <<open, req>>
        /\ entries' = [k \in Keys |-> {e \in entries[k] : e.expiresAt > clock'}]
    BY <1>12 DEF Tick, RInv
  <2>2. ASSUME NEW s \in Request PROVE Fine(req[s])'
    <3> DEFINE q == req[s]
    <3>1. /\ q.phase = "lookup" => clock < q.due
          /\ q.phase = "streaming" => clock < q.made + WriteDelay
          /\ \A w \in q.write : clock < w.made + WriteDelay
      BY <1>12 DEF Tick
    <3>2. /\ Fine(q) /\ q.due \in Nat /\ q.made \in Nat /\ clock \in Nat
          /\ \A w \in q.write : w.made \in Nat
      BY <1>r DEF Requests, Entries
    <3> HIDE DEF q
    <3>3. (Fine(q))'
      <4>1. Asking(q)' /\ Keyed(q)'
        BY <2>1, <3>1, <3>2 DEF Fine, Asking, Keyed, q
      <4>2. Teeing(q)'
        BY <2>1, <3>1, <3>2 DEF Fine, Teeing, q
      <4>3. Storing(q)'
        BY <2>1, <3>1, <3>2 DEF Fine, Storing, q
      <4> QED BY <2>1, <3>2, <4>1, <4>2, <4>3 DEF Fine, q
    <3> QED BY <3>3 DEF q
  <2>3. entries' \in [Keys -> SUBSET Entries]
    BY <2>1 DEF RInv
  <2>4. \A k \in Keys : Kept(k, entries[k])'
    BY <2>1 DEF RInv, Kept
  <2> QED BY <2>1, <2>2, <2>3, <2>4 DEF RInv
<1> QED
  BY <1>1, <1>2, <1>3, <1>4, <1>5, <1>6, <1>7, <1>8, <1>9, <1>10, <1>11, <1>12 DEF Next

(* The invariant holds throughout, which all that follows rests on.        *)
THEOREM Inductive == Spec => []RInv
BY Initially, Stepwise, PTL DEF Spec

(* Every request is in one of its phases with the data that phase needs,   *)
(* and a tee never holds more than the size limit.                         *)
THEOREM TypeCorrect == Spec => []TypeOK
<1>1. RInv => TypeOK
  BY DEF RInv, Fine, TypeOK
<1> QED BY <1>1, Inductive, PTL

(* Where a copy can be.                                                    *)
LEMMA Scattered ==
  ASSUME NEW stored, NEW requests
  PROVE  \A e :
           e \in UNION ({stored[k] : k \in Keys}
                         \union {requests[r].reply \union requests[r].write : r \in Request})
             <=> \/ \E k \in Keys : e \in stored[k]
                 \/ \E r \in Request : e \in requests[r].reply \/ e \in requests[r].write
OBVIOUS

LEMMA CopiesAre ==
  \A e : e \in Copies <=> \/ \E k \in Keys : e \in entries[k]
                          \/ \E r \in Request : e \in req[r].reply \/ e \in req[r].write
BY Scattered DEF Copies

LEMMA CopiesAreGood == RInv => \A e \in Copies : Good(e)
<1> SUFFICES ASSUME RInv, NEW e \in Copies PROVE Good(e)
  OBVIOUS
<1>1. CASE \E k \in Keys : e \in entries[k]
  BY <1>1 DEF RInv, Kept
<1>2. CASE \E r \in Request : e \in req[r].reply \/ e \in req[r].write
  BY <1>2 DEF RInv, Fine, Asking, Storing
<1> QED BY <1>1, <1>2, CopiesAre

(* Nothing private is ever shared, whatever is asked and answered.         *)
THEOREM PublicForAll == Spec => []SharedEntriesArePublic
<1>1. RInv => SharedEntriesArePublic
  BY CopiesAreGood DEF Good, UsesCache, SharedEntriesArePublic
<1> QED BY <1>1, Inductive, PTL

(* No prefix is ever shared, whatever breaks.                              *)
THEOREM WholeForAll == Spec => []StoredBodiesAreWhole
<1>1. RInv => StoredBodiesAreWhole
  BY CopiesAreGood DEF Good, StoredBodiesAreWhole
<1> QED BY <1>1, Inductive, PTL

(* Every entry dies within the cap, however often it is served.            *)
THEOREM DeathForAll == Spec => []EntriesDie
<1>1. RInv => EntriesDie
  BY CopiesAreGood DEF Good, EntriesDie
<1> QED BY <1>1, Inductive, PTL

-----------------------------------------------------------------------------
(* The shared cache, step by step.                                         *)

(* One request moves on: what it brings and takes, and what clients see.   *)
LEMMA CopiesMove ==
  ASSUME RInv, NEW r \in Request, NEW q, req' = [req EXCEPT ![r] = q], UNCHANGED entries
  PROVE  /\ Copies' \subseteq Copies \union q.reply \union q.write
         /\ req[r].reply \subseteq q.reply /\ req[r].write \subseteq q.write
              => Copies' = Copies \union q.reply \union q.write
<1> DEFINE There(e, requests) ==
             \/ \E k \in Keys : e \in entries[k]
             \/ \E s \in Request : e \in requests[s].reply \/ e \in requests[s].write
<1>1. \A e : e \in Copies <=> There(e, req)
  BY CopiesAre
<1>2. \A e : e \in Copies' <=> There(e, req')
  <2> DEFINE after == req'
  <2>1. Copies' = UNION ({entries[k] : k \in Keys}
                           \union {after[s].reply \union after[s].write : s \in Request})
    BY DEF Copies
  <2> HIDE DEF after
  <2>2. \A e : e \in Copies' <=> There(e, after)
    BY ONLY <2>1, Scattered
  <2> QED BY <2>2 DEF after
<1>3. req'[r] = q /\ \A s \in Request \ {r} : req'[s] = req[s]
  BY DEF RInv
<1> QED BY <1>1, <1>2, <1>3

LEMMA SeatsMove ==
  ASSUME RInv, NEW r \in Request, NEW q, req' = [req EXCEPT ![r] = q]
  PROVE  Seats' = [Seats EXCEPT ![r] = Client(q)]
BY DEF RInv, Seats

(* A request that leaves nothing new behind, and no client sees it.        *)
LEMMA Forgets ==
  ASSUME RInv, NEW r \in Request, NEW q, req' = [req EXCEPT ![r] = q], UNCHANGED <<clock, entries>>,
         q.reply \union q.write \subseteq Copies, Client(q) = Client(req[r])
  PROVE  Abstract!Next
<1>1. Shelf' \subseteq Shelf
  BY CopiesMove DEF Shelf, Shelved
<1>2. Seats' = Seats
  BY SeatsMove DEF RInv, Seats
<1> QED BY <1>1, <1>2 DEF Abstract!Next, Abstract!Forget

(* A client is served or goes on to the upstream.                          *)
LEMMA Leaves ==
  ASSUME RInv, NEW r \in Request, NEW q, req' = [req EXCEPT ![r] = q], UNCHANGED <<clock, entries>>,
         q.reply = {}, q.write \subseteq req[r].write, Doing(q) = "nothing", Doing(req[r]) # "nothing"
  PROVE  Abstract!Next
<1>1. Shelf' \subseteq Shelf
  <2>1. q.write \subseteq Copies
    BY CopiesAre
  <2> QED BY <2>1, CopiesMove DEF Shelf, Shelved
<1>2. Seats' = [Seats EXCEPT ![r] = Abstract!Out]
  BY SeatsMove DEF Client, Abstract!Out
<1>3. Seats[r].doing # "nothing"
  BY DEF Seats, Client
<1> QED BY <1>1, <1>2, <1>3 DEF Abstract!Next, Abstract!Leave

(* A request ends, and what storeHook saw is kept or not.                  *)
LEMMA OverKeeps ==
  ASSUME RInv, NEW r \in Request, NEW e \in Entries, Over(r, e), UNCHANGED <<clock, entries>>,
         Doing(req[r]) = "nothing", req[r].reply = {}, req[r].write = {},
         Storable(e.resp) /\ e.key # NoKey =>
           e.kept = e.resp.size /\ UsesCache(e.ask) /\ e.made \in (clock - WriteDelay)..clock
  PROVE  Abstract!Next
<1> DEFINE stores == e.key # NoKey /\ Storable(e.resp) /\ e.kept <= MaxBody /\ open
           busy   == [Idle EXCEPT !.phase = "storing", !.write = {e}]
<1>1. CASE ~stores
  <2>1. req' = [req EXCEPT ![r] = Idle]
    BY <1>1 DEF Over
  <2>2. Idle.reply = {} /\ Idle.write = {} /\ Client(Idle) = Client(req[r])
    BY DEF Idle, Client, Doing
  <2> QED BY <2>1, <2>2, Forgets
<1>2. CASE stores
  <2>1. req' = [req EXCEPT ![r] = busy]
    BY <1>2 DEF Over
  <2>2. busy.reply = {} /\ busy.write = {e} /\ Client(busy) = Client(req[r])
    BY DEF Idle, Client, Doing
  <2> HIDE DEF busy
  <2>3. Copies' = Copies \union {e}
    BY <2>1, <2>2, CopiesMove
  <2>4. Shelf' = Shelf \union {Shelved(e)}
    BY <2>3 DEF Shelf, Shelved
  <2>5. Seats' = Seats
    BY <2>1, <2>2, SeatsMove DEF RInv, Seats
  <2>6. Abstract!MayBeKept(e.ask, e.resp)
    BY <1>2, TtlCapped DEF Entries, UsesCache, SafeVary, Abstract!MayBeKept, Abstract!Public
  <2>7. e.ask \in Asks /\ e.resp \in Responses /\ e.made \in (clock - WriteDelay)..clock
    BY <1>2 DEF Entries
  <2>8. Abstract!Keep(e.ask, e.resp, e.made)
    BY <1>2, <2>4, <2>5, <2>6 DEF Abstract!Keep, Shelved
  <2> QED BY <2>7, <2>8 DEF Abstract!Next
<1> QED BY <1>1, <1>2

LEMMA StartsShared == Init => Abstract!Init
<1> SUFFICES ASSUME Init PROVE Abstract!Init
  OBVIOUS
<1>1. \A e : e \notin Copies
  BY CopiesAre DEF Init, Idle
<1>2. Shelf = {}
  BY <1>1 DEF Shelf
<1>3. Seats = [r \in Request |-> Abstract!Out]
  BY DEF Init, Idle, Seats, Client, Doing, Abstract!Out
<1> QED BY <1>2, <1>3 DEF Init, Abstract!Init

LEMMA StepsShared == RInv /\ RInv' /\ [Next]_vars => [Abstract!Next]_(Abstract!vars)
<1> SUFFICES ASSUME RInv, RInv', [Next]_vars PROVE Abstract!Next \/ UNCHANGED <<clock, Shelf, Seats>>
  BY DEF Abstract!vars
<1> USE CacheTimesAssumption
<1>r. ASSUME NEW r \in Request
      PROVE  /\ req[r] \in Requests /\ clock \in Nat
             /\ req[r].phase \in {"lookup", "hit", "upstream", "streaming"} => req[r].ask \in Asks
             /\ req[r].phase = "streaming" => req[r].resp \in Responses
             /\ Keyed(req[r]) /\ Asking(req[r]) /\ Teeing(req[r]) /\ Storing(req[r])
  BY DEF RInv, Fine
<1>1. ASSUME NEW r \in Request, NEW ask \in Asks, Arrive(r, ask)
      PROVE  Abstract!Next \/ UNCHANGED <<clock, Shelf, Seats>>
  <2>1. req[r].phase = "idle" /\ req[r].reply = {} /\ req[r].write = {} /\ UNCHANGED <<clock, entries>>
    BY <1>1, <1>r DEF Arrive, Asking, Storing
  <2>2. PICK q : /\ req' = [req EXCEPT ![r] = q]
                 /\ q.phase = (IF LooksUp(ask) /\ open THEN "lookup" ELSE "upstream")
                 /\ q.ask = ask /\ q.reply = {} /\ q.write = {}
    <3> DEFINE phase == IF LooksUp(ask) /\ open THEN "lookup" ELSE "upstream"
               key   == IF UsesCache(ask) THEN CacheKey(ask) ELSE NoKey
               due   == IF LooksUp(ask) /\ open THEN clock + LookupTimeout ELSE 0
               q     == [Idle EXCEPT !.phase = phase, !.ask = ask, !.key = key, !.due = due]
    <3>1. req' = [req EXCEPT ![r] = q]
      BY <1>1 DEF Arrive
    <3>2. q.phase = phase /\ q.ask = ask /\ q.reply = {} /\ q.write = {}
      BY DEF Idle
    <3> HIDE DEF q
    <3> QED BY <3>1, <3>2
  <2>3. CASE LooksUp(ask) /\ open
    <3>1. Shelf' = Shelf
      BY <2>1, <2>2, CopiesMove DEF Shelf
    <3>2. Seats' = [Seats EXCEPT ![r] = [doing |-> "asking", ask |-> {ask}, got |-> {}]]
      BY <2>2, <2>3, SeatsMove DEF Client, Doing
    <3>3. Seats[r].doing = "nothing"
      BY <2>1 DEF Seats, Client, Doing
    <3>4. Abstract!Wonder(r, ask)
      BY <2>1, <2>3, <3>1, <3>2, <3>3 DEF Abstract!Wonder, Abstract!Public, LooksUp, UsesCache
    <3> QED BY <3>4 DEF Abstract!Next
  <2>4. CASE ~(LooksUp(ask) /\ open)
    <3>1. Client(q) = Client(req[r])
      BY <2>1, <2>2, <2>4 DEF Client, Doing
    <3> QED BY <2>1, <2>2, <3>1, Forgets
  <2> QED BY <2>3, <2>4
<1>2. ASSUME NEW r \in Request, RedisReads(r) PROVE Abstract!Next
  <2> DEFINE reply == {e \in entries[req[r].key] : e.expiresAt > clock}
             q == [req[r] EXCEPT !.answered = TRUE, !.reply = reply]
  <2>1. /\ req[r].phase = "lookup" /\ req[r].key \in Keys
        /\ req' = [req EXCEPT ![r] = q] /\ UNCHANGED <<clock, entries>>
    BY <1>2, <1>r, KeysAreKeys DEF RedisReads, Asking
  <2>2. /\ q.phase = "lookup" /\ q.ask = req[r].ask /\ q.reply = reply /\ q.write = req[r].write
    BY <1>r, <2>1 DEF Requests
  <2>3. q.reply \union q.write \subseteq Copies
    BY <2>1, <2>2, CopiesAre
  <2>4. Client(q) = Client(req[r])
    BY <2>1, <2>2 DEF Client, Doing
  <2> HIDE DEF q
  <2> QED BY <2>1, <2>3, <2>4, Forgets
<1>3. ASSUME NEW r \in Request, ServeHit(r) PROVE Abstract!Next
  <2> DEFINE q == [req[r] EXCEPT !.phase = "hit", !.due = 0]
  <2>1. /\ req[r].phase = "lookup" /\ req[r].reply # {}
        /\ req' = [req EXCEPT ![r] = q] /\ UNCHANGED <<clock, entries>>
    BY <1>3, <1>r DEF ServeHit
  <2>2. /\ q.phase = "hit" /\ q.ask = req[r].ask /\ q.reply = req[r].reply /\ q.write = req[r].write
    BY <1>r DEF Requests
  <2> HIDE DEF q
  <2>3. PICK e \in req[r].reply : req[r].reply = {e}
    BY <1>r, <2>1 DEF Asking
  <2>4. /\ e \in Entries /\ UsesCache(e.ask) /\ CacheKey(e.ask) = CacheKey(req[r].ask)
        /\ e.expiresAt <= e.made + WriteDelay + MaxTtl
        /\ clock < e.expiresAt + LookupTimeout /\ e.made \in Nat /\ e.expiresAt \in Nat
    <3>1. Good(e) /\ e.key = req[r].key /\ req[r].key = CacheKey(req[r].ask)
          /\ clock <= req[r].due /\ req[r].due < e.expiresAt + LookupTimeout
          /\ req[r].due \in Nat /\ clock \in Nat
      BY <1>r, <2>1, <2>3 DEF Asking, Requests
    <3> QED BY <3>1 DEF Good, Entries
  <2>5. Shelf' = Shelf /\ Shelved(e) \in Shelf
    <3>1. e \in Copies /\ req[r].reply \union req[r].write \subseteq Copies
      BY <2>3, CopiesAre
    <3>2. /\ Copies' = Copies \union q.reply \union q.write
          /\ q.reply \union q.write \subseteq Copies
      BY <2>1, <2>2, <3>1, CopiesMove
    <3> QED BY <3>1, <3>2 DEF Shelf
  <2>6. Seats' = [Seats EXCEPT ![r] = [doing |-> "served", ask |-> {req[r].ask}, got |-> {Shelved(e)}]]
    <3>1. Client(q) = [doing |-> "served", ask |-> {req[r].ask}, got |-> {Shelved(e)}]
      BY <2>2, <2>3 DEF Client, Doing
    <3> QED BY <2>1, <3>1, SeatsMove
  <2>7. Seats[r].doing = "asking" /\ Seats[r].ask = {req[r].ask}
    BY <2>1 DEF Seats, Client, Doing
  <2>8. /\ Shelved(e).ask = e.ask /\ Shelved(e).made = e.made
        /\ e.ask.url = req[r].ask.url /\ e.ask.accept = req[r].ask.accept
    BY <2>4 DEF Shelved, CacheKey
  <2>9. clock <= Shelved(e).made + (WriteDelay + MaxTtl + LookupTimeout)
    BY <1>r, <2>4, <2>8, TtlAssumption
  <2>10. Abstract!Serve(r, Shelved(e))
    BY <2>1, <2>5, <2>6, <2>7, <2>8, <2>9 DEF Abstract!Serve, Abstract!SameQuestion
  <2> QED BY <2>5, <2>10 DEF Abstract!Next
<1>4. ASSUME NEW r \in Request, HitSent(r) PROVE Abstract!Next
  <2>1. PICK e \in req[r].reply : Over(r, [e EXCEPT !.key = NoKey, !.expiresAt = 0])
    BY <1>4 DEF HitSent, HitKey
  <2>2. e \in Entries
    BY <1>r, <2>1 DEF Requests
  <2>3. req' = [req EXCEPT ![r] = Idle]
    BY <2>1, <2>2 DEF Over, Entries
  <2>4. Idle.reply = {} /\ Idle.write = {} /\ Doing(Idle) = "nothing" /\ Doing(req[r]) # "nothing"
    BY <1>4 DEF HitSent, Idle, Doing
  <2> QED BY <1>4, <2>3, <2>4, Leaves DEF HitSent
<1>5. ASSUME NEW r \in Request, Miss(r) \/ LookupFails(r) \/ LookupTimesOut(r) PROVE Abstract!Next
  <2> DEFINE q == [req[r] EXCEPT !.phase = "upstream", !.due = 0, !.answered = FALSE, !.reply = {}]
  <2>1. /\ req[r].phase = "lookup" /\ req' = [req EXCEPT ![r] = q] /\ UNCHANGED <<clock, entries>>
    BY <1>5, <1>r DEF Miss, LookupFails, LookupTimesOut, GoUpstream
  <2>2. q.reply = {} /\ q.write = req[r].write /\ Doing(q) = "nothing" /\ Doing(req[r]) # "nothing"
    BY <1>r, <2>1 DEF Requests, Doing
  <2> HIDE DEF q
  <2> QED BY <2>1, <2>2, Leaves
<1>6. ASSUME NEW r \in Request, NEW resp \in Responses, UpstreamAnswers(r, resp) PROVE Abstract!Next
  <2>1. /\ req[r].phase = "upstream" /\ req[r].ask \in Asks /\ Keyed(req[r])
        /\ req[r].reply = {} /\ req[r].write = {} /\ Doing(req[r]) = "nothing"
        /\ UNCHANGED <<clock, entries>>
    BY <1>6, <1>r DEF UpstreamAnswers, Asking, Storing, Doing
  <2>2. CASE ~resp.stream
    <3> DEFINE e == Entry(req[r].key, req[r].ask, resp, clock, resp.size)
    <3>1. /\ e.key = req[r].key /\ e.ask = req[r].ask /\ e.resp = resp /\ e.made = clock
          /\ e.kept = resp.size /\ Over(r, e)
      BY <1>6, <2>2 DEF UpstreamAnswers, Entry
    <3>2. CASE req[r].key # NoKey
      <4>1. e \in Entries
        BY <1>r, <2>1, <3>2, KeysAreKeys, TtlCapped DEF Entry, Entries, Keyed
      <4> HIDE DEF e
      <4> QED BY <1>r, <2>1, <3>1, <3>2, <4>1, OverKeeps DEF Keyed
    <3>3. CASE req[r].key = NoKey
      <4>1. req' = [req EXCEPT ![r] = Idle]
        BY <3>1, <3>3 DEF Over
      <4>2. Idle.reply = {} /\ Idle.write = {} /\ Client(Idle) = Client(req[r])
        BY <2>1 DEF Idle, Client, Doing
      <4> QED BY <2>1, <4>1, <4>2, Forgets
    <3> QED BY <3>2, <3>3
  <2>3. CASE resp.stream
    <3>1. PICK q : /\ req' = [req EXCEPT ![r] = q] /\ q.reply = {} /\ q.write = {}
                   /\ q.phase \in {"idle", "streaming"}
      <4>1. CASE req[r].key # NoKey /\ Storable(resp)
        <5> DEFINE q == [req[r] EXCEPT !.phase = "streaming", !.resp = resp, !.made = clock]
        <5>1. q.reply = {} /\ q.write = {} /\ q.phase = "streaming"
          BY <1>r, <2>1 DEF Requests
        <5>2. req' = [req EXCEPT ![r] = q]
          BY <1>6, <2>3, <4>1 DEF UpstreamAnswers
        <5> HIDE DEF q
        <5> QED BY <5>1, <5>2
      <4>2. CASE ~(req[r].key # NoKey /\ Storable(resp))
        BY <1>6, <2>3, <4>2 DEF UpstreamAnswers, Idle
      <4> QED BY <4>1, <4>2
    <3>2. Client(q) = Client(req[r])
      BY <2>1, <3>1 DEF Client, Doing
    <3> QED BY <2>1, <3>1, <3>2, Forgets
  <2> QED BY <2>2, <2>3
<1>7. ASSUME NEW r \in Request, Chunk(r) PROVE Abstract!Next
  <2>1. PICK q : /\ req' = [req EXCEPT ![r] = q] /\ q.phase = "streaming"
                 /\ q.reply = req[r].reply /\ q.write = req[r].write
    <3> DEFINE q == [req[r] EXCEPT !.got = @ + 1,
                                   !.kept = IF req[r].got + 1 > MaxBody THEN 0 ELSE @ + 1]
    <3>1. req' = [req EXCEPT ![r] = q]
      BY <1>7, <1>r DEF Chunk
    <3>2. q.phase = "streaming" /\ q.reply = req[r].reply /\ q.write = req[r].write
      BY <1>7, <1>r DEF Chunk, Requests
    <3> HIDE DEF q
    <3> QED BY <3>1, <3>2
  <2>2. Client(q) = Client(req[r])
    BY <1>7, <2>1 DEF Chunk, Client, Doing
  <2>3. q.reply \union q.write \subseteq Copies
    BY <2>1, CopiesAre
  <2> QED BY <1>7, <2>1, <2>2, <2>3, Forgets DEF Chunk
<1>8. ASSUME NEW r \in Request,
             \/ StreamBreaks(r) \/ WriteLost(r)
             \/ StreamEnds(r) /\ req[r].got > MaxBody
      PROVE  Abstract!Next
  <2>1. req' = [req EXCEPT ![r] = Idle] /\ UNCHANGED <<clock, entries>>
    BY <1>8 DEF StreamBreaks, WriteLost, StreamEnds, Finish
  <2>2. Idle.reply = {} /\ Idle.write = {} /\ Client(Idle) = Client(req[r])
    BY <1>8 DEF StreamBreaks, WriteLost, StreamEnds, Idle, Client, Doing
  <2> QED BY <2>1, <2>2, Forgets
<1>9. ASSUME NEW r \in Request, StreamEnds(r), ~(req[r].got > MaxBody) PROVE Abstract!Next
  <2> DEFINE e == Entry(req[r].key, req[r].ask, req[r].resp, req[r].made, req[r].kept)
  <2>1. /\ req[r].phase = "streaming" /\ req[r].got = req[r].resp.size /\ UNCHANGED <<clock, entries>>
        /\ req[r].ask \in Asks /\ req[r].resp \in Responses
        /\ UsesCache(req[r].ask) /\ req[r].key = CacheKey(req[r].ask)
        /\ req[r].made \in (clock - WriteDelay)..clock /\ req[r].made \in Nat
        /\ req[r].kept = req[r].resp.size /\ req[r].kept \in Nat
        /\ req[r].reply = {} /\ req[r].write = {} /\ Doing(req[r]) = "nothing"
    BY <1>9, <1>r DEF StreamEnds, Finish, Keyed, Asking, Teeing, Storing, Requests, Doing
  <2>2. /\ e.key = req[r].key /\ e.ask = req[r].ask /\ e.resp = req[r].resp
        /\ e.made = req[r].made /\ e.kept = req[r].kept
    BY DEF Entry
  <2>3. e \in Entries
    BY <2>1, KeysAreKeys DEF Entry, Entries
  <2>4. Over(r, e)
    BY <1>9 DEF StreamEnds, Finish
  <2> HIDE DEF e
  <2> QED BY <2>1, <2>2, <2>3, <2>4, OverKeeps
<1>10. ASSUME NEW r \in Request, WriteRuns(r) PROVE Abstract!Next
  <2>1. PICK w \in req[r].write :
          entries' = [entries EXCEPT ![w.key] =
                       {[w EXCEPT !.expiresAt = clock + resolveTtl(w.resp.control)]}]
    BY <1>10 DEF WriteRuns
  <2> DEFINE e == [w EXCEPT !.expiresAt = clock + resolveTtl(w.resp.control)]
  <2>2. w \in Entries /\ w \in Copies
    BY <1>r, <2>1, CopiesAre DEF Requests
  <2>3. Shelved(e) = Shelved(w)
    BY <2>2 DEF Entries, Shelved
  <2>4. entries' = [entries EXCEPT ![w.key] = {e}]
    BY <2>1
  <2>5. (req' = [req EXCEPT ![r] = Idle] \/ req' = req) /\ clock' = clock
    BY <1>10 DEF WriteRuns
  <2> HIDE DEF e
  <2>6. \A f : f \in Copies' => f = e \/ f \in Copies
    <3> DEFINE stored == entries'
               after  == req'
    <3>1. Copies' = UNION ({stored[k] : k \in Keys}
                             \union {after[s].reply \union after[s].write : s \in Request})
      BY DEF Copies
    <3>2. /\ \A k \in Keys : stored[k] \subseteq entries[k] \union {e}
          /\ \A s \in Request : /\ after[s].reply \subseteq req[s].reply
                               /\ after[s].write \subseteq req[s].write
      BY <2>4, <2>5 DEF RInv, Idle
    <3> HIDE DEF stored, after
    <3>3. \A f : f \in Copies' <=>
            \/ \E k \in Keys : f \in stored[k]
            \/ \E s \in Request : f \in after[s].reply \/ f \in after[s].write
      BY ONLY <3>1, Scattered
    <3> QED BY <3>2, <3>3, CopiesAre
  <2>7. Shelf' \subseteq Shelf
    BY <2>2, <2>3, <2>6 DEF Shelf, Shelved
  <2>8. Client(Idle) = Client(req[r])
    BY <1>r, <2>1 DEF Storing, Idle, Client, Doing
  <2>9. Seats' = Seats
    BY <2>5, <2>8, SeatsMove DEF RInv, Seats
  <2> QED BY <2>5, <2>7, <2>9 DEF Abstract!Next, Abstract!Forget
<1>11. CASE ConnectionChanges \/ UNCHANGED vars
  BY <1>11 DEF ConnectionChanges, vars, Shelf, Seats, Copies
<1>12. CASE Tick
  <2>1. /\ clock' = clock + 1 /\ req' = req
        /\ entries' = [k \in Keys |-> {e \in entries[k] : e.expiresAt > clock'}]
    BY <1>12 DEF Tick
  <2>2. \A f : f \in Copies' => f \in Copies
    <3> DEFINE stored == entries'
    <3>1. Copies' = UNION ({stored[k] : k \in Keys}
                             \union {req[s].reply \union req[s].write : s \in Request})
      BY <2>1 DEF Copies
    <3>2. \A k \in Keys : stored[k] \subseteq entries[k]
      BY <2>1
    <3> HIDE DEF stored
    <3>3. \A f : f \in Copies' <=>
            \/ \E k \in Keys : f \in stored[k]
            \/ \E s \in Request : f \in req[s].reply \/ f \in req[s].write
      BY ONLY <3>1, Scattered
    <3> QED BY <3>2, <3>3, CopiesAre
  <2>3. Shelf' \subseteq Shelf
    BY <2>2 DEF Shelf, Shelved
  <2>4. Seats' = Seats
    BY <2>1 DEF Seats, Client, Doing
  <2> QED BY <2>1, <2>3, <2>4 DEF Abstract!Next, Abstract!Pass
<1> QED
  BY <1>1, <1>2, <1>3, <1>4, <1>5, <1>6, <1>7, <1>8, <1>9, <1>10, <1>11, <1>12 DEF Next

(* The hooks, Redis and its expiry together are a shared cache.            *)
THEOREM SharedForAll == Spec => ImplementsSharedCache
BY StartsShared, StepsShared, Inductive, PTL DEF Spec, ImplementsSharedCache, Abstract!Spec
=============================================================================
