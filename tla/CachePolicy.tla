---------------------------- MODULE CachePolicy ----------------------------
(***************************************************************************)
(* The pure rules of the response cache (src/src/plugins/cache.ts): which  *)
(* requests may use it, under which key, and which responses may be        *)
(* stored, for how long.  A Cache-Control header is abstracted to what the *)
(* regular expressions of the code find in it.                             *)
(***************************************************************************)
EXTENDS Integers

CONSTANTS
  MaxTtl,     \* CACHE_MAX_TTL_MS
  DefaultTtl  \* CACHE_DEFAULT_TTL_MS

ASSUME TtlAssumption == MaxTtl \in Nat /\ DefaultTtl \in Nat

Unset == -1

(* A response's Cache-Control: is it sent at all, does it carry no-store,  *)
(* no-cache or private, and its s-maxage and max-age.                      *)
Controls == [sent : BOOLEAN, forbids : BOOLEAN,
             sMaxAge : Nat \union {Unset}, maxAge : Nat \union {Unset}]

(* The Vary dimensions that are part of the key or regenerated per request *)
SafeVary == {"accept", "accept-encoding", "origin"}

varyIsKeyed(vary) == vary \subseteq SafeVary

(* Seeded change: the freshest directive wins, without the cap.            *)
resolveTtlUncapped(control) ==
  IF control.forbids THEN 0
  ELSE IF control.sMaxAge # Unset THEN control.sMaxAge
  ELSE IF control.maxAge # Unset THEN control.maxAge
  ELSE DefaultTtl

(* s-maxage over max-age over the default, capped; 0 means: do not store.  *)
resolveTtl(control) ==
  LET ttl == IF control.sMaxAge # Unset THEN control.sMaxAge
             ELSE IF control.maxAge # Unset THEN control.maxAge ELSE DefaultTtl
  IN IF control.forbids THEN 0 ELSE IF ttl < MaxTtl THEN ttl ELSE MaxTtl

(* storeHook's eligibility checks: status 200, a Vary the key honours, a   *)
(* positive TTL.                                                           *)
Storable(resp) ==
  /\ resp.ok
  /\ varyIsKeyed(resp.vary)
  /\ resolveTtl(resp.control) > 0

-----------------------------------------------------------------------------
(* serveHook's view of a request.                                          *)

(* Seeded change: credentials are not looked at.                           *)
UsesCacheCookies(ask) == ask.get /\ ask.control # "no-store"

(* May the request be answered from, and may its answer enter, the cache?  *)
UsesCache(ask) == ask.get /\ ~ask.credentials /\ ask.control # "no-store"

(* Is the store consulted first?  no-cache asks for a fresh answer.        *)
LooksUp(ask) == UsesCache(ask) /\ ask.control # "no-cache"

(* Seeded change: the Accept header is not hashed into the key.            *)
CacheKeyUrlOnly(ask) == <<ask.url, "any">>

(* cacheKey: the URL and the negotiated representation.                    *)
CacheKey(ask) == <<ask.url, ask.accept>>
=============================================================================
