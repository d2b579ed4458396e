----------------------------- MODULE MCGateway -----------------------------
(* A client in both spellings of its address, one on the deny list and one *)
(* whose forwarded address is none; the three services of the repository,  *)
(* one more behind JWT and one behind introspection, with Redis and        *)
(* without, and three setups that must not boot.  Basic auth has no users, *)
(* so it answers 500.                                                      *)
EXTENDS Gateway

Good  == [family |-> "mapped", value |-> 1]
Good4 == [family |-> "v4", value |-> 1]
Unknown == [family |-> "text", value |-> 0]
Evil  == [family |-> "v4", value |-> 2]
none  == [scheme |-> "absent", parts |-> <<"">>]
basic(user, password) == [scheme |-> "basic", parts |-> <<user, password>>]
bearer(token) == [scheme |-> "bearer", parts |-> <<token>>]

Ask(route, client, apiKey, header, looksUp) ==
  [route |-> route, client |-> client, apiKey |-> apiKey, header |-> header, looksUp |-> looksUp]

MCAsks ==
  { Ask("/healthz", Evil, "absent", none, TRUE),
    Ask("/readyz", Good, "absent", none, TRUE),
    Ask("/metrics", Good, "absent", bearer("scrape"), FALSE),
    Ask("users", Good, "key", none, TRUE),
    Ask("users", Good4, "guess", none, TRUE),
    Ask("orders", Good, "absent", basic("ann", "p"), FALSE),
    Ask("team", Good, "absent", bearer("jwt"), FALSE),
    Ask("vault", Good, "absent", bearer("opaque"), FALSE),
    Ask("public", Good, "absent", none, TRUE),
    Ask("public", Evil, "absent", none, TRUE),
    Ask("public", Unknown, "absent", none, TRUE) }

Declare(name, auth, cacheable) == [name |-> name, auth |-> auth, cacheable |-> cacheable]

Shipped ==
  { Declare("users", "api-key", FALSE), Declare("orders", "basic", FALSE),
    Declare("public", "none", TRUE), Declare("team", "jwt", FALSE),
    Declare("vault", "bearer", FALSE) }

Setup(services, redisUrl, cache) ==
  [services |-> services, redisUrl |-> redisUrl, cache |-> cache]

MCSetups ==
  { Setup(Shipped, TRUE, TRUE),
    Setup(Shipped, FALSE, FALSE),
    Setup(Shipped, FALSE, TRUE),
    Setup({Declare("public", "none", TRUE), Declare("users", "api-key", TRUE)}, TRUE, TRUE),
    Setup({Declare("team", "custom", FALSE)}, TRUE, FALSE) }

MCUserEntries == <<>>
MCJwtTokens == {<<"jwt">>}
MCBearerTokens == {<<"opaque">>}
MCAllow == {}
MCDeny == {[family |-> "v4", value |-> 2, slash |-> "none", bits |-> 0]}
=============================================================================
