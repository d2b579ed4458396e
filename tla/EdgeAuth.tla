------------------------------ MODULE EdgeAuth ------------------------------
(***************************************************************************)
(* The request guards that decide at once (src/src/strategies/api-key,     *)
(* basic-auth and jwt, the token check of src/src/routes/metrics.ts) and   *)
(* the parsers they read credentials with (src/src/utils/basic-auth.util). *)
(* The bearer guard, which waits and caches, is module BearerAuth.         *)
(*                                                                         *)
(* Text is what it splits into at its colons, a sequence of parts:         *)
(* "alice:p:q" is <<"alice", "p", "q">>, and "" is <<"">>.  A guard        *)
(* returns Pass or the status it answers.                                  *)
(***************************************************************************)
EXTENDS Integers, Sequences

(* What a parser returns for a header it cannot read.                      *)
Null == <<>>

(* A guard that lets the request through.                                  *)
Pass == 0

-----------------------------------------------------------------------------
(* An entry without a colon, a name or a password.  A password may hold    *)
(* colons, and may be nothing but colons.                                  *)
MalformedEntry(entry) ==
  \/ Len(entry) = 1
  \/ entry[1] = ""
  \/ Len(entry) = 2 /\ entry[2] = ""

(* The entries that are not blank, by their places in the list.            *)
Given(entries) == {i \in DOMAIN entries : entries[i] # <<"">>}

(* parseUserList throws, and the boot with it, on a malformed entry and on *)
(* a name given twice.                                                     *)
ValidUserList(entries) ==
  /\ \A i \in Given(entries) : ~MalformedEntry(entries[i])
  /\ \A i, j \in Given(entries) : entries[i][1] = entries[j][1] => i = j

(* Otherwise it maps each name to its password.                            *)
parseUserList(entries) ==
  [name \in {entries[i][1] : i \in Given(entries)} |->
     Tail(entries[CHOOSE i \in Given(entries) : entries[i][1] = name])]

(* parseBasicAuthHeader: the part before the first colon is the name, the  *)
(* rest the password.                                                      *)
parseBasicAuthHeader(header) ==
  IF header.scheme = "basic" /\ Len(header.parts) > 1 THEN header.parts ELSE Null

(* parseBearerToken: the token of a Bearer header.                         *)
parseBearerToken(header) == IF header.scheme = "bearer" THEN header.parts ELSE Null

-----------------------------------------------------------------------------
TimingEqualizer == <<"gateway-timing-equalizer">>

(* Seeded change: the dummy comparison alone decides.                      *)
BasicGuardDummy(users, header) ==
  LET credentials == parseBasicAuthHeader(header)
      expected == IF credentials # Null /\ Head(credentials) \in DOMAIN users
                  THEN users[Head(credentials)] ELSE TimingEqualizer
  IN  IF DOMAIN users = {} THEN 500
      ELSE IF credentials # Null /\ Tail(credentials) = expected THEN Pass ELSE 401

(* An unknown name is compared with a dummy, and refused after that.       *)
BasicGuard(users, header) ==
  LET credentials == parseBasicAuthHeader(header)
      known == credentials # Null /\ Head(credentials) \in DOMAIN users
      expected == IF known THEN users[Head(credentials)] ELSE TimingEqualizer
      authorized == credentials # Null /\ Tail(credentials) = expected /\ known
  IN  IF DOMAIN users = {} THEN 500 ELSE IF authorized THEN Pass ELSE 401

(* apiKey is "" when GATEWAY_API_KEY is not set; provided is "absent" when *)
(* the header is.                                                          *)
ApiKeyGuard(apiKey, provided) ==
  IF apiKey = "" THEN 500
  ELSE IF provided # "absent" /\ provided = apiKey THEN Pass ELSE 401

(* hasKey: a secret or a key set is configured.  verifies: what jwtVerify  *)
(* accepts under it; every failure of it, the key set's own included, is a *)
(* refusal.                                                                *)
JwtGuard(hasKey, verifies, header) ==
  IF ~hasKey THEN 500
  ELSE IF parseBearerToken(header) \in verifies \ {Null} THEN Pass ELSE 401

(* GET /metrics is open without a token.                                   *)
MetricsGuard(token, header) ==
  IF token = "" \/ parseBearerToken(header) = <<token>> THEN Pass ELSE 401
=============================================================================
