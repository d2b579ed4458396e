----------------------------- MODULE EdgePolicy -----------------------------
(***************************************************************************)
(* The decisions the gateway takes without any state: what it reads from   *)
(* the environment ahead of the schema (src/src/config/env.ts), whom the   *)
(* IP lists block (utils/ip-list.util.ts, plugins/ip-filter.ts), which ids *)
(* and trace a request goes on with (plugins/request-context.ts, utils/    *)
(* tracing.util.ts), which headers the upstream sees (core/                *)
(* service-gateway.ts), and which status and message an error becomes      *)
(* (plugins/error-handler.ts), and what is logged and counted of a         *)
(* response (plugins/logging.ts, plugins/metrics.ts).                      *)
(***************************************************************************)
EXTENDS Integers, Sequences, FiniteSets

CONSTANTS
  V4Bits,   \* the width of an IPv4 address (32 in the code)
  V6Bits    \* the width of an IPv6 address (128 in the code)

ASSUME WidthsAssumption == V4Bits \in Nat /\ V6Bits \in Nat

-----------------------------------------------------------------------------
(* Environment variables.  A reader returns the set of its one value, or   *)
(* {} when it throws and the boot fails; "unset" is an absent variable.    *)

(* JavaScript's Number() of a text: blank is 0, what is no number is NaN.  *)
NaN      == -9
Infinity == -8
Number(text) ==
  CASE text \in {"", " "} -> 0 [] text = "-1" -> -1 [] text = "Infinity" -> Infinity
    [] text = "0" -> 0 [] text = "3" -> 3 [] OTHER -> NaN

(* Seeded change: only the bound is checked, which NaN passes.             *)
envNumberUnchecked(raw, fallback, min) ==
  IF raw \in {"unset", ""} THEN {fallback}
  ELSE {n \in {Number(raw)} : n = NaN \/ n >= min}

envNumber(raw, fallback, min) ==
  IF raw \in {"unset", ""} THEN {fallback}
  ELSE {n \in {Number(raw)} : n \notin {NaN, Infinity} /\ n >= min}

envEnum(raw, allowed, fallback) ==
  IF raw \in {"unset", ""} THEN {fallback} ELSE {raw} \intersect allowed

envBoolean(raw, fallback) ==
  IF raw \in {"unset", ""} THEN {fallback}
  ELSE {b \in BOOLEAN : raw = IF b THEN "true" ELSE "false"}

-----------------------------------------------------------------------------
(* IP lists.  An address is [family, value]; family "mapped" is an IPv4    *)
(* address written as IPv6, and "text" is what a forwarded header named    *)
(* that is no address.  A list entry is an address of the families "v4"    *)
(* and "v6" and what its slash is followed by: "blank" is nothing,         *)
(* "digits" is a text that reads as the integer bits, "other" is any other *)
(* text, a second slash included, and "none" is an entry without a slash.  *)

Width(family) == IF family = "v4" THEN V4Bits ELSE V6Bits

Entries ==
  [family : {"v4", "v6"}, value : Nat, slash : {"none", "blank", "digits", "other"}, bits : Int]

(* Number() of what follows the slash.                                     *)
PrefixLength(entry) ==
  CASE entry.slash = "blank" -> 0 [] entry.slash = "digits" -> entry.bits [] OTHER -> NaN

ValidEntry(entry) ==
  entry.slash = "none" \/ PrefixLength(entry) \in 0..Width(entry.family)

(* The boot refuses a list with an entry it cannot read.                   *)
Bootable(entries) == \A e \in entries : ValidEntry(e)

(* BlockList: a subnet is the addresses that share its leading bits.       *)
Covers(entry, address) ==
  /\ entry.family = address.family
  /\ IF entry.slash = "none" THEN entry.value = address.value
     ELSE LET size == 2^(Width(entry.family) - PrefixLength(entry))
          IN  entry.value \div size = address.value \div size

Check(entries, address) == \E e \in entries : Covers(e, address)

normalizeIp(address) ==
  IF address.family = "mapped" THEN [address EXCEPT !.family = "v4"] ELSE address

(* Seeded change: the allow list is asked first and its answer is final.   *)
BlockedAllowWins(allow, deny, address) ==
  LET ip == normalizeIp(address)
  IN  IF allow # {} THEN ~Check(allow, ip) ELSE Check(deny, ip)

(* BlockList.check throws on a text that is no address.                    *)
Unreadable(allow, deny, address) == address.family = "text" /\ (allow # {} \/ deny # {})

(* An empty list is no list.                                               *)
Blocked(allow, deny, address) ==
  LET ip == normalizeIp(address)
  IN  Check(deny, ip) \/ (allow # {} /\ ~Check(allow, ip))

-----------------------------------------------------------------------------
(* Ids and trace context.  An id is [text, safe]: safe says whether it     *)
(* matches SAFE_HEADER_ID_PATTERN.  Zero stands for an id of zeros only.   *)

(* genReqId, and the correlation id with the request id as its default.    *)
SafeOr(id, default) == IF id.present /\ id.safe THEN id ELSE default

Zero == 0
NoTrace == [trace |-> Zero, span |-> Zero, flags |-> "none"]

(* parseTraceparent of a header of the right shape; any version but ff.    *)
parseTraceparent(header) ==
  IF ~header.wellFormed \/ header.version = "ff" \/ header.trace = Zero \/ header.span = Zero
  THEN NoTrace
  ELSE [trace |-> header.trace, span |-> header.span, flags |-> header.flags]

(* A valid trace goes on with a fresh span, any other is replaced.         *)
nextTraceContext(header, freshTrace, freshSpan) ==
  LET parent == parseTraceparent(header)
  IN  IF parent # NoTrace
      THEN [context |-> [parent EXCEPT !.span = freshSpan], continued |-> TRUE]
      ELSE [context |-> [trace |-> freshTrace, span |-> freshSpan, flags |-> "01"],
            continued |-> FALSE]

(* Seeded change: the tracestate outlives the trace it belongs to.         *)
requestContextKeepsState(headers, fresh) ==
  LET requestId == SafeOr(headers.requestId, fresh.id)
      next == nextTraceContext(headers.traceparent, fresh.trace, fresh.span)
  IN  [requestId |-> requestId, correlationId |-> SafeOr(headers.correlationId, requestId),
       traceparent |-> next.context, tracestate |-> headers.tracestate \in {"short"}]

(* The onRequest hook: what the request carries from then on.  tracestate  *)
(* is "none", "short" or "long" (over 512 characters) on the way in.       *)
requestContext(headers, fresh) ==
  LET requestId == SafeOr(headers.requestId, fresh.id)
      next == nextTraceContext(headers.traceparent, fresh.trace, fresh.span)
  IN  [requestId |-> requestId, correlationId |-> SafeOr(headers.correlationId, requestId),
       traceparent |-> next.context,
       tracestate |-> next.continued /\ headers.tracestate = "short"]

-----------------------------------------------------------------------------
(* Headers for the upstream.                                               *)

AuthSchemes == {"none", "api-key", "basic", "jwt", "bearer"}

consumesAuthorizationHeader(auth) == auth = "basic"

(* What Fastify takes for the request's host or protocol: a trusted        *)
(* proxy's word, when it gives one, or the request's own.                  *)
Told(trustProxy, claimed, own) == IF trustProxy /\ claimed # "absent" THEN claimed ELSE own

(* Seeded change: the edge credential is removed only when replaced.       *)
rewriteRequestHeadersLeaky(auth, upstreamAuth, trustProxy, peer, headers) ==
  [forwardedFor |-> IF trustProxy THEN Append(headers.forwardedFor, peer) ELSE <<peer>>,
   forwardedHost |-> Told(trustProxy, headers.forwardedHost, "own"),
   forwardedProto |-> Told(trustProxy, headers.forwardedProto, "own"),
   apiKey |-> "absent",
   authorization |-> IF upstreamAuth # "absent" THEN upstreamAuth ELSE headers.authorization]

(* createHeaderRewriter's function: upstreamAuth is the gateway's own      *)
(* credential for the upstream, "absent" when none is configured.          *)
rewriteRequestHeaders(auth, upstreamAuth, trustProxy, peer, headers) ==
  [forwardedFor |-> IF trustProxy THEN Append(headers.forwardedFor, peer) ELSE <<peer>>,
   forwardedHost |-> Told(trustProxy, headers.forwardedHost, "own"),
   forwardedProto |-> Told(trustProxy, headers.forwardedProto, "own"),
   apiKey |-> "absent",
   authorization |->
     IF upstreamAuth # "absent" THEN upstreamAuth
     ELSE IF consumesAuthorizationHeader(auth) THEN "absent"
     ELSE headers.authorization]

(* What the boot logs of an upstream's URL, [parses, userinfo]: a URL that *)
(* does not parse is logged as it is.                                      *)
redactUrlCredentials(url) == IF url.parses THEN [url EXCEPT !.userinfo = ""] ELSE url

-----------------------------------------------------------------------------
(* Errors.  statusCode 0 stands for an error without one; saysTimeout for  *)
(* a message that mentions a timeout.                                      *)

UPSTREAM_TIMEOUT_CODES ==
  {"UND_ERR_HEADERS_TIMEOUT", "UND_ERR_BODY_TIMEOUT", "UND_ERR_CONNECT_TIMEOUT", "ETIMEDOUT"}

UPSTREAM_CONNECTION_CODES ==
  {"ECONNREFUSED", "ECONNRESET", "ENOTFOUND", "EAI_AGAIN", "EPIPE", "UND_ERR_SOCKET",
   "UND_ERR_CLOSED", "UND_ERR_DESTROYED"}

REPLY_FROM_WRAPPER_CODE == "FST_REPLY_FROM_INTERNAL_SERVER_ERROR"

resolveStatus(err) ==
  CASE err.code \in UPSTREAM_TIMEOUT_CODES -> 504
    [] err.code \in UPSTREAM_CONNECTION_CODES -> 502
    [] err.code = REPLY_FROM_WRAPPER_CODE -> IF err.saysTimeout THEN 504 ELSE 502
    [] OTHER -> IF err.statusCode # 0 THEN err.statusCode ELSE 500

(* Seeded change: 500 itself counts as the client's error.                 *)
clientMessageOffByOne(status) ==
  CASE status = 504 -> "upstream timeout"
    [] status \in {502, 503} -> "upstream unavailable"
    [] status > 500 /\ status \notin {502, 503, 504} -> "internal error"
    [] OTHER -> "the error's own"

(* What the client reads: the error's own message only below 500.          *)
clientMessage(status) ==
  CASE status = 504 -> "upstream timeout"
    [] status \in {502, 503} -> "upstream unavailable"
    [] status >= 500 /\ status \notin {502, 503, 504} -> "internal error"
    [] OTHER -> "the error's own"

-----------------------------------------------------------------------------
(* Observation of a response.                                              *)

LogRequestStyles == {"fastify", "single", "off"}

(* What the factory hands to Fastify, which otherwise logs two lines.      *)
disableRequestLogging(style) == style # "fastify"

(* Seeded change: the plugin replaces any style but off.                   *)
loggingHooksTwice(style, slowMs, elapsed) ==
  (IF style # "off" THEN {"completed by the plugin"} ELSE {})
    \union (IF slowMs > 0 /\ elapsed >= slowMs THEN {"slow"} ELSE {})

(* The lines of the plugin's onResponse hooks.                             *)
loggingHooks(style, slowMs, elapsed) ==
  (IF style = "single" THEN {"completed by the plugin"} ELSE {})
    \union (IF slowMs > 0 /\ elapsed >= slowMs THEN {"slow"} ELSE {})

responseLines(style, slowMs, elapsed) ==
  (IF disableRequestLogging(style) THEN {} ELSE {"incoming", "completed by fastify"})
    \union loggingHooks(style, slowMs, elapsed)

KNOWN_HTTP_METHODS ==
  {"GET", "HEAD", "POST", "PUT", "PATCH", "DELETE", "OPTIONS", "TRACE", "CONNECT"}

(* The time series a response counts in; route is what the URL matched.    *)
metricLabels(method, route, status) ==
  [method |-> IF method \in KNOWN_HTTP_METHODS THEN method ELSE "OTHER",
   route  |-> IF route = "undefined" THEN "unmatched" ELSE route,
   status |-> status]
=============================================================================
