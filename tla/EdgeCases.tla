----------------------------- MODULE EdgeCases -----------------------------
(***************************************************************************)
(* The stateless decisions of EdgeAuth, EdgePolicy, CachePolicy and        *)
(* BootPolicy on every input of a bounded set: a state is one input, and   *)
(* the properties compare what the code decides with what it is meant to   *)
(* decide.                                                                 *)
(***************************************************************************)
EXTENDS EdgeAuth, EdgePolicy, CachePolicy, BootPolicy

CONSTANTS
  UserLists,    \* lists of users, each entry split at its colons
  HeaderTexts,  \* what a client puts after the scheme, split at its colons
  IpLists,      \* allow and deny lists
  TraceIds,     \* trace and span ids, Zero apart
  Chains,       \* X-Forwarded-For headers
  OtherCodes,   \* codes of errors that are no upstream's
  Statuses,     \* status codes
  Amounts,      \* numbers of seconds, milliseconds and bytes
  Words,        \* texts of LOG_DESTINATION
  Origins,      \* origins of browsers and texts of CORS_ORIGINS, but "*"
  Methods,      \* request methods
  Routes,       \* route patterns, "undefined" for none
  MaxListed     \* bound: how many texts are listed in one variable

(* A text that is split has one part at least.                             *)
Split == Seq(STRING) \ {<<>>}

ASSUME CasesAssumption ==
  /\ UserLists \subseteq Seq(Split) /\ HeaderTexts \subseteq Split
  /\ \A list \in IpLists : list \subseteq {e \in Entries : e.value < 2^Width(e.family)}
  /\ Chains \subseteq Seq(STRING)
  /\ Statuses \subseteq Nat /\ Amounts \subseteq Nat /\ MaxListed \in Nat
  /\ Words \subseteq STRING /\ Origins \subseteq STRING \ {"*"}

VARIABLE case   \* the input under consideration

Waiting == [kind |-> "none"]

-----------------------------------------------------------------------------
BasicCases ==
  [kind : {"basic"}, users : UserLists,
   header : [scheme : {"basic", "bearer", "absent"}, parts : HeaderTexts]]

Addresses ==
  [family : {"v4", "mapped"}, value : 0..(2^V4Bits - 1)]
    \union [family : {"v6"}, value : 0..(2^V6Bits - 1)]

IpCases == [kind : {"ip"}, allow : IpLists, deny : IpLists, address : Addresses]

Ids == [present : BOOLEAN, safe : BOOLEAN, text : {"mine"}]
FreshIds == [id |-> [present |-> TRUE, safe |-> TRUE, text |-> "fresh"], trace |-> 7, span |-> 8]

ContextCases ==
  [kind : {"context"},
   headers : [requestId : Ids, correlationId : Ids, tracestate : {"none", "short", "long"},
              traceparent : [wellFormed : BOOLEAN, version : {"00", "01", "ff"},
                             trace : {Zero} \union TraceIds, span : {Zero} \union TraceIds,
                             flags : {"00", "01"}]]]

HeaderCases ==
  [kind : {"headers"}, auth : AuthSchemes, upstreamAuth : {"absent", "gateway"},
   trustProxy : BOOLEAN, upstream : [parses : BOOLEAN, userinfo : {"", "user:pass"}],
   headers : [forwardedFor : Chains, forwardedHost : {"absent", "claimed"},
              forwardedProto : {"absent", "claimed"}, apiKey : {"absent", "edge"},
              authorization : {"absent", "client"}]]

ErrorCases ==
  [kind : {"error"},
   err : [code : UPSTREAM_TIMEOUT_CODES \union UPSTREAM_CONNECTION_CODES
                   \union {REPLY_FROM_WRAPPER_CODE} \union OtherCodes,
          saysTimeout : BOOLEAN, statusCode : {0} \union Statuses]]

TtlCases ==
  [kind : {"ttl"},
   control : [sent : BOOLEAN, forbids : BOOLEAN, sMaxAge : Amounts \union {Unset},
              maxAge : Amounts \union {Unset}]]

EnvCases ==
  [kind : {"number"}, raw : {"unset", "", " ", "-1", "0", "3", "x", "Infinity"}, min : 0..1]
    \union [kind : {"boolean"}, raw : {"unset", "", "true", "false", "TRUE"}, default : BOOLEAN]
    \union [kind : {"enum"}, raw : {"unset", "", "single", "Single"}]

Texts(words) == [word : words, padded : BOOLEAN, upper : BOOLEAN]

Lists(texts) == {list \in SUBSET texts : Cardinality(list) <= MaxListed}

LogCases == [kind : {"log"}, texts : Lists(Texts(Words)), bufferBytes : Amounts]

ConfigCases ==
  [kind : {"config"}, name : Variables,
   raw : {"unset", "", " ", "-1", "3", "x", "true", "TRUE", "slack", "warn",
          "http:", "ftp:"}]

FeatureCases ==
  [kind : {"features"},
   env : [origins : Lists(Texts(Origins) \union {Text("*"), [Text("*") EXCEPT !.padded = TRUE]}),
          credentials : {"unset", "true", "on"}, alerts : {"unset", "true", ""},
          channel : {"unset", "slack", "discord", "email"}, slackUrl : {"", "hooks"},
          discordUrl : {"", "webhooks"}, cache : {"false", "true"}, redisUrl : {"", "redis"}]]

ResponseCases ==
  [kind : {"response"}, style : {"unset", "single", "off", "fastify", "Single"},
   slowMs : Amounts, elapsed : Amounts, method : Methods, route : Routes, status : Statuses]

-----------------------------------------------------------------------------
Init == case = Waiting

(* One action per group of rules.                                          *)
Consider(cases) == case = Waiting /\ case' \in cases

Settle == case # Waiting /\ case' = Waiting

Next ==
  \/ Consider(BasicCases)
  \/ Consider(IpCases)
  \/ Consider(ContextCases)
  \/ Consider(HeaderCases)
  \/ Consider(ErrorCases)
  \/ Consider(TtlCases)
  \/ Consider(EnvCases)
  \/ Consider(LogCases)
  \/ Consider(ConfigCases)
  \/ Consider(FeatureCases)
  \/ Consider(ResponseCases)
  \/ Settle

Spec == Init /\ [][Next]_case

-----------------------------------------------------------------------------
(* Behind a user list the boot accepts, the Basic guard lets through       *)
(* exactly the credentials on the list, the dummy of the timing defence    *)
(* included; an empty list answers 500 to everyone (basic-auth.util.ts:    *)
(* 14-60, basic-auth.strategy.ts:19-44).                                   *)
BasicAcceptsExactlyTheList ==
  case.kind = "basic" /\ ValidUserList(case.users) =>
    LET listed == {case.users[i] : i \in DOMAIN case.users} \ {<<"">>}
        answer == BasicGuard(parseUserList(case.users), case.header)
    IN  /\ answer = 500 <=> listed = {}
        /\ answer = Pass <=> case.header.scheme = "basic" /\ case.header.parts \in listed

(* The leading bits of an address, the most significant one first.         *)
Bit(family, value, i) == (value \div 2^(Width(family) - i)) % 2

Listed(entries, ip) ==
  \E e \in entries :
    /\ e.family = ip.family
    /\ \A i \in 1..(IF e.slash = "none" THEN Width(e.family) ELSE PrefixLength(e)) :
         Bit(e.family, e.value, i) = Bit(e.family, ip.value, i)

(* With lists the boot accepts, and that say what they mean, a client is   *)
(* blocked when the deny list names it or a non-empty allow list does not, *)
(* also when its IPv4 address comes in IPv6 form (ip-filter.ts:21-39,      *)
(* ip-list.util.ts:12-52).                                                 *)
FilterMatchesLists ==
  case.kind = "ip" /\ Bootable(case.allow \union case.deny) =>
    LET ip == IF case.address.family = "mapped"
              THEN [family |-> "v4", value |-> case.address.value] ELSE case.address
    IN  Blocked(case.allow, case.deny, case.address)
          <=> IF Listed(case.deny, ip) THEN TRUE
              ELSE case.allow # {} /\ ~Listed(case.allow, ip)

(* A number of the schema that is set to a blank text.                     *)
BlankNumber(input) ==
  input.kind = "config" /\ input.name \in DOMAIN Numbers /\ input.raw = " "

(* What the readers and the schema return is what was written, or the      *)
(* default of a variable that is not set; everything else fails the boot.  *)
(* An empty variable is as good as none to the readers, and no number,     *)
(* flag or choice to the schema, which takes any number, negative or not   *)
(* (env.ts:19-62, schema.ts:20-165).  Nothing is said here of a number     *)
(* that is blank: BlanksAreRefused is about it.                            *)
EnvReadersFailFast ==
  /\ case.kind = "number" /\ case.raw # " " =>
       envNumber(case.raw, 4, case.min) =
         CASE case.raw \in {"unset", ""} -> {4}
           [] case.raw = "3" -> {3}
           [] case.raw = "0" /\ case.min = 0 -> {0}
           [] OTHER -> {}
  /\ case.kind = "boolean" =>
       envBoolean(case.raw, case.default) =
         CASE case.raw = "true" -> {TRUE} [] case.raw = "false" -> {FALSE}
           [] case.raw = "TRUE" -> {} [] OTHER -> {case.default}
  /\ case.kind = "enum" =>
       envEnum(case.raw, {"fastify", "single", "off"}, "fastify") =
         CASE case.raw = "single" -> {"single"} [] case.raw = "Single" -> {}
           [] OTHER -> {"fastify"}
  /\ case.kind = "config" /\ case.raw # "unset" /\ ~BlankNumber(case) =>
       LET meant == CASE case.name \in DOMAIN Numbers -> {"-1", "3"}
                      [] case.name \in Flags -> {"true"}
                      [] case.name \in DOMAIN Enums ->
                           IF case.name = "ALERT_LEVEL" THEN {"warn"} ELSE {"slack"}
                      [] OTHER -> {"http:"}
       IN  config(case.name, case.raw) # {} <=> case.raw \in meant

(* Three texts promise that what is no number stops the boot: env.ts:17    *)
(* ("@throws Error When the value is present but not a finite number"),    *)
(* docs/configuration.md:25-26 and 38-41 of every number, and              *)
(* ip-list.util.ts:5-6 ("Invalid entries throw so a typo in an allow or    *)
(* deny list prevents startup").  To JavaScript a blank text is 0.  It     *)
(* takes less than the three promise, that one reader refuses blanks:      *)
(* envNumber where 0 is allowed, the schema, or the lists after a slash.   *)
BlanksAreRefused ==
  case.kind = "number" /\ case.raw = " " =>
    \/ envNumber(case.raw, 4, case.min) = {}
    \/ \E name \in DOMAIN Numbers : config(name, case.raw) = {}
    \/ \E family \in {"v4", "v6"} :
         ~ValidEntry([family |-> family, value |-> 0, slash |-> "blank", bits |-> 0])

(* Whatever the client sends, the ids that go on are safe to log and to    *)
(* forward, a valid trace of version 00 is continued under a new span, one *)
(* that is malformed, of version ff or zero is replaced, and a tracestate  *)
(* goes on only with the trace it came with (request-context.ts:24-60,     *)
(* tracing.util.ts:33-78).  Whether a trace of another version goes on is  *)
(* left open: lines 30-31 say no, but line 40 refuses version ff only.     *)
ContextIsClean ==
  case.kind = "context" =>
    LET out == requestContext(case.headers, FreshIds)
        parent == case.headers.traceparent
        named == parent.wellFormed /\ parent.trace # Zero /\ parent.span # Zero
    IN  /\ out.requestId.safe /\ out.correlationId.safe
        /\ out.traceparent.span = FreshIds.span
        /\ named /\ parent.version = "00" => out.traceparent.trace = parent.trace
        /\ ~named \/ parent.version = "ff" => out.traceparent.trace = FreshIds.trace
        /\ out.tracestate => /\ named /\ out.traceparent.trace = parent.trace
                             /\ case.headers.tracestate = "short"

(* The API key never goes upstream, nor does the password that Basic auth  *)
(* has checked, nor any Authorization of the client's when the gateway has *)
(* a credential of its own; the peer the gateway saw is the last hop; an   *)
(* untrusted client's word on hops, host and protocol goes no further; and *)
(* the boot logs no credential of a URL it can read (service-gateway.ts:   *)
(* 127-148, 206-215).  The token that JWT and bearer auth have checked     *)
(* does go on: see ConsumedAuthorizationStaysHome.                         *)
KeysAndPasswordsStayHome ==
  case.kind = "headers" =>
    LET out == rewriteRequestHeaders(case.auth, case.upstreamAuth, case.trustProxy, "peer",
                                     case.headers)
        hops == Len(out.forwardedFor)
    IN  /\ out.apiKey = "absent"
        /\ out.authorization = "client" => case.auth # "basic" /\ case.upstreamAuth = "absent"
        /\ case.upstreamAuth = "gateway" => out.authorization = "gateway"
        /\ out.forwardedFor[hops] = "peer"
        /\ hops > 1 \/ "claimed" \in {out.forwardedHost, out.forwardedProto} => case.trustProxy
        /\ case.upstream.parses => redactUrlCredentials(case.upstream).userinfo = ""

(* docs/security-model.md:34-36: "client `Authorization` is stripped when  *)
(* consumed by edge auth".  Only Basic auth is said to consume it          *)
(* (service-gateway.ts:88), though JWT and bearer auth read it too.        *)
ConsumedAuthorizationStaysHome ==
  case.kind = "headers" /\ case.auth \in {"basic", "jwt", "bearer"} =>
    rewriteRequestHeaders(case.auth, case.upstreamAuth, case.trustProxy, "peer",
                          case.headers).authorization # "client"

(* A failed upstream is never reported as the client's error, and what the *)
(* gateway reports as its own or the upstream's failure never carries the  *)
(* message of the error (error-handler.ts:35-60).                          *)
InternalsStayInside ==
  case.kind = "error" =>
    LET status == resolveStatus(case.err)
    IN  /\ clientMessage(status) = "the error's own" <=> status < 500
        /\ case.err.code \in UPSTREAM_TIMEOUT_CODES \union UPSTREAM_CONNECTION_CODES
                               \union {REPLY_FROM_WRAPPER_CODE} => status \in {502, 504}

(* A TTL never exceeds the cap; a response that forbids it gets none; and  *)
(* s-maxage, when given, decides whatever max-age says (cache.ts:142-151). *)
TtlFollowsTheOrigin ==
  case.kind = "ttl" =>
    LET ttl == resolveTtl(case.control)
        asked == IF case.control.sMaxAge # Unset THEN case.control.sMaxAge
                 ELSE case.control.maxAge
    IN  /\ ttl \in 0..MaxTtl
        /\ case.control.forbids => ttl = 0
        /\ ~case.control.forbids /\ asked # Unset => (ttl = asked \/ (ttl = MaxTtl /\ ttl < asked))

(* Log lines go to every channel named and to no other, a name that is     *)
(* none fails the boot, and no orderly exit loses a line, whatever is      *)
(* buffered: a stream that holds lines is tracked, or flushes itself in    *)
(* its worker (logger.ts:24-47, 55-70, 90-113).                            *)
LogsReachTheirChannels ==
  case.kind = "log" =>
    LET named == {t.word : t \in case.texts} \ {""}
        chosen == parseDestinations(case.texts)
    IN  /\ chosen = {} <=> ~(named \subseteq {"console", "file"})
        /\ \A destinations \in chosen :
             LET built == sinks(destinations, case.bufferBytes)
             IN  /\ {s.to : s \in built} = IF named = {} THEN {"console"} ELSE named
                 /\ \A s \in built : ~LostAtExit(s)
                 /\ \A s \in built : s.to = "console" => (s.buffered <=> case.bufferBytes > 0)

(* An environment boots what it says and nothing else: a flag or a choice  *)
(* that is misspelt, a wildcard with credentials wherever it stands in the *)
(* list, or a cache without Redis refuses; a browser may call from the     *)
(* origins listed, with credentials from those only; alerts go to the      *)
(* service selected, at its own URL and in its own format, or nowhere      *)
(* (security.ts:19-32, alerts.ts:27-37, cache.ts:103-108).                 *)
FeaturesAreMeant ==
  case.kind = "features" =>
    LET env    == case.env
        listed == {t.word : t \in {u \in env.origins : ~u.upper}}
        url    == CASE env.channel = "slack" -> env.slackUrl
                    [] env.channel = "discord" -> env.discordUrl
                    [] OTHER -> ""
        booted == features(env)
    IN  /\ booted = {} <=> \/ env.credentials = "on" \/ env.alerts = "" \/ env.channel = "email"
                            \/ (env.credentials = "true" /\ "*" \in listed)
                            \/ (env.cache = "true" /\ env.redisUrl = "")
        /\ \A f \in booted, origin \in Origins :
             /\ Shared(f.cors, Text(origin)) <=> (origin \in listed \/ "*" \in listed)
             /\ Shared(f.cors, Text(origin)) /\ f.cors.credentials => origin \in listed
             /\ f.alerts = {} <=> (env.alerts = "unset" \/ url = "")
             /\ \A c \in f.alerts :
                  /\ c.name = env.channel /\ c.url = url
                  /\ c.field = IF c.name = "slack" THEN "text" ELSE "content"
             /\ f.cached <=> env.cache = "true"

(* Whatever LOG_REQUEST_STYLE is, which the factory and the plugin read    *)
(* each for itself, a response has one completion line, or none when it is *)
(* off; a slow one is reported in every style; and no method or URL of a   *)
(* client's choosing opens a new time series (app.ts:42-56, logging.ts:    *)
(* 32-68, metrics.ts:39-47).                                               *)
ResponsesAreObserved ==
  case.kind = "response" =>
    \A style \in envEnum(case.style, LogRequestStyles, "fastify") :
      LET lines  == responseLines(style, case.slowMs, case.elapsed)
          labels == metricLabels(case.method, case.route, case.status)
      IN  /\ Cardinality(lines \ {"incoming", "slow"}) = IF case.style = "off" THEN 0 ELSE 1
          /\ "incoming" \in lines <=> "completed by fastify" \in lines
          /\ "slow" \in lines <=> case.slowMs # 0 /\ case.elapsed >= case.slowMs
          /\ labels.method \in KNOWN_HTTP_METHODS \union {"OTHER"}
          /\ labels.route \in {"unmatched"} \union (Routes \ {"undefined"})
=============================================================================
