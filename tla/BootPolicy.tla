----------------------------- MODULE BootPolicy -----------------------------
(***************************************************************************)
(* What the gateway decides once, while it boots, from its configuration:  *)
(* what the schema makes of the environment (src/src/config/schema.ts),    *)
(* where its log lines go and which of those streams an exit has to flush  *)
(* (config/logger.ts), which origins a browser may call it from (plugins/  *)
(* security.ts), and which chat service is alerted (plugins/alerts.ts,     *)
(* utils/alert-channels.util.ts).  As in EdgePolicy, a function returns    *)
(* the set of its one value, or {} when it throws or returns null.         *)
(***************************************************************************)
EXTENDS EdgePolicy

-----------------------------------------------------------------------------
(* The configuration schema.  Every variable has a default; "unset" is a   *)
(* variable that is absent, and "http:" a URL of that scheme.  Left out:   *)
(* the texts nothing is asked of, and the one number with a fraction.      *)

Numbers ==
  [PORT |-> 8080, BEARER_CACHE_TTL_MS |-> 0, SLOW_REQUEST_MS |-> 0,
   ALERT_THROTTLE_MS |-> 60000, ALERT_RETRIES |-> 2,
   PRESSURE_MAX_EVENT_LOOP_DELAY_MS |-> 1000, PRESSURE_MAX_HEAP_USED_BYTES |-> 0,
   PRESSURE_MAX_RSS_BYTES |-> 0, PRESSURE_SAMPLE_INTERVAL_MS |-> 1000,
   PRESSURE_RETRY_AFTER_SECONDS |-> 10,
   CACHE_MAX_TTL_MS |-> 60000, CACHE_DEFAULT_TTL_MS |-> 0, CACHE_MAX_BODY_BYTES |-> 1048576,
   RATE_LIMIT_MAX |-> 100, RATE_LIMIT_WINDOW_MS |-> 60000, RATE_LIMIT_BAN |-> 0,
   UPSTREAM_TIMEOUT_MS |-> 10000, UPSTREAM_CONNECT_TIMEOUT_MS |-> 2000,
   UPSTREAM_MAX_CONNECTIONS |-> 128]

Flags == {"CORS_ALLOW_CREDENTIALS", "ALERTS_ENABLED", "CACHE_ENABLED"}   \* FALSE

Enums == [ALERT_CHANNEL |-> [default |-> "none", allowed |-> {"none", "slack", "discord"}],
          ALERT_LEVEL   |-> [default |-> "error", allowed |-> {"error", "warn"}]]

Urls == {"USERS_SERVICE_URL", "ORDERS_SERVICE_URL", "PUBLIC_SERVICE_URL"}

Variables == DOMAIN Numbers \union Flags \union DOMAIN Enums \union Urls

(* The coercion of a text to a number; "" is none, though " " is.          *)
coerceNumber(raw) == {n \in {Number(raw)} : raw # "" /\ n # NaN}

(* What @fastify/env makes of a variable.                                  *)
config(name, raw) ==
  CASE name \in DOMAIN Numbers -> IF raw = "unset" THEN {Numbers[name]} ELSE coerceNumber(raw)
    [] name \in Flags ->
         IF raw = "unset" THEN {FALSE} ELSE {b \in BOOLEAN : raw = IF b THEN "true" ELSE "false"}
    [] name \in DOMAIN Enums ->
         IF raw = "unset" THEN {Enums[name].default} ELSE {raw} \intersect Enums[name].allowed
    [] name \in Urls -> IF raw = "unset" THEN {"http:"} ELSE {raw} \intersect {"http:", "https:"}

-----------------------------------------------------------------------------
(* Logs.  A text between two commas is [word, padded, upper]: padded with  *)
(* blanks or not, written with capitals or not.                            *)

Text(word) == [word |-> word, padded |-> FALSE, upper |-> FALSE]

Trim(text)        == [text EXCEPT !.padded = FALSE]
ToLowerCase(text) == [text EXCEPT !.upper = FALSE]

VALID_DESTINATIONS == {"console", "file"}

(* parseDestinations of the texts in LOG_DESTINATION, none when it is not  *)
(* set.  Empty texts are dropped, unknown ones throw.                      *)
parseDestinations(texts) ==
  LET channels == {ToLowerCase(Trim(t)).word : t \in texts} \ {""}
      chosen == IF channels # {} THEN channels ELSE {"console"}
  IN  {c \in {chosen} : c \subseteq VALID_DESTINATIONS}

(* A sink: where it writes; whether the stream is tracked for flushing,    *)
(* lives in a worker that flushes itself, or is pino's default; whether    *)
(* lines wait in it.  A file stream made in the process is asynchronous.   *)
Sink(to, stream, buffered) == [to |-> to, stream |-> stream, buffered |-> buffered]

(* Seeded change: the console stream beside a file is not tracked.         *)
sinksUntracked(destinations, bufferBytes) ==
  CASE destinations = {"console", "file"} ->
         {Sink("console", "default", bufferBytes > 0), Sink("file", "tracked", TRUE)}
    [] destinations = {"file"} -> {Sink("file", "worker", TRUE)}
    [] OTHER -> {Sink("console", IF bufferBytes > 0 THEN "tracked" ELSE "default",
                      bufferBytes > 0)}

(* buildLoggerOptions: both at once go through a stream in the process, a  *)
(* file alone through a worker, a console alone is pino's own unless it is *)
(* buffered.                                                               *)
sinks(destinations, bufferBytes) ==
  CASE destinations = {"console", "file"} ->
         {Sink("console", "tracked", bufferBytes > 0), Sink("file", "tracked", TRUE)}
    [] destinations = {"file"} -> {Sink("file", "worker", TRUE)}
    [] OTHER -> {Sink("console", IF bufferBytes > 0 THEN "tracked" ELSE "default",
                      bufferBytes > 0)}

(* What still waits in a sink after flushLogDestinations and the exit.     *)
LostAtExit(sink) == sink.buffered /\ sink.stream = "default"

-----------------------------------------------------------------------------
(* CORS.                                                                   *)

(* Seeded change: the combination is not rejected.                         *)
corsOptionsUnchecked(texts, credentials) ==
  LET origins == {Trim(t) : t \in texts}
  IN  {[any |-> Text("*") \in origins, origins |-> origins, credentials |-> credentials]}

(* The options handed to the CORS plugin; a wildcard with credentials      *)
(* throws.                                                                 *)
corsOptions(texts, credentials) ==
  LET origins == {Trim(t) : t \in texts}
      allowAnyOrigin == Text("*") \in origins
  IN  {o \in {[any |-> allowAnyOrigin, origins |-> origins, credentials |-> credentials]} :
         ~(o.any /\ o.credentials)}

(* The plugin's answer to a request from an origin, compared as written.   *)
Shared(options, origin) == options.any \/ origin \in options.origins

-----------------------------------------------------------------------------
(* Alert channels, and the features of the process that boots.             *)

(* A channel is the service's URL and the field its payload carries the    *)
(* message in.                                                             *)
slackChannel(url)   == [name |-> "slack", url |-> url, field |-> "text"]
discordChannel(url) == [name |-> "discord", url |-> url, field |-> "content"]

selectAlertChannel(channel, slackUrl, discordUrl) ==
  CASE channel = "slack" /\ slackUrl # "" -> {slackChannel(slackUrl)}
    [] channel = "discord" /\ discordUrl # "" -> {discordChannel(discordUrl)}
    [] OTHER -> {}

(* The plugins' shares in it.  Alerting with nowhere to go only warns; a   *)
(* cache takes a Redis.                                                    *)
security(env) ==
  UNION {corsOptions(env.origins, credentials) :
           credentials \in config("CORS_ALLOW_CREDENTIALS", env.credentials)}

alerts(env) ==
  {IF on THEN channel ELSE {} :
     on \in config("ALERTS_ENABLED", env.alerts),
     channel \in {selectAlertChannel(channel, env.slackUrl, env.discordUrl) :
                    channel \in config("ALERT_CHANNEL", env.channel)}}

responseCache(env) == {on \in config("CACHE_ENABLED", env.cache) : on => env.redisUrl # ""}

(* What an environment boots: the CORS options, the channel alerts go to,  *)
(* and whether responses are cached.  Every plugin has to start.           *)
features(env) ==
  [cors : security(env), alerts : alerts(env), cached : responseCache(env)]
=============================================================================
