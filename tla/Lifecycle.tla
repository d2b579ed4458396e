----------------------------- MODULE Lifecycle -----------------------------
(***************************************************************************)
(* The gateway process (src/src/server.ts): it boots, installs one-shot    *)
(* handlers for SIGINT and SIGTERM, listens, and on a signal drains and    *)
(* exits, at the latest when the shutdown deadline fires.                  *)
(*                                                                         *)
(* Both signals may arrive, each handler runs once, and the two then run   *)
(* side by side; a signal without a handler (before they are installed, or *)
(* a repeated one) kills the process.  Clients keep connections alive and  *)
(* send requests on them also while the process drains, and a request may  *)
(* hang as long as it likes.  Fastify's own part is modelled from how      *)
(* server.ts uses it, and assumes only this: close() shuts the listener    *)
(* some time after it is called, opening or open, and resolves once the    *)
(* listener is shut and the last connection is gone.                       *)
(***************************************************************************)
EXTENDS Integers, FiniteSets

CONSTANTS
  ShutdownTimeout, \* SHUTDOWN_TIMEOUT_MS
  OtelEnabled,     \* OTEL_ENABLED: telemetry is shut down after the app
  MaxConnections,  \* bound: client connections at once
  Horizon          \* bound: the last instant of the explored time line

ASSUME LifecycleAssumption ==
  /\ ShutdownTimeout \in Nat \ {0} /\ OtelEnabled \in BOOLEAN
  /\ MaxConnections \in Nat /\ Horizon \in Nat

VARIABLES
  clock,        \* time, in ms
  listener,     \* "none" while booting, "opening", "open", "shut"
  handlers,     \* signals whose handler is installed and has not run
  handling,     \* each signal's handler: "no", "closing" or "otel"
  deadline,     \* when each running handler forces the exit
  shuttingDown, \* app.shuttingDown
  since,        \* history: when the first handler began
  idle,         \* connections kept alive that carry no request
  inflight,     \* connections that carry a request not yet answered
  unflushed,    \* log lines sit in the destination's buffer
  exit          \* "running", or how the process ended: "0", "1", "killed"

process == <<listener, handlers, handling, deadline, shuttingDown, since>>
traffic == <<idle, inflight>>
vars == <<clock, process, traffic, unflushed, exit>>

Signals == {"SIGINT", "SIGTERM"}

TypeOK ==
  /\ clock \in 0..Horizon
  /\ listener \in {"none", "opening", "open", "shut"}
  /\ handlers \subseteq Signals
  /\ handling \in [Signals -> {"no", "closing", "otel"}]
  /\ deadline \in [Signals -> Nat]
  /\ shuttingDown \in BOOLEAN /\ unflushed \in BOOLEAN
  /\ since \in 0..Horizon
  /\ idle \in Nat /\ inflight \in Nat /\ idle + inflight <= MaxConnections
  /\ exit \in {"running", "0", "1", "killed"}

Init ==
  /\ clock = 0
  /\ listener = "none"
  /\ handlers = {}
  /\ handling = [s \in Signals |-> "no"]
  /\ deadline = [s \in Signals |-> 0]
  /\ shuttingDown = FALSE
  /\ since = 0
  /\ idle = 0 /\ inflight = 0
  /\ unflushed = FALSE
  /\ exit = "running"

Running == exit = "running"

(* flushLogDestinations(); process.exit(code).                             *)
FlushAndExit(code) ==
  /\ unflushed' = FALSE
  /\ exit' = code
  /\ UNCHANGED <<clock, process, traffic>>

-----------------------------------------------------------------------------
(* Boot.                                                                   *)

(* The plugins log while the app is built: the limiter's store, the IP     *)
(* filter's lists, the services.                                           *)
BootLogs ==
  /\ Running /\ listener = "none"
  /\ unflushed' = TRUE
  /\ UNCHANGED <<clock, process, traffic, exit>>

(* buildApp or ready rejects: an uncaught error of the entry module, which *)
(* flushes nothing.                                                        *)
BootFails ==
  /\ Running /\ listener = "none"
  /\ exit' = "1"
  /\ UNCHANGED <<clock, process, traffic, unflushed>>

(* The app is ready: handlers go in, then listen is called.                *)
Boot ==
  /\ Running /\ listener = "none"
  /\ handlers' = Signals
  /\ listener' = "opening"
  /\ UNCHANGED <<clock, handling, deadline, shuttingDown, since, traffic, unflushed, exit>>

(* The server listens, be it after a handler began, and says so.           *)
ListenSucceeds ==
  /\ Running /\ listener = "opening"
  /\ listener' = "open"
  /\ unflushed' = TRUE
  /\ UNCHANGED <<clock, handlers, handling, deadline, shuttingDown, since, traffic, exit>>

(* The port is taken, or close was called first: exit(1), also in the      *)
(* middle of a shutdown.                                                   *)
ListenFails ==
  /\ Running /\ listener = "opening"
  /\ FlushAndExit("1")

-----------------------------------------------------------------------------
(* Serving.                                                                *)

Connect ==
  /\ Running /\ listener = "open"
  /\ idle + inflight < MaxConnections
  /\ idle' = idle + 1
  /\ UNCHANGED <<clock, process, inflight, unflushed, exit>>

(* Either side drops a connection that carries nothing.                    *)
Disconnect ==
  /\ Running /\ idle > 0
  /\ idle' = idle - 1
  /\ UNCHANGED <<clock, process, inflight, unflushed, exit>>

(* A request arrives on a kept-alive connection, also while draining.      *)
Accept ==
  /\ Running /\ idle > 0
  /\ idle' = idle - 1 /\ inflight' = inflight + 1
  /\ unflushed' = TRUE
  /\ UNCHANGED <<clock, process, exit>>

(* Seeded change: a response counted twice.                                *)
AnswerTwice ==
  /\ Running /\ inflight > 0
  /\ inflight' = inflight - 2
  /\ idle' \in {idle, idle + 1}
  /\ unflushed' = TRUE
  /\ UNCHANGED <<clock, process, exit>>

(* A response goes out, the connection stays or is closed, and a log line  *)
(* is written.                                                             *)
Answer ==
  /\ Running /\ inflight > 0
  /\ inflight' = inflight - 1
  /\ idle' \in {idle, idle + 1}
  /\ unflushed' = TRUE
  /\ UNCHANGED <<clock, process, exit>>

(* The buffer filled up and was written, or an onClose hook flushed it     *)
(* (logging.ts:28-30).                                                     *)
LogWrites ==
  /\ Running /\ unflushed
  /\ unflushed' = FALSE
  /\ UNCHANGED <<clock, process, traffic, exit>>

-----------------------------------------------------------------------------
(* Shutting down.                                                          *)

(* A signal nobody handles: the default action.                            *)
Kill(s) ==
  /\ Running /\ s \notin handlers
  /\ exit' = "killed"
  /\ UNCHANGED <<clock, process, traffic, unflushed>>

(* Seeded change: both handlers share one deadline, started anew by each.  *)
BeginShutdownRestarting(s) ==
  /\ Running /\ s \in handlers
  /\ clock + ShutdownTimeout <= Horizon
  /\ handlers' = handlers \ {s}
  /\ shuttingDown' = TRUE
  /\ since' = IF shuttingDown THEN since ELSE clock
  /\ unflushed' = TRUE
  /\ deadline' = [t \in Signals |-> clock + ShutdownTimeout]
  /\ handling' = [handling EXCEPT ![s] = "closing"]
  /\ UNCHANGED <<clock, listener, traffic, exit>>

(* The handler up to its await: a log line, the flag, the deadline, and    *)
(* the call of app.close().                                                *)
BeginShutdown(s) ==
  /\ Running /\ s \in handlers
  /\ clock + ShutdownTimeout <= Horizon
  /\ handlers' = handlers \ {s}
  /\ shuttingDown' = TRUE
  /\ since' = IF shuttingDown THEN since ELSE clock
  /\ unflushed' = TRUE
  /\ deadline' = [deadline EXCEPT ![s] = clock + ShutdownTimeout]
  /\ handling' = [handling EXCEPT ![s] = "closing"]
  /\ UNCHANGED <<clock, listener, traffic, exit>>

(* close() gets to the listener; one that is still opening never opens.    *)
ListenerShuts ==
  /\ Running /\ shuttingDown /\ listener \in {"opening", "open"}
  /\ listener' = "shut"
  /\ UNCHANGED <<clock, handlers, handling, deadline, shuttingDown, since, traffic,
                 unflushed, exit>>

(* app.close() can resolve.                                                *)
Drained == listener = "shut" /\ idle = 0 /\ inflight = 0

(* app.close() has resolved: telemetry is next, if it is on.               *)
AfterClose(s) ==
  IF OtelEnabled
  THEN /\ handling' = [handling EXCEPT ![s] = "otel"]
       /\ UNCHANGED <<clock, listener, handlers, deadline, shuttingDown, since, traffic,
                      unflushed, exit>>
  ELSE FlushAndExit("0")

(* Seeded change: close is not awaited.                                    *)
CloseCompletesAtOnce(s) ==
  /\ Running /\ handling[s] = "closing"
  /\ AfterClose(s)

CloseCompletes(s) ==
  /\ Running /\ handling[s] = "closing" /\ Drained
  /\ AfterClose(s)

(* Telemetry is down: exit(0).                                             *)
OtelCompletes(s) ==
  /\ Running /\ handling[s] = "otel"
  /\ FlushAndExit("0")

(* close or otelShutdown rejects: exit(1).                                 *)
ShutdownFails(s) ==
  /\ Running /\ handling[s] # "no"
  /\ FlushAndExit("1")

(* Seeded change: the deadline exits without flushing the logs.            *)
DeadlineFiresUnflushed(s) ==
  /\ Running /\ handling[s] # "no" /\ clock >= deadline[s]
  /\ exit' = "1"
  /\ UNCHANGED <<clock, process, traffic, unflushed>>

(* Seeded change: the deadline is set when close has resolved.             *)
DeadlineFiresLate(s) ==
  /\ Running /\ handling[s] = "otel" /\ clock >= deadline[s]
  /\ FlushAndExit("1")

(* The grace period is over: log, flush, exit(1).                          *)
DeadlineFires(s) ==
  /\ Running /\ handling[s] # "no" /\ clock >= deadline[s]
  /\ FlushAndExit("1")

(* Timers fire on time.                                                    *)
Tick ==
  /\ Running /\ clock < Horizon
  /\ \A s \in Signals : handling[s] # "no" => clock < deadline[s]
  /\ clock' = clock + 1
  /\ UNCHANGED <<process, traffic, unflushed, exit>>

Next ==
  \/ BootLogs \/ BootFails \/ Boot \/ ListenSucceeds \/ ListenFails
  \/ Connect \/ Disconnect \/ Accept \/ Answer \/ LogWrites
  \/ ListenerShuts
  \/ \E s \in Signals :
       \/ Kill(s) \/ BeginShutdown(s) \/ CloseCompletes(s) \/ OtelCompletes(s)
       \/ ShutdownFails(s) \/ DeadlineFires(s)
  \/ Tick

Spec == Init /\ [][Next]_vars

(* Time passes and deadlines fire; requests may hang for ever.             *)
LiveSpec == Spec /\ WF_vars(Tick) /\ \A s \in Signals : WF_vars(DeadlineFires(s))

-----------------------------------------------------------------------------
(* Exit code 0 means a full drain: no request was cut off, although two    *)
(* handlers may be closing the app at once (server.ts:43-47), the listener *)
(* may open after the first began, and kept-alive connections bring new    *)
(* requests while the process drains.                                      *)
CleanExitDrained == exit = "0" => shuttingDown /\ inflight = 0

(* Whichever of the racing paths (two handlers, two deadlines, a failing   *)
(* listen) ends a booted process, its log lines are out, those of the boot *)
(* included (lines 36-52, 56-62).  A kill loses them, and so may a boot    *)
(* that fails: lines 28-29 flush nothing.                                  *)
ExitsFlushed == exit \in {"0", "1"} /\ listener # "none" => ~unflushed

(* The grace period counts from the first signal: a second signal, which   *)
(* starts a handler and a deadline of its own, never extends it (lines     *)
(* 11-15, 36-41).                                                          *)
GraceIsNotExtended == shuttingDown /\ Running => clock <= since + ShutdownTimeout

(* A signalled process ends although requests hang (lines 11-15, 36-41: a  *)
(* hung upstream can never stall shutdown).                                *)
ShutdownEnds == shuttingDown ~> ~Running
=============================================================================
