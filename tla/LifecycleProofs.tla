-------------------------- MODULE LifecycleProofs --------------------------
(***************************************************************************)
(* What holds of the process however its signals, its listener and its     *)
(* connections interleave, for every grace period and any number of them.  *)
(***************************************************************************)
EXTENDS Lifecycle, TLAPS

(***************************************************************************)
(* The inductive invariant.  A handler runs once, and only in a process    *)
(* that is shutting down; one that waits for telemetry saw the listener    *)
(* shut and the last connection gone, and neither comes back.  While the   *)
(* process boots it has no handlers and is not shutting down.  The first   *)
(* handler is never replaced: as long as the process runs, its deadline is *)
(* the one counted from the first signal, and no deadline is overdue.      *)
(***************************************************************************)
HandlersShutDown ==
  \A s \in Signals : handling[s] # "no" => shuttingDown /\ s \notin handlers

TelemetryAfterDrain == \A s \in Signals : handling[s] = "otel" => Drained

QuietBoot == listener = "none" => handlers = {} /\ ~shuttingDown

FirstDeadlineStands ==
  shuttingDown /\ Running =>
    \E s \in Signals : handling[s] # "no" /\ deadline[s] = since + ShutdownTimeout

NoneOverdue ==
  Running => \A s \in Signals : handling[s] # "no" => clock <= deadline[s]

DrainInv ==
  /\ TypeOK
  /\ HandlersShutDown
  /\ TelemetryAfterDrain
  /\ QuietBoot
  /\ FirstDeadlineStands
  /\ NoneOverdue
  /\ CleanExitDrained
  /\ ExitsFlushed

-----------------------------------------------------------------------------
(* The exits that flush, whichever path takes them: code 0 only after the  *)
(* drain.                                                                  *)
LEMMA FlushingExits ==
  ASSUME DrainInv, NEW code \in {"0", "1"}, FlushAndExit(code),
         code = "0" => shuttingDown /\ Drained
  PROVE  DrainInv'
<1> USE DEF FlushAndExit, DrainInv, process, traffic
<1>1. TypeOK'
  BY DEF TypeOK
<1>2. HandlersShutDown' /\ TelemetryAfterDrain' /\ QuietBoot'
  BY DEF HandlersShutDown, TelemetryAfterDrain, QuietBoot, Drained
<1>3. FirstDeadlineStands' /\ NoneOverdue'
  BY DEF FirstDeadlineStands, NoneOverdue, Running
<1>4. CleanExitDrained' /\ ExitsFlushed'
  BY DEF CleanExitDrained, ExitsFlushed, Drained
<1> QED BY <1>1, <1>2, <1>3, <1>4

(* The steps of connections and of the log change nothing of the process.  *)
LEMMA TrafficSteps ==
  ASSUME DrainInv, Running, UNCHANGED <<clock, process, exit>>,
         TypeOK', TelemetryAfterDrain'
  PROVE  DrainInv'
<1> USE DEF DrainInv, process
<1>1. HandlersShutDown' /\ QuietBoot'
  BY DEF HandlersShutDown, QuietBoot
<1>2. FirstDeadlineStands' /\ NoneOverdue'
  BY DEF FirstDeadlineStands, NoneOverdue, Running
<1>3. CleanExitDrained' /\ ExitsFlushed'
  BY DEF CleanExitDrained, ExitsFlushed, Running
<1> QED BY <1>1, <1>2, <1>3

(* A handler that begins leaves the first one's deadline where it is.      *)
LEMMA HandlerBegins ==
  ASSUME DrainInv, NEW s \in Signals, BeginShutdown(s)
  PROVE  DrainInv'
<1> USE LifecycleAssumption DEF DrainInv, BeginShutdown, traffic, Running
<1>1. TypeOK'
  <2>1. clock + ShutdownTimeout \in Nat /\ clock \in 0..Horizon
    BY DEF TypeOK
  <2>2. deadline' \in [Signals -> Nat] /\ since' \in 0..Horizon
    BY <2>1 DEF TypeOK
  <2>3. handling' \in [Signals -> {"no", "closing", "otel"}]
    BY DEF TypeOK
  <2> QED BY <2>2, <2>3 DEF TypeOK
<1>2. \A t \in Signals : t # s => /\ handling'[t] = handling[t]
                                  /\ deadline'[t] = deadline[t]
                                  /\ t \in handlers' <=> t \in handlers
  BY DEF TypeOK
<1>3. handling'[s] = "closing" /\ deadline'[s] = clock + ShutdownTimeout /\ s \notin handlers'
  BY DEF TypeOK
<1>4. HandlersShutDown'
  BY <1>2, <1>3 DEF HandlersShutDown
<1>5. TelemetryAfterDrain'
  BY <1>2, <1>3 DEF TelemetryAfterDrain, Drained
<1>6. QuietBoot'
  BY DEF QuietBoot
<1>7. FirstDeadlineStands'
  <2>1. CASE ~shuttingDown
    <3>1. since' = clock
      BY <2>1
    <3> QED BY <1>3, <3>1 DEF FirstDeadlineStands
  <2>2. CASE shuttingDown
    <3>1. PICK t \in Signals : handling[t] # "no" /\ deadline[t] = since + ShutdownTimeout
      BY <2>2 DEF FirstDeadlineStands
    <3>2. t # s
      BY <3>1 DEF HandlersShutDown
    <3>3. handling'[t] # "no" /\ deadline'[t] = since' + ShutdownTimeout
      BY <1>2, <2>2, <3>1, <3>2
    <3> QED BY <3>3 DEF FirstDeadlineStands
  <2> QED BY <2>1, <2>2
<1>8. NoneOverdue'
  <2>1. clock <= clock + ShutdownTimeout
    BY DEF TypeOK
  <2> QED BY <1>2, <1>3, <2>1 DEF NoneOverdue
<1>9. CleanExitDrained' /\ ExitsFlushed'
  BY DEF CleanExitDrained, ExitsFlushed
<1> QED BY <1>1, <1>4, <1>5, <1>6, <1>7, <1>8, <1>9

(* close() has resolved for a handler.                                     *)
LEMMA CloseResolves ==
  ASSUME DrainInv, NEW s \in Signals, CloseCompletes(s)
  PROVE  DrainInv'
<1> USE DEF DrainInv
<1>1. CASE ~OtelEnabled
  <2>1. FlushAndExit("0") /\ shuttingDown /\ Drained
    BY <1>1 DEF CloseCompletes, AfterClose, HandlersShutDown
  <2> QED BY <2>1, FlushingExits
<1>2. CASE OtelEnabled
  <2> USE DEF CloseCompletes, AfterClose, traffic, Running
  <2>1. TypeOK'
    BY <1>2 DEF TypeOK
  <2>2. \A t \in Signals : handling'[t] # "no" <=> handling[t] # "no"
    BY <1>2 DEF TypeOK
  <2>3. HandlersShutDown' /\ QuietBoot'
    BY <1>2, <2>2 DEF HandlersShutDown, QuietBoot
  <2>4. TelemetryAfterDrain'
    BY <1>2 DEF TelemetryAfterDrain, Drained
  <2>5. FirstDeadlineStands'
    BY <1>2, <2>2 DEF FirstDeadlineStands
  <2>6. NoneOverdue'
    BY <1>2, <2>2 DEF NoneOverdue
  <2>7. CleanExitDrained' /\ ExitsFlushed'
    BY <1>2 DEF CleanExitDrained, ExitsFlushed
  <2> QED BY <2>1, <2>3, <2>4, <2>5, <2>6, <2>7
<1> QED BY <1>1, <1>2

-----------------------------------------------------------------------------
(* The process keeps the invariant at every step.                          *)
LEMMA DrainInvariant == Spec => []DrainInv
<1> USE LifecycleAssumption
<1>1. Init => DrainInv
  <2> SUFFICES ASSUME Init PROVE DrainInv
    OBVIOUS
  <2>1. TypeOK
    <3>1. clock \in 0..Horizon /\ since \in 0..Horizon
      BY DEF Init
    <3>2. handlers \subseteq Signals /\ handling \in [Signals -> {"no", "closing", "otel"}]
      BY DEF Init
    <3>3. deadline \in [Signals -> Nat] /\ shuttingDown \in BOOLEAN /\ unflushed \in BOOLEAN
      BY DEF Init
    <3>4. idle \in Nat /\ inflight \in Nat /\ idle + inflight <= MaxConnections
      BY DEF Init
    <3> QED BY <3>1, <3>2, <3>3, <3>4 DEF Init, TypeOK
  <2>2. HandlersShutDown /\ TelemetryAfterDrain /\ NoneOverdue
    BY DEF Init, HandlersShutDown, TelemetryAfterDrain, NoneOverdue
  <2>3. QuietBoot /\ FirstDeadlineStands /\ CleanExitDrained /\ ExitsFlushed
    BY DEF Init, QuietBoot, FirstDeadlineStands, CleanExitDrained, ExitsFlushed
  <2> QED BY <2>1, <2>2, <2>3 DEF DrainInv
<1>2. DrainInv /\ [Next]_vars => DrainInv'
  <2> SUFFICES ASSUME DrainInv, [Next]_vars PROVE DrainInv'
    OBVIOUS
  <2>1. CASE BootLogs
    <3>1. TypeOK' /\ TelemetryAfterDrain'
      BY <2>1 DEF BootLogs, DrainInv, TypeOK, TelemetryAfterDrain, Drained, process, traffic
    <3> QED BY <2>1, <3>1, TrafficSteps DEF BootLogs
  <2>2. CASE BootFails
    <3>1. exit' = "1" /\ listener' = "none" /\ UNCHANGED <<clock, process, traffic, unflushed>>
      BY <2>2 DEF BootFails, process
    <3>2. TypeOK' /\ HandlersShutDown' /\ TelemetryAfterDrain' /\ QuietBoot'
      BY <3>1 DEF DrainInv, TypeOK, HandlersShutDown, TelemetryAfterDrain, QuietBoot, Drained,
                  process, traffic
    <3>3. FirstDeadlineStands' /\ NoneOverdue' /\ CleanExitDrained' /\ ExitsFlushed'
      BY <3>1 DEF FirstDeadlineStands, NoneOverdue, Running, CleanExitDrained, ExitsFlushed
    <3> QED BY <3>2, <3>3 DEF DrainInv
  <2>3. CASE Boot
    <3>1. \A s \in Signals : handling[s] = "no"
      BY <2>3 DEF Boot, DrainInv, QuietBoot, HandlersShutDown
    <3>2. TypeOK' /\ HandlersShutDown' /\ TelemetryAfterDrain' /\ QuietBoot'
      BY <2>3, <3>1 DEF Boot, DrainInv, TypeOK, HandlersShutDown, TelemetryAfterDrain, QuietBoot,
                        traffic
    <3>3. FirstDeadlineStands' /\ NoneOverdue' /\ CleanExitDrained' /\ ExitsFlushed'
      BY <2>3, <3>1 DEF Boot, DrainInv, QuietBoot, FirstDeadlineStands, NoneOverdue, Running,
                        CleanExitDrained, ExitsFlushed, traffic
    <3> QED BY <3>2, <3>3 DEF DrainInv
  <2>4. CASE ListenSucceeds \/ ListenerShuts
    <3>1. /\ Running /\ listener # "none" /\ listener # "shut"
          /\ listener' \in {"open", "shut"} /\ unflushed' \in BOOLEAN
          /\ UNCHANGED <<clock, handlers, handling, deadline, shuttingDown, since, traffic, exit>>
      BY <2>4 DEF ListenSucceeds, ListenerShuts, DrainInv, TypeOK
    <3>2. \A s \in Signals : handling[s] # "otel"
      BY <3>1 DEF DrainInv, TelemetryAfterDrain, Drained
    <3>3. TypeOK' /\ HandlersShutDown' /\ TelemetryAfterDrain' /\ QuietBoot'
      BY <3>1, <3>2 DEF DrainInv, TypeOK, HandlersShutDown, TelemetryAfterDrain, QuietBoot,
                        traffic
    <3>4. FirstDeadlineStands' /\ NoneOverdue' /\ CleanExitDrained' /\ ExitsFlushed'
      BY <3>1 DEF DrainInv, FirstDeadlineStands, NoneOverdue, Running, CleanExitDrained,
                  ExitsFlushed
    <3> QED BY <3>3, <3>4 DEF DrainInv
  <2>5. CASE ListenFails
    BY <2>5, FlushingExits DEF ListenFails
  <2>6. CASE Connect
    <3>1. TypeOK' /\ TelemetryAfterDrain'
      BY <2>6 DEF Connect, DrainInv, TypeOK, TelemetryAfterDrain, Drained, process
    <3> QED BY <2>6, <3>1, TrafficSteps DEF Connect
  <2>7. CASE Disconnect
    <3>1. TypeOK' /\ TelemetryAfterDrain'
      BY <2>7 DEF Disconnect, DrainInv, TypeOK, TelemetryAfterDrain, Drained, process
    <3> QED BY <2>7, <3>1, TrafficSteps DEF Disconnect
  <2>8. CASE Accept
    <3>1. TypeOK' /\ TelemetryAfterDrain'
      BY <2>8 DEF Accept, DrainInv, TypeOK, TelemetryAfterDrain, Drained, process
    <3> QED BY <2>8, <3>1, TrafficSteps DEF Accept
  <2>9. CASE Answer
    <3>1. idle' \in Nat /\ inflight' \in Nat /\ idle' + inflight' <= MaxConnections
      <4>1. idle \in Nat /\ inflight \in Nat \ {0} /\ idle + inflight <= MaxConnections
        BY <2>9 DEF Answer, DrainInv, TypeOK
      <4>2. inflight' = inflight - 1 /\ (idle' = idle \/ idle' = idle + 1)
        BY <2>9 DEF Answer
      <4> QED BY <4>1, <4>2
    <3>2. TypeOK'
      BY <2>9, <3>1 DEF Answer, DrainInv, TypeOK, process
    <3>3. TelemetryAfterDrain'
      BY <2>9 DEF Answer, DrainInv, TelemetryAfterDrain, Drained, TypeOK, process
    <3> QED BY <2>9, <3>2, <3>3, TrafficSteps DEF Answer
  <2>10. CASE LogWrites
    <3>1. TypeOK' /\ TelemetryAfterDrain'
      BY <2>10 DEF LogWrites, DrainInv, TypeOK, TelemetryAfterDrain, Drained, process, traffic
    <3> QED BY <2>10, <3>1, TrafficSteps DEF LogWrites
  <2>11. ASSUME NEW s \in Signals, Kill(s) PROVE DrainInv'
    <3>1. TypeOK' /\ HandlersShutDown' /\ TelemetryAfterDrain' /\ QuietBoot'
      BY <2>11 DEF Kill, DrainInv, TypeOK, HandlersShutDown, TelemetryAfterDrain, QuietBoot,
                   Drained, process, traffic
    <3>2. FirstDeadlineStands' /\ NoneOverdue' /\ CleanExitDrained' /\ ExitsFlushed'
      BY <2>11 DEF Kill, FirstDeadlineStands, NoneOverdue, Running, CleanExitDrained,
                   ExitsFlushed
    <3> QED BY <3>1, <3>2 DEF DrainInv
  <2>12. ASSUME NEW s \in Signals, BeginShutdown(s) PROVE DrainInv'
    BY <2>12, HandlerBegins
  <2>13. ASSUME NEW s \in Signals, CloseCompletes(s) PROVE DrainInv'
    BY <2>13, CloseResolves
  <2>14. ASSUME NEW s \in Signals, OtelCompletes(s) PROVE DrainInv'
    <3>1. FlushAndExit("0") /\ shuttingDown /\ Drained
      BY <2>14 DEF OtelCompletes, DrainInv, HandlersShutDown, TelemetryAfterDrain
    <3> QED BY <3>1, FlushingExits
  <2>15. ASSUME NEW s \in Signals, ShutdownFails(s) \/ DeadlineFires(s) PROVE DrainInv'
    BY <2>15, FlushingExits DEF ShutdownFails, DeadlineFires
  <2>16. CASE Tick
    <3>1. TypeOK'
      BY <2>16 DEF Tick, DrainInv, TypeOK, process, traffic
    <3>2. HandlersShutDown' /\ TelemetryAfterDrain' /\ QuietBoot' /\ FirstDeadlineStands'
      BY <2>16 DEF Tick, DrainInv, HandlersShutDown, TelemetryAfterDrain, QuietBoot, Drained,
                   FirstDeadlineStands, Running, process, traffic
    <3>3. NoneOverdue'
      BY <2>16 DEF Tick, DrainInv, TypeOK, NoneOverdue, process
    <3>4. CleanExitDrained' /\ ExitsFlushed'
      BY <2>16 DEF Tick, Running, CleanExitDrained, ExitsFlushed
    <3> QED BY <3>1, <3>2, <3>3, <3>4 DEF DrainInv
  <2>17. CASE UNCHANGED vars
    BY <2>17 DEF vars, process, traffic, DrainInv, TypeOK, HandlersShutDown, TelemetryAfterDrain,
                 QuietBoot, Drained, FirstDeadlineStands, NoneOverdue, Running, CleanExitDrained,
                 ExitsFlushed
  <2> QED
    BY <2>1, <2>2, <2>3, <2>4, <2>5, <2>6, <2>7, <2>8, <2>9, <2>10, <2>11, <2>12, <2>13,
       <2>14, <2>15, <2>16, <2>17 DEF Next
<1> QED BY <1>1, <1>2, PTL DEF Spec

-----------------------------------------------------------------------------
(* The phases, the exit codes and the counts of connections stay in range. *)
THEOREM TypeCorrect == Spec => []TypeOK
<1>1. DrainInv => TypeOK
  BY DEF DrainInv
<1> QED BY <1>1, DrainInvariant, PTL

(* Exit code 0 means a full drain (server.ts:43-47), whatever the clients  *)
(* send on kept-alive connections meanwhile.                               *)
THEOREM CleanExit == Spec => []CleanExitDrained
<1>1. DrainInv => CleanExitDrained
  BY DEF DrainInv
<1> QED BY <1>1, DrainInvariant, PTL

(* Every exit of a booted process's own accord has flushed the logs, those *)
(* of the boot included (lines 36-62).                                     *)
THEOREM FlushedExit == Spec => []ExitsFlushed
<1>1. DrainInv => ExitsFlushed
  BY DEF DrainInv
<1> QED BY <1>1, DrainInvariant, PTL

(* The grace period counts from the first signal (lines 11-15, 36-41).     *)
THEOREM GraceForAll == Spec => []GraceIsNotExtended
<1> USE LifecycleAssumption
<1>1. DrainInv => GraceIsNotExtended
  <2> SUFFICES ASSUME DrainInv, shuttingDown, Running PROVE clock <= since + ShutdownTimeout
    BY DEF GraceIsNotExtended
  <2>1. PICK s \in Signals : handling[s] # "no" /\ deadline[s] = since + ShutdownTimeout
    BY DEF DrainInv, FirstDeadlineStands
  <2> QED BY <2>1 DEF DrainInv, NoneOverdue
<1> QED BY <1>1, DrainInvariant, PTL
=============================================================================
