------------------------------- MODULE Alerts -------------------------------
(***************************************************************************)
(* Chat alerting (src/src/plugins/alerts.ts): a response at or above the   *)
(* alert level starts, at most once per throttle interval, a delivery to   *)
(* the webhook that nobody waits for.  A delivery is a sequence of         *)
(* attempts, each bounded by a timeout, spaced by exponential backoff.     *)
(*                                                                         *)
(* The webhook is the environment: it may post the message and answer,     *)
(* post it and answer too late or with an error, or do nothing.  The       *)
(* process may crash and start anew, which forgets the deliveries under    *)
(* way and the throttle, and Date.now(), which measures the throttle but   *)
(* no timer, may be set forward and back.                                  *)
(***************************************************************************)
EXTENDS Integers, FiniteSets

CONSTANTS
  Level,          \* ALERT_LEVEL: "error" or "warn"
  Throttle,       \* ALERT_THROTTLE_MS
  Retries,        \* ALERT_RETRIES
  WebhookTimeout, \* WEBHOOK_TIMEOUT_MS
  MinTimeout,     \* p-retry's minTimeout, doubled on every retry
  MaxSkew,        \* environment: how far Date.now() is from the time, at most,
                  \* which is less than half an interval
  MaxLives,       \* bound: how often the process starts
  Horizon         \* bound: the last instant of the explored time line

ASSUME AlertsAssumption ==
  /\ Level \in {"error", "warn"}
  /\ Throttle \in Nat \ {0} /\ Retries \in Nat
  /\ WebhookTimeout \in Nat \ {0} /\ MinTimeout \in Nat \ {0}
  /\ MaxSkew \in Nat /\ 2 * MaxSkew < Throttle /\ MaxLives \in Nat \ {0} /\ Horizon \in Nat

VARIABLES
  clock,      \* the time, which timers follow
  skew,       \* Date.now() - clock
  life,       \* which start of the process this is
  lastSentAt, \* the Date.now() at which this life's last delivery began, or 0
  deliveries, \* the deliveries under way, each named by its beginning
  last,       \* history: the beginning of this life's last delivery and the
              \* attempts it has made
  posted      \* messages that reached the channel: whose, by which attempt, when

vars == <<clock, skew, life, lastSentAt, deliveries, last, posted>>
env  == <<clock, skew, life>>

Now == clock + skew

(* One status of each class: ok, client error, server error.               *)
StatusCodes == {200, 404, 500}

(* alertThreshold: the lowest status code that alerts.                     *)
alertThreshold == IF Level = "warn" THEN 400 ELSE 500

(* The wait before attempt n + 1: minTimeout * factor^(n - 1).             *)
Backoff(n) == MinTimeout * 2^(n - 1)

(* A delivery lasts at most its attempts and the waits between them, the   *)
(* waits being MinTimeout * (2^Retries - 1) together.                      *)
Lifetime == (Retries + 1) * WebhookTimeout + MinTimeout * (2^Retries - 1)

Delivery == [start : Nat, attempt : 1..(Retries + 1), phase : {"attempt", "backoff"},
             due : Int, delivered : BOOLEAN]

(* Long enough after the epoch for a first alert.                          *)
Start == Throttle + MaxSkew

TypeOK ==
  /\ clock \in Start..(Start + Horizon)
  /\ skew \in -MaxSkew..MaxSkew
  /\ life \in 1..MaxLives
  /\ lastSentAt \in Nat
  /\ deliveries \subseteq Delivery
  /\ last \in [start : Nat, attempts : 0..(Retries + 1)]
  /\ posted \subseteq [life : 1..MaxLives, start : Nat, attempt : 1..(Retries + 1), at : Nat]

None == [start |-> 0, attempts |-> 0]

Init ==
  /\ clock = Start
  /\ skew = 0
  /\ life = 1
  /\ lastSentAt = 0
  /\ deliveries = {}
  /\ last = None
  /\ posted = {}

Attempt(start, n) ==
  [start |-> start, attempt |-> n, phase |-> "attempt", due |-> clock + WebhookTimeout,
   delivered |-> FALSE]

Throttled == Now - lastSentAt < Throttle

(* Seeded change: the interval only counts from a delivery that succeeded. *)
OnResponseUnthrottled(status) ==
  /\ status >= alertThreshold /\ ~Throttled
  /\ deliveries' = deliveries \union {Attempt(clock, 1)}
  /\ UNCHANGED <<env, lastSentAt, last, posted>>

(* The onResponse hook returns early: not severe enough, or throttled.     *)
IgnoreResponse(status) ==
  /\ status < alertThreshold \/ Throttled
  /\ UNCHANGED vars

(* The onResponse hook alerts.  The bound keeps the whole delivery on the  *)
(* explored time line.                                                     *)
OnResponse(status) ==
  /\ status >= alertThreshold /\ ~Throttled
  /\ clock + Lifetime <= Start + Horizon
  /\ lastSentAt' = Now
  /\ deliveries' = deliveries \union {Attempt(clock, 1)}
  /\ last' = [start |-> clock, attempts |-> 1]
  /\ UNCHANGED <<env, posted>>

-----------------------------------------------------------------------------
(* The webhook during an attempt of d.                                     *)

InAttempt(d) == d.phase = "attempt"

(* The message shows up in the channel, if at all while the attempt lasts. *)
Post(d) ==
  /\ InAttempt(d) /\ ~d.delivered
  /\ posted' = posted \union
       {[life |-> life, start |-> d.start, attempt |-> d.attempt, at |-> clock]}
  /\ deliveries' = (deliveries \ {d}) \union {[d EXCEPT !.delivered = TRUE]}
  /\ UNCHANGED <<env, lastSentAt, last>>

(* A 2xx answer arrives: the delivery is over.                             *)
Succeed(d) ==
  /\ InAttempt(d) /\ d.delivered
  /\ deliveries' = deliveries \ {d}
  /\ UNCHANGED <<env, lastSentAt, last, posted>>

(* Seeded change: p-retry retries one time too many.                       *)
RetryOnceMore(d) ==
  deliveries' = (deliveries \ {d}) \union
    (IF d.attempt > Retries + 1 THEN {}
     ELSE {[d EXCEPT !.phase = "backoff", !.due = clock + Backoff(d.attempt)]})

(* Seeded change: the last retry is never made.                            *)
RetryOneTooFew(d) ==
  deliveries' = (deliveries \ {d}) \union
    (IF d.attempt >= Retries THEN {}
     ELSE {[d EXCEPT !.phase = "backoff", !.due = clock + Backoff(d.attempt)]})

(* Schedule the next attempt, or give up (logged) after the last one.      *)
RetryOrGiveUp(d) ==
  deliveries' = (deliveries \ {d}) \union
    (IF d.attempt > Retries THEN {}
     ELSE {[d EXCEPT !.phase = "backoff", !.due = clock + Backoff(d.attempt)]})

(* A refused connection or a non-2xx answer.                               *)
Fail(d) ==
  /\ InAttempt(d)
  /\ RetryOrGiveUp(d)
  /\ UNCHANGED <<env, lastSentAt, last, posted>>

(* AbortSignal.timeout fires, whatever the webhook has done with the post. *)
TimeOut(d) ==
  /\ InAttempt(d) /\ clock >= d.due
  /\ RetryOrGiveUp(d)
  /\ UNCHANGED <<env, lastSentAt, last, posted>>

(* Seeded change: every retry counts as the first attempt.                 *)
NextAttemptForever(d) ==
  /\ d.phase = "backoff" /\ clock >= d.due
  /\ deliveries' = (deliveries \ {d}) \union {Attempt(d.start, 1)}
  /\ UNCHANGED <<env, lastSentAt, last, posted>>

(* The backoff is over.                                                    *)
NextAttempt(d) ==
  /\ d.phase = "backoff" /\ clock >= d.due
  /\ deliveries' = (deliveries \ {d}) \union {Attempt(d.start, d.attempt + 1)}
  /\ last' = IF last.start = d.start THEN [last EXCEPT !.attempts = @ + 1] ELSE last
  /\ UNCHANGED <<env, lastSentAt, posted>>

-----------------------------------------------------------------------------
(* Seeded change: the fetch carries no abort signal.                       *)
TickPastTimeouts ==
  /\ clock < Start + Horizon
  /\ clock' = clock + 1
  /\ UNCHANGED <<skew, life, lastSentAt, deliveries, last, posted>>

(* Timers fire on time.                                                    *)
Tick ==
  /\ clock < Start + Horizon
  /\ \A d \in deliveries : clock < d.due
  /\ clock' = clock + 1
  /\ UNCHANGED <<skew, life, lastSentAt, deliveries, last, posted>>

ClockIsSet ==
  /\ skew' \in -MaxSkew..MaxSkew
  /\ UNCHANGED <<clock, life, lastSentAt, deliveries, last, posted>>

(* The process dies, or is replaced, and the plugin registers anew.        *)
Restart ==
  /\ life < MaxLives
  /\ life' = life + 1
  /\ lastSentAt' = 0 /\ deliveries' = {} /\ last' = None
  /\ UNCHANGED <<clock, skew, posted>>

Next ==
  \/ \E status \in StatusCodes : IgnoreResponse(status) \/ OnResponse(status)
  \/ \E d \in deliveries :
       Post(d) \/ Succeed(d) \/ Fail(d) \/ TimeOut(d) \/ NextAttempt(d)
  \/ Tick
  \/ ClockIsSet
  \/ Restart

Spec == Init /\ [][Next]_vars

(* Time passes and timers fire; nothing is assumed of the webhook.         *)
LiveSpec ==
  /\ Spec
  /\ WF_vars(Tick)
  /\ WF_vars(\E d \in deliveries : TimeOut(d) \/ NextAttempt(d))

-----------------------------------------------------------------------------
(* Deliveries are not awaited, so only the throttle and their bounded life *)
(* keep them from piling up while the webhook is down: no more of them     *)
(* overlap than begin within one lifetime, however the clock is set        *)
(* (alerts.ts:44-66, 76-81).                                               *)
DeliveriesDoNotPileUp ==
  Cardinality(deliveries) <= (Lifetime + 2 * MaxSkew) \div Throttle + 1

(* A delivery ends by the end of its lifetime, whatever the webhook does   *)
(* with each of its attempts (lines 46-58).                                *)
DeliveriesAreShort == \A d \in deliveries : clock <= d.start + Lifetime

(* Alerts that one process posts belong to deliveries begun an interval    *)
(* apart, up to what the clock was set by; none shows up more often than   *)
(* it was attempted (lines 46-66).                                         *)
AlertsAreSpaced ==
  \A p \in posted :
    LET same == {q \in posted : q.life = p.life} IN
    /\ \A q \in same : p.start < q.start => p.start + Throttle <= q.start + 2 * MaxSkew
    /\ Cardinality({q \in same : q.start = p.start}) <= Retries + 1

(* While severe responses are ignored, it is because an alert of this very *)
(* process is recent, and that alert is under way, has shown up, or has    *)
(* used all its attempts: neither a crash nor a clock that was set back    *)
(* silences the gateway for longer (lines 42, 62-66).                      *)
SilenceIsExplained ==
  Throttled =>
    /\ last # None /\ clock < last.start + Throttle + 2 * MaxSkew
    /\ \/ \E d \in deliveries : d.start = last.start
       \/ \E p \in posted : p.life = life /\ p.start = last.start
       \/ last.attempts = Retries + 1

(* No delivery retries for ever (lines 46-58).                             *)
DeliveriesEnd == deliveries # {} ~> deliveries = {}

(* alerts.ts:17-18 and docs/observability.md: notifications are "throttled *)
(* to at most one per ALERT_THROTTLE_MS".                                  *)
OneNotificationPerInterval ==
  \A p, q \in posted : p.at < q.at => p.at + Throttle <= q.at
=============================================================================
