---------------------------- MODULE AlertsProofs ----------------------------
(***************************************************************************)
(* What holds of alerting for any interval, number of retries and of       *)
(* crashes, and any clock that is off by less than half an interval.       *)
(***************************************************************************)
EXTENDS Alerts, PowerProofs

(* The throttle remembers the beginning of this life's last delivery, up   *)
(* to the clock's error.                                                   *)
Remembered ==
  IF last = None THEN lastSentAt = 0
  ELSE /\ Start <= last.start /\ last.start <= clock /\ last.attempts > 0
       /\ last.start - MaxSkew <= lastSentAt /\ lastSentAt <= last.start + MaxSkew

(* A delivery under way began at its own time, and is the last one or an   *)
(* earlier one.                                                            *)
Ordered ==
  /\ \A d \in deliveries : /\ 0 < d.start /\ d.start <= last.start
                           /\ d.start = last.start => d.attempt = last.attempts
                           /\ d.phase = "backoff" => d.attempt <= Retries
  /\ \A d, e \in deliveries : d.start = e.start => d = e
  /\ \A p \in posted : p.life <= life /\ (p.life = life => p.start <= last.start)

Apart(x, y) == x < y => x + Throttle <= y + 2 * MaxSkew

(* What this life has begun begins apart, and so did what others posted.   *)
Begun == {last.start} \union {d.start : d \in deliveries}
         \union {p.start : p \in {q \in posted : q.life = life}}

Spaced ==
  /\ \A x, y \in Begun : x # 0 /\ y # 0 => Apart(x, y)
  /\ \A p, q \in posted : p.start # 0 /\ (p.life = q.life => Apart(p.start, q.start))

(* One message at most per attempt, and what is delivered has shown up.    *)
Counted ==
  /\ \A p, q \in posted :
       p.life = q.life /\ p.start = q.start /\ p.attempt = q.attempt => p = q
  /\ \A p \in posted, d \in deliveries :
       p.life = life /\ p.start = d.start =>
         p.attempt < d.attempt \/ (p.attempt = d.attempt /\ d.delivered)
  /\ \A d \in deliveries : d.delivered => \E p \in posted : p.life = life /\ p.start = d.start

(* The last delivery is under way, has shown up or has given up.           *)
Explained ==
  last # None => \/ \E d \in deliveries : d.start = last.start
                 \/ \E p \in posted : p.life = life /\ p.start = last.start
                 \/ last.attempts = Retries + 1

AInv == TypeOK /\ Remembered /\ Ordered /\ Spaced /\ Counted /\ Explained

-----------------------------------------------------------------------------
LEMMA Initially == Init => AInv
<1> SUFFICES ASSUME Init PROVE AInv
  OBVIOUS
<1> USE AlertsAssumption
<1>1. Start \in Nat /\ Start > 0
  BY DEF Start
<1>2. TypeOK
  BY <1>1 DEF Init, TypeOK, None
<1>3. Begun = {0}
  BY DEF Init, Begun, None
<1> QED BY <1>2, <1>3 DEF AInv, Init, Remembered, Ordered, Spaced, Counted, Explained, None

(* A new delivery begins.                                                  *)
LEMMA Begins == ASSUME AInv, NEW status \in StatusCodes, OnResponse(status) PROVE AInv'
<1> USE AlertsAssumption
<1> DEFINE d == Attempt(clock, 1)
<1>1. /\ Start \in Nat /\ Start > MaxSkew /\ clock \in Nat /\ Start <= clock /\ clock < Start + Horizon + 1
      /\ skew \in Int /\ skew <= MaxSkew /\ -MaxSkew <= skew
      /\ lastSentAt \in Nat /\ last.start \in Nat /\ Throttle \in Nat
  BY DEF AInv, TypeOK, Start
<1>2. /\ lastSentAt' = clock + skew /\ last' = [start |-> clock, attempts |-> 1]
      /\ deliveries' = deliveries \union {d} /\ UNCHANGED <<clock, skew, life, posted>>
      /\ clock + skew - lastSentAt >= Throttle
  BY <1>1 DEF OnResponse, Now, Throttled, env
<1>3. /\ d.start = clock /\ d.attempt = 1 /\ d.delivered = FALSE /\ d \in Delivery
      /\ d.phase = "attempt"
  BY <1>1 DEF Attempt, Delivery
<1> HIDE DEF d
<1>4. last.start < clock /\ (last.start # 0 => last.start + Throttle <= clock + 2 * MaxSkew)
  <2>1. CASE last = None
    BY <1>1, <2>1 DEF None
  <2>2. CASE last # None
    BY <1>1, <1>2, <2>2 DEF AInv, Remembered
  <2> QED BY <2>1, <2>2
<1>5. TypeOK'
  BY <1>1, <1>2, <1>3 DEF AInv, TypeOK
<1>6. Remembered'
  BY <1>1, <1>2 DEF Remembered, None
<1>7. /\ \A e \in deliveries : e.start \in Nat /\ e.start <= last.start
      /\ \A p \in posted : p.start \in Nat /\ (p.life = life => p.start <= last.start)
  BY DEF AInv, Ordered, TypeOK, Delivery
<1>8. Ordered'
  BY <1>1, <1>2, <1>3, <1>4, <1>7 DEF AInv, Ordered
<1>9. Spaced'
  <2>1. \A x \in Begun : x \in Nat /\ x <= last.start
    BY <1>1, <1>7 DEF Begun
  <2>2. Begun' \subseteq Begun \union {clock}
    BY <1>2, <1>3 DEF Begun
  <2>3. \A x \in Begun : x # 0 => Apart(x, clock) /\ Apart(clock, x)
    BY <1>1, <1>4, <2>1 DEF Apart
  <2>4. Apart(clock, clock)
    BY <1>1 DEF Apart
  <2>5. \A x, y \in Begun' : x # 0 /\ y # 0 => Apart(x, y)
    BY <2>2, <2>3, <2>4 DEF AInv, Spaced
  <2> QED BY <1>2, <2>5 DEF AInv, Spaced, Apart
<1>10. Counted'
  BY <1>1, <1>2, <1>3, <1>4, <1>7 DEF AInv, Counted
<1>11. Explained'
  BY <1>2, <1>3 DEF Explained
<1> QED BY <1>5, <1>6, <1>8, <1>9, <1>10, <1>11 DEF AInv

(* Nothing new begins, and only what has begun is posted.                  *)
LEMMA StaysSpaced ==
  ASSUME AInv, Begun' \subseteq Begun, life' = life,
         \A p \in posted' : p \in posted \/ (p.life = life /\ p.start # 0 /\ p.start \in Begun)
  PROVE  Spaced'
<1>1. \A p \in posted : p.life = life => p.start \in Begun
  BY DEF Begun
<1> QED BY <1>1 DEF AInv, Spaced, Apart

(* What a delivery under way does, and what is done to it.                 *)
LEMMA Continues ==
  ASSUME AInv, NEW d \in deliveries,
         Post(d) \/ Succeed(d) \/ Fail(d) \/ TimeOut(d) \/ NextAttempt(d)
  PROVE  AInv'
<1> USE AlertsAssumption
<1>1. /\ d \in Delivery /\ d.start \in Nat /\ 0 < d.start /\ d.start <= last.start /\ last # None
      /\ d.start = last.start => d.attempt = last.attempts
      /\ last \in [start : Nat, attempts : 0..(Retries + 1)] /\ clock \in Nat /\ clock \in Int
      /\ d.attempt \in Nat /\ d.attempt <= Retries + 1 /\ d.attempt >= 1 /\ life \in 1..MaxLives
      /\ \A e \in deliveries : e \in Delivery /\ (e.start = d.start => e = d)
  BY DEF AInv, Ordered, TypeOK, Delivery, None, Start
<1>2. UNCHANGED <<clock, skew, life, lastSentAt>>
  BY DEF Post, Succeed, Fail, TimeOut, NextAttempt, env
<1>3. CASE Post(d)
  <2> DEFINE e == [d EXCEPT !.delivered = TRUE]
             p == [life |-> life, start |-> d.start, attempt |-> d.attempt, at |-> clock]
  <2>1. /\ e \in Delivery /\ e.start = d.start /\ e.attempt = d.attempt /\ e.delivered
        /\ e.phase = d.phase
        /\ p.life = life /\ p.start = d.start /\ p.attempt = d.attempt
        /\ p \in [life : 1..MaxLives, start : Nat, attempt : 1..(Retries + 1), at : Nat]
    BY <1>1 DEF Delivery
  <2>2. /\ posted' = posted \union {p} /\ deliveries' = (deliveries \ {d}) \union {e}
        /\ last' = last /\ ~d.delivered
    BY <1>3 DEF Post
  <2> HIDE DEF e, p
  <2>3. TypeOK' /\ Remembered'
    BY <1>1, <1>2, <2>1, <2>2 DEF AInv, TypeOK, Remembered, None
  <2>4. Ordered'
    BY <1>1, <1>2, <2>1, <2>2 DEF AInv, Ordered
  <2>5. Spaced'
    <3>1. Begun' \subseteq Begun
      BY <1>2, <2>1, <2>2 DEF Begun
    <3>2. d.start \in Begun
      BY DEF Begun
    <3> QED BY <1>1, <1>2, <2>1, <2>2, <3>1, <3>2, StaysSpaced
  <2>6. Counted'
    <3>1. \A q \in posted : q.life = life /\ q.start = d.start => q.attempt < d.attempt
      BY <2>2 DEF AInv, Counted
    <3>2. \A q \in posted : q.attempt \in Nat
      BY DEF AInv, TypeOK
    <3>3. \A q, s \in posted' :
            q.life = s.life /\ q.start = s.start /\ q.attempt = s.attempt => q = s
      BY <1>1, <2>1, <2>2, <3>1, <3>2 DEF AInv, Counted
    <3>4. \A q \in posted', f \in deliveries' :
            q.life = life /\ q.start = f.start =>
              q.attempt < f.attempt \/ (q.attempt = f.attempt /\ f.delivered)
      BY <1>1, <2>1, <2>2, <3>1 DEF AInv, Counted
    <3>5. \A f \in deliveries' : f.delivered => \E q \in posted' : q.life = life /\ q.start = f.start
      BY <2>1, <2>2 DEF AInv, Counted
    <3> QED BY <1>2, <3>3, <3>4, <3>5 DEF Counted
  <2>7. Explained'
    BY <1>2, <2>1, <2>2 DEF AInv, Explained
  <2> QED BY <2>3, <2>4, <2>5, <2>6, <2>7 DEF AInv
<1>4. CASE Succeed(d)
  <2>1. /\ deliveries' = deliveries \ {d} /\ last' = last /\ posted' = posted /\ d.delivered
    BY <1>4 DEF Succeed
  <2>2. TypeOK' /\ Remembered'
    BY <1>2, <2>1 DEF AInv, TypeOK, Remembered, None
  <2>3. Ordered' /\ Counted'
    BY <1>2, <2>1 DEF AInv, Ordered, Counted
  <2>4. Spaced'
    BY <1>2, <2>1, StaysSpaced DEF Begun
  <2>5. Explained'
    BY <1>2, <2>1 DEF AInv, Counted, Explained
  <2> QED BY <2>2, <2>3, <2>4, <2>5 DEF AInv
<1>5. CASE Fail(d) \/ TimeOut(d)
  <2>1. /\ last' = last /\ posted' = posted
        /\ \/ deliveries' = deliveries \ {d} /\ d.attempt = Retries + 1
           \/ \E e \in Delivery : /\ deliveries' = (deliveries \ {d}) \union {e}
                                 /\ e.start = d.start /\ e.attempt = d.attempt
                                 /\ e.delivered = d.delivered /\ e.attempt <= Retries
    <3>1. Backoff(d.attempt) \in Int
      BY <1>1 DEF Backoff
    <3> DEFINE due == clock + Backoff(d.attempt)
               e == [d EXCEPT !.phase = "backoff", !.due = due]
    <3>2. due \in Int
      BY <1>1, <3>1
    <3> HIDE DEF due
    <3>3. e \in Delivery /\ e.start = d.start /\ e.attempt = d.attempt /\ e.delivered = d.delivered
      BY <1>1, <3>2 DEF Delivery
    <3>4. deliveries' = (deliveries \ {d}) \union (IF d.attempt > Retries THEN {} ELSE {e})
      BY <1>5 DEF Fail, TimeOut, RetryOrGiveUp, due
    <3> HIDE DEF e
    <3>5. d.attempt > Retries => d.attempt = Retries + 1
      BY <1>1
    <3>6. ~(d.attempt > Retries) => d.attempt <= Retries
      BY <1>1
    <3> QED BY <1>5, <3>3, <3>4, <3>5, <3>6 DEF Fail, TimeOut
  <2>2. CASE deliveries' = deliveries \ {d} /\ d.attempt = Retries + 1
    <3>1. TypeOK' /\ Remembered'
      BY <1>2, <2>1, <2>2 DEF AInv, TypeOK, Remembered, None
    <3>2. Ordered' /\ Counted'
      BY <1>2, <2>1, <2>2 DEF AInv, Ordered, Counted
    <3>3. Spaced'
      BY <1>2, <2>1, <2>2, StaysSpaced DEF Begun
    <3>4. Explained'
      BY <1>1, <1>2, <2>1, <2>2 DEF AInv, Explained
    <3> QED BY <3>1, <3>2, <3>3, <3>4 DEF AInv
  <2>3. ASSUME NEW e \in Delivery, deliveries' = (deliveries \ {d}) \union {e},
               e.start = d.start, e.attempt = d.attempt, e.delivered = d.delivered,
               e.attempt <= Retries
        PROVE  AInv'
    <3>1. TypeOK' /\ Remembered'
      BY <1>2, <2>1, <2>3 DEF AInv, TypeOK, Remembered, None
    <3>2. Ordered'
      BY <1>1, <1>2, <2>1, <2>3 DEF AInv, Ordered
    <3>3. Counted'
      BY <1>1, <1>2, <2>1, <2>3 DEF AInv, Counted
    <3>4. Spaced'
      BY <1>2, <2>1, <2>3, StaysSpaced DEF Begun
    <3>5. Explained'
      BY <1>2, <2>1, <2>3 DEF AInv, Explained
    <3> QED BY <3>1, <3>2, <3>3, <3>4, <3>5 DEF AInv
  <2> QED BY <2>1, <2>2, <2>3
<1>6. CASE NextAttempt(d)
  <2> DEFINE e == Attempt(d.start, d.attempt + 1)
  <2>1. d.attempt + 1 <= Retries + 1
    BY <1>1, <1>6 DEF NextAttempt, AInv, Ordered
  <2>2. /\ e \in Delivery /\ e.start = d.start /\ e.attempt = d.attempt + 1 /\ e.delivered = FALSE
        /\ e.phase = "attempt"
    BY <1>1, <2>1 DEF Attempt, Delivery
  <2>3. /\ deliveries' = (deliveries \ {d}) \union {e} /\ posted' = posted
        /\ last' = IF last.start = d.start THEN [last EXCEPT !.attempts = @ + 1] ELSE last
    BY <1>6 DEF NextAttempt
  <2> HIDE DEF e
  <2>4. /\ last'.start = last.start /\ last' \in [start : Nat, attempts : 0..(Retries + 1)]
        /\ d.start = last.start => last'.attempts = d.attempt + 1
        /\ d.start # last.start => last' = last
        /\ last'.attempts > 0 \/ last' = last
    BY <1>1, <2>1, <2>3
  <2>5. TypeOK'
    BY <1>2, <2>2, <2>3, <2>4 DEF AInv, TypeOK
  <2>6. Remembered'
    BY <1>1, <1>2, <2>3, <2>4 DEF AInv, Remembered, None
  <2>7. Ordered'
    BY <1>1, <1>2, <2>2, <2>3, <2>4 DEF AInv, Ordered
  <2>8. Counted'
    BY <1>1, <1>2, <2>2, <2>3 DEF AInv, Counted, TypeOK
  <2>9. Spaced'
    BY <1>2, <2>2, <2>3, <2>4, StaysSpaced DEF Begun
  <2>10. Explained'
    <3>1. CASE d.start = last.start
      BY <2>2, <2>3, <2>4, <3>1 DEF Explained
    <3>2. CASE d.start # last.start
      BY <1>2, <2>2, <2>3, <2>4, <3>2 DEF AInv, Explained
    <3> QED BY <3>1, <3>2
  <2> QED BY <2>5, <2>6, <2>7, <2>8, <2>9, <2>10 DEF AInv
<1> QED BY <1>3, <1>4, <1>5, <1>6

LEMMA Stepwise == AInv /\ [Next]_vars => AInv'
<1> SUFFICES ASSUME AInv, [Next]_vars PROVE AInv'
  OBVIOUS
<1> USE AlertsAssumption
<1>1. ASSUME NEW status \in StatusCodes, IgnoreResponse(status) PROVE UNCHANGED vars
  BY <1>1 DEF IgnoreResponse
<1>2. CASE UNCHANGED vars
  BY <1>2 DEF vars, AInv, TypeOK, Remembered, Ordered, Spaced, Begun, Apart, Counted, Explained
<1>3. CASE Tick \/ ClockIsSet
  <2>1. UNCHANGED <<life, lastSentAt, deliveries, last, posted>>
    BY <1>3 DEF Tick, ClockIsSet
  <2>2. /\ clock' \in Start..(Start + Horizon) /\ skew' \in -MaxSkew..MaxSkew /\ clock <= clock'
        /\ clock \in Int /\ clock' \in Int
    BY <1>3 DEF Tick, ClockIsSet, AInv, TypeOK, Start
  <2>3. TypeOK'
    BY <2>1, <2>2 DEF AInv, TypeOK
  <2>4. Remembered'
    <3>1. last.start \in Int
      BY DEF AInv, TypeOK
    <3> QED BY <2>1, <2>2, <3>1 DEF AInv, Remembered
  <2>5. Ordered' /\ Spaced' /\ Counted' /\ Explained'
    BY <2>1 DEF AInv, Ordered, Spaced, Begun, Apart, Counted, Explained
  <2> QED BY <2>3, <2>4, <2>5 DEF AInv
<1>4. CASE Restart
  <2>1. /\ UNCHANGED <<clock, skew, posted>> /\ life' = life + 1 /\ life' \in 1..MaxLives
        /\ lastSentAt' = 0 /\ deliveries' = {} /\ last' = None
    BY <1>4 DEF Restart, AInv, TypeOK
  <2>2. \A p \in posted : p.life <= life /\ p.life \in Nat /\ p.life # life'
    BY <2>1 DEF AInv, Ordered, TypeOK
  <2>3. TypeOK' /\ Remembered'
    BY <2>1 DEF AInv, TypeOK, Remembered, None
  <2>4. Ordered' /\ Counted' /\ Explained'
    BY <2>1, <2>2 DEF AInv, Ordered, TypeOK, Counted, Explained
  <2>5. Begun' = {0}
    BY <2>1, <2>2 DEF Begun, None
  <2>6. Spaced'
    BY <2>1, <2>5 DEF AInv, Spaced, Apart
  <2> QED BY <2>3, <2>4, <2>6 DEF AInv
<1> QED BY <1>1, <1>2, <1>3, <1>4, Begins, Continues DEF Next

(* The invariant holds throughout, which all that follows rests on.        *)
THEOREM Inductive == Spec => []AInv
BY Initially, Stepwise, PTL DEF Spec

(* No delivery makes more attempts than it may, and none is on record that *)
(* was never begun.                                                        *)
THEOREM TypeCorrect == Spec => []TypeOK
BY Inductive, PTL DEF AInv

(* Silence is explained, whatever crashes and however the clock is set.    *)
THEOREM SilenceForAll == Spec => []SilenceIsExplained
<1>1. AInv => SilenceIsExplained
  <2> SUFFICES ASSUME AInv, (clock + skew) - lastSentAt < Throttle PROVE
        /\ last # None /\ clock < last.start + Throttle + 2 * MaxSkew
        /\ \/ \E d \in deliveries : d.start = last.start
           \/ \E p \in posted : p.life = life /\ p.start = last.start
           \/ last.attempts = Retries + 1
    BY DEF SilenceIsExplained, Throttled, Now
  <2>1. /\ clock \in Nat /\ Start <= clock /\ skew \in Int /\ -MaxSkew <= skew /\ lastSentAt \in Nat
        /\ last.start \in Nat /\ MaxSkew \in Nat /\ Throttle \in Nat
    <3>1. Start \in Nat /\ Start + Horizon \in Nat /\ MaxSkew \in Nat /\ Throttle \in Nat
      BY AlertsAssumption DEF Start
    <3>2. /\ clock \in Start..(Start + Horizon) /\ skew \in -MaxSkew..MaxSkew
          /\ lastSentAt \in Nat /\ last.start \in Nat
      BY DEF AInv, TypeOK
    <3> QED BY <3>1, <3>2
  <2>2. last # None
    BY <2>1 DEF AInv, Remembered, Start
  <2>3. clock < last.start + Throttle + 2 * MaxSkew
    BY <2>1, <2>2 DEF AInv, Remembered
  <2> QED BY <2>2, <2>3 DEF AInv, Explained
<1> QED BY <1>1, Inductive, PTL

(* Alerts are spaced and counted, for any number of retries.               *)
THEOREM SpacingForAll == Spec => []AlertsAreSpaced
<1>1. ASSUME AInv, NEW l, NEW start
      PROVE  Cardinality({q \in posted : q.life = l /\ q.start = start}) <= Retries + 1
  <2> DEFINE S == {q \in posted : q.life = l /\ q.start = start}
             f == [q \in S |-> q.attempt]
  <2>1. f \in [S -> 1..(Retries + 1)]
    BY <1>1 DEF AInv, TypeOK
  <2>2. \A p, q \in S : f[p] = f[q] => p = q
    <3>1. \A p, q \in S : p.attempt = q.attempt => p = q
      BY <1>1 DEF AInv, Counted
    <3> QED BY <3>1
  <2>3. f \in Injection(S, 1..(Retries + 1))
    BY <2>1, <2>2 DEF Injection, IsInjective
  <2>4. IsFiniteSet(1..(Retries + 1)) /\ Cardinality(1..(Retries + 1)) = Retries + 1
    BY AlertsAssumption, FS_Interval
  <2> HIDE DEF f, S
  <2>5. Cardinality(S) <= Retries + 1
    BY <2>3, <2>4, FS_Injection
  <2> QED BY <2>5 DEF S
<1>2. AInv => AlertsAreSpaced
  <2> SUFFICES ASSUME AInv, NEW p \in posted
               PROVE  LET same == {q \in posted : q.life = p.life} IN
                      /\ \A q \in same : p.start < q.start => p.start + Throttle <= q.start + 2 * MaxSkew
                      /\ Cardinality({q \in same : q.start = p.start}) <= Retries + 1
    BY DEF AlertsAreSpaced
  <2>1. {q \in {s \in posted : s.life = p.life} : q.start = p.start}
          = {q \in posted : q.life = p.life /\ q.start = p.start}
    OBVIOUS
  <2> QED BY <1>1, <2>1 DEF AInv, Spaced, Apart
<1> QED BY <1>2, Inductive, PTL

-----------------------------------------------------------------------------
(* How long a delivery has taken, at most, when attempt n times out.       *)
Spent(n) == n * WebhookTimeout + MinTimeout * (2^(n - 1) - 1)

(* No timer is overdue, and none is later than its attempt allows.         *)
Timely ==
  \A d \in deliveries :
    /\ clock <= d.due
    /\ d.phase = "attempt" => d.due <= d.start + Spent(d.attempt)
    /\ d.phase = "backoff" => d.due <= d.start + Spent(d.attempt) + Backoff(d.attempt)

(* The waits are a geometric series, and add up to what Lifetime says.     *)
LEMMA Spending ==
  ASSUME NEW n \in 1..(Retries + 1)
  PROVE  /\ Spent(n) \in Int /\ Backoff(n) \in Nat /\ Lifetime \in Nat /\ Backoff(n) > 0
         /\ Spent(1) = WebhookTimeout
         /\ Spent(n) <= Lifetime
         /\ n <= Retries => /\ Spent(n) + Backoff(n) + WebhookTimeout = Spent(n + 1)
                            /\ Spent(n) + Backoff(n) <= Lifetime
<1> USE AlertsAssumption
<1> DEFINE p == 2^(n - 1)
           q == 2^Retries
<1>1. n \in Nat /\ n - 1 \in Nat /\ n - 1 <= Retries /\ n - 1 + 1 = n
  OBVIOUS
<1>2. p \in Nat /\ q \in Nat /\ 1 <= p /\ p <= q /\ 2^n = 2 * p /\ 2^0 = 1
  BY <1>1, PowerGrows, PowerStep
<1>3. n <= Retries => 2 * p <= q
  BY <1>1, <1>2, PowerGrows
<1>4. /\ Spent(n) = n * WebhookTimeout + MinTimeout * (p - 1)
      /\ Backoff(n) = MinTimeout * p
      /\ Lifetime = (Retries + 1) * WebhookTimeout + MinTimeout * (q - 1)
  BY DEF Spent, Backoff, Lifetime
<1>5. Spent(n + 1) = (n + 1) * WebhookTimeout + MinTimeout * (2 * p - 1)
  <2>1. n + 1 - 1 = n
    BY <1>1
  <2> QED BY <1>2, <2>1 DEF Spent
<1>6. Spent(1) = WebhookTimeout
  <2>1. 1 - 1 = 0 /\ 1 * WebhookTimeout + MinTimeout * (1 - 1) = WebhookTimeout
    OBVIOUS
  <2> QED BY <1>2, <2>1 DEF Spent
<1> HIDE DEF p, q
<1>7. /\ MinTimeout * (p - 1) = MinTimeout * p - MinTimeout
      /\ MinTimeout * (q - 1) = MinTimeout * q - MinTimeout
      /\ MinTimeout * (2 * p - 1) = MinTimeout * p + MinTimeout * p - MinTimeout
      /\ (n + 1) * WebhookTimeout = n * WebhookTimeout + WebhookTimeout
  BY <1>1, <1>2
<1>8. /\ MinTimeout * p \in Nat /\ MinTimeout * q \in Nat /\ n * WebhookTimeout \in Nat
      /\ (Retries + 1) * WebhookTimeout \in Nat
  BY <1>1, <1>2
<1>9. n * WebhookTimeout <= (Retries + 1) * WebhookTimeout
  BY <1>1
<1>10. MinTimeout <= MinTimeout * p /\ MinTimeout * p <= MinTimeout * q
  BY <1>2
<1>11. n <= Retries => MinTimeout * p + MinTimeout * p <= MinTimeout * q
  <2>1. MinTimeout * (2 * p) = MinTimeout * p + MinTimeout * p
    BY <1>2
  <2>2. 2 * p <= q => MinTimeout * (2 * p) <= MinTimeout * q
    BY <1>2
  <2> QED BY <1>3, <2>1, <2>2
<1> QED BY <1>1, <1>4, <1>5, <1>6, <1>7, <1>8, <1>9, <1>10, <1>11

LEMMA StaysTimely == AInv /\ Timely /\ [Next]_vars => Timely'
<1> SUFFICES ASSUME AInv, Timely, [Next]_vars PROVE Timely'
  OBVIOUS
<1> USE AlertsAssumption
<1>1. clock \in Nat /\ \A d \in deliveries : /\ d \in Delivery /\ d.start \in Nat /\ d.due \in Int
                                             /\ d.attempt \in 1..(Retries + 1)
                                             /\ d.phase = "backoff" => d.attempt <= Retries
  BY DEF AInv, TypeOK, Ordered, Delivery, Start
<1>2. CASE \/ UNCHANGED vars \/ ClockIsSet \/ Restart
           \/ \E status \in StatusCodes : IgnoreResponse(status)
           \/ \E d \in deliveries : Succeed(d)
  <2>1. clock' = clock /\ deliveries' \subseteq deliveries
    BY <1>2 DEF vars, env, ClockIsSet, Restart, IgnoreResponse, Succeed
  <2> QED BY <2>1 DEF Timely
<1>3. CASE Tick
  BY <1>1, <1>3 DEF Tick, Timely
<1>4. ASSUME NEW status \in StatusCodes, OnResponse(status) PROVE Timely'
  <2>1. /\ Attempt(clock, 1).phase = "attempt" /\ Attempt(clock, 1).due = clock + WebhookTimeout
        /\ Attempt(clock, 1).start = clock /\ Attempt(clock, 1).attempt = 1
    BY DEF Attempt
  <2>2. clock' = clock /\ deliveries' = deliveries \union {Attempt(clock, 1)}
    BY <1>4 DEF OnResponse, env
  <2>3. Spent(1) = WebhookTimeout
    BY Spending
  <2> QED BY <1>1, <2>1, <2>2, <2>3 DEF Timely
<1>5. ASSUME NEW d \in deliveries, Post(d) PROVE Timely'
  <2> DEFINE e == [d EXCEPT !.delivered = TRUE]
  <2>1. /\ e.phase = d.phase /\ e.due = d.due /\ e.start = d.start /\ e.attempt = d.attempt
    BY <1>1 DEF Delivery
  <2>2. clock' = clock /\ deliveries' = (deliveries \ {d}) \union {e}
    BY <1>5 DEF Post, env
  <2> HIDE DEF e
  <2> QED BY <2>1, <2>2 DEF Timely
<1>6. ASSUME NEW d \in deliveries, Fail(d) \/ TimeOut(d) PROVE Timely'
  <2> DEFINE due == clock + Backoff(d.attempt)
             e == [d EXCEPT !.phase = "backoff", !.due = due]
  <2>1. /\ e.phase = "backoff" /\ e.due = due /\ e.start = d.start /\ e.attempt = d.attempt
    BY <1>1 DEF Delivery
  <2>2. clock' = clock /\ d.phase = "attempt"
    BY <1>6 DEF Fail, TimeOut, InAttempt, env
  <2>3. \A f \in deliveries' : f = e \/ f \in deliveries
    BY <1>6 DEF Fail, TimeOut, RetryOrGiveUp
  <2>4. clock <= due /\ due <= d.start + Spent(d.attempt) + Backoff(d.attempt)
    BY <1>1, <2>2, Spending DEF Timely
  <2> HIDE DEF e, due
  <2> QED BY <2>1, <2>2, <2>3, <2>4 DEF Timely
<1>7. ASSUME NEW d \in deliveries, NextAttempt(d) PROVE Timely'
  <2> DEFINE e == Attempt(d.start, d.attempt + 1)
  <2>1. /\ e.phase = "attempt" /\ e.due = clock + WebhookTimeout /\ e.start = d.start
        /\ e.attempt = d.attempt + 1
    BY DEF Attempt
  <2>2. /\ clock' = clock /\ deliveries' = (deliveries \ {d}) \union {e}
        /\ d.phase = "backoff" /\ clock >= d.due
    BY <1>7 DEF NextAttempt, env
  <2>3. /\ clock <= d.start + Spent(d.attempt) + Backoff(d.attempt) /\ d.attempt <= Retries
        /\ d.attempt \in Nat
    BY <1>1, <2>2, Spending DEF Timely
  <2>4. clock + WebhookTimeout <= d.start + Spent(d.attempt + 1)
    BY <1>1, <2>3, Spending
  <2> HIDE DEF e
  <2> QED BY <1>1, <2>1, <2>2, <2>4 DEF Timely
<1> QED BY <1>2, <1>3, <1>4, <1>5, <1>6, <1>7 DEF Next

LEMMA AlwaysTimely == Spec => []Timely
<1>1. Init => Timely
  BY DEF Init, Timely
<1> QED BY <1>1, Inductive, StaysTimely, PTL DEF Spec

LEMMA ShortNow == AInv /\ Timely => DeliveriesAreShort
<1> SUFFICES ASSUME AInv, Timely, NEW d \in deliveries PROVE clock <= d.start + Lifetime
  BY DEF DeliveriesAreShort
<1>1. /\ clock \in Nat /\ d.due \in Int /\ d.start \in Nat /\ d.attempt \in 1..(Retries + 1)
      /\ d.phase \in {"attempt", "backoff"} /\ (d.phase = "backoff" => d.attempt <= Retries)
  BY AlertsAssumption DEF AInv, TypeOK, Ordered, Delivery, Start
<1>2. d.due <= d.start + Lifetime
  BY <1>1, Spending DEF Timely
<1> QED BY <1>1, <1>2, Spending DEF Timely

(* A delivery is over by the end of its lifetime, for any timeouts and     *)
(* number of retries.                                                      *)
THEOREM ShortForAll == Spec => []DeliveriesAreShort
BY Inductive, AlwaysTimely, ShortNow, PTL

-----------------------------------------------------------------------------
(* The beginnings of the deliveries under way, and a reading of Date.now() *)
(* for each, which the throttle has kept an interval apart.                *)
Starts == {d.start : d \in deliveries}

Dates(sent, starts, latest) ==
  /\ \A s \in starts : s - MaxSkew <= sent[s] /\ sent[s] <= s + MaxSkew /\ sent[s] <= latest
  /\ \A s, t \in starts : s < t => sent[s] + Throttle <= sent[t]

Dated == \E sent \in [Starts -> Int] : Dates(sent, Starts, lastSentAt)

LEMMA StaysDated == AInv /\ Dated /\ [Next]_vars => Dated'
<1> SUFFICES ASSUME AInv, NEW sent \in [Starts -> Int], Dates(sent, Starts, lastSentAt), [Next]_vars PROVE Dated'
  BY DEF Dated
<1> USE AlertsAssumption
<1>1. ASSUME Starts' \subseteq Starts, lastSentAt' = lastSentAt \/ Starts' = {} PROVE Dated'
  <2> DEFINE f == [s \in Starts' |-> sent[s]]
  <2>1. f \in [Starts' -> Int]
    BY <1>1
  <2>2. Dates(f, Starts', lastSentAt')
    BY <1>1 DEF Dates
  <2> QED BY <2>1, <2>2 DEF Dated
<1>2. CASE UNCHANGED vars \/ Tick \/ ClockIsSet \/ Restart
  BY <1>1, <1>2 DEF vars, Tick, ClockIsSet, Restart, Starts
<1>3. ASSUME NEW status \in StatusCodes, IgnoreResponse(status) PROVE Dated'
  BY <1>1, <1>3 DEF IgnoreResponse, vars, Starts
<1>4. ASSUME NEW d \in deliveries,
             Post(d) \/ Succeed(d) \/ Fail(d) \/ TimeOut(d) \/ NextAttempt(d)
      PROVE  Dated'
  <2>1. lastSentAt' = lastSentAt /\ d \in Delivery
    BY <1>4 DEF Post, Succeed, Fail, TimeOut, NextAttempt, AInv, TypeOK
  <2>2. \A e \in deliveries' : e \in deliveries \/ e.start = d.start
    <3>1. CASE Post(d)
      BY <2>1, <3>1 DEF Post, Delivery
    <3>2. CASE Succeed(d)
      BY <3>2 DEF Succeed
    <3>3. CASE Fail(d) \/ TimeOut(d)
      <4>1. \A x, y : [d EXCEPT !.phase = x, !.due = y].start = d.start
        BY <2>1 DEF Delivery
      <4> QED BY <3>3, <4>1 DEF Fail, TimeOut, RetryOrGiveUp
    <3>4. CASE NextAttempt(d)
      BY <3>4 DEF NextAttempt, Attempt
    <3> QED BY <1>4, <3>1, <3>2, <3>3, <3>4
  <2>3. Starts' \subseteq Starts
    BY <2>2 DEF Starts
  <2> QED BY <1>1, <2>1, <2>3
<1>5. ASSUME NEW status \in StatusCodes, OnResponse(status) PROVE Dated'
  <2>1. /\ clock \in Nat /\ skew \in Int /\ -MaxSkew <= skew /\ skew <= MaxSkew
        /\ lastSentAt \in Nat /\ lastSentAt' = clock + skew
        /\ lastSentAt + Throttle <= clock + skew
    BY <1>5 DEF OnResponse, AInv, TypeOK, Start, Now, Throttled
  <2>2. Starts' = Starts \union {clock}
    <3>1. Attempt(clock, 1).start = clock
      BY DEF Attempt
    <3> QED BY <1>5, <3>1 DEF OnResponse, Starts
  <2>3. \A s \in Starts : s \in Nat /\ s < clock /\ sent[s] \in Int
    <3>1. \A s \in Starts : s \in Nat /\ 0 < s /\ s <= last.start /\ sent[s] \in Int
      BY DEF Starts, AInv, Ordered, TypeOK, Delivery
    <3>2. last = None => last.start = 0
      BY DEF None
    <3>3. last # None => last.start - MaxSkew <= lastSentAt /\ last.start \in Nat
      BY DEF AInv, Remembered, TypeOK
    <3>4. last # None => last.start < clock
      BY <2>1, <3>3
    <3> QED BY <2>1, <3>1, <3>2, <3>3, <3>4
  <2> DEFINE f == [s \in Starts' |-> IF s = clock THEN clock + skew ELSE sent[s]]
  <2>4. f \in [Starts' -> Int]
    BY <2>1, <2>2, <2>3
  <2>5. /\ f[clock] = clock + skew
        /\ \A s \in Starts : f[s] = sent[s]
    BY <2>2, <2>3
  <2> HIDE DEF f
  <2>6. Dates(f, Starts', lastSentAt')
    BY <2>1, <2>2, <2>3, <2>5 DEF Dates
  <2> QED BY <2>4, <2>6 DEF Dated
<1> QED BY <1>2, <1>3, <1>4, <1>5 DEF Next

LEMMA AlwaysDated == Spec => []Dated
<1>1. Init => Dated
  <2> SUFFICES ASSUME Init PROVE Dated
    OBVIOUS
  <2>1. Starts = {}
    BY DEF Init, Starts
  <2>2. [s \in {} |-> 0] \in [Starts -> Int] /\ Dates([s \in {} |-> 0], Starts, lastSentAt)
    BY <2>1 DEF Dates
  <2> QED BY <2>2 DEF Dated
<1> QED BY <1>1, Inductive, StaysDated, PTL DEF Spec

(* Numbers an interval apart fall into different intervals.                *)
LEMMA ApartDivide ==
  ASSUME NEW T \in Nat \ {0}, NEW x \in Nat, NEW y \in Nat
  PROVE  /\ x \div T \in Nat
         /\ x + T <= y => x \div T < y \div T
         /\ x <= y => x \div T <= y \div T
<1> DEFINE a == x \div T
           b == y \div T
<1>1. /\ a \in Int /\ b \in Int
      /\ T * a <= x /\ x < T * a + T
      /\ T * b <= y /\ y < T * b + T
  OBVIOUS
<1> HIDE DEF a, b
<1>2. 0 <= a
  <2>1. a < 0 => T * a <= -T
    BY <1>1
  <2> QED BY <1>1, <2>1
<1>3. x + T <= y => a < b
  <2>1. b <= a => T * b <= T * a
    BY <1>1
  <2> QED BY <1>1, <2>1
<1>4. x <= y => a <= b
  <2>1. b < a => T * b + T <= T * a
    BY <1>1
  <2> QED BY <1>1, <2>1
<1> QED BY <1>1, <1>2, <1>3, <1>4 DEF a, b

(* Deliveries do not pile up, for any timeouts, retries and interval, and  *)
(* a clock that is set within less than half an interval.                  *)
THEOREM PileForAll == Spec => []DeliveriesDoNotPileUp
<1>1. ASSUME AInv, Timely, Dated PROVE DeliveriesDoNotPileUp
  <2> USE AlertsAssumption
  <2>1. PICK sent \in [Starts -> Int] : Dates(sent, Starts, lastSentAt)
    BY <1>1 DEF Dated
  <2>2. Lifetime \in Nat
    BY Spending
  <2>3. clock \in Nat /\ \A d \in deliveries : d.start \in Nat /\ d.start <= clock
    <3>1. last = None => last.start = 0
      BY DEF None
    <3>2. last # None => last.start <= clock
      BY <1>1 DEF AInv, Remembered
    <3> QED BY <1>1, <3>1, <3>2 DEF AInv, TypeOK, Ordered, Delivery, Start
  <2> DEFINE span == Lifetime + 2 * MaxSkew
             base == clock - Lifetime - MaxSkew
             slot == [d \in deliveries |-> (sent[d.start] - base) \div Throttle]
             K == span \div Throttle
  <2>4. span \in Nat /\ base \in Int
    BY <2>2, <2>3
  <2>5. \A d \in deliveries : /\ sent[d.start] - base \in Nat
                              /\ sent[d.start] - base <= span
    <3>1. \A d \in deliveries : d.start \in Starts /\ sent[d.start] \in Int
      BY DEF Starts
    <3>2. \A d \in deliveries : /\ d.start - MaxSkew <= sent[d.start]
                                /\ sent[d.start] <= d.start + MaxSkew
      BY <2>1, <3>1 DEF Dates
    <3>3. \A d \in deliveries : clock <= d.start + Lifetime
      BY <1>1, ShortNow DEF DeliveriesAreShort
    <3> QED BY <2>2, <2>3, <3>1, <3>2, <3>3
  <2> HIDE DEF span, base
  <2>6. K \in Nat /\ \A d \in deliveries : slot[d] \in 0..K
    BY <2>4, <2>5, ApartDivide
  <2>7. \A d, e \in deliveries : slot[d] = slot[e] => d = e
    <3>1. SUFFICES ASSUME NEW d \in deliveries, NEW e \in deliveries, d.start < e.start
                   PROVE  slot[d] < slot[e]
      <4>1. \A d \in deliveries : slot[d] \in Nat
        BY <2>6
      <4>2. \A d, e \in deliveries : d.start = e.start => d = e
        BY <1>1 DEF AInv, Ordered
      <4> HIDE DEF slot
      <4> QED BY <2>3, <3>1, <4>1, <4>2
    <3>2. sent[d.start] + Throttle <= sent[e.start]
      BY <2>1, <3>1 DEF Dates, Starts
    <3>3. sent[d.start] \in Int /\ sent[e.start] \in Int
      BY DEF Starts
    <3>4. (sent[d.start] - base) + Throttle <= sent[e.start] - base
      BY <2>4, <3>2, <3>3
    <3> QED BY <2>5, <3>4, ApartDivide
  <2>8. IsFiniteSet(0..K) /\ Cardinality(0..K) = K + 1
    BY <2>6, FS_Interval
  <2> HIDE DEF slot, K
  <2>9. slot \in Injection(deliveries, 0..K)
    BY <2>6, <2>7 DEF Injection, IsInjective, slot
  <2>10. Cardinality(deliveries) <= K + 1
    BY <2>8, <2>9, FS_Injection
  <2> QED BY <2>10 DEF K, span, DeliveriesDoNotPileUp
<1> QED BY <1>1, Inductive, AlwaysTimely, AlwaysDated, PTL
=============================================================================
