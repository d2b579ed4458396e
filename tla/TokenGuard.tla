----------------------------- MODULE TokenGuard -----------------------------
(***************************************************************************)
(* What a bearer-protected route promises, whatever the caching of         *)
(* decisions and the timing of introspection calls behind it:              *)
(*   - a request is let through only on a token the auth service honoured  *)
(*     at some instant of the last Window time units;                      *)
(*   - anything else is refused, and refusing is always permitted          *)
(*     (the guard fails closed).                                           *)
(* The auth service itself (who issues and revokes tokens, and when) is    *)
(* the environment of the guard.                                           *)
(***************************************************************************)
EXTENDS Integers

CONSTANTS
  Request,   \* the request slots of the gateway
  Token,     \* the bearer tokens clients may present
  NoToken,   \* no usable token in the Authorization header
  Window,    \* how long a revoked token may still be honoured
  Horizon    \* the last instant of the explored time line

VARIABLES
  clock,     \* Date.now()
  status,    \* the auth service's view of each token
  revokedAt, \* when a revoked token was revoked (0 before)
  holding,   \* the token each undecided request waits on, or NoToken
  verdict    \* each request's current outcome

vars == <<clock, status, revokedAt, holding, verdict>>

Verdicts == {"none", "pending", "allowed", "refused"}
Statuses == {"unissued", "active", "revoked"}

(* The service honours the token, or stopped doing so within the window.   *)
Honoured(t) ==
  \/ status[t] = "active"
  \/ status[t] = "revoked" /\ clock <= revokedAt[t] + Window

Init ==
  /\ clock = 0
  /\ status \in [Token -> {"unissued", "active"}]
  /\ revokedAt = [t \in Token |-> 0]
  /\ holding = [r \in Request |-> NoToken]
  /\ verdict = [r \in Request |-> "none"]

(* A request starts waiting for a decision on its token.                   *)
Ask(r, t) ==
  /\ verdict[r] # "pending"
  /\ holding' = [holding EXCEPT ![r] = t]
  /\ verdict' = [verdict EXCEPT ![r] = "pending"]
  /\ UNCHANGED <<clock, status, revokedAt>>

(* Let a request through: a waiting one on the token it waits on, a new    *)
(* one on the token it presents.                                           *)
Admit(r, t) ==
  /\ verdict[r] = "pending" => holding[r] = t
  /\ Honoured(t)
  /\ holding' = [holding EXCEPT ![r] = NoToken]
  /\ verdict' = [verdict EXCEPT ![r] = "allowed"]
  /\ UNCHANGED <<clock, status, revokedAt>>

Refuse(r) ==
  /\ holding' = [holding EXCEPT ![r] = NoToken]
  /\ verdict' = [verdict EXCEPT ![r] = "refused"]
  /\ UNCHANGED <<clock, status, revokedAt>>

-----------------------------------------------------------------------------
(* The environment: the auth service, and time.                            *)
Issue(t) ==
  /\ status[t] = "unissued"
  /\ status' = [status EXCEPT ![t] = "active"]
  /\ UNCHANGED <<clock, revokedAt, holding, verdict>>

Revoke(t) ==
  /\ status[t] = "active"
  /\ status' = [status EXCEPT ![t] = "revoked"]
  /\ revokedAt' = [revokedAt EXCEPT ![t] = clock]
  /\ UNCHANGED <<clock, holding, verdict>>

Tick ==
  /\ clock < Horizon
  /\ clock' = clock + 1
  /\ UNCHANGED <<status, revokedAt, holding, verdict>>

Next ==
  \/ \E r \in Request : Refuse(r) \/ \E t \in Token : Ask(r, t) \/ Admit(r, t)
  \/ \E t \in Token : Issue(t) \/ Revoke(t)
  \/ Tick

Spec == Init /\ [][Next]_vars
=============================================================================
