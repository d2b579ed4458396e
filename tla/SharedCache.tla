---------------------------- MODULE SharedCache ----------------------------
(***************************************************************************)
(* What any shared response cache promises to clients and upstreams, no    *)
(* matter how and where it keeps responses: a client that asks may be      *)
(* served a response that an upstream gave, to a question of the same URL  *)
(* and representation, at most Window ago; the response is whole, was      *)
(* given to a client without credentials, and was not withheld from        *)
(* caches.  Not serving, and forgetting, are always permitted.             *)
(***************************************************************************)
EXTENDS Integers

CONSTANTS
  Request,   \* requests that may be asking at the same time
  Asks,      \* what clients may ask
  Responses, \* what upstreams may answer
  MaxBody,   \* the largest body kept
  Delay,     \* from a response to the time it is kept, at most
  Window     \* from a response to its last use, at most

VARIABLES
  clock, \* time
  shelf, \* the responses that may be served
  client \* what each request is doing

vars == <<clock, shelf, client>>

Out == [doing |-> "nothing", ask |-> {}, got |-> {}]

Public(ask) == ask.get /\ ~ask.credentials /\ ask.control # "no-store"

(* A status other than 200, a dimension of Vary that the question does not *)
(* name, and the upstream's refusal each keep a response from the shelf.   *)
MayBeKept(ask, resp) ==
  /\ Public(ask)
  /\ resp.ok /\ ~resp.control.forbids
  /\ resp.vary \subseteq {"accept", "accept-encoding", "origin"}
  /\ resp.size <= MaxBody

SameQuestion(a, b) == a.url = b.url /\ a.accept = b.accept

Init ==
  /\ clock = 0
  /\ shelf = {}
  /\ client = [r \in Request |-> Out]

(* A client asks, and accepts a kept response.                             *)
Wonder(r, ask) ==
  /\ client[r].doing = "nothing"
  /\ Public(ask) /\ ask.control # "no-cache"
  /\ client' = [client EXCEPT ![r] = [doing |-> "asking", ask |-> {ask}, got |-> {}]]
  /\ UNCHANGED <<clock, shelf>>

Serve(r, k) ==
  /\ client[r].doing = "asking"
  /\ \A ask \in client[r].ask : SameQuestion(ask, k.ask)
  /\ clock <= k.made + Window
  /\ client' = [client EXCEPT ![r] = [doing |-> "served", ask |-> client[r].ask, got |-> {k}]]
  /\ shelf' \subseteq shelf
  /\ UNCHANGED clock

(* The client is served, or has to go to the upstream.                     *)
Leave(r) ==
  /\ client[r].doing # "nothing"
  /\ client' = [client EXCEPT ![r] = Out]
  /\ shelf' \subseteq shelf
  /\ UNCHANGED clock

(* A response is kept as a whole, soon after it was given.                 *)
Keep(ask, resp, made) ==
  /\ MayBeKept(ask, resp)
  /\ shelf' = shelf \union {[ask |-> ask, resp |-> resp, made |-> made, size |-> resp.size]}
  /\ UNCHANGED <<clock, client>>

Forget ==
  /\ shelf' \subseteq shelf
  /\ UNCHANGED <<clock, client>>

Pass ==
  /\ clock' = clock + 1
  /\ shelf' \subseteq shelf
  /\ UNCHANGED client

Next ==
  \/ Forget
  \/ Pass
  \/ \E r \in Request :
       \/ \E ask \in Asks : Wonder(r, ask)
       \/ \E k \in shelf : Serve(r, k)
       \/ Leave(r)
  \/ \E ask \in Asks, resp \in Responses, made \in (clock - Delay)..clock : Keep(ask, resp, made)

Spec == Init /\ [][Next]_vars
=============================================================================
