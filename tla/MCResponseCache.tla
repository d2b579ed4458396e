-------------------------- MODULE MCResponseCache --------------------------
(* Small instances of ResponseCache for TLC: requests that may and may not *)
(* use the cache, responses on both sides of every limit.                  *)
EXTENDS ResponseCache, TLC

Ask(accept, get, credentials, control) ==
  [url |-> "url", accept |-> accept, get |-> get, credentials |-> credentials,
   control |-> control]

MCAsks == {Ask("json", TRUE, FALSE, "none"), Ask("json", TRUE, FALSE, "no-cache"),
           Ask("html", TRUE, FALSE, "no-cache"),
           Ask("json", TRUE, TRUE, "none"), Ask("json", TRUE, FALSE, "no-store"),
           Ask("json", FALSE, FALSE, "none")}

Control(sMaxAge, maxAge) ==
  [sent |-> TRUE, forbids |-> FALSE, sMaxAge |-> sMaxAge, maxAge |-> maxAge]

Response(ok, vary, control, stream, size) ==
  [ok |-> ok, vary |-> vary, control |-> control, stream |-> stream, size |-> size]

MCResponses == {Response(TRUE, {"accept"}, Control(Unset, 1), FALSE, 1),
                Response(TRUE, {}, Control(3, 1), TRUE, 1),
                Response(TRUE, {}, Control(Unset, 1), TRUE, 2),
                Response(TRUE, {}, [Control(1, 1) EXCEPT !.forbids = TRUE], FALSE, 1),
                Response(TRUE, {"cookie"}, Control(1, 1), FALSE, 1)}

Symmetry == Permutations(Request)
=============================================================================
