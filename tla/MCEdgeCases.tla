---------------------------- MODULE MCEdgeCases ----------------------------
(* Bounded sets of inputs for TLC.                                         *)
EXTENDS EdgeCases

(* User lists of up to two entries, and headers that match, nearly match   *)
(* or do not match them.                                                   *)
UserEntries ==
  {<<"">>, <<"ann">>, <<"ann", "">>, <<"", "p">>, <<"ann", "p">>, <<"ann", "q">>,
   <<"ann", "p", "q">>, <<"bob", "", "">>, <<"bob", TimingEqualizer[1]>>}

MCUserLists == UNION {[1..n -> UserEntries] : n \in 0..2}

MCHeaderTexts == UserEntries \union {<<"eve", TimingEqualizer[1]>>, <<"", "">>}

(* Lists of one entry per family and prefix, one a typo away from another. *)
Entry(family, value, slash, bits) ==
  [family |-> family, value |-> value, slash |-> slash, bits |-> bits]

MCIpLists ==
  {{}} \union
  {{Entry(family, value, slash, bits)} :
     family \in {"v4", "v6"}, value \in {0, 3}, slash \in {"none", "blank", "other"}, bits \in {0}}
  \union
  {{Entry(family, value, "digits", bits)} :
     family \in {"v4", "v6"}, value \in {0, 3}, bits \in -1..4}

MCChains == {<<>>, <<"proxy">>, <<"claimed", "proxy">>}
=============================================================================
