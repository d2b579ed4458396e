---------------------------- MODULE MCBearerAuth ----------------------------
(* Small instances of BearerAuth for TLC.                                  *)
EXTENDS BearerAuth, TLC

Symmetry == Permutations(Request) \union Permutations(Token)
=============================================================================
