----------------------------- MODULE MCApiTokens -----------------------------
(* Small instances of ApiTokens for TLC.                                   *)
EXTENDS ApiTokens, TLC

\* Nothing tells the members of a set apart.
Symmetry == Permutations(Token) \cup Permutations(Request) \cup Permutations(Environment)
=============================================================================
