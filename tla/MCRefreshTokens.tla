-------------------------- MODULE MCRefreshTokens --------------------------
(***************************************************************************)
(* Constants and symmetry for instances of RefreshTokens.                  *)
(***************************************************************************)
EXTENDS RefreshTokens, TLC

CONSTANTS t1, t2, t3, t4, b1, b2, r1, r2, r3

\* Every property is the same for all tokens, browsers and requests.
Symmetry == Permutations(Tokens) \cup Permutations(Browsers) \cup Permutations(Requests)
=============================================================================
