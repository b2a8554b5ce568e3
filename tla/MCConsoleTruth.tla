-------------------------- MODULE MCConsoleTruth --------------------------
(***************************************************************************)
(* An instance of ConsoleTruth: a verifier with two assertions about one   *)
(* command and one about another.                                          *)
(***************************************************************************)
EXTENDS ConsoleTruth, TLC

CONSTANTS a1, a2, a3, c1, c2

MCReads == (a1 :> c1) @@ (a2 :> c1) @@ (a3 :> c2)
=============================================================================
