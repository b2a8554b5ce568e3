--------------------------- MODULE MCEntitlement ---------------------------
(***************************************************************************)
(* Constants for instances of Entitlement.                                 *)
(***************************************************************************)
EXTENDS Entitlement

CONSTANTS s1, l1
=============================================================================
