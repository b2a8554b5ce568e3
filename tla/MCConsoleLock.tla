--------------------------- MODULE MCConsoleLock ----------------------------
(* Model values and symmetry for the TLC runs of ConsoleLock. *)
EXTENDS ConsoleLock, TLC

Symmetry == Permutations(Nodes) \cup Permutations(Consoles) \cup Permutations(Verifies)
=============================================================================
