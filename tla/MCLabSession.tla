---------------------------- MODULE MCLabSession ----------------------------
(* Model values and symmetry for the TLC runs of LabSession. *)
EXTENDS LabSession, TLC

Symmetry == Permutations(Sessions) \cup Permutations(Requests) \cup Permutations(Keys)
=============================================================================
