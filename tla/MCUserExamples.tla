--------------------------- MODULE MCUserExamples ---------------------------
(* Constants for TLC. *)
EXTENDS UserExamples, TLC

Symmetry == Permutations(Slots) \cup Permutations(Ids)
=============================================================================
