------------------------ MODULE MCSessionDirectory ------------------------
(* Constants for TLC. *)
EXTENDS SessionDirectory, TLC

CONSTANTS t1, t2, t3

MCTurns == {t1, t2, t3}
Symmetry == Permutations(MCTurns)
============================================================================
