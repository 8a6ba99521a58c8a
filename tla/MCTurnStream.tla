--------------------------- MODULE MCTurnStream ---------------------------
(* Small instances of TurnStream for TLC. *)
EXTENDS TurnStream, TLC

CONSTANTS t1, t2, alice

(* alice's turn, recorded for good, beside one that nobody signed in began. *)
OneEach == (t1 :> alice) @@ (t2 :> Anyone)
OwnTurn == (t1 :> alice)
=============================================================================
