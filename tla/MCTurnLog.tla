----------------------------- MODULE MCTurnLog -----------------------------
(* Small instances of TurnLog for TLC. *)
EXTENDS TurnLog, TLC

(* Two calls of one tool: they can return, or fail with, the same things. *)
SameTool == [c \in Calls |-> Contents \cup Errors]

(* A listing and a write: what each returns starts with its own name. *)
CONSTANTS list, write, listed, wrote, wrote2
OfItsOwn == (list :> {listed}) @@ (write :> {wrote, wrote2})
=============================================================================
