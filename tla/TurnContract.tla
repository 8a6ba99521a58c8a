---------------------------- MODULE TurnContract ----------------------------
(***************************************************************************)
(* What a streamed chat turn promises its conversation and its budget,     *)
(* whatever its threads, its reader and its stores do: the turn has one    *)
(* outcome; only an answer is charged, once, before it is recorded; and    *)
(* what the conversation keeps of the turn is that outcome.                *)
(*                                                                         *)
(* Nothing here says that a turn is charged or recorded at all: a reader   *)
(* that goes away ends the turn where it stands (see TurnStream).          *)
(***************************************************************************)
CONSTANTS
    Turns,      \* the turns of one server
    Metered     \* those a signed-in user pays for

VARIABLES
    fate,       \* how the turn ended, once it has
    account,    \* whether its cost went to the user's day
    kept        \* what the conversation holds of it

vars == <<fate, account, kept>>

Fates == {"answered", "stopped", "failed"}

Init ==
    /\ fate = [t \in Turns |-> "pending"]
    /\ account = [t \in Turns |-> "open"]
    /\ kept = [t \in Turns |-> "nothing"]

Conclude(t) ==
    /\ fate[t] = "pending"
    /\ \E f \in Fates : fate' = [fate EXCEPT ![t] = f]
    /\ UNCHANGED <<account, kept>>

(* The ledger may refuse the write: accounting never costs the turn. *)
Settle(t) ==
    /\ fate[t] = "answered" /\ t \in Metered
    /\ account[t] = "open" /\ kept[t] = "nothing"
    /\ \E a \in {"charged", "lost"} : account' = [account EXCEPT ![t] = a]
    /\ UNCHANGED <<fate, kept>>

Keep(t) ==
    /\ fate[t] # "pending" /\ kept[t] = "nothing"
    /\ fate[t] = "answered" /\ t \in Metered => account[t] # "open"
    /\ kept' = [kept EXCEPT ![t] = fate[t]]
    /\ UNCHANGED <<fate, account>>

Next == \E t \in Turns : Conclude(t) \/ Settle(t) \/ Keep(t)

Spec == Init /\ [][Next]_vars
=============================================================================
