--------------------------- MODULE MCModelChoice ---------------------------
(***************************************************************************)
(* The two parts that decide which model a turn may use.  They share no    *)
(* state, so a run explores one of them, chosen at the start, while the    *)
(* other stands still: the sum of their states and not the product.        *)
(***************************************************************************)
EXTENDS Naturals, TLC

CONSTANTS Threads, Models, MaxMoves, MaxFaults, MaxRestarts, MaxChanges, Workers

ASSUME ChoiceBounds == {MaxMoves, MaxFaults, MaxRestarts, MaxChanges} \subseteq Nat

VARIABLES
    part,
    balance, side, file, due, reqs, moves, faults, restarts,
    backend, tools, asked, inflight, probes, texts, changes, failures, lost

F == INSTANCE ModelFailover
P == INSTANCE ToolProbe WITH due <- asked, faults <- failures

fvars == <<balance, side, file, due, reqs, moves, faults, restarts>>
pvars == <<backend, tools, asked, inflight, probes, texts, changes, failures, lost>>
vars == <<part, fvars, pvars>>

Init == part \in {"failover", "probe"} /\ F!Init /\ P!Init

FailoverSteps == part = "failover" /\ F!Next /\ UNCHANGED <<part, pvars>>
ProbeSteps == part = "probe" /\ P!Next /\ UNCHANGED <<part, fvars>>

Next == FailoverSteps \/ ProbeSteps

Spec == Init /\ [][Next]_vars /\ (part = "failover" => F!Fairness) /\ (part = "probe" => P!Fairness)

(* Types, and at most one probe of a model at a time. *)
TypesOK == part \in {"failover", "probe"} /\ F!TypesOK /\ P!TypesOK /\ P!OneProbeEach

(* F!RestartKeepsSide: the file and the process agree on the side. *)
RestartKeepsSide == F!RestartKeepsSide

(* F!SettlesOnSide: the default follows the balance in the end. *)
SettlesOnSide == part = "failover" => F!SettlesOnSide

(* P!VerdictsRefresh: what a model's server does is known in the end. *)
VerdictsRefresh == part = "probe" => P!VerdictsRefresh
=============================================================================
