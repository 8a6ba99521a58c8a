---------------------------- MODULE ModelFailover ----------------------------
(***************************************************************************)
(* The default model moves off NCSA Lumen while its coin pool runs low and *)
(* back when it is refilled (src/agent_runtime/lumen_failover.py).  Threads *)
(* of the one server process ask for the default, at most one a minute of  *)
(* them reads the balance, and every Lumen turn reads it when it ends.  The *)
(* balance is read outside the lock; the side is kept in a file.           *)
(*                                                                         *)
(* Of the balance it matters whether it is at or past the point to switch, *)
(* at or past the point to return, between the two, or unknown.            *)
(***************************************************************************)
EXTENDS Naturals

CONSTANTS
    Threads,     \* request threads
    MaxMoves,    \* bound: changes of the balance
    MaxFaults,   \* bound: readings of the balance or the file, and writes, that fail
    MaxRestarts  \* bound: restarts of the process

VARIABLES
    balance,   \* how much of the pool is used: "low", "band", "high"
    side,      \* _state: "unread", "lumen", "fallback"
    file,      \* the state file: "none" or the side it names
    due,       \* the last check is a minute old
    reqs,      \* reqs[t]: where each thread stands, and what it read
    moves, faults, restarts

vars == <<balance, side, file, due, reqs, moves, faults, restarts>>

Levels == {"low", "band", "high"}
Sides == {"lumen", "fallback"}
Idle == [pc |-> "idle", read |-> "unknown"]

TypesOK ==
    /\ balance \in Levels /\ side \in Sides \cup {"unread"} /\ file \in Sides \cup {"none"}
    /\ due \in BOOLEAN
    /\ reqs \in [Threads -> [pc : {"idle", "reading", "observing"}, read : Levels \cup {"unknown"}]]
    /\ moves \in 0 .. MaxMoves /\ faults \in 0 .. MaxFaults /\ restarts \in 0 .. MaxRestarts

Init ==
    /\ balance \in Levels /\ side = "unread" /\ file = "none" /\ due = TRUE
    /\ reqs = [t \in Threads |-> Idle]
    /\ moves = 0 /\ faults = 0 /\ restarts = 0

(* No file starts on Lumen. *)
InFile == IF file = "none" THEN "lumen" ELSE file

(* _load: read once per process, under the lock; what cannot be read starts *)
(* on Lumen, whatever it says.                                              *)
Loaded == IF side # "unread" THEN {side} ELSE {InFile, "lumen"}

Misread(now) == IF side = "unread" /\ now # InFile THEN 1 ELSE 0

Fault(n) == faults + n <= MaxFaults /\ faults' = faults + n

(* failed_over: the side there is, or a check that is due. *)
Asks(t) ==
    /\ reqs[t].pc = "idle"
    /\ \E now \in Loaded : side' = now /\ Fault(Misread(now))
    /\ due' = FALSE
    /\ reqs' = [reqs EXCEPT ![t].pc = IF due THEN "reading" ELSE "idle"]
    /\ UNCHANGED <<balance, file, moves, restarts>>

(* turn_usage: a turn that used Lumen reads the balance at its end. *)
TurnEnds(t) ==
    /\ reqs[t].pc = "idle"
    /\ reqs' = [reqs EXCEPT ![t].pc = "reading"]
    /\ UNCHANGED <<balance, side, file, due, moves, faults, restarts>>

(* coins_available: a request that may fail. *)
Reads(t) ==
    /\ reqs[t].pc = "reading"
    /\ \E known \in BOOLEAN :
          /\ reqs' = [reqs EXCEPT ![t] =
                [pc |-> "observing", read |-> IF known THEN balance ELSE "unknown"]]
          /\ Fault(IF known THEN 0 ELSE 1)
    /\ UNCHANGED <<balance, side, file, due, moves, restarts>>

(* Faulty: nothing brings the default back. *)
SideSticks(current, read) == IF read = "high" THEN "fallback" ELSE current

(* The side after a reading: it stays in the band, and when nothing is known. *)
SideAfter(current, read) ==
    CASE read = "high" -> "fallback" [] read = "low" -> "lumen" [] OTHER -> current

(* Faulty: only the way to the fallback is written. *)
SavesOneWay(before, after) == before = "lumen" /\ after = "fallback"

(* A change of side is written. *)
Saves(before, after) == before # after

(* observe: what is loaded, the reading applied, a write that may fail. *)
Observes(t) ==
    /\ reqs[t].pc = "observing"
    /\ \E now \in Loaded, written \in BOOLEAN :
          LET after == SideAfter(now, reqs[t].read)
              turns == Saves(now, after) IN
          /\ side' = after
          /\ file' = IF turns /\ written THEN after ELSE file
          /\ Fault(Misread(now) + IF turns /\ ~written THEN 1 ELSE 0)
    /\ reqs' = [reqs EXCEPT ![t] = Idle]
    /\ UNCHANGED <<balance, due, moves, restarts>>

MinutePasses ==
    /\ ~due /\ due' = TRUE
    /\ UNCHANGED <<balance, side, file, reqs, moves, faults, restarts>>

BalanceMoves ==
    /\ moves < MaxMoves /\ moves' = moves + 1
    /\ balance' \in Levels \ {balance}
    /\ UNCHANGED <<side, file, due, reqs, faults, restarts>>

Restart ==
    /\ restarts < MaxRestarts /\ restarts' = restarts + 1
    /\ side' = "unread" /\ due' = TRUE
    /\ reqs' = [t \in Threads |-> Idle]
    /\ UNCHANGED <<balance, file, moves, faults>>

Step(t) == Asks(t) \/ TurnEnds(t) \/ Reads(t) \/ Observes(t)

Next == (\E t \in Threads : Step(t)) \/ MinutePasses \/ BalanceMoves \/ Restart

(* Requests keep coming and end; time passes. *)
Fairness ==
    /\ \A t \in Threads : WF_vars(Reads(t)) /\ WF_vars(Observes(t)) /\ WF_vars(Asks(t))
    /\ WF_vars(MinutePasses)

Spec == Init /\ [][Next]_vars /\ Fairness

(* The file and the process name one side, so that a restart goes on with   *)
(* it, also where the balance would not decide.                             *)
RestartKeepsSide ==
    faults = 0 /\ side # "unread" => side = InFile

(* Whatever older readings are applied late, whatever fails and restarts,   *)
(* a balance that stays past a threshold has the default on its side in the *)
(* end, and there it stays.                                                 *)
SettlesOnSide ==
    /\ <>[](balance = "high") => <>[](side = "fallback")
    /\ <>[](balance = "low") => <>[](side = "lumen")
=============================================================================
