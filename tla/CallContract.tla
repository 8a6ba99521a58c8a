---------------------------- MODULE CallContract ----------------------------
(***************************************************************************)
(* What the bridge promises of the calls that a run's code makes, whatever *)
(* directories, lists and threads lie between the code and a capability: a *)
(* call is answered once, the answer is on record before the code has it   *)
(* and as the code has it, none is granted beyond the run's caps, and when *)
(* the run has returned its code asks and hears nothing more.              *)
(***************************************************************************)
EXTENDS Naturals, FiniteSets

CONSTANTS
    Calls,                          \* the calls the code may make
    What,                           \* What[c]: what call c asks for
    Kind,                           \* Kind[a]: the kind of what is asked for
    MaxCalls, MaxFetches, MaxRaw    \* caps of a run

VARIABLES
    asked,  \* the calls made
    entry,  \* entry[c]: the answer on record, or "none"
    heard,  \* heard[c]: the answer the code has, or "none"
    over    \* the run has returned

vars == <<asked, entry, heard, over>>

Init ==
    /\ asked = {} /\ over = FALSE
    /\ entry = [c \in Calls |-> "none"] /\ heard = [c \in Calls |-> "none"]

Answered == {c \in Calls : entry[c] # "none"}
Before(k) == Cardinality({c \in Answered : Kind[What[c]] = k})

WithinCaps(a) ==
    /\ Cardinality(Answered) < MaxCalls
    /\ Kind[a] = "fetch" => Before("fetch") < MaxFetches
    /\ Kind[a] = "raw" => Before("raw") < MaxRaw

Ask(c) ==
    /\ ~over /\ c \notin asked
    /\ asked' = asked \cup {c}
    /\ UNCHANGED <<entry, heard, over>>

Refuse(c) ==
    /\ c \in asked \ Answered
    /\ entry' = [entry EXCEPT ![c] = "refused"]
    /\ UNCHANGED <<asked, heard, over>>

Grant(c) ==
    /\ c \in asked \ Answered /\ WithinCaps(What[c])
    /\ entry' = [entry EXCEPT ![c] = "ok"]
    /\ UNCHANGED <<asked, heard, over>>

Hear(c) ==
    /\ ~over /\ heard[c] = "none" /\ c \in Answered
    /\ heard' = [heard EXCEPT ![c] = entry[c]]
    /\ UNCHANGED <<asked, entry, over>>

Return ==
    /\ ~over /\ over' = TRUE
    /\ UNCHANGED <<asked, entry, heard>>

Next ==
    \/ \E c \in Calls : Ask(c) \/ Refuse(c) \/ Grant(c) \/ Hear(c)
    \/ Return

Spec == Init /\ [][Next]_vars
=============================================================================
