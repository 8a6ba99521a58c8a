----------------------------- MODULE ToolBridge -----------------------------
(***************************************************************************)
(* The bridge through which sandboxed code calls the agent's capabilities  *)
(* (src/agent_runtime/tool_bridge.py), for the length of one run: the      *)
(* program writes a request into one directory and polls another; a thread *)
(* of the agent lists the requests, serves them one by one and writes the  *)
(* answers.  When the run is over it is told to stop, waited for half a    *)
(* minute, and its directories are removed (code_execution.py).            *)
(*                                                                         *)
(* Any step of the thread may come after that: it has looked whether to     *)
(* stop and lists, has read a request, is with a capability, or writes.     *)
(***************************************************************************)
EXTENDS CodeRun, TileSearch

CONSTANTS
    Setups,     \* the settings of the review and of the bridge ("on", "off")
    Calls,      \* the calls the program may make
    Args,       \* functions with their arguments
    What,       \* What[c]: the function and arguments of call c
    Kind,       \* Kind[a]: "fetch", "raw", "search" or "other"
    Size,       \* Size[a]: bytes of the file an answer brings
    Maps,       \* what the map service may hold and how it may fail
    NoCall,
    MaxCalls, MaxFetches, MaxRaw, MaxBytes  \* per run

ASSUME BridgeConstants ==
    /\ Setups \subseteq Modes \X {"off", "on"}
    /\ What \in [Calls -> Args] /\ NoCall \notin Calls /\ IsFiniteSet(Calls)
    /\ Kind \in [Args -> {"fetch", "raw", "search", "other"}] /\ Size \in [Args -> Nat]
    /\ {MaxCalls, MaxFetches, MaxRaw, MaxBytes} \subseteq Nat
    /\ \A map \in Maps : IsFiniteSet(DOMAIN map.at)
                         /\ \A f \in DOMAIN map.at : map.at[f] \subseteq Int \X Int

VARIABLES
    bridge,   \* "off", "on", "stopping" (its event is set), "closed" (directories removed)
    client,   \* client[c]: "none", "waiting", "gave_up", or the answer it read
    inbox,    \* requests in the directory
    batch,    \* those the thread has listed and not yet served
    serving,  \* the call it serves
    stage,    \* "idle", "listing", "taken", "handling", "handled", "noted", "ended"
    found,    \* what the call it serves came to: "none", "refused", "ok", or "short", an
              \* answer that claims more than it has
    noted,    \* noted[c]: the answer on the run's list
    given,    \* given[c]: the answer in the directory
    bytes,    \* bytes handed to this run
    memo,     \* what the conversation keeps the answer of
    late      \* history: the requests it took up after the run had returned

files  == <<inbox, given>>
thread == <<batch, serving, stage>>
ledger == <<found, noted, bytes, memo, late>>
channel == <<bridge, client, files, thread, ledger>>

NoAnswers == [c \in Calls |-> "none"]

BridgeInit ==
    /\ Init /\ \E b \in {"off", "on"} : bridge = b /\ <<mode, b>> \in Setups
    /\ client = NoAnswers /\ noted = NoAnswers /\ given = NoAnswers
    /\ inbox = {} /\ batch = {} /\ serving = NoCall /\ stage = "idle" /\ found = "none"
    /\ bytes = 0 /\ memo \in SUBSET Args /\ late = {}

-----------------------------------------------------------------------------
(* The program.                                                            *)

Mounted == container = "running" /\ bridge \in {"on", "stopping"}

Asks(c) ==
    /\ Mounted /\ client[c] = "none"
    /\ client' = [client EXCEPT ![c] = "waiting"] /\ inbox' = inbox \cup {c}
    /\ UNCHANGED <<bridge, given, thread, ledger>>

Reads(c) ==
    /\ Mounted /\ client[c] = "waiting" /\ given[c] # "none"
    /\ client' = [client EXCEPT ![c] = given[c]]
    /\ UNCHANGED <<bridge, files, thread, ledger>>

(* IGUIDE_BRIDGE_TIMEOUT; the request stays where it is. *)
GivesUp(c) ==
    /\ container = "running" /\ client[c] = "waiting"
    /\ client' = [client EXCEPT ![c] = "gave_up"]
    /\ UNCHANGED <<bridge, files, thread, ledger>>

-----------------------------------------------------------------------------
(* The agent's thread.                                                     *)

(* The event is looked at only between two lists. *)
Looks ==
    /\ stage = "idle" /\ batch = {}
    /\ stage' = IF bridge = "on" THEN "listing" ELSE "ended"
    /\ bridge # "off"
    /\ UNCHANGED <<bridge, client, files, batch, serving, ledger>>

Lists ==
    /\ stage = "listing" /\ stage' = "idle"
    /\ batch' = inbox
    /\ UNCHANGED <<bridge, client, files, serving, ledger>>

(* Earlier calls of this run of one kind, the refused ones included. *)
Served == {c \in Calls : noted[c] # "none"}
Earlier(k) == Cardinality({c \in Served : Kind[What[c]] = k})

Allowed(a) ==
    /\ Cardinality(Served) < MaxCalls
    /\ Kind[a] = "fetch" => Earlier("fetch") < MaxFetches
    /\ Kind[a] = "raw" => Earlier("raw") < MaxRaw

(* _materialise: a file is counted, then copied, within the run's bytes and *)
(* while there is a directory to copy it to; the copy can fail.             *)
Hands(c, reply) ==
    LET size == Size[What[c]]
        fits == bytes + size <= MaxBytes
    IN /\ bytes' = IF fits THEN bytes + size ELSE bytes
       /\ \/ found' = reply /\ fits /\ (size > 0 => bridge # "closed")
          \/ found' = "refused" /\ (fits => size > 0)

(* A request is read, or is not there, and removed. *)
Takes(c, there) ==
    /\ stage = "idle" /\ c \in batch
    /\ batch' = batch \ {c} /\ serving' = c /\ stage' = "taken"
    /\ found' = IF there THEN "none" ELSE "refused"
    /\ late' = IF pc = "returned" THEN late \cup {c} ELSE late
    /\ UNCHANGED <<bridge, client, given, noted, bytes, memo>>

(* Faulty: a request is served as it was listed, there or not. *)
PicksListed(c) == Takes(c, TRUE) /\ inbox' = inbox \ {c}

(* Faulty: a request that is read stays in the directory. *)
PicksKeeping(c) == Takes(c, c \in inbox) /\ inbox' = inbox

(* _serve and _read_request. *)
Picks(c) == Takes(c, c \in inbox) /\ inbox' = inbox \ {c}

(* One that the code wrote by itself under a malformed name is dropped. *)
Drops(c) ==
    /\ stage = "idle" /\ c \in batch
    /\ batch' = batch \ {c} /\ inbox' = inbox \ {c}
    /\ UNCHANGED <<bridge, client, given, serving, stage, ledger>>

(* _dispatch: what could not be read or is over a cap is refused, what was  *)
(* answered before is answered again, the rest goes to its capability.      *)
Begins ==
    LET a == What[serving]
        admitted == found = "none" /\ Allowed(a)
    IN /\ stage = "taken"
       /\ \/ /\ admitted /\ a \notin memo
             /\ stage' = "handling" /\ UNCHANGED <<found, bytes>>
          \/ /\ admitted /\ a \in memo
             /\ stage' = "handled" /\ Hands(serving, "ok")
          \/ /\ ~admitted
             /\ stage' = "handled" /\ found' = "refused" /\ UNCHANGED bytes
       /\ UNCHANGED <<bridge, client, files, batch, serving, noted, memo, late>>

(* What a capability may come back with; for the paged search, by what the *)
(* service holds and which of its asks fail.                               *)
Reply(end) == IF end \in {"refused", "short"} THEN end ELSE "ok"
SearchReplies == {Reply(SearchOutcome(map)) : map \in Maps}
Replies(a) == IF Kind[a] = "search" THEN SearchReplies ELSE {"refused", "ok"}

(* The capability returns; what it found is kept for the conversation, then *)
(* handed to this run.                                                      *)
Returns ==
    /\ stage = "handling" /\ stage' = "handled"
    /\ \E reply \in Replies(What[serving]) :
          \/ reply = "refused" /\ found' = "refused" /\ UNCHANGED <<bytes, memo>>
          \/ reply # "refused" /\ memo' = memo \cup {What[serving]} /\ Hands(serving, reply)
    /\ UNCHANGED <<bridge, client, files, batch, serving, noted, late>>

Told == IF found = "refused" THEN "refused" ELSE "ok"

(* Faulty: only what was answered goes on record. *)
NotesAnswers ==
    /\ stage = "handled" /\ stage' = "noted"
    /\ noted' = IF Told = "ok" THEN [noted EXCEPT ![serving] = Told] ELSE noted
    /\ UNCHANGED <<bridge, client, files, batch, serving, found, bytes, memo, late>>

(* The run's list; the turn's log comes after it, and may fail unnoticed. *)
Notes ==
    /\ stage = "handled" /\ stage' = "noted"
    /\ noted' = [noted EXCEPT ![serving] = Told]
    /\ UNCHANGED <<bridge, client, files, batch, serving, found, bytes, memo, late>>

(* An answer that cannot be written ends the thread. *)
Responds ==
    /\ stage = "noted" /\ serving' = NoCall /\ found' = "none"
    /\ \/ bridge # "closed" /\ given' = [given EXCEPT ![serving] = Told] /\ stage' = "idle"
       \/ stage' = "ended" /\ UNCHANGED given
    /\ UNCHANGED <<bridge, client, inbox, batch, noted, bytes, memo, late>>

(* MEMO_TTL_S, or pushed out by others. *)
Forgets(a) ==
    /\ a \in memo /\ memo' = memo \ {a}
    /\ UNCHANGED <<bridge, client, files, thread, found, noted, bytes, late>>

-----------------------------------------------------------------------------
(* The run.                                                                *)

StopsBridge ==
    /\ pc = "over" /\ bridge = "on"
    /\ bridge' = "stopping"
    /\ UNCHANGED <<client, files, thread, ledger>>

(* The thread is waited for, but not for long; then the directories go. *)
Closes ==
    /\ bridge = "stopping"
    /\ bridge' = "closed" /\ inbox' = {} /\ given' = NoAnswers
    /\ UNCHANGED <<client, thread, ledger>>

(* execute returns once its bridge is closed. *)
Within(step) == step /\ (pc = "over" /\ pc' = "returned" => bridge \in {"off", "closed"})
                     /\ UNCHANGED channel

Serves ==
    \/ Looks \/ Lists \/ Begins \/ Returns \/ Notes \/ Responds
    \/ \E c \in Calls : Picks(c) \/ Drops(c)

BridgeNext ==
    \/ Within(Next)
    \/ /\ \/ \E c \in Calls : Asks(c) \/ Reads(c) \/ GivesUp(c)
          \/ Serves \/ (\E a \in Args : Forgets(a))
          \/ StopsBridge \/ Closes
       /\ UNCHANGED vars

allvars == <<vars, channel>>

(* The run's thread goes on; a capability need not return. *)
BridgeSpec ==
    /\ BridgeInit /\ [][BridgeNext]_allvars
    /\ WF_allvars(Within(Loop)) /\ WF_allvars(Within(Passes))
    /\ WF_allvars((StopsBridge \/ Closes) /\ UNCHANGED vars)

-----------------------------------------------------------------------------
(* Properties.                                                             *)

(* What the code was told is on the run's list as it was told, whenever the *)
(* run ends: no figure comes from data nobody names.                        *)
AnswersOnRecord ==
    \A c \in Calls : client[c] \in {"ok", "refused"} => noted[c] = client[c]

(* The thread may outlive its run, and the request it had read by then may  *)
(* still go to a capability.  No other does, whatever it had listed: what it *)
(* takes up after the run has returned is not there any more.               *)
LateAreRefused == stage = "handling" => serving \notin late

(* A paged search that says it is complete has every feature of the region  *)
(* that can be drawn, whichever asks failed, however the boxes were split   *)
(* and whatever cap ended it, unless an answer withheld some: by a full page *)
(* that counted as less because some of it cannot be drawn, or by a relation *)
(* found by its name.                                                       *)
CompleteMeansAll == found # "short"

Heard == [c \in Calls |-> IF client[c] \in {"ok", "refused"} THEN client[c] ELSE "none"]

Contract == INSTANCE CallContract WITH
    asked <- {c \in Calls : client[c] # "none"}, entry <- noted, heard <- Heard,
    over <- (pc = "returned")

(* Two directories, a list made of one of them and a thread that outlives   *)
(* the run come to this: each call is answered once and within the caps, on *)
(* record before the code hears it, and never to a run that has returned.   *)
KeepsCalls == Contract!Spec
=============================================================================
