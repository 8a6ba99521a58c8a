----------------------------- MODULE TurnStream -----------------------------
(***************************************************************************)
(* A streamed chat turn: its handle (agent_runtime/turn_control.py), the   *)
(* worker thread that runs the agent and the generator that relays its     *)
(* events (graph_runtime.py: stream_agent_query_events), and what the      *)
(* service does once the events have ended (agent_chat_service.py:         *)
(* stream_agent_chat_events): charge the turn, store its trace, record it, *)
(* answer or raise.                                                        *)
(*                                                                         *)
(* The reader of a turn is the request thread: the two generators and the  *)
(* client pulling them.  It can leave only where a generator is suspended  *)
(* at a yield.  Another request thread may stop the turn by its id.        *)
(***************************************************************************)
EXTENDS Naturals, Sequences, SequencesExt

CONSTANTS
    Turns,              \* the turns of one server process
    Users,              \* callers who may ask to stop a turn
    Anyone,             \* the owner of a turn begun with no identity
    Owner,              \* who began each turn
    Metered,            \* turns with a signed-in user and a usage record
    Persistent,         \* turns recorded in the persistent memory
    Named,              \* turns begun with a conversation's id
    Outlasting,         \* turns that may run past _MAX_AGE_S
    CancelOnDisconnect  \* AGENT_CANCEL_ON_DISCONNECT

ASSUME StreamConstants ==
    /\ Owner \in [Turns -> Users \cup {Anyone}]
    /\ Metered \subseteq Turns /\ Persistent \subseteq Turns
    /\ Named \subseteq Turns /\ \A t \in Turns : Owner[t] # Anyone => t \in Named
    /\ Outlasting \subseteq Turns
    /\ CancelOnDisconnect \in BOOLEAN

VARIABLES
    table,      \* _TURNS: the turns whose handle can be found
    old,        \* those of them registered more than _MAX_AGE_S ago
    stopped,    \* the turns whose event is set
    held,       \* the handle each stop request has looked up and not yet set
    worker,     \* the worker thread of each turn
    outbox,     \* its queue of events
    failed,     \* worker_error holds an exception
    reader,     \* where the request thread stands
    got,        \* the outcomes it has been handed
    account,    \* whether the cost went to the user's day
    kept        \* what the conversation holds of the turn

stops   == <<table, old, stopped, held>>
work    == <<worker, outbox, failed>>
books   == <<account, kept>>
vars    == <<stops, work, reader, got, books>>

Outcomes == {"completed", "cancelled", "error"}
Items    == Outcomes \cup {"done"}
Alive    == {"between", "calling", "composed", "failing", "closing", "closed"}

(* The reader past the relay of the worker's events. *)
Past == {"finished", "traced", "settling", "unsaved", "session", "recorded",
         "responded", "raised"}

Init ==
    /\ table = {} /\ old = {} /\ stopped = {}
    /\ held = [u \in Users |-> {}]
    /\ worker = [t \in Turns |-> "none"]
    /\ outbox = [t \in Turns |-> <<>>]
    /\ failed = {}
    /\ reader = [t \in Turns |-> "absent"]
    /\ got = [t \in Turns |-> {}]
    /\ account = [t \in Turns |-> "open"]
    /\ kept = [t \in Turns |-> "nothing"]

To(t, place)  == reader' = [reader EXCEPT ![t] = place]
Put(t, item)  == outbox' = [outbox EXCEPT ![t] = Append(@, item)]
Work(t, state) == worker' = [worker EXCEPT ![t] = state]

-----------------------------------------------------------------------------
(* The handle *)

(* begin: a new handle, and the table rid of those that are too old. *)
Begin(t) ==
    /\ reader[t] = "absent"
    /\ table' = (table \ old) \cup {t}
    /\ old' = {}
    /\ To(t, "opening")
    /\ UNCHANGED <<stopped, held, work, got, books>>

(* Six hours pass. *)
GrowOld(t) ==
    /\ t \in (table \cap Outlasting) \ old
    /\ old' = old \cup {t}
    /\ UNCHANGED <<table, stopped, held, work, reader, got, books>>

(* request_cancel, up to the release of the lock: unknown turns and those of
   others are refused and nothing changes. *)
LookUp(u, t) ==
    /\ held[u] = {}
    /\ t \in table
    /\ Owner[t] \in {Anyone, u}
    /\ held' = [held EXCEPT ![u] = {t}]
    /\ UNCHANGED <<table, old, stopped, work, reader, got, books>>

SetEvent(u) ==
    /\ held[u] # {}
    /\ stopped' = stopped \cup held[u]
    /\ held' = [held EXCEPT ![u] = {}]
    /\ UNCHANGED <<table, old, work, reader, got, books>>

-----------------------------------------------------------------------------
(* The worker thread *)

(* A model or tool call begins: raise_if_cancelled did not raise. *)
BeginCall(t) ==
    /\ worker[t] = "between"
    /\ t \notin stopped
    /\ Work(t, "calling")
    /\ UNCHANGED <<stops, outbox, failed, reader, got, books>>

(* The call is over: its events tell of it and the event is not looked at. *)
CallReturns(t) ==
    /\ worker[t] = "calling"
    /\ Work(t, "between")
    /\ UNCHANGED <<stops, outbox, failed, reader, got, books>>

(* raise_if_cancelled: TurnCancelled reaches the worker. *)
NoticeStop(t) ==
    /\ worker[t] = "between"
    /\ t \in stopped
    /\ Put(t, "cancelled") /\ Work(t, "closing")
    /\ UNCHANGED <<stops, failed, reader, got, books>>

(* graph.invoke returns: nothing after the last call looks at the event. *)
Compose(t) ==
    /\ worker[t] = "between"
    /\ Work(t, "composed")
    /\ UNCHANGED <<stops, outbox, failed, reader, got, books>>

Complete(t) ==
    /\ worker[t] = "composed"
    /\ Put(t, "completed") /\ Work(t, "closing")
    /\ UNCHANGED <<stops, failed, reader, got, books>>

(* Faulty: the error is shown and the exception forgotten. *)
FailUnnoted(t) ==
    /\ worker[t] \in {"between", "calling", "composed"}
    /\ Put(t, "error") /\ Work(t, "closing")
    /\ UNCHANGED <<stops, failed, reader, got, books>>

(* An exception: the error event first, the exception for the reader after. *)
Fail(t) ==
    /\ worker[t] \in {"between", "calling", "composed"}
    /\ Put(t, "error") /\ Work(t, "failing")
    /\ UNCHANGED <<stops, failed, reader, got, books>>

NoteError(t) ==
    /\ worker[t] = "failing"
    /\ failed' = failed \cup {t}
    /\ Work(t, "closing")
    /\ UNCHANGED <<stops, outbox, reader, got, books>>

SayDone(t) ==
    /\ worker[t] = "closing"
    /\ Put(t, "done") /\ Work(t, "closed")
    /\ UNCHANGED <<stops, failed, reader, got, books>>

Exit(t) ==
    /\ worker[t] = "closed"
    /\ Work(t, "exited")
    /\ UNCHANGED <<stops, outbox, failed, reader, got, books>>

Worker(t) ==
    \/ BeginCall(t) \/ CallReturns(t) \/ NoticeStop(t) \/ Compose(t)
    \/ Complete(t) \/ Fail(t) \/ NoteError(t) \/ SayDone(t) \/ Exit(t)

-----------------------------------------------------------------------------
(* The reader, while events are relayed *)

StartWorker(t) ==
    /\ reader[t] = "opening"
    /\ Work(t, "between") /\ To(t, "waiting")
    /\ UNCHANGED <<stops, outbox, failed, got, books>>

(* What it takes to start the worker raises (a skill catalogue that cannot be
   read, no thread to be had): no event tells of it, and the handle stays. *)
OpenFails(t) ==
    /\ reader[t] = "opening"
    /\ got' = [got EXCEPT ![t] = {"raised"}]
    /\ To(t, "finished")
    /\ UNCHANGED <<stops, work, books>>

(* The item at the head of the queue, handed on unless it is the sentinel. *)
Pop(t) ==
    LET item == Head(outbox[t])
    IN  /\ outbox' = [outbox EXCEPT ![t] = Tail(@)]
        /\ got' = [got EXCEPT ![t] = @ \cup ({item} \cap Outcomes)]

Take(t) ==
    /\ reader[t] = "waiting" /\ outbox[t] # <<>>
    /\ Pop(t)
    /\ To(t, IF Head(outbox[t]) = "done" THEN "draining" ELSE "sent")
    /\ UNCHANGED <<stops, worker, failed, books>>

TimeOut(t) ==
    /\ reader[t] = "waiting" /\ outbox[t] = <<>>
    /\ To(t, "timed_out")
    /\ UNCHANGED <<stops, work, got, books>>

(* The queue was empty a moment ago: is the worker still there? *)
AskWorker(t) ==
    /\ reader[t] = "timed_out"
    /\ \/ worker[t] \in Alive /\ \E p \in {"waiting", "sent"} : To(t, p)
       \/ worker[t] = "exited" /\ To(t, "draining")
    /\ UNCHANGED <<stops, work, got, books>>

(* What the worker put between the empty queue and its end. *)
Drain(t) ==
    /\ reader[t] = "draining" /\ outbox[t] # <<>>
    /\ Pop(t)
    /\ To(t, IF Head(outbox[t]) = "done" THEN "draining" ELSE "drain_sent")
    /\ UNCHANGED <<stops, worker, failed, books>>

(* Faulty: the loop is the end, and what is left in the queue is not read. *)
FinishUndrained(t) ==
    /\ reader[t] = "draining"
    /\ table' = table \ {t} /\ old' = old \ {t}
    /\ got' = [got EXCEPT ![t] = @ \cup IF t \in failed THEN {"raised"} ELSE {}]
    /\ To(t, "finished")
    /\ UNCHANGED <<stopped, held, work, books>>

(* The handle is forgotten, and the worker's exception handed to the caller. *)
Finish(t) ==
    /\ reader[t] = "draining" /\ outbox[t] = <<>>
    /\ table' = table \ {t} /\ old' = old \ {t}
    /\ got' = [got EXCEPT ![t] = @ \cup IF t \in failed THEN {"raised"} ELSE {}]
    /\ To(t, "finished")
    /\ UNCHANGED <<stopped, held, work, books>>

(* The client pulls the next event. *)
Resume(t) ==
    /\ \/ reader[t] = "sent" /\ To(t, "waiting")
       \/ reader[t] = "drain_sent" /\ To(t, "draining")
       \/ reader[t] = "traced" /\ To(t, "settling")
       \/ reader[t] = "unsaved" /\ To(t, "session")
    /\ UNCHANGED <<stops, work, got, books>>

-----------------------------------------------------------------------------
(* The reader, once the events have ended *)

(* _charge_turn, then the trace, whose event is a yield of its own. *)
Charge(t) ==
    /\ reader[t] = "finished"
    /\ IF "completed" \in got[t] /\ t \in Metered
       THEN \E a \in {"charged", "lost"} : account' = [account EXCEPT ![t] = a]
       ELSE UNCHANGED account
    /\ \/ t \in Persistent /\ To(t, "traced")
       \/ To(t, IF t \in Persistent THEN "settling" ELSE "session")
    /\ UNCHANGED <<stops, work, got, kept>>

(* What the turn left to record. *)
Entry(t) ==
    CASE "completed" \in got[t] -> "answered"
      [] "cancelled" \in got[t] -> "stopped"
      [] "raised" \in got[t]    -> "failed"
      [] OTHER                  -> "blank"

UpdateMemory(t) ==
    /\ reader[t] = "settling"
    /\ \/ kept' = [kept EXCEPT ![t] = Entry(t)] /\ To(t, "recorded")
       \/ To(t, "unsaved") /\ UNCHANGED kept
    /\ UNCHANGED <<stops, work, got, account>>

(* A turn with no id has none to be recorded under, unless it completed and
   brought the one the graph gave it. *)
AppendSessionTurn(t) ==
    /\ reader[t] = "session"
    /\ kept' = IF t \in Named \/ "completed" \in got[t]
               THEN [kept EXCEPT ![t] = Entry(t)] ELSE kept
    /\ To(t, "recorded")
    /\ UNCHANGED <<stops, work, got, account>>

Respond(t) ==
    /\ reader[t] = "recorded"
    /\ To(t, IF "raised" \in got[t] THEN "raised" ELSE "responded")
    /\ UNCHANGED <<stops, work, got, books>>

-----------------------------------------------------------------------------
(* The reader goes away at a yield *)

(* Before the worker was started: outside the `try` that ends the handle. *)
LeaveOpening(t) ==
    /\ reader[t] = "opening"
    /\ To(t, "left")
    /\ UNCHANGED <<stops, work, got, books>>

(* Faulty: the handle is kept. *)
LeaveStreamHandleKept(t) ==
    /\ reader[t] \in {"sent", "drain_sent"}
    /\ stopped' = IF worker[t] \in Alive /\ CancelOnDisconnect /\ t \in table
                  THEN stopped \cup {t} ELSE stopped
    /\ To(t, "left")
    /\ UNCHANGED <<table, old, held, work, got, books>>

(* Faulty: the handle is ended first, and the stop finds none. *)
LeaveStreamEndFirst(t) ==
    /\ reader[t] \in {"sent", "drain_sent"}
    /\ table' = table \ {t} /\ old' = old \ {t}
    /\ stopped' = IF worker[t] \in Alive /\ CancelOnDisconnect /\ t \in table'
                  THEN stopped \cup {t} ELSE stopped
    /\ To(t, "left")
    /\ UNCHANGED <<held, work, got, books>>

(* finally: stop the worker while the handle can still be found, then end it. *)
LeaveStream(t) ==
    /\ reader[t] \in {"sent", "drain_sent"}
    /\ stopped' = IF worker[t] \in Alive /\ CancelOnDisconnect /\ t \in table
                  THEN stopped \cup {t} ELSE stopped
    /\ table' = table \ {t} /\ old' = old \ {t}
    /\ To(t, "left")
    /\ UNCHANGED <<held, work, got, books>>

LeaveLate(t) ==
    /\ reader[t] \in {"traced", "unsaved", "recorded"}
    /\ To(t, "left")
    /\ UNCHANGED <<stops, work, got, books>>

Reader(t) ==
    \/ StartWorker(t) \/ OpenFails(t) \/ Take(t) \/ TimeOut(t) \/ AskWorker(t) \/ Drain(t)
    \/ Finish(t) \/ Resume(t) \/ Charge(t) \/ UpdateMemory(t)
    \/ AppendSessionTurn(t) \/ Respond(t)

Leave(t) == LeaveOpening(t) \/ LeaveStream(t) \/ LeaveLate(t)

Next ==
    \/ \E t \in Turns : Begin(t) \/ GrowOld(t) \/ Worker(t) \/ Reader(t) \/ Leave(t)
    \/ \E u \in Users : SetEvent(u) \/ \E t \in Turns : LookUp(u, t)

(* The worker's calls are bounded by their timeouts; a stop request that holds
   a handle sets it.  Nobody has to read, leave or stop. *)
Fairness ==
    /\ \A t \in Turns : WF_vars(Worker(t))
    /\ \A u \in Users : WF_vars(SetEvent(u))

Spec == Init /\ [][Next]_vars /\ Fairness

-----------------------------------------------------------------------------
(* Properties *)

(* Every variable has its type; in particular the conversation never holds a
   blank in place of a turn. *)
TypeOK ==
    /\ table \subseteq Turns /\ old \subseteq table
    /\ stopped \subseteq Turns /\ failed \subseteq Turns
    /\ held \in [Users -> SUBSET Turns]
    /\ worker \in [Turns -> {"none", "exited"} \cup Alive]
    /\ outbox \in [Turns -> Seq(Items)]
    /\ reader \in [Turns -> {"absent", "opening", "waiting", "timed_out", "sent",
                             "draining", "drain_sent", "left"} \cup Past]
    /\ got \in [Turns -> SUBSET (Outcomes \cup {"raised"})]
    /\ account \in [Turns -> {"open", "charged", "lost"}]
    /\ kept \in [Turns -> {"nothing", "answered", "stopped", "failed"}]

(* What the worker has put for the turn, read or not. *)
Produced(t) == got[t] \cup (ToSet(outbox[t]) \cap Outcomes)

FateOf(t) ==
    CASE "completed" \in Produced(t) -> "answered"
      [] "cancelled" \in Produced(t) -> "stopped"
      [] "error" \in Produced(t) \/ Produced(t) = {"raised"} -> "failed"
      [] OTHER -> "pending"

Contract == INSTANCE TurnContract WITH fate <- [t \in Turns |-> FateOf(t)]

(* The threads, the queue and the stores together keep the turn's contract:
   one outcome, charged before it is recorded and only if it is an answer, and
   the record says what the worker did. *)
KeepsContract == Contract!Spec

(* A reader that stayed to the end of the events has been handed the worker's
   one outcome, whichever way the loop ended (the sentinel, or an empty queue
   and then a dead worker), and an error with the exception to raise; of a turn
   whose worker was never started it has that exception alone. *)
OutcomeReachesReader ==
    \A t \in Turns : reader[t] \in Past =>
        \/ worker[t] = "none" /\ got[t] = {"raised"}
        \/ /\ \E o \in Outcomes : got[t] \cap Outcomes = {o}
           /\ "error" \in got[t] <=> "raised" \in got[t]
           /\ outbox[t] = <<>> /\ worker[t] \in {"closed", "exited"}

(* No handle outlives the reading of its turn, so the table holds only turns
   that can still be stopped; except when the worker was never started, because
   the reader had left or an exception came before. *)
HandleReleased ==
    \A t \in table : worker[t] # "none" => reader[t] \notin Past \cup {"left"}

(* Nobody reads what an abandoned turn produces, so it stops at its next step
   (graph_runtime.py:421-424), unless its handle was dropped for its age. *)
AbandonedWorkerStops ==
    \A t \in Turns \ Outlasting :
        reader[t] = "left" ~> worker[t] \in {"none", "exited"}
=============================================================================
