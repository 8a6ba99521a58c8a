------------------------------ MODULE TurnLog ------------------------------
(***************************************************************************)
(* The turn's event log (agent_runtime/turn_log.py) as the middleware of a  *)
(* peer's agent loop uses it (agent_runtime/executor_factory.py): one peer  *)
(* run after another asks for tool calls in steps, the calls of a step run  *)
(* in parallel threads, and each is answered from the log or run and        *)
(* recorded.                                                                *)
(*                                                                          *)
(* The list of events is kept through what the code asks of it: the last    *)
(* real result of each call (`last`, `answered`), how many real failures a  *)
(* call has (`failures`), which contents and error classes have been seen   *)
(* (`seen`), and the events of the open step (`run.pending`).               *)
(***************************************************************************)
EXTENDS Integers, FiniteSets

CONSTANTS
    Calls,            \* the (tool, args) keys a model can ask for
    Writes,           \* those whose success changes the files
    Contents,         \* the digests of successes (of the tool's name and text)
    Errors,           \* the error classes of failures (with the tool's name)
    Returns,          \* which of these each call can come back with
    Slots,            \* the threads of one step's tool calls
    MaxRuns,          \* bound: peer runs of the turn
    MaxReports,       \* bound: results a peer without the middleware reports
    PROGRESS_LIMIT,   \* consecutive steps that add nothing before a run ends
    FAILED_RETRIES    \* failures of a call that still let it run again

ASSUME LogConstants ==
    /\ Writes \subseteq Calls
    /\ Calls # {} /\ Contents # {} /\ Contents \cap Errors = {}
    /\ Returns \in [Calls -> (SUBSET (Contents \cup Errors)) \ {{}}]
    /\ MaxRuns \in Nat /\ MaxReports \in Nat
    /\ PROGRESS_LIMIT \in Nat \ {0} /\ FAILED_RETRIES \in Nat

VARIABLES
    world,      \* advances when a closed step added a new successful result
    seen,       \* contents and error classes recorded this turn
    answered,   \* the calls with a real result
    last,       \* the last real result of each answered call
    failures,   \* how many of a call's real results are failures
    run,        \* the counts and the open step of the current or last run
    runs,       \* peer runs begun
    reports,    \* results ingested from peers without the middleware
    phase,      \* "out" of a run, "run"ning, or "stopping"
    slots,      \* the tool calls of the step being run
    disk,       \* version of the user's files (environment)
    settled,    \* its value when the last step was closed (history)
    step,       \* index of the open step over the whole turn (history)
    newAt       \* the last closed step that added a new success (history)

log   == <<world, seen, answered, last, failures, run>>
vars  == <<world, seen, answered, last, failures, run, runs, reports, phase,
           slots, disk, settled, step, newAt>>

Tokens == Contents \cup Errors
Event  == [call : Calls, real : BOOLEAN, ok : BOOLEAN, new : BOOLEAN]
Run    == [steps : Nat, productive : Nat, unproductive : Nat,
           pending : SUBSET Event]
Result == [ok : BOOLEAN, world : Nat, disk : Nat, step : Nat]
Slot   == [pc : {"idle", "asked", "repeat", "miss", "ran"},
           call : Calls, result : Tokens, saw : Nat]

NoSlot   == [pc |-> "idle", call |-> CHOOSE c \in Calls : TRUE,
             result |-> CHOOSE r \in Contents : TRUE, saw |-> 0]
NewRun   == [steps |-> 0, productive |-> 0, unproductive |-> 0, pending |-> {}]
NoResult == [ok |-> FALSE, world |-> 0, disk |-> 0, step |-> 0]

Init ==
    /\ world = 0 /\ seen = {} /\ answered = {}
    /\ last = [c \in Calls |-> NoResult]
    /\ failures = [c \in Calls |-> 0]
    /\ run = NewRun /\ runs = 0 /\ reports = 0
    /\ phase = "out"
    /\ slots = [s \in Slots |-> NoSlot]
    /\ disk = 0 /\ settled = 0 /\ step = 1 /\ newAt = 0

-----------------------------------------------------------------------------
(* Queries and updates of the log *)

\* (Definitions marked "faulty" are the plausible mistakes the checks must catch.)

\* faulty: the memo outlives the world it was taken in.
EarlierAnswerAnyWorld(c) ==
    c \in answered /\ (last[c].ok \/ failures[c] > FAILED_RETRIES)

\* earlier_answer: the call's last real result is served if the world has not
\* moved since, and, when it failed, only after its retries are spent.
EarlierAnswer(c) ==
    /\ c \in answered
    /\ last[c].world = world
    /\ last[c].ok \/ failures[c] > FAILED_RETRIES

\* record_result of a call that ran: new when its content, or its error class,
\* has not been seen this turn.  `saw` is the version of the files it ran on.
RecordReal(c, r, saw) ==
    /\ seen' = seen \cup {r}
    /\ answered' = answered \cup {c}
    /\ last' = [last EXCEPT ![c] = [ok |-> r \in Contents, world |-> world,
                                    disk |-> saw, step |-> step]]
    /\ failures' = [failures EXCEPT ![c] = IF r \in Contents THEN @ ELSE @ + 1]
    /\ run' = [run EXCEPT !.pending = @ \cup
                 {[call |-> c, real |-> TRUE, ok |-> r \in Contents,
                   new |-> r \notin seen]}]
    /\ world' = world

\* faulty: a repeat is left out of its step.
RecordMemoOutsideStep(c) == UNCHANGED log

\* record_result with memo_of: in the step, never new, never the last result.
\* Its text opens with a note, so it counts as a success even when it repeats a
\* failure.
RecordMemo(c) ==
    /\ run' = [run EXCEPT !.pending = @ \cup
                 {[call |-> c, real |-> FALSE, ok |-> TRUE, new |-> FALSE]}]
    /\ UNCHANGED <<world, seen, answered, last, failures>>

Added   == \E e \in run.pending : e.new            \* the step was productive
Moves   == \E e \in run.pending : e.new /\ e.ok    \* and changed the world
InStep(c) == \E e \in run.pending : e.call = c /\ e.real

\* faulty: results keep the world they were recorded in.
StampNothing(w) == last

\* The world each result of the closing step is stamped with, its own included.
Stamp(w) == [c \in Calls |-> IF InStep(c) THEN [last[c] EXCEPT !.world = w]
                                          ELSE last[c]]

\* close_step: nothing to judge without a pending event.
CloseStep ==
    IF run.pending = {}
    THEN UNCHANGED <<world, last, run, settled, step, newAt>>
    ELSE /\ world' = (IF Moves THEN world + 1 ELSE world)
         /\ last' = Stamp(world')
         /\ run' = [steps |-> run.steps + 1,
                    productive |-> run.productive + (IF Added THEN 1 ELSE 0),
                    unproductive |-> IF Added THEN 0 ELSE run.unproductive + 1,
                    pending |-> {}]
         /\ settled' = disk /\ step' = step + 1
         /\ newAt' = IF Moves THEN step ELSE newAt

\* faulty: one step too many.
ExhaustedLate(r) == r.unproductive > PROGRESS_LIMIT

Exhausted(r) == r.unproductive >= PROGRESS_LIMIT

-----------------------------------------------------------------------------
(* A peer run *)

\* The threads of a step that asks for the calls `ask`.
Asking(ask) ==
    [s \in Slots |-> IF s \in DOMAIN ask
                     THEN [NoSlot EXCEPT !.pc = "asked", !.call = ask[s]]
                     ELSE NoSlot]

Quiet == \A s \in Slots : slots[s].pc = "idle"

\* bind.__enter__ / begin_run: the counts start again, the log does not.
BeginRun ==
    /\ phase = "out" /\ runs < MaxRuns
    /\ phase' = "run" /\ runs' = runs + 1 /\ run' = NewRun
    /\ UNCHANGED <<world, seen, answered, last, failures, reports, slots, disk,
                   settled, step, newAt>>

\* The progress middleware around a model call: the finished step is closed;
\* an exhausted run is told to stop without asking the model, else the model
\* asks for calls or gives its answer.
ModelCall ==
    /\ phase = "run" /\ Quiet
    /\ CloseStep
    /\ \/ /\ Exhausted(run')
          /\ phase' = "stopping" /\ slots' = slots
       \/ /\ ~Exhausted(run')
          /\ phase' = "stopping" /\ slots' = slots
       \/ /\ ~Exhausted(run')
          /\ \E used \in (SUBSET Slots) \ {{}} : \E ask \in [used -> Calls] :
               slots' = Asking(ask)
          /\ phase' = "run"
    /\ UNCHANGED <<seen, answered, failures, runs, reports, disk>>

\* bind.__exit__: the run returned, or it died (recursion limit, model error)
\* with its last step still open.
ExitBind ==
    /\ CloseStep
    /\ phase' = "out"
    /\ UNCHANGED <<seen, answered, failures, runs, reports, slots, disk>>

EndRun  == phase = "stopping" /\ ExitBind
RunDies == phase = "run" /\ Quiet /\ ExitBind

-----------------------------------------------------------------------------
(* One tool call of a step, in its own thread *)

\* The log is asked for an earlier answer before the call runs.
LookUp(s) ==
    /\ slots[s].pc = "asked"
    /\ slots' = [slots EXCEPT ![s].pc =
                   IF EarlierAnswer(slots[s].call) THEN "repeat" ELSE "miss"]
    /\ UNCHANGED <<log, runs, reports, phase, disk, settled, step, newAt>>

\* The handler runs; a write that succeeds changes the files as it does.
RunTool(s) ==
    /\ slots[s].pc = "miss"
    /\ \E r \in Returns[slots[s].call] :
         /\ disk' = IF slots[s].call \in Writes /\ r \in Contents
                    THEN disk + 1 ELSE disk
         /\ slots' = [slots EXCEPT ![s].pc = "ran", ![s].result = r,
                                   ![s].saw = disk']
    /\ UNCHANGED <<log, runs, reports, phase, settled, step, newAt>>

\* Its result, or the error it raised, is recorded.
Record(s) ==
    /\ slots[s].pc = "ran"
    /\ RecordReal(slots[s].call, slots[s].result, slots[s].saw)
    /\ slots' = [slots EXCEPT ![s] = NoSlot]
    /\ UNCHANGED <<runs, reports, phase, disk, settled, step, newAt>>

\* A repeat is answered with the earlier result and recorded as its memo.
AnswerRepeat(s) ==
    /\ slots[s].pc = "repeat"
    /\ RecordMemo(slots[s].call)
    /\ slots' = [slots EXCEPT ![s] = NoSlot]
    /\ UNCHANGED <<runs, reports, phase, disk, settled, step, newAt>>

\* _merge_peer_result ingests the calls a peer ran outside the middleware (a
\* CLI peer), after its run has ended but under that run's id: the events join
\* a step nobody closes.
Ingest ==
    /\ phase = "out" /\ runs > 0 /\ run.steps = 0 /\ reports < MaxReports
    /\ \E c \in Calls : \E r \in Returns[c] :
         /\ disk' = IF c \in Writes /\ r \in Contents THEN disk + 1 ELSE disk
         /\ RecordReal(c, r, disk')
         /\ newAt' = IF r \in Contents \ seen THEN step ELSE newAt
    /\ settled' = disk' /\ step' = step + 1 /\ reports' = reports + 1
    /\ UNCHANGED <<runs, phase, slots>>

Tool(s) == LookUp(s) \/ RunTool(s) \/ Record(s) \/ AnswerRepeat(s)

Next ==
    \/ BeginRun \/ ModelCall \/ EndRun \/ RunDies \/ Ingest
    \/ \E s \in Slots : Tool(s)

\* Calls to models and tools are bounded by timeouts, so each returns; nothing
\* makes a run die or a new one begin.
Fairness ==
    /\ WF_vars(ModelCall) /\ WF_vars(EndRun)
    /\ \A s \in Slots : WF_vars(Tool(s))

Spec == Init /\ [][Next]_vars /\ Fairness

-----------------------------------------------------------------------------
(* Properties *)

TypeOK ==
    /\ world \in Nat /\ seen \subseteq Tokens /\ answered \subseteq Calls
    /\ last \in [Calls -> Result] /\ failures \in [Calls -> Nat]
    /\ run \in Run /\ runs \in 0..MaxRuns /\ reports \in 0..MaxReports
    /\ phase \in {"out", "run", "stopping"} /\ slots \in [Slots -> Slot]
    /\ disk \in Nat /\ settled \in Nat /\ step \in Nat /\ newAt \in Nat

\* A success new to the turn was recorded in a step after the one, of whatever
\* run or peer, that last answered call c.
MovedSince(c) == newAt > last[c].step

\* A call is answered from the log although something new succeeded in a later
\* step than the one that answered it.
ServesChanged(s) ==
    /\ slots[s].pc = "asked" /\ slots'[s].pc = "repeat"
    /\ MovedSince(slots[s].call)

\* While all results come through the middleware no such call is served: a world
\* stamped too late, or moved too little (by a step cut short, by another peer's
\* run), would serve what has changed.
ServedOnlyWhenQuiet == [][reports = 0 => \A s \in Slots : ~ServesChanged(s)]_vars

\* A call that has been answered runs again only because something new succeeded
\* since, or because it failed and has a retry left: siblings share the world
\* they produce, so what they answered is not run again by the next step.
RerunsJustified ==
    [][\A s \in Slots :
         /\ reports = 0
         /\ slots[s].pc = "asked" /\ slots'[s].pc = "miss"
         /\ slots[s].call \in answered
         => LET c == slots[s].call IN
            \/ MovedSince(c)
            \/ ~last[c].ok /\ failures[c] <= FAILED_RETRIES]_vars

\* A run takes no more steps than its progress pays for, and its progress is
\* paid in contents and error classes the turn had not seen, each of which pays
\* once in the turn: repeats, alternations and varied calls that fail alike end
\* the run whatever the model asks for.
ProgressPaysForSteps ==
    /\ run.steps <= PROGRESS_LIMIT * (run.productive + 1)
    /\ run.productive <= Cardinality(seen)

\* So every run ends, with no bound on steps, when the tools have finitely many
\* different things to say.
EveryRunEnds == phase # "out" ~> phase = "out"

\* A listing after a write runs again: no read is answered with what it returned
\* before a write of an earlier step.
WriteSeenByRead ==
    [][\A s \in Slots :
         /\ slots[s].pc = "asked" /\ slots'[s].pc = "repeat"
         /\ slots[s].call \notin Writes
         => last[slots[s].call].disk >= settled]_vars

=============================================================================
