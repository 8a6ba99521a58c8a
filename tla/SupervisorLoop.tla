--------------------------- MODULE SupervisorLoop ---------------------------
(***************************************************************************)
(* One turn of the agent: the LangGraph loop that agent_runtime/supervisor *)
(* builds.  The supervisor node routes to a peer (search, analyze, code)   *)
(* or to synthesis; a peer always returns to the supervisor; synthesis     *)
(* ends the turn or, at most once, sends it back to re-ground the answer.  *)
(*                                                                         *)
(* Each action is one node of the graph, executed atomically: LangGraph    *)
(* runs one node at a time and merges its update before the next.  The     *)
(* model's answers, the tools' results and the raised exceptions are the   *)
(* nondeterminism.  Texts, prompts and documents are reduced to what the   *)
(* routing reads of them.                                                  *)
(***************************************************************************)
EXTENDS Integers, Sequences, FiniteSets

CONSTANTS
  Requests,      \* the requests considered, see RequestType
  Docs,          \* documents the peers may retrieve, by dedup key
  NeedLists,     \* the capability lists a peer may ask for in one run
  MaxSteps,      \* max_steps: supervisor decisions before a forced `done`
  MaxSearches,   \* AGENT_SUPERVISOR_MAX_SEARCHES
  MaxPeerRuns,   \* AGENT_SUPERVISOR_MAX_PEER_RUNS
  ErrorBudget,   \* AGENT_PEER_ERROR_BUDGET
  MaxRegrounds,  \* _MAX_GROUNDING_RETRIES
  AskFirst,      \* AGENT_CLARIFY_POLICY = ask: the clarify node opens the turn
  CanEvict       \* whether 200 newer logs may push this turn's log out

Answering == {"analyze", "code"}
Peers     == {"search"} \cup Answering
Actions   == Peers \cup {"done"}      \* ALLOWED_ACTIONS
NoPos     == -1                       \* a failure recorded without `at`

RequestType ==
  [ unified : BOOLEAN,   \* search and analyze merged into one peer
    history : BOOLEAN,   \* the conversation has earlier turns
    kb      : BOOLEAN,   \* the query asks for platform content
    outside : BOOLEAN ]  \* the query asks for what only retrieval supplies

Need    == [cap : Peers, by : Peers \cup {"synthesize"}]
Failure == [peer : Peers \cup {"decide", "synthesize"}, fatal : BOOLEAN,
            at : Nat \cup {NoPos}]

ASSUME LoopConstants ==
  /\ Requests \subseteq RequestType
  /\ NeedLists \subseteq Seq(Peers)
  /\ MaxSteps \in Nat \ {0}
  /\ MaxSearches \in Nat \ {0}
  /\ MaxPeerRuns \in Nat \ {0}
  /\ ErrorBudget \in 1..8
  /\ MaxRegrounds \in Nat
  /\ AskFirst \in BOOLEAN /\ CanEvict \in BOOLEAN

VARIABLES
  req,       \* the request, fixed for the turn
  node,      \* the node to run next, or how the turn ended
  evidence,  \* documents merged so far
  slot,      \* analysis_results / code_result: does the slot hold an answer
  held,      \* what each slot's tool_results contain
  needs,     \* the FIFO of capability requests
  actions,   \* the supervisor's decision history
  attempts,  \* search_attempts
  streak,    \* search_empty_streak
  failures,  \* peer_failures
  log,       \* what the turn log answers about this turn
  rows,      \* action_rows is non-empty
  retries,   \* grounding_retries
  reground,  \* the flag the edge out of synthesize reads
  answer,    \* how the final answer was composed
  reported,  \* indices of the failures the verdict names
  ledger,    \* how often the turn was appended to the thread's ledger
  trail      \* history: how each action of `actions` went

turnVars == <<req, answer, reported, ledger, rows>>
workVars == <<evidence, slot, held, attempts, streak>>
vars == <<req, node, evidence, slot, held, needs, actions, attempts, streak,
          failures, log, rows, retries, reground, answer, reported, ledger, trail>>

Terminal == {"end", "cancelled", "aborted"}
Running  == {"clarify", "supervisor", "synthesize"} \cup Peers

-----------------------------------------------------------------------------
(* Reading the state *)

step == Len(actions)     \* the supervisor appends one action per step

Elements(s) == {s[i] : i \in DOMAIN s}

Count(a) == Cardinality({i \in DOMAIN actions : actions[i] = a})

(* A log opened for this turn: no run, nothing recorded.  `first` marks the one *)
(* run_supervisor opened, as opposed to a replacement for an evicted log.       *)
NewLog == [live |-> TRUE, first |-> FALSE, written |-> FALSE,
           lastRun |-> [p \in Answering |-> "none"],
           said |-> {}, asked |-> {},
           held |-> [p \in Answering |-> {}]]

(* log_for_state: the registered log, or a new one when it was evicted. *)
LogForState == IF log.live THEN log ELSE NewLog

LastRunAddedNothing(p) == log.live /\ log.lastRun[p] = "nothing"

SearchExhausted == attempts >= MaxSearches \/ streak >= 1

UnproductiveRepeat(a) ==
  /\ a \in Answering
  /\ \/ LastRunAddedNothing(a)
     \/ actions # <<>> /\ actions[step] = a /\ slot[a] # "none"

(* Nothing computed yet: both result slots are still None. *)
NothingComputed == \A p \in Answering : slot[p] = "none"

WorkDelivered ==
  /\ \E p \in Answering : slot[p] # "none" /\ "map" \in held[p]
  /\ ~req.outside

Grounded ==
  evidence # {} \/ \E p \in Answering : slot[p] = "answered" \/ held[p] # {}

(* Mutants of Dead: without the attempt cap, and without the progress rule. *)
DeadIgnoringAttempts(n) ==
  \/ n.cap \in Answering /\ LastRunAddedNothing(n.cap)
  \/ Count(n.cap) >= MaxPeerRuns

DeadIgnoringProgress(n) ==
  \/ n.cap = "search" /\ attempts >= MaxSearches
  \/ Count(n.cap) >= MaxPeerRuns

(* A queued request that can no longer be productive. *)
Dead(n) ==
  \/ n.cap = "search" /\ attempts >= MaxSearches
  \/ n.cap \in Answering /\ LastRunAddedNothing(n.cap)
  \/ Count(n.cap) >= MaxPeerRuns

(* The queue's elements that are in `alive`, in order. *)
Kept(queue, alive) ==
  LET kept[i \in 0..Len(queue)] ==
        IF i = 0 THEN <<>>
        ELSE IF queue[i] \in alive THEN Append(kept[i-1], queue[i]) ELSE kept[i-1]
  IN  kept[Len(queue)]

LiveNeeds == Kept(needs, {n \in Elements(needs) : ~Dead(n)})

(* The requests, then a re-run of the peer that made them. *)
Enqueue(raw, requester) ==
  IF raw = <<>> THEN needs
  ELSE needs \o [i \in DOMAIN raw |-> [cap |-> raw[i], by |-> requester]]
             \o <<[cap |-> requester, by |-> requester]>>

(* Mutant of Resolved: a later run that itself failed resolves too. *)
ResolvedByAnyRun(f, fs) ==
  /\ f.peer \in Answering
  /\ \E k \in DOMAIN actions :
       k > f.at /\ actions[k] \in Answering /\ slot[actions[k]] = "answered"

(* A failure is resolved when a later answering peer ran without failing and *)
(* its slot holds an answer.  A position in failedAt counts as failed.       *)
Resolved(f, fs) ==
  LET failedAt == {g.at : g \in Elements(fs)}
  IN  /\ f.peer \in Answering
      /\ \E k \in DOMAIN actions :
           /\ k > f.at
           /\ actions[k] \in Answering
           /\ k \notin failedAt
           /\ slot[actions[k]] = "answered"

Unresolved == {i \in DOMAIN failures : ~Resolved(failures[i], failures)}

(* Mutant of RegroundTarget: whether or not two steps are left. *)
RegroundLate ==
  IF retries >= MaxRegrounds THEN "none"
  ELSE IF ~NothingComputed /\ Count("analyze") < MaxPeerRuns THEN "analyze"
  ELSE IF NothingComputed /\ Count("search") < MaxPeerRuns /\ ~SearchExhausted
       THEN "search" ELSE "none"

(* Which peer a re-grounding pass would go to, or "none". *)
RegroundTarget ==
  IF retries >= MaxRegrounds \/ step + 2 > MaxSteps THEN "none"
  ELSE IF ~NothingComputed /\ Count("analyze") < MaxPeerRuns THEN "analyze"
  ELSE IF NothingComputed /\ Count("search") < MaxPeerRuns /\ ~SearchExhausted
       THEN "search" ELSE "none"

-----------------------------------------------------------------------------
Init ==
  /\ req \in Requests
  /\ node = IF AskFirst THEN "clarify" ELSE "supervisor"
  /\ evidence = {}
  /\ slot = [p \in Answering |-> "none"]
  /\ held = [p \in Answering |-> {}]
  /\ needs = <<>> /\ actions = <<>> /\ failures = <<>> /\ trail = <<>>
  /\ attempts = 0 /\ streak = 0 /\ retries = 0 /\ ledger = 0
  /\ log = [NewLog EXCEPT !.first = TRUE]
  /\ rows = FALSE /\ reground = FALSE
  /\ answer = "none" /\ reported = {}

(* AGENT_CLARIFY_POLICY=ask: one question ends the turn, or nothing happens. *)
Clarify ==
  /\ node = "clarify"
  /\ \/ node' = "end" /\ answer' = "question"
     \/ node' = "supervisor" /\ UNCHANGED answer
  /\ UNCHANGED <<req, workVars, needs, actions, failures, log, rows, retries,
                 reground, reported, ledger, trail>>

-----------------------------------------------------------------------------
(* The supervisor node *)

(* Mutant of Floor: the menu alone keeps `done` from being the opening move. *)
FloorMenuOnly(nxt) == nxt

(* The merged-peer floor: `done` is not an opening move. *)
Floor(nxt) ==
  IF /\ nxt = "done" /\ req.unified /\ actions = <<>>
     /\ evidence = {} /\ NothingComputed
  THEN "analyze" ELSE nxt

(* What every exit of the supervisor node writes. *)
Route(nxt, remaining, fails) ==
  LET to == Floor(nxt) IN
  /\ node' = IF to = "done" THEN "synthesize" ELSE to
  /\ actions' = Append(actions, to)
  /\ needs' = remaining
  /\ failures' = fails
  /\ log' = LogForState
  /\ UNCHANGED <<turnVars, workVars, retries, reground, trail>>

(* No further peer is worth running: a fatal failure, the error budget, or the *)
(* step limit.  The queue is dropped.                                          *)
MustStop ==
  \/ \E f \in Elements(failures) : f.fatal
  \/ Len(failures) >= ErrorBudget
  \/ step >= MaxSteps

SupervisorStop ==
  /\ node = "supervisor" /\ MustStop
  /\ Route("done", <<>>, failures)

(* The oldest request still alive is served; dead ones are dropped. *)
SupervisorNeed ==
  /\ node = "supervisor" /\ ~MustStop
  /\ LiveNeeds # <<>>
  /\ Route(Head(LiveNeeds).cap, Tail(LiveNeeds), failures)

(* Mutant of Consults: the queue is tested before its dead requests are dropped. *)
ConsultsUnfiltered == node = "supervisor" /\ ~MustStop /\ needs = <<>>

(* Nothing live is queued: the decider is asked. *)
Consults == node = "supervisor" /\ ~MustStop /\ LiveNeeds = <<>>

(* The backstops the decider's choice passes through. *)
Vetoed(d) ==
  IF \/ UnproductiveRepeat(d)
     \/ d = "search" /\ (SearchExhausted \/ WorkDelivered)
  THEN "done" ELSE d

SupervisorDecide ==
  /\ Consults
  /\ \E d \in Actions : Route(Vetoed(d), <<>>, failures)

(* The decider raised: search when nothing was retrieved, else answer. *)
SupervisorDecideFails ==
  /\ Consults
  /\ \E fatal \in BOOLEAN :
       Route(Vetoed(IF evidence = {} THEN "search" ELSE "done"), <<>>,
             Append(failures, [peer |-> "decide", fatal |-> fatal, at |-> step]))

-----------------------------------------------------------------------------
(* The search node *)

PeerFailed(p, fatal) ==
  failures' = Append(failures, [peer |-> p, fatal |-> fatal, at |-> step])

(* Contained by _run_peer: the attempt is counted, the evidence is kept. *)
SearchFails ==
  /\ node = "search" /\ node' = "supervisor"
  /\ \E fatal \in BOOLEAN : PeerFailed("search", fatal)
  /\ attempts' = attempts + 1
  /\ streak' = streak + 1
  /\ trail' = Append(trail, "failed")
  /\ UNCHANGED <<turnVars, evidence, slot, held, needs, actions, log, retries, reground>>

(* Documents are merged by key; an attempt that added none extends the streak. *)
SearchReturns ==
  /\ node = "search" /\ node' = "supervisor"
  /\ \E docs \in SUBSET Docs, raw \in NeedLists, did \in BOOLEAN :
       /\ evidence' = evidence \cup docs
       /\ streak' = IF docs \subseteq evidence THEN streak + 1 ELSE 0
       /\ needs' = Enqueue(raw, "search")
       /\ rows' = (rows \/ did)
  /\ attempts' = attempts + 1
  /\ trail' = Append(trail, "blank")
  /\ UNCHANGED <<req, slot, held, actions, failures, log, retries, reground,
                 answer, reported, ledger>>

(* Mutant of RecordTurn: nothing remembers that the log was written. *)
RecordTurnUnguarded(content, times) ==
  /\ ledger' = IF content THEN ledger + times ELSE ledger
  /\ UNCHANGED log

(* _record_turn, called `times` times with something to record or not.  A live *)
(* log is written once; nothing guards a turn whose log was evicted.           *)
RecordTurn(content, times) ==
  /\ ledger' = CASE ~content -> ledger
                 [] content /\ log.live -> IF log.written THEN ledger ELSE ledger + 1
                 [] OTHER -> ledger + times
  /\ log' = IF log.live THEN [log EXCEPT !.written = TRUE] ELSE log

(* What synthesis hands to the ledger: the slots' records and the search rows. *)
Worked == rows \/ \E p \in Answering : held[p] # {} \/ (log.live /\ log.held[p] # {})

(* The reformulated retry, the open web and the reranking are called outside    *)
(* _run_peer: what they raise leaves the graph.  run_supervisor records the     *)
(* turn under the log it opened, with no slots and no rows, and re-raises.      *)
SearchAborts ==
  /\ node = "search" /\ node' = "aborted"
  /\ IF log.live /\ log.first
     THEN RecordTurn(\E p \in Answering : log.held[p] # {}, 1)
     ELSE UNCHANGED <<ledger, log>>
  /\ UNCHANGED <<req, workVars, needs, actions, failures, rows, retries, reground,
                 answer, reported, trail>>

-----------------------------------------------------------------------------
(* The analyze and code nodes *)

(* What one run leaves: its answer (blank, one the log already holds, or new), *)
(* its tool results (none, only repeats or errors, or at least one new and ok), *)
(* whether one of them reached the map, what it asks for and whether for another *)
(* reason than before, what it retrieved.                                       *)
Outcome ==
  [answer : {"blank", "repeat", "new"}, tools : {"none", "old", "new"},
   map : BOOLEAN, needs : NeedLists, reason : {"old", "new"}, docs : SUBSET Docs]

Consistent(p, l, o) ==
  /\ o.answer = "repeat" => l.said # {}
  /\ o.reason = "new" => o.needs # <<>>
  /\ o.map \/ o.docs # {} => o.tools # "none"
  /\ o.docs # {} => p = "analyze" /\ req.unified

Held(o) == (IF o.tools = "none" THEN {} ELSE {"result"})
             \cup (IF o.map THEN {"map"} ELSE {})

(* run_was_productive: a new successful result, answer or request; a request  *)
(* is told from an earlier one by its capabilities and reasons.               *)
Productive(l, o) ==
  \/ o.tools = "new"
  \/ o.answer = "new"
  \/ o.needs # <<>> /\ (o.reason = "new" \/ Elements(o.needs) \notin l.asked)

(* Mutant of Logged: a run's record replaces the earlier runs' record. *)
LoggedOverwriting(l, p, o) ==
  [l EXCEPT !.lastRun[p] = IF Productive(l, o) THEN "new" ELSE "nothing",
            !.held[p] = Held(o)]

(* The run's events, and the view of them that becomes the slot's record. *)
Logged(l, p, o) ==
  [l EXCEPT !.lastRun[p] = IF Productive(l, o) THEN "new" ELSE "nothing",
            !.said = IF o.answer = "blank" THEN @ ELSE @ \cup {p},
            !.asked = IF o.needs = <<>> THEN @ ELSE @ \cup {Elements(o.needs)},
            !.held[p] = @ \cup Held(o)]

PeerReturns(p) ==
  /\ node = p /\ node' = "supervisor"
  /\ \E o \in Outcome :
       /\ Consistent(p, LogForState, o)
       /\ log' = Logged(LogForState, p, o)
       /\ held' = [held EXCEPT ![p] = log'.held[p]]
       /\ slot' = [slot EXCEPT ![p] = IF o.answer = "blank" THEN "blank" ELSE "answered"]
       /\ needs' = Enqueue(o.needs, p)
       /\ evidence' = evidence \cup o.docs
       /\ IF o.docs = {} THEN UNCHANGED <<attempts, streak>>
          ELSE attempts' = attempts + 1 /\ streak' = 0
       /\ trail' = Append(trail, IF o.answer = "blank" THEN "blank" ELSE "answered")
  /\ UNCHANGED <<turnVars, actions, failures, retries, reground>>

(* The slot an error leaves: analyze repeats its earlier summary, code writes *)
(* an empty answer over whatever it held.                                     *)
FailedSlot(p) ==
  IF p = "analyze" /\ slot[p] = "answered" THEN "answered" ELSE "blank"

PeerFails(p) ==
  /\ node = p /\ node' = "supervisor"
  /\ \E fatal \in BOOLEAN, o \in Outcome :
       /\ o.needs = <<>> /\ o.docs = {}
       /\ o.answer = IF FailedSlot(p) = "blank" THEN "blank"
                     ELSE IF p \in LogForState.said THEN "repeat" ELSE "new"
       /\ Consistent(p, LogForState, o)
       /\ PeerFailed(p, fatal)
       /\ log' = Logged(LogForState, p, o)
       /\ held' = [held EXCEPT ![p] = log'.held[p]]
  /\ slot' = [slot EXCEPT ![p] = FailedSlot(p)]
  /\ trail' = Append(trail, "failed")
  /\ UNCHANGED <<turnVars, evidence, attempts, streak, needs, actions, retries, reground>>

-----------------------------------------------------------------------------
(* The synthesize node *)

(* The edge out of synthesize reads the flag this pass left in the state. *)
Leave(flag) ==
  /\ reground' = flag
  /\ node' = IF flag THEN "supervisor" ELSE "end"

(* General knowledge answers a question that needs no platform content.  This *)
(* return neither records the turn nor clears its rows.                       *)
SynthesizeGeneral ==
  /\ node = "synthesize"
  /\ ~Grounded /\ ~req.history /\ ~req.kb
  /\ answer' = "general" /\ reported' = Unresolved
  /\ Leave(FALSE)
  /\ trail' = Append(trail, "composed")
  /\ UNCHANGED <<req, workVars, needs, actions, failures, log, rows, retries, ledger>>

(* Nothing to answer from: say so, or name the failures that are the reason. *)
SynthesizeInsufficient ==
  /\ node = "synthesize"
  /\ ~Grounded /\ ~req.history
  /\ answer' = IF failures = <<>> THEN "nothing" ELSE "failed"
  /\ reported' = Unresolved
  /\ RecordTurn(Worked, 1) /\ rows' = FALSE
  /\ Leave(FALSE)
  /\ trail' = Append(trail, "composed")
  /\ UNCHANGED <<req, workVars, needs, actions, failures, retries>>

SynthesizeAnswer ==
  /\ node = "synthesize"
  /\ Grounded \/ req.history
  /\ answer' = "composed" /\ reported' = Unresolved
  /\ RecordTurn(Worked, 1) /\ rows' = FALSE
  /\ Leave(FALSE)
  /\ trail' = Append(trail, "composed")
  /\ UNCHANGED <<req, workVars, needs, actions, failures, retries>>

(* The audit found gaps a peer could close: queue it and go back, once. *)
SynthesizeReground ==
  /\ node = "synthesize"
  /\ Grounded \/ req.history
  /\ RegroundTarget # "none"
  /\ needs' = Append(needs, [cap |-> RegroundTarget, by |-> "synthesize"])
  /\ retries' = retries + 1
  /\ Leave(TRUE)
  /\ trail' = Append(trail, "composed")
  /\ UNCHANGED <<turnVars, workVars, actions, failures, log>>

(* Mutant of SynthesizeRaises: the flag of an earlier pass survives. *)
RaisesKeepingFlag ==
  /\ node = "synthesize"
  /\ answer' = "uncomposed" /\ reported' = {}
  /\ failures' = Append(failures, [peer |-> "synthesize", fatal |-> FALSE, at |-> NoPos])
  /\ \E times \in 1..2 : RecordTurn(Worked, times)
  /\ Leave(reground)
  /\ trail' = Append(trail, "composed")
  /\ UNCHANGED <<req, workVars, needs, actions, rows, retries>>

(* Composition raised, before or after it recorded the turn; both record it. *)
(* The answer is put together without the model and the rows are not cleared. *)
SynthesizeRaises ==
  /\ node = "synthesize"
  /\ answer' = "uncomposed" /\ reported' = {}
  /\ failures' = Append(failures, [peer |-> "synthesize", fatal |-> FALSE, at |-> NoPos])
  /\ \E times \in 1..2 : RecordTurn(Worked, times)
  /\ Leave(FALSE)
  /\ trail' = Append(trail, "composed")
  /\ UNCHANGED <<req, workVars, needs, actions, rows, retries>>

-----------------------------------------------------------------------------
(* The environment *)

(* raise_if_cancelled inside a model or tool call; TurnCancelled passes every *)
(* handler, run_supervisor's included, so the turn is not recorded.           *)
Cancel ==
  /\ node \in Running /\ node' = "cancelled"
  /\ UNCHANGED <<turnVars, workVars, needs, actions, failures, log, retries,
                 reground, trail>>

(* 200 turns opened a log after this one: the registry drops it. *)
EvictLog ==
  /\ CanEvict /\ node \in Running /\ log.live
  /\ log' = [log EXCEPT !.live = FALSE]
  /\ UNCHANGED <<turnVars, workVars, node, needs, actions, failures, retries,
                 reground, trail>>

-----------------------------------------------------------------------------
Supervise == SupervisorStop \/ SupervisorNeed \/ SupervisorDecide \/ SupervisorDecideFails

RunPeer == \/ SearchFails \/ SearchReturns \/ SearchAborts
           \/ \E p \in Answering : PeerReturns(p) \/ PeerFails(p)

Synthesize == \/ SynthesizeGeneral \/ SynthesizeInsufficient \/ SynthesizeAnswer
              \/ SynthesizeReground \/ SynthesizeRaises

GraphStep == Clarify \/ Supervise \/ RunPeer \/ Synthesize

Next == GraphStep \/ Cancel \/ EvictLog

Spec == Init /\ [][Next]_vars

(* graph.invoke runs the next node as soon as the last one returned, and every *)
(* call a node makes is bounded by a timeout; nobody has to cancel.            *)
FairSpec == Spec /\ WF_vars(GraphStep)

-----------------------------------------------------------------------------
(* Properties *)

LogType == [live : BOOLEAN, first : BOOLEAN, written : BOOLEAN,
            lastRun : [Answering -> {"none", "new", "nothing"}],
            said : SUBSET Answering, asked : SUBSET SUBSET Peers,
            held : [Answering -> SUBSET {"result", "map"}]]

NodeOutcomes == {"failed", "blank", "answered", "composed"}

TypeOK ==
  /\ req \in Requests
  /\ node \in Running \cup Terminal
  /\ evidence \in SUBSET Docs
  /\ slot \in [Answering -> {"none", "blank", "answered"}]
  /\ held \in [Answering -> SUBSET {"result", "map"}]
  /\ needs \in Seq(Need)
  /\ actions \in Seq(Actions)
  /\ attempts \in Nat /\ streak \in Nat
  /\ failures \in Seq(Failure)
  /\ log \in LogType
  /\ rows \in BOOLEAN /\ reground \in BOOLEAN
  /\ retries \in Nat /\ ledger \in Nat
  /\ answer \in {"none", "question", "general", "nothing", "failed", "composed",
                "uncomposed"}
  /\ reported \subseteq DOMAIN failures
  /\ trail \in Seq(NodeOutcomes)

(* Every turn fits its step budget: at most MaxSteps decisions and the final  *)
(* forced one, whatever peers, requests and re-grounding do.  Two graph steps *)
(* per decision keep a turn of 8 far under LangGraph's recursion limit of 25. *)
StepBound == step <= MaxSteps + 1

(* The search peer never runs more often than its cap, whether a decision, a  *)
(* queued request or a re-grounding pass leads to it.                         *)
SearchesBounded == Count("search") <= MaxSearches

(* A turn is composed at most once more than it may be re-grounded, and no    *)
(* turn ends with the flag that would send it back still set.                 *)
ComposedOnce ==
  /\ Count("done") <= MaxRegrounds + 1
  /\ node = "end" => ~reground

(* No capability request outlives the routing: composition sees an empty queue. *)
NeedsDrained == node \in {"synthesize", "end"} => needs = <<>>

(* A peer failure that no later answering peer made good is named in the      *)
(* answer; a failed re-run keeping an older answer does not make it good.     *)
UnresolvedReported ==
  node = "end" /\ answer # "uncomposed" =>
    \A i \in DOMAIN failures :
      \/ i \in reported
      \/ \E k \in DOMAIN trail : k > failures[i].at /\ trail[k] = "answered"

(* A turn whose peers produced results is in the thread's ledger once it      *)
(* ends, however it was composed, and never twice under one log.              *)
LedgerExact ==
  /\ log.live /\ log.first => ledger <= 1
  /\ node = "end" /\ (\E p \in Answering : held[p] # {}) => ledger >= 1

(* With the peers merged, no turn is composed before something has run. *)
NeverAnswersUnworked == req.unified /\ actions # <<>> => actions[1] # "done"

(* While the turn keeps its log, a later run or failure of a peer adds to the *)
(* turn's record and never replaces it.                                       *)
WorkAccumulates ==
  [][ /\ evidence \subseteq evidence'
      /\ log'.first => \A p \in Answering : held[p] \subseteq held'[p] ]_vars

(* A peer whose last run added nothing is not started again while the turn    *)
(* keeps its log, by a decision, a queued request or a re-grounding pass.     *)
NoFruitlessRerun ==
  [][ \A p \in Answering :
        node = "supervisor" /\ node' = p /\ log.live => log.lastRun[p] # "nothing" ]_vars

(* Every turn ends: answered, cancelled or aborted. *)
Termination == <>(node \in Terminal)

=============================================================================
