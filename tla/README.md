# TLA+ models of the I-GUIDE agent

Specifications of the control logic of the I-GUIDE agent (`src/agent_runtime`,
with its service and API layers), checked with TLC on small instances and
proved with TLAPS for every value of their constants. Every safety property a
run checks is also a theorem; what needs fairness is left to TLC.

The repository is large (a RAG pipeline, extractors, services, a map client,
about fifty tools). What carries its own logic, and is hard to test, is the
agent runtime: one *turn* of a conversation is a loop of model calls and tool
calls spread over several threads, which may be stopped, abandoned, fail half
way or run in circles, and which has to leave the conversation, the ledger and
the user's budget in agreement. That is what the models are about.

## 1. Inventory

| Component | Source | State it keeps | Operations | Interacts with |
|---|---|---|---|---|
| Supervisor loop | `agent_runtime/supervisor/graph.py` | the turn's state dict: peer slots, evidence, queue of capability requests, decision history, failures, counters, flags | the graph's nodes: clarify, supervisor, search, analyze, code, synthesize | turn log (progress rule, ledger), decider and peers (model calls) |
| Turn log, tool middleware | `agent_runtime/turn_log.py`, `executor_factory.py` | events of a turn, world counter, runs and open steps, registry of 200 logs | `record_result`, `close_step`, `earlier_answer`, `begin_run`, `ingest` | every peer's agent loop, in parallel tool threads; the supervisor reads it |
| Turn streaming and control | `graph_runtime.py`, `turn_control.py`, `agent_chat_service.py` | handle table, stop events, outbox queue, worker thread, two nested generators | begin, request_cancel, raise_if_cancelled, relay, charge, record | HTTP client, worker thread, memory stores, usage ledger |
| Daily credit limit | `usage_limit.py`, `api/server.py` | one JSON file a day, one override file, a lock | refusal, record, reset_today, set_override, prune | request threads, the admin |
| Model failover | `lumen_failover.py`, `lumen_coins.py` | which model is the default, when the balance was last read | `failed_over`, `observe` | every request, a balance service |
| Code execution | `code_execution.py`, `code_watch.py`, `tool_bridge.py` | one container per run, a review thread, a bridge thread with two directories, a memo | run, tick, review, serve, stop | code peer, turn log, container |
| CLI peers | `claude_peer.py`, `opencode_peer.py` | a directory per conversation with a lock file and a manifest of what was sent | acquire, release, sweep, run, persist | containers, the file store, the supervisor's code node |
| User examples | `user_examples.py` | a definition and data files per example, a list of opened links per user, one lock | create, update, delete, share, open, publish, copy | API workers, admins |
| Tool-support probe | `anvil_tool_probe.py` | verdicts, probes in flight | `tool_support`, `_run`, `_record` | probe threads, the model picker |
| Session and persistent memory | `session_memory.py`, `rag_pipeline/memory_module.py` | LRU maps of turns, files, actions; OpenSearch documents | append, get, clear, update | service, supervisor |
| Identity | `identity.py`, `thread_scope.py` | introspection cache | decode, introspect, authorize | API |
| Files, lineage | `file_store.py`, `staging.py`, `lineage.py` | files and metadata, a provenance graph per turn | create, replace, sweep, stage, record | tools, code execution |
| Answer checks | `facts.py`, `verdict.py`, `claim_checker.py`, `agreement.py`, ... | none between turns | pure analysis of one answer | synthesize |
| Tools, RAG, MCP, extractors, services, UI, deployment | the rest | | | |

`PROJECT.json` lists every component with its status and the reason when it is
not modelled.

**What is hard in it.**

- *Bounded loops.* Peers may ask for one another after every run, the decider
  may answer anything, the composed answer may be sent back. Five separate caps
  (steps, searches, runs of a peer, failures, re-grounding passes) and a progress rule
  have to bound the turn together, far under LangGraph's recursion limit of 25.
- *Partial failure.* A peer, the decider or the composition may raise at any
  point; the turn must go on, name what failed unless it was made good, and
  still record the work it did, once.
- *Parallel threads around one log.* The tool calls of a step run in parallel;
  each looks its call up and records its result in separate critical sections.
  Whether a remembered answer is still true depends on what the others did.
- *Termination.* Nothing but the accounting of the log stops a model that
  repeats itself.
- *A producer, a consumer and a stranger.* The worker produces, the request
  thread consumes from inside two generators, the client may leave at any
  `yield`, another request may stop the turn, and all of it ends in four
  separate steps (charge, trace, memory, answer).
- *Check, then act.* The budget is read when a turn begins and charged when it
  ends; files are read, changed and replaced; either can fail.
- *Lock files.* A conversation's directory is claimed by a file that outlives a
  crash; its age is looked at in one step and it is removed by name in another,
  beside a sweep that removes whole directories.
- *Late answers.* A review's verdict arrives when the program is elsewhere or
  over; a balance is read outside the lock and applied after newer readings; a
  probe reports on a server that has changed since.
- *Served past the end.* The bridge's thread works through a list of requests
  while the run that made them is stopped and its directories are removed.

**What makes each component correct** is stated as the properties below. The hazards at
their lines are in `PROJECT.json`; each names the properties that would
catch it, or says why none does yet.

## 2. The modules

| Module | What it is |
|---|---|
| `SupervisorLoop` | the graph of one turn; one action per node and way out of it |
| `SupervisorLoopProofs` | its theorems |
| `TurnLog` | the log under the middleware, with parallel tool threads |
| `TurnLogProofs` | its theorems |
| `TurnStream` | a streamed turn: handle, worker, relay, and what follows |
| `TurnContract` | what a streamed turn promises, implemented by `TurnStream` |
| `TurnStreamProofs` | its theorems, the refinement among them |
| `DailyUsage` | the limit, the day files, their lock, the admin |
| `UsageBooks` | what the day files promise, implemented by `DailyUsage` |
| `DailyUsageProofs` | the theorems of `DailyUsage`, the refinement among them |
| `SessionDirectory` | the directories of conversations a CLI peer works in |
| `SessionDirectoryProofs` | its theorems |
| `CodeRun` | one run of the code sandbox with its review |
| `TileSearch` | the paged search for map features, as a function |
| `ToolBridge` | the bridge a run's program calls the agent's capabilities through, composed with `CodeRun` and `TileSearch` |
| `CallContract` | what the bridge promises of a run's calls, implemented by `ToolBridge` |
| `CodeRunProofs` | the theorems of `CodeRun`, `TileSearch` and `ToolBridge`, the refinement among them |
| `UserExamples` | the examples users write, share, copy and have published |
| `UserExamplesProofs` | its theorems |
| `ModelFailover` | which model is the default, by a balance read now and then |
| `ToolProbe` | which models can call tools |
| `ModelChoiceProofs` | the theorems of the two |
| `MC...` | constants for TLC |

Definitions marked *faulty* are plausible slips of the definition they stand
beside (a dropped guard, a swapped order, a missing reset). No specification
uses them. Substituted for their neighbour, each makes the property that should catch
it fail, which shows that the property depends on that piece of the code.

### SupervisorLoop

State is the fields of `SupervisorState` the routing reads: `slot` (does
`analysis_results` / `code_result` hold an answer, a blank or nothing), `held`
(what their `tool_results` contain), `evidence`, `needs` (the queue),
`actions`, `attempts` and `streak` of the search, `failures` with their
position, `retries` and `reground`, `rows`, `reported`, `ledger`; `log` is what
the turn log answers about this turn (`SupervisorLoop` keeps the answer, `TurnLog`
says how it comes about). `trail` is history.

| Action | Code |
|---|---|
| `Clarify` | `clarify_node` and its edges |
| `SupervisorStop`, `SupervisorNeed`, `SupervisorDecide`, `SupervisorDecideFails` | the four ways through `supervisor_node`: forced `done`, a queued need, the decider, the fallback when it raised; all end in `Route` (the floor under merged peers, the update) |
| `SearchReturns`, `SearchFails`, `SearchAborts` | `search_node`, its failure, and what its calls outside `_run_peer` raise (the reformulated retry, the open web, the reranking) |
| `PeerReturns`, `PeerFails` | `analysis_node` / `code_node` with the merge into slot and log |
| `SynthesizeGeneral`, `-Insufficient`, `-Answer`, `-Reground`, `-Raises` | the five returns of `synthesize_node` |
| `Cancel` | `TurnCancelled` out of any node |
| `EvictLog` | 200 newer turns push the log out of the registry |

One node is one action because LangGraph runs one node at a time and merges its
update before the next. The decider, the peers and the composition answer
anything of the right shape: their quality is not modelled, so the properties
hold whatever the model says.

### TurnLog

State: `world`, what has been `seen`, the last real result of each call (`last`,
`answered`), real failures per call, the current run's counts and open step
(`run`), the tool threads (`slots`). `disk`, `settled`, `step` and `newAt` are
history or environment: they say when something really changed, which the log only
guesses through `world`. `ModelCall` is the progress middleware around a model call (close the step; stop the
run when it is exhausted; otherwise ask for up to one call per thread), then
each thread goes through `LookUp`, and `RunTool` and `Record`, or
`AnswerRepeat`: the log is locked in the first and the last only. `EndRun` and `RunDies` leave the
`bind` scope. `Ingest` is a CLI peer's results, merged after its run was left.

The list of events is replaced by what the code asks of it; each of these
summaries is a fold of the list over the current turn. Recording a result and
the event's content digest are exact up to renaming: a success is its content,
a failure its error class.

### TurnStream and TurnContract

`table`, `old`, `stopped`, `held` are turn control (a stop request looks a
handle up under the lock and sets its event after releasing it). A worker is
`between` two model or tool calls, where the next one looks at the event, or
`calling`, where nothing does; then it has `composed` its answer or is
`failing`, and ends. `worker`, `outbox`, `failed`
are the thread, its queue and the list its exception is put in. `reader` is where the request thread
stands: relaying (`waiting`, `timed_out`, `sent`, `draining`, `drain_sent`) or
after the loop (`finished`, `traced`, `settling`, `unsaved`, `session`, `recorded`, and how it
ends). The reader can go away exactly at the places where one of the two
generators is suspended at a `yield`; what then runs is the `finally` of the
frame it stands in (`LeaveOpening`, `LeaveStream`, `LeaveLate`). Between the handle and the worker's start
something may raise (`OpenFails`): no event tells of it, and the handle stays. `got`,
`account` and `kept` are what it was handed, what the user was charged, what
the conversation holds. Progress events and keepalives are one thing to the
reader, a `yield` in mid-stream, so only the keepalive is kept.

`TurnContract` has three actions: a turn concludes with one fate, is settled
(only an answer, only once, before it is recorded), is kept as that fate. `KeepsContract` is
the refinement, with the fate read off what the worker has produced (delivered
or still queued).

### DailyUsage and UsageBooks

`slots` are request threads: `ReadSpent` and `Decide` are the two file reads of
`refusal` (nothing is reserved between them and the charge), `Cost` fixes the
day, `LockLedger` and `WriteCharge` are the critical section of `record`.
`AskReset`, `LockReset`, `WriteReset` are `reset_today`; `SetOverride` is one
action because it holds the lock throughout and touches another file than the
charges do. Any read may answer "empty" and any write may fail, at most
`MaxFaults` times. `charged` is history: what turns were charged since the
user's last reset.

`UsageBooks` has neither lock nor reads: a charge adds to one row, a reset clears
one, each at once. `KeepsBooks` maps its `books` to the files and `whole` to "no
fault so far", so a charge happens at `WriteCharge` and a reset at
`WriteReset`, and every other step of a request stutters. What a write starts
from (`Found`) is where the abstract books admit the code's one weakness: after
a fault it may be the day as it is, or nothing.

### SessionDirectory

A turn of the CLI peer first sweeps: every directory found expired is listed
(`SweepLists`), unlinked name by name (`SweepUnlinks`, which passes over what it
cannot unlink) and removed if nothing is in it by then (`SweepRemoves`), while
another turn may claim it. Then it goes through `making`, `looking`, `dating`,
`breaking` and `creating` to `claimed`, because each of these is a separate
file-system call that other turns may come between; a turn that does not get
the directory is `apart` (a throwaway one). `BoxWrites` and `BoxEnds` are the
container: it mounts the directory it was started on (`mounted`), so what it
writes under one a sweep has removed is lost, and it goes on when its turn's
process dies (`Crash`) or when it could not be killed (`BoxOutlives`). `Deliver` and
`Record` are `_persist_artifacts` and
`record_persisted`; the manifest is compared by content. A file's content is
the number of the edit that made it. Time is `stale` (a lock is older than any
run should be; a live turn's too, since staging, the kill and the uploads have no
time-out: `LockAges`) and `expired` (nobody touched the directory inside the
retention: `DirAges`). `Mishaps` and `MaxMishaps` bound crashes, containers that
go on, live locks that age and expiries. History is `raced` (a live claim was
taken away), `lapsed` (something sent is not recorded, because the record failed or
was swept away) and `stray` (a container went on without its turn).

### CodeRun

The loop of `_supervise` in the order of the code: an exit is seen first
(`SeesExit`), then the stop of the turn, the time-out, the watch's `tick`
(`BeginsReview`, or `CannotReview`, whose error goes up through the `finally` that
kills the container; `Settles`, `ConfirmsHeld`), then the next wait. Beside it the
review's thread `Answers`, the program `Moves` and `Exits`, a person asks for
a stop and time passes. `elapsed` is the time the loop read in this round,
which is what its decisions use. A sample of the stack tells whether the program
is in the code the review cites, or nothing.

### TileSearch, ToolBridge and CallContract

`ToolBridge` puts the bridge beside the run of `CodeRun`. The program writes
requests into `inbox` and polls for its answers, up to a time-out (`Asks`,
`Reads`, `GivesUp`). Every step of the agent's thread that touches something
another reads is an action: it looks at the event that stops it (`Looks`),
lists the directory (`Lists`), takes the listed requests one by one (`Picks` reads
and unlinks one, `Drops` removes a malformed id and says nothing), decides by
the caps and the conversation's `memo` whether a capability is asked (`Begins`),
waits for that (`Returns`), copies the file its answer names into the run within the
run's bytes (`Hands`; the copy may fail), puts the call on the run's list
(`Notes`) and writes the answer (`Responds`; an answer that cannot be written, for
whatever reason, ends the thread). The turn's log is written after the run's list, and
a failure of that goes unnoticed (`tool_bridge.py:754`); no property speaks of it.
`StopsBridge` and `Closes` are the `finally` around the run
(`code_execution.py:1590`): told to stop, waited for at most half a minute, the
directories removed whether it has ended or not; only then `Within` lets the run
return. All of this may fall between any two steps of the thread: a request
read just before the directories go may reach its capability after the run has
returned (`late` keeps apart those that are taken up after it). An answer brings one
file or none. Unknown functions and wrong arguments are
refused without a trace in the state other than the record, as a capability's refusal is.
The run has a conversation (`session`), as every run of a turn has.

`CallContract` has neither directories nor threads: a call is asked, refused or
granted (within the caps), heard, and the run returns. `KeepsCalls` maps its
`asked` to the calls the program has ever made, `entry` to the record (`noted`),
`heard` to what the program read (`Heard`), `over` to the returned run. So an answer
falls at `Notes`, where the call is counted, not where the capability replied:
the caps are looked at in `Begins`, two steps and a capability earlier, and hold
because one thread serves.

`TileSearch` is `fetch_osm_features`, one of the capabilities, with what
`overpass_search` makes of each ask. It runs in one thread and touches nothing
shared, so it is a function of what the service holds and which asks fail:
`map.at` says where each element lies (at several points, if it crosses a border),
`map.rel` which are relations, `map.exact` which of those bear the name asked
for, `map.drawn` which can be drawn. An ask sends a page of relations and one of
the rest (`Relations`, `Others`) and answers with up to a page of those that can be
drawn (`Answer`), so its count may hide that the service's page was full; a search by
name may be answered by relations alone (`ByName`, at the asks in `map.quick` where that first
request is answered). `Withheld` says when an answer left something out that its
count does not show. `Trail` is the loop turn by turn, `Failed` and `Answered` the two ways
through its body, `SearchOutcome` what the caller is told, measured against what the region holds. Points have
integer coordinates and halves are rounded down; nothing depends on where a
box is cut. What is below one ask (mirrors, one exchange for equal queries, the
cache) is the service, a kept answer being what it holds.

### UserExamples

An edit takes the lock and goes through three steps that readers can see
(`UpdateReplaces` and `UpdatePrunes` file by file, `UpdateWrites`), a deletion through
two; `Fails` ends either half way. A new definition that cannot be written leaves its
files behind (`CreateFails`, `CopyFails`). Operations whose one write is under the lock are one
step. A copy reads without the lock (`CopyReads`, `CopyOpens`), creates under
it, and writes the definition once more under it from memory (`CopyStamps`).
Text and bytes are the number of the edit that made them. `given`,
`approved`, `deleted` and `stamped` are history: the link an owner holds, what
an admin left published, and the ids a copy wrote an older definition over.

### ModelFailover and ToolProbe

`ModelFailover`: a request asks for the default and at most one a minute reads
the balance (`Asks`, `Reads`, `Observes`: the read is outside the lock); a Lumen
turn reads it at its end; the side is kept in a file that survives restarts, and a
file that cannot be read counts as one that says Lumen (`Loaded`; a fault where it says otherwise). The
balance is `low`, in the `band` of the hysteresis, or `high`. The file is
that of one server process, as the deployment runs one worker.
`ToolProbe`: a catalogue request starts a probe for each model whose answer is
due and that has none in flight, a semaphore bounds those that ask, a plain
answer is asked for once more, and `_record` keeps the last answer when the probe got none.
`MCModelChoice` explores one or the other: they share no state.

## 3. Runs

With two workers on a small machine `code_watched` takes about three minutes,
`usage_bounded` two and the others up to one or so.

| Run | Instance | What it shows |
|---|---|---|
| `peered` | separate peers, `MaxSteps` 4, one search, two runs of a peer, error budget 2, one re-grounding, retry and clarify node on | `StepBound`, `SearchesBounded`, `ComposedOnce`, `UnresolvedReported`, `WorkAccumulates`, `NoFruitlessRerun` |
| `unified` | merged peers beside separate ones, `MaxSteps` 3, the log may be evicted at any moment | `NeverAnswersUnworked`, `LedgerExact`, `Termination` |
| `log_memo` | two calls of one tool, two contents, one error class, two threads, two runs, one reported result, limit 1, one retry | `ProgressPaysForSteps`, `ServedOnlyWhenQuiet`, `RerunsJustified`, `EveryRunEnds` |
| `stream_relay` | a signed-in, metered, recorded turn beside an anonymous one that may grow older than six hours; a user who stops either | `OutcomeReachesReader`, `HandleReleased`, `KeepsContract`, `AbandonedWorkerStops` |
| `usage_bounded` | two threads, a user whose limit is doubled and one whose limit is lifted, turns as dear as the whole limit, a midnight, one fault | `SpendBounded`, `ChargesAdd`, `NeverOvercharged`, `KeepsBooks` |
| `session_kept` | three turns of one conversation, one file name, two edits, any two of: a crash, a container that goes on, a live lock that ages, an expiry | `TypeOK`, `Exclusive`, `NeverWithheld`, `SentOnce` |
| `code_watched` | every review mode, limit 2, review at once, floor 1; or a bridge with two equal searches, one call within the cap, bytes for one answer. Searched are three elements in a corner, beside it, in the opposite one, across a border or outside; by kind, any of them undrawable, any two asks failing, or three in a row; by name, with or without a relation so called; pages of two, ten asks, a cap of three | `StopJustified`, `NoneLeft`, `RunEnds`, `AnswersOnRecord`, `LateAreRefused`, `CompleteMeansAll`, `KeepsCalls` |
| `examples_kept` | two threads, a user and an admin, two examples, one file name, one example each, two edits, one link, one fault | `TypeOK`, `FilesBackDefinition`, `ApprovedAtRest`, `LinkKept` |
| `choice_settles` | failover: two threads, two moves of the balance, a fault, a restart; probes: two models, one slot, one change, one fault | `TypesOK`, `RestartKeepsSide`, `SettlesOnSide`, `VerdictsRefresh` |
| `log_write` | a listing and a write in one step | the disagreement of the log (section 6) |
| `usage_unreadable` | as `usage_bounded`, with turns that cost nothing | that of the usage ledger |
| `session_shared` | three turns of one conversation, a crash | that of the session directories |

**Why the bounds are enough.** *Supervisor loop*: four decisions let every
ordered pair of peers run and one of them again after its failure, with a
composition sent back in between; one search and two runs of a peer make both
caps bind; an error budget of two makes "one more than the budget" reachable,
and one document already separates "new evidence" from "none". The theorems
hold for every bound. *Turn log*: two threads interleave lookup and record
within a step; two runs share the log; two contents let a step add something
after another had; with limit 1 every unproductive step is decisive. The
theorems again cover all values. *Stream*: turns meet only in the handle table (`begin` drops what is
older than six hours) and in one user's stop, for which two turns suffice. *Usage*:
two threads are the least that pass the check together; a charge is the dearest
turn, so `SpendBounded` is met with only the last unit to spare, and admitting at the limit breaks it.
`MaxSpent` stops a user's turns from being charged once he was charged four
times the dearest turn (the one whose limit is lifted: once), without limiting
what a turn in flight may add. *Session directories*: one turn has to crash or overrun,
one to break its lock and one to come between; conversations meet only in the sweep, which turns of
the same one do to each other as well; two mishaps allow each pair (a crash before an expiry, a live
lock that ages under a container that goes on); a second edit makes a file
differ from what was sent; the theorems hold for any numbers. *Code run*: the
floor and half the limit are one tick, the limit two and the review starts at once, so that a
verdict comes before the floor, after it and at the limit, and after the program's end; a later
start takes orders away, and a grace only moves the limit. Runs with a bridge are
not reviewed, because the two meet nowhere
but in the run's end. Two calls let one be served while another is listed,
asked or given up; with a cap of one the second is refused, whether the
first was refused, answered from the memo or searched for. Ten asks, pages of
two and a cap of three let a search end complete (after splits and at its last ask too), cut short
by the asks or by the cap, withheld from, and refused with and without something
found. The theorems hold for all of these. *User examples*:
an edit and a copy, or two edits, overlap; a user at his limit of one makes a
copy fail; the theorems hold for any numbers. *Failover and probes*: two threads let an
older reading be applied after a newer one, two moves let the balance cross
the band there and back; with one slot and two models a probe has to wait.

**Fairness.**

- `SupervisorLoop`: weak fairness of `GraphStep`. LangGraph runs the next node
  as soon as the last returned, and each call a node makes has a timeout
  (`llm_timeout.py`). Nothing is assumed of `Cancel` or `EvictLog`.
- `TurnLog`: weak fairness of `ModelCall`, `EndRun` and each thread's tool
  steps, for the same reason. Nobody has to begin a run; the model may ask for
  calls for ever, and `EveryRunEnds` holds because what tools can say is finite.
- `TurnStream`: weak fairness of each worker and of a stop request that holds
  a handle. The client need not read, leave or stop; `AbandonedWorkerStops`
  rests on `CancelOnDisconnect` (the default) and on the handle being in the
  table, hence not for a turn older than six hours.
- `CodeRun`, `ToolBridge`: weak fairness of the loop's steps, of time, and of
  stopping and closing the bridge, which wait for nothing without a limit. The reviewer,
  the program, the person and the bridge's thread need do nothing: `RunEnds`
  rests on the time-out, with a capability that never returns too.
- `ModelFailover`: weak fairness of each thread's steps and of the minute:
  requests keep coming, which is what a settled default is for, and a balance
  request has a time-out. Nothing is assumed of the balance, faults or restarts.
- `ToolProbe`: weak fairness of catalogue requests, of answers (a probe has a
  time-out), of records and of the age of an answer; strong fairness of a
  probe's turn at the semaphore, whose slot is free again and again but
  may be taken by another each time.
- `DailyUsage`, `SessionDirectory` and `UserExamples` have no liveness property and no fairness.

`CHECK_DEADLOCK FALSE` is set everywhere because turns end: a finished turn, a
turn log whose runs are used up, a stream nobody reads, a last day, a run that
has returned and a bound on edits are proper final states.

## 4. Proofs

`tlapm` checks the eight proof modules to the last leaf.

**`SupervisorLoopProofs`**, from `LoopConstants` (the limits are positive, the lists of
needs are sequences of peers):

| Theorem | Says |
|---|---|
| `TypeCorrect` | `[]TypeOK` |
| `StepsBounded` | `[]StepBound` |
| `SearchesCapped` | `[]SearchesBounded` |
| `ComposedBounded` | `[]ComposedOnce` |
| `QueueDrained` | `[]NeedsDrained` |
| `NodesBounded` | `NodesRunOut`: every node run uses up one of at most `2 * MaxSteps + 4` |
| `FruitlessNotRerun` | `NoFruitlessRerun` |
| `NothingUnworked` | `[]NeverAnswersUnworked` |
| `WorkKept` | `WorkAccumulates` |
| `LedgerCorrect` | `[]LedgerExact` |
| `FailuresReported` | `[]UnresolvedReported` |

The bounds are not inductive. `StepBound` needs to know *where* the turn is:
while a peer or the supervisor may still run the count is at most `MaxSteps`,
and only the way to composition may pass it (`StepInv`). `ComposedOnce` needs
the compositions counted against the passes that sent the turn back
(`ComposeInv`: `Count("done") <= retries`, plus one while composing or ended),
which holds because re-grounding is offered only with two steps left.
`SearchesBounded` needs every search decided on to be an attempt counted, save
the one running (`SearchInv`). Their conjunction, with the queue's emptiness at
composition, is `ControlInv`; `ControlCorrect` proves it from four lemmas that
say what the steps of each kind of node do to the control state. On them rests
`NodesBounded`, the part of `Termination` that is not fairness: `NodesLeft`,
two nodes for each decision left, falls with every node the graph runs and never
rises, so a turn runs at most 20 nodes with the default of 8 steps, and LangGraph's
limit of 25 is never what ends it. The filter of the queue
(`Kept`) is a recursive function, so `KeptType` first shows that it is
well defined, by the least element of a set of naturals.
`FruitlessNotRerun` needs one more fact, `FirstInv`: before the first decision no peer has
run, so that the floor cannot start one in vain. `NothingUnworked` needs the same of what
is held (`UnworkedInv`): only then does the floor replace a first "done".
`WorkAccumulates` follows once a log the turn opened holds all that the slots
hold of it (`RecordInv`). `LedgerInv` adds to `LedgerExact` that a running turn is
unrecorded and that a turn about to ask has nothing to record.
`UnresolvedReported` relates failures, routes and slots through positions
(`TrailInv`): the trail lags the decisions by the one that is running, a
failed run is among the failures at its place, and a slot holding an answer got it from a run
no older than any of its peer's that did not fail. So a slot that the verdict
takes for good was good after the failure it leaves out.

**`TurnLogProofs`**, from `LogConstants`:

| Theorem | Says |
|---|---|
| `TypeCorrect` | `[]TypeOK` |
| `ProgressCorrect` | `[]ProgressPaysForSteps` |
| `RunsBounded` | `[]StepsWithinTokens`, when what tools can say is finite: no run passes `PROGRESS_LIMIT` steps for each thing to say and as many more |
| `MemoServesQuiet` | `ServedOnlyWhenQuiet` |
| `MemoRerunsJustified` | `RerunsJustified` |

`ProgressInv` counts in two currencies: the steps of a run are paid for by its
productive steps (each buys `PROGRESS_LIMIT`) and by its current patience, and
each productive step by a content new to the turn, including the one that is
pending in the open step. That gives `RunsBounded`, the bound the code never
writes down. `WorldInv` says what a stored world *means*: a result
of an open step carries the world as it is; one of a closed step is at the
current world exactly when no later step added a new success. The second half is the point
of the memo and is true only until a peer reports results of its own, so
`MemoInv` is that invariant under `reports = 0`, and so are the two properties.

**`TurnStreamProofs`**, from `StreamConstants` (an owned turn has a conversation's
id, and the sets of turns are sets of turns):

| Theorem | Says |
|---|---|
| `TypeCorrect` | `[]TypeOK` |
| `OutcomesReach` | `[]OutcomeReachesReader` |
| `HandlesReleased` | `[]HandleReleased` |
| `ContractKept` | `KeepsContract`: every behaviour of `TurnStream` is one of `TurnContract` |

`StreamInv` follows the two threads of one turn. `Course` says what was put and
what of it is still queued, by where the worker stands: nothing (`Untold`), the
outcome (`Told`), the outcome and the sentinel (`Ended`). `Place` says what the reader's place
means, above all that whoever is past the relay has an empty queue and a worker
with nothing more to put, by the sentinel or by the last look at the queue after
the worker was seen dead, or never had a worker (`Unopened`). `Paid` keeps account and conversation untouched until
their step. The refinement maps a turn to the fate its worker has put, read or
not; each of the three actions of the contract is met by the worker's put, the
charge, or one of the two ways to record, and every other step stutters.

**`DailyUsageProofs`**, from `UsageConstants` (finitely many threads, at least one
user, costs up to `MaxCost`, a positive default limit, grants that are limits):

| Theorem | Says |
|---|---|
| `TypeCorrect` | `[]TypeOK`, with the lock held by exactly the request between its read and its write |
| `NothingOvercharged` | `[]NeverOvercharged`, whatever fails |
| `BooksAdd` | `[]ChargesAdd` |
| `SpendIsBounded` | `[]SpendBounded` |
| `BooksKept` | `KeepsBooks`: every behaviour of `DailyUsage` is one of `UsageBooks` |

`BooksInv` adds to the two properties of the books what makes them inductive:
what the holder of the lock has read is still in the file (`DataInv`), and no
request is of a day to come (`DaysInv`), so that pruning behind a late charge
never reaches a day that is kept. `SpendBounded` is not inductive because a turn
was admitted long before it is charged. `SpendInv` counts the turns that are
`Open`, admitted below a limit or about to be, with the dearest cost each:
what was spent and what the open turns can still add stay within the bound
together. A read below the limit is the only way to become open, and it proves
the sum afresh; a charge moves one turn's worth from one part to the other;
midnight moves the running turns to a day on which nothing is spent
(`FutureInv`). `BooksKept` goes step by step (`StepMaps`): a step that leaves the files
is midnight, a fault or a stutter (`QuietMaps`); a write is a charge or
a reset from what was found (`ChargeMaps`, `ResetMaps`), which needs that the holder's
read is still the file or was empty because of a fault (`FoundInv`), that its day has begun
(`DaysInv`), and that what is charged is what a turn can cost (`CostInv`).

**`SessionDirectoryProofs`**, from `DirectoryConstants` (`NoOne` is no turn, finitely
many file names):

| Theorem | Says |
|---|---|
| `LockCorrect`, `TypeCorrect` | `[]TypeOK`, with every lock held by a turn of its conversation that works or has died |
| `ClaimsExclude` | `[]Exclusive` |
| `NothingWithheld` | `[]NeverWithheld` |
| `NothingResent` | `[]SentOnce` |

`LockInv` adds to the owner of the lock its converse: in a directory that was
never raced a working turn holds the lock of its path. Two workers would then both be its one
owner. `BreakLock`, `Release` and `SweepUnlinks` act by name, and the proof has
to show for each that taking a live claim puts the directory into `raced`; a
directory that is removed holds no lock, since it is empty.
`SentInv` says of a directory neither raced nor stray that what
its manifest records, and what its working turn has just delivered and not
touched since, was sent; it needs that elsewhere a container runs only under a started turn
(`BoxStarted`). Crashes need no exception: what a dead turn left unrecorded is not in the manifest.
`OnceInv` is its converse, that what was sent is recorded or just delivered (`Remembered`)
where no record lapsed, and that versions are numbered across directories.

**`CodeRunProofs`**, from `RunConstants`, `SearchConstants` and `BridgeConstants`
(the service holds finitely many elements, at points):

| Theorem | Says |
|---|---|
| `TypeCorrect` | `[]TypeOK` |
| `StopsJustified` | `[]StopJustified` |
| `NothingLeft` | `[]NoneLeft` |
| `RunKeptWithBridge` | both, of `BridgeSpec` |
| `AnswersRecorded` | `BridgeSpec => []AnswersOnRecord`, of the run's list |
| `LateCallsRefused` | `BridgeSpec => []LateAreRefused` |
| `SearchesComplete` | `BridgeSpec => []CompleteMeansAll`, withheld answers excepted |
| `SearchEnds` | a search is over within `MaxTiles` turns of its loop and asks no more often |
| `BridgeRuns` | `BridgeSpec => Init /\ [][Next]_vars`: a run with the bridge is a run |
| `CallsKept` | `KeepsCalls`: every behaviour with the bridge is one of `CallContract` |

`RunInv` adds what is known of a held stop (accepted on a sample, in interrupt
mode, of slow code: `HeldInv`) and what the end of the loop means
(`EndInv`: past the wait, either the container has ended, or there is a reason to kill it).
A step with the bridge is a step of the run or leaves it alone, so the same
invariant serves both. `CallInv` follows a call: not noted while it is open, noted before it
is answered, answered before it is read. `ClosedInv` says that a closed bridge
holds no request and that a run which has returned has closed it; so what the thread
takes up after the return is not there to be read (`LateInv`: nothing is late before the return, and a late
request in hand was refused when it was read). `CallsKept`
adds `GrantInv`: from the moment a request is taken up until it is noted the caps still
allow it, because nothing else is noted meanwhile. Then `Notes` is a grant or a
refusal, `Reads` hears what is on record (`CallInv`), and giving up, late service and the
closing of the bridge stutter; a return is one only when the bridge is closed. The search is
proved for every map by what no turn of its loop loses (`Covered`): unless an
answer withheld something, what can be drawn in the region is seen or lies in a box still to be asked, and
nothing else is ever seen. A full page has its box split, quarters cover their box
(`QuartersCover`), and an answer shorter than a page that withholds nothing is all there is
(`ShortPage`). `TrailDef` and `SearchCovered` carry that along the loop, by the least
counterexample (`LeastOutside`); that turns count the asks (`TurnsCounted`) bounds the loop, so the
length `TileSearch` gives its trail cuts nothing off.

**`UserExamplesProofs`**, from `ExampleConstants` (admins are users, no definition is
a definition):

| Theorem | Says |
|---|---|
| `TypeCorrect` | `[]TypeOK`, with the lock held by exactly the thread that edits or deletes |
| `LinksKept` | `[]LinkKept`, whatever fails |
| `FilesBacked` | `[]FilesBackDefinition` |
| `PublishedApproved` | `[]ApprovedAtRest` |

The properties speak of states at rest, the invariant of the states between.
`DefInv`: the definition an edit has read is still the one on disk, because
nobody writes one without the lock; so the token it writes back is the token its owner
holds (`LinkInv`). `RestInv`: an example nobody edits is sound (files and
approval agree with its definition), and one in edit is `Ready` (every file it
keeps is there or still to be stored), whatever it has pruned so far. `OpenInv`: a
copy holds exactly the files it has opened, so what it creates is sound. `RestFollows` is the one
lemma about a step of one thread at one example from which every action's case follows.

**`ModelChoiceProofs`**, from `ChoiceBounds` (the bounds of the instance are naturals):

| Theorem | Says |
|---|---|
| `RestartKeeps` | `[]RestartKeepsSide`: while nothing failed, file and process name one side |
| `OneProbe` | `[]TypesOK`, with one probe of a model at a time, in flight exactly while a thread has it |
| `FailoverAlone` | the first, of `ModelFailover` by itself |

`RestartKeepsSide` is inductive with the types. `OneProbeEach` is not, because it
counts a model's probes over their stages: `ProbeInv` says instead that a model in
flight, unless lost with a thread that never started, has exactly one probe, at one stage,
and any other model none (`ProbeOf`); then a probe that moves leaves the stage it was at
(`AdvanceMoves`). The specification is that of `MCModelChoice`, where one or the
other moves; `FailoverStep` and `ProbeStep` speak of each alone.

**Out of the prover's reach**, and left to TLC: everything with fairness
(`Termination`, `EveryRunEnds`, `AbandonedWorkerStops`, `RunEnds`,
`SettlesOnSide`, `VerdictsRefresh`). The library's induction theorems are out of
reach too, because they take an operator; the two proofs about recursive functions (`KeptType`,
`TrailDef`) go by a least element instead. No module declares a `RECURSIVE` operator.

**Model-checked only**: these six liveness properties. The types of `SupervisorLoop`,
`TurnLog`, `TurnStream`, `DailyUsage` and `CodeRun` are proved and not checked in a run.

## 5. Not modelled

- Prompts, retrieval, composition and the checks of an answer: their outcomes
  are choices.
- The non-streaming entry point.
- Installs and the copying of a run's workspace; what the bridge's calls leave in
  the turn log, and that they may fail to; capabilities other than the map search, which
  refuse or answer; below one ask of the map search, mirrors, limits, equal queries
  sent once and the cache (`overpass.py`), whose kept answer counts as what the service holds. Ways that
  belong to a relation asked for come with it and are not elements of their own.
- `close_step` reading the world without the log's lock while a late sibling
  records (the middleware closes a step only when its calls have returned).
- Several server processes sharing the usage files or the failover's state file.
- The cap of 200 links on a user's list of opened examples (past it, opening forgets the oldest), and
  the forms an id, a title or a file name must have.
- A completed answer without text, which `TurnStream` takes for an answer like any other.
- A limit of 0 in a run of `DailyUsage`: its theorems cover one, no instance grants it.
- Readings of the failover's state outside its lock: only `status` would make one, and nothing calls it.
- What a CLI does in its container, its credentials and its output.
- The wait of a catalogue request for first answers, which changes no state.
- The components `PROJECT.json` lists as not modelled, with their reasons.
  What remains is retrieval, extraction, numerical and geographic tools, a
  browser client and deployment scripts: sequential transformations of data and
  calls of remote services, whose correctness is in the data a model of control would abstract away.

## 6. Where code and documentation disagree

Shown by a run:

- `log_write`: a listing issued beside a write is served again after it
  (`turn_log.py:316` promises it runs again).
- `usage_unreadable`: a day file that once cannot be read is written back with
  one row (`usage_limit.py:113`).
- `session_shared`: two turns find a crashed run's lock stale; the second
  unlinks the first one's new lock, and both work in the directory
  (`claude_peer.py:215`).

Noticed while modelling, reproduced by the models, and not the property of a run:

- *Rows*: two returns of synthesize (a general answer, an exception;
  `supervisor/graph.py:6422`) leave the turn's search rows in the state the
  client receives; `test_action_ledger.py:716` says synthesize clears them.
- *Containment*: the reformulated search retry (`graph.py:6143`), the open web
  (`graph.py:6180`) and the reranking (`graph.py:6191`) are called outside `_run_peer`
  ("Never raises", `graph.py:1931`), so what they raise aborts the turn (`SearchAborts`).
- *Reported results*: what a CLI peer reports (`graph.py:1644`) joins a step no
  one closes, so it never moves the world (`turn_log.py:193`, against `:12`) and stale answers are
  served after it. Hence `reports = 0` in the memo's properties.
- *Late stop*: a stop accepted during the last model call has no effect
  (`server.py:2959`, `graph_runtime.py:271`).
- *Charged and lost*: a reader that leaves at the `trace_saved` event
  (`agent_chat_service.py:637`) ends a charged turn before it is recorded (`:645`).
- *Published half-edited*: an edit replaces a published example's files before
  it writes the definition that unpublishes it (`user_examples.py:480`,
  `:488`); readers take no lock, and an edit that fails between leaves it so. `ApprovedAtRest`
  is therefore stated at rest and while nothing failed.
- *Overwritten by a copy*: a copy writes its definition a second time from
  memory under a lock taken anew (`user_examples.py:594`); what happened to it in
  between is undone. The properties leave such ids (`stamped`) out.
- *Held stop without a sample*: a held performance stop is confirmed at its
  floor with an empty sample too, if the run is past half its limit
  (`code_watch.py:863`), where the docstring (`:855`) speaks of the same lines still running.
- *Full page, fewer features*: a tile is split when its `count` is a full page
  (`tool_bridge.py:344`), but `count` leaves out elements that cannot be drawn
  (`overpass.py:902`, `:914`): a truncated page with one of those counts as not full; and a
  relation found by its name is the whole answer, without the ways and nodes
  of that name (`overpass.py:870`). The search may so call a part "every feature in the region"
  (`tool_bridge.py:284`). The model does the same (`Withheld`), and what it calls complete is
  all that can be drawn only where neither happened: the claim without that exception is false of the code, and
  `CompleteMeansAll` does not make it.
- *Served past the end*: the requests listed when a run is stopped go on being
  served until the list is done (`tool_bridge.py:577`), where the class speaks
  of a bridge stopped after the container (`:514`) and the run of its length
  (`code_execution.py:1569`). While the thread is waited for, they reach their capabilities
  and its answers nobody; and one that was read before the directories went may
  reach its capability after the run has returned. Those read after that are refused and
  recorded, and writing the first one's answer ends the thread (`LateAreRefused`).
- *Container that goes on*: a `docker kill` that fails or hangs (`claude_peer.py:631`), or an
  exception while the CLI is waited for (`:636`), leaves the container writing into a directory
  the next turn claims. A turn that outlives the age of its lock, which
  nothing prevents, loses its claim to the next one.
- *Claimed while swept*: a sweep that found a directory expired removes what it
  listed there by name (`claude_peer.py:207`), the lock and the files of a turn that has claimed it since included.
- *Files without an example*: a new example whose definition cannot be
  written leaves its files behind (`user_examples.py:462`; the clean-up is around storing them, `:453`).
- *Forgotten failover*: a state file that cannot be read starts the process on Lumen
  (`lumen_failover.py:102`), whatever it says, until the next reading.
- *Failed probe thread*: a probe's event is registered before its thread is started
  (`anvil_tool_probe.py:199`), so a thread that cannot start leaves its model in
  flight for good; `VerdictsRefresh` excludes such models (`lost`).
- The need queued by the grounding gate is dropped by the supervisor when
  analyze's last run added nothing or the error budget is spent; the pass then
  composes again with nothing new.
- `_max_peer_runs` is tested for queued needs and re-grounding but not for decisions.
- A failed decider is recorded at the position of the peer before it, so a
  failure that peer made good is still reported.
- A failed re-run of code blanks the earlier code answer; analyze keeps its summary.
- A reader gone before the next event was written ends the turn uncharged
  although it was handed the usage in `completed`.
- Two failed calls that are equal and run in parallel may both take the one retry a
  failure has: each looks before either records (`RerunsJustified` counts what is recorded).
- The handle of a turn whose reader leaves before the worker starts, or whose start fails, stays in
  the table for six hours; the handle of a turn that runs longer than that is
  dropped while it runs.

## 7. Plan

1. *Done*: the nine modelled components with their theorems; three refinements
   (`TurnContract`, `UsageBooks`, `CallContract`), model-checked and proved; the two bounds behind
   `Termination` and `EveryRunEnds` (`NodesBounded`, `RunsBounded`).
2. Proofs: what an abstract specification would say of `SessionDirectory` (a
   box files are sent from once) and of `UserExamples` (an edit at once, seen at rest);
   that what `SupervisorLoop` keeps of the log (`log`) is what `TurnLog` answers.
3. Composition of `TurnStream` with `DailyUsage`: a turn's charge in a day's
   ledger, `TurnContract`'s `Settle` and `UsageBooks`' `Charge` in one step.
4. The exchanges of `overpass.py`: an equal query sent once, the limit of exchanges, the cache.
5. The retention sweep of `file_store.py` beside the turns that still name its files.
