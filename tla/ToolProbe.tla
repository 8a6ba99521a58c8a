------------------------------ MODULE ToolProbe ------------------------------
(***************************************************************************)
(* Which AnvilGPT models can call tools (src/agent_runtime/                *)
(* anvil_tool_probe.py).  A catalogue request starts a probe for every     *)
(* model whose answer is due, at most one at a time for each model, and a  *)
(* bounded number of probes ask at once.  An answer stands until the next  *)
(* one; a probe that could not ask leaves it as it is.                     *)
(***************************************************************************)
EXTENDS Naturals, FiniteSets

CONSTANTS
    Models,
    Workers,    \* _WORKERS: probes that ask at once
    MaxChanges, \* bound: changes of a model's server
    MaxFaults   \* bound: probes that cannot ask, threads that cannot start

VARIABLES
    backend,   \* backend[m]: "calls" or "refuses" a tool call, or answers in "text"
    tools,     \* tools[m]: the entry's answer: "none" (no entry), "unknown", "yes", "no"
    due,       \* due[m]: next_probe_at is past
    inflight,  \* models with an event in _INFLIGHT
    probes,    \* probes[m]: its probe threads at each stage
    texts,     \* texts[m]: the probe under way had one answer in plain text
    changes, faults,
    lost       \* history: models whose probe thread could not be started

vars == <<backend, tools, due, inflight, probes, texts, changes, faults, lost>>

Stages == {"queued", "asking", "yes", "no", "unknown"}
Running(m) == {g \in Stages : probes[m][g] > 0}
Asking == {m \in Models : probes[m]["asking"] > 0}

TypesOK ==
    /\ backend \in [Models -> {"calls", "refuses", "text"}]
    /\ tools \in [Models -> {"none", "unknown", "yes", "no"}]
    /\ due \in [Models -> BOOLEAN] /\ texts \in [Models -> BOOLEAN]
    /\ probes \in [Models -> [Stages -> Nat]]
    /\ changes \in 0 .. MaxChanges /\ faults \in 0 .. MaxFaults
    /\ lost \subseteq inflight /\ inflight \subseteq Models

(* A model has one probe while it is in flight, and none otherwise. *)
OneProbeEach ==
    \A m \in Models : /\ \A g \in Stages : probes[m][g] <= 1
                      /\ Cardinality(Running(m)) = IF m \in inflight \ lost THEN 1 ELSE 0

Init ==
    /\ backend \in [Models -> {"calls", "refuses", "text"}]
    /\ tools = [m \in Models |-> "none"] /\ due = [m \in Models |-> TRUE]
    /\ inflight = {} /\ texts = [m \in Models |-> FALSE]
    /\ probes = [m \in Models |-> [g \in Stages |-> 0]]
    /\ changes = 0 /\ faults = 0 /\ lost = {}

Advance(m, from, to) == probes' = [probes EXCEPT ![m][from] = @ - 1, ![m][to] = @ + 1]

(* Faulty: a model in flight is started again. *)
ToStartAgain == {m \in Models : due[m]}

(* What a catalogue request starts a probe for. *)
ToStart == {m \in Models \ inflight : due[m]}

(* tool_support: the event is registered, then the thread started; a thread *)
(* that cannot be started ends the request.                                 *)
Catalogue ==
    /\ ToStart # {}
    /\ \/ /\ inflight' = inflight \cup ToStart
          /\ probes' = [m \in Models |->
                [probes[m] EXCEPT !["queued"] = IF m \in ToStart THEN @ + 1 ELSE @]]
          /\ UNCHANGED <<faults, lost>>
       \/ \E bad \in ToStart : \E S \in SUBSET (ToStart \ {bad}) :
          /\ faults < MaxFaults /\ faults' = faults + 1
          /\ inflight' = inflight \cup S \cup {bad}
          /\ lost' = lost \cup {bad}
          /\ probes' = [m \in Models |->
                [probes[m] EXCEPT !["queued"] = IF m \in S THEN @ + 1 ELSE @]]
    /\ UNCHANGED <<backend, tools, due, texts, changes>>

(* The semaphore. *)
Begins(m) ==
    /\ probes[m]["queued"] > 0 /\ Cardinality(Asking) < Workers
    /\ Advance(m, "queued", "asking")
    /\ texts' = [texts EXCEPT ![m] = FALSE]
    /\ UNCHANGED <<backend, tools, due, inflight, changes, faults, lost>>

(* probe: an answer in plain text is asked for once more; a model able to  *)
(* call may still answer in text.                                          *)
Answered(m) ==
    /\ probes[m]["asking"] > 0
    /\ \/ backend[m] = "calls" /\ Advance(m, "asking", "yes") /\ UNCHANGED <<texts, faults>>
       \/ backend[m] = "refuses" /\ Advance(m, "asking", "no") /\ UNCHANGED <<texts, faults>>
       \/ /\ backend[m] = "text" /\ ~texts[m]
          /\ texts' = [texts EXCEPT ![m] = TRUE] /\ UNCHANGED <<probes, faults>>
       \/ backend[m] = "text" /\ texts[m] /\ Advance(m, "asking", "no") /\ UNCHANGED <<texts, faults>>
       \/ /\ faults < MaxFaults /\ faults' = faults + 1
          /\ Advance(m, "asking", "unknown") /\ UNCHANGED texts
    /\ UNCHANGED <<backend, tools, due, inflight, changes, lost>>

(* Faulty: a probe that could not ask stays in flight. *)
RecordsAnswers(m) ==
    \E g \in Running(m) \ {"queued", "asking"} :
       /\ probes' = [probes EXCEPT ![m][g] = @ - 1]
       /\ inflight' = IF g = "unknown" THEN inflight ELSE inflight \ {m}
       /\ tools' = [tools EXCEPT ![m] = IF g # "unknown" THEN g ELSE IF @ = "none" THEN g ELSE @]
       /\ due' = [due EXCEPT ![m] = FALSE]
       /\ UNCHANGED <<backend, texts, changes, faults, lost>>

(* _record: no answer keeps the last one. *)
Records(m) ==
    \E g \in Running(m) \ {"queued", "asking"} :
       /\ probes' = [probes EXCEPT ![m][g] = @ - 1]
       /\ inflight' = inflight \ {m}
       /\ tools' = [tools EXCEPT ![m] = IF g # "unknown" THEN g ELSE IF @ = "none" THEN g ELSE @]
       /\ due' = [due EXCEPT ![m] = FALSE]
       /\ UNCHANGED <<backend, texts, changes, faults, lost>>

(* Hours after an answer, minutes after a probe that got none. *)
Expires(m) ==
    /\ ~due[m] /\ due' = [due EXCEPT ![m] = TRUE]
    /\ UNCHANGED <<backend, tools, inflight, probes, texts, changes, faults, lost>>

BackendChanges(m) ==
    /\ changes < MaxChanges /\ changes' = changes + 1
    /\ backend' \in [Models -> {"calls", "refuses", "text"}]
    /\ \A n \in Models : backend'[n] # backend[n] <=> n = m
    /\ UNCHANGED <<tools, due, inflight, probes, texts, faults, lost>>

Next ==
    \/ Catalogue
    \/ \E m \in Models : Begins(m) \/ Answered(m) \/ Records(m) \/ Expires(m) \/ BackendChanges(m)

(* Catalogues are asked for; probes are served in turn and time out; time   *)
(* passes.                                                                  *)
Fairness ==
    /\ WF_vars(Catalogue)
    /\ \A m \in Models : /\ SF_vars(Begins(m)) /\ WF_vars(Answered(m))
                         /\ WF_vars(Records(m)) /\ WF_vars(Expires(m))

(* What a model's server does in the end is known in the end, whatever      *)
(* earlier probes found and however many failed; not so for a model whose   *)
(* probe thread could not be started.                                       *)
VerdictsRefresh ==
    \A m \in Models :
       /\ <>[](backend[m] = "calls") => <>[](tools[m] = "yes" \/ m \in lost)
       /\ <>[](backend[m] # "calls") => <>[](tools[m] = "no" \/ m \in lost)
=============================================================================
