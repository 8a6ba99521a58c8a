------------------------------- MODULE CodeRun -------------------------------
(***************************************************************************)
(* One run of the code sandbox: the loop that watches the container        *)
(* (src/agent_runtime/code_execution.py, _supervise), the review a model   *)
(* makes of the code meanwhile (src/agent_runtime/code_watch.py, RunWatch), *)
(* the program, and the person who may stop the turn.                      *)
(*                                                                         *)
(* Time counts the loop's waits.  Of the program's stack a sample tells    *)
(* whether it is in the code the review cites; a sample can fail.  Of a    *)
(* verdict it matters whether it is there, whether it would stop the run,  *)
(* and whether it says the code is slow.                                   *)
(***************************************************************************)
EXTENDS Naturals

CONSTANTS
    Modes,        \* settings of AGENT_CODE_REVIEW
    Timeout,      \* the run's limit
    Grace,        \* what is waited past it
    ReviewAfter,  \* AGENT_CODE_REVIEW_AFTER_S
    Floor,        \* AGENT_CODE_REVIEW_PERF_FLOOR_S
    MaxTime       \* bound: time counted past the limit

ASSUME RunConstants ==
    /\ Modes \subseteq {"off", "observe", "interrupt"}
    /\ Timeout \in Nat /\ Grace \in Nat /\ ReviewAfter \in Nat /\ Floor \in Nat /\ MaxTime \in Nat
    /\ Timeout + Grace <= MaxTime

VARIABLES
    mode,       \* AGENT_CODE_REVIEW as the run found it
    now,        \* time since the start
    container,  \* "running", "ok", "failed", "killed"
    cited,      \* the program is in the code the review cites
    stop,       \* the turn's stop was requested
    pc,         \* where the loop stands
    elapsed,    \* the time the loop read in this round
    timedOut, interrupt,
    reviewer,   \* "none", "thinking", "answered"
    frames,     \* the sample the review was given
    verdict,    \* its answer
    record,     \* review_record's state
    held,       \* a performance stop waits for its floor
    confirmed,  \* the sample a held stop was confirmed with
    leaked,     \* the kill failed, and the container goes on
    outcome     \* what the run is reported as

loop == <<pc, elapsed, timedOut, interrupt, leaked, outcome>>
review == <<reviewer, frames, verdict, record, held, confirmed>>
world == <<mode, now, container, cited, stop>>
vars == <<world, loop, review>>

Samples == {"cited", "elsewhere", "none"}
Verdicts == {"unread", "unavailable", "fine", "slow", "wrong"}

TypeOK ==
    /\ mode \in Modes
    /\ now \in 0 .. MaxTime /\ elapsed \in 0 .. now
    /\ container \in {"running", "ok", "failed", "killed"}
    /\ cited \in BOOLEAN /\ stop \in BOOLEAN
    /\ pc \in {"waiting", "awake", "looking", "killing", "over", "returned"}
    /\ timedOut \in BOOLEAN /\ interrupt \in {"none", "cancelled", "review", "raised"}
    /\ reviewer \in {"none", "thinking", "answered"}
    /\ frames \in Samples /\ confirmed \in Samples \cup {"not"} /\ verdict \in Verdicts
    /\ record \in {"none", "failed", "done", "held", "stopped", "not_acted_on", "dropped"}
    /\ held \in BOOLEAN /\ leaked \in BOOLEAN
    /\ outcome \in {"none", "ok", "failed", "timed_out", "cancelled", "review", "raised"}
    /\ verdict # "unread" <=> reviewer = "answered"
    /\ held <=> record = "held"
    /\ interrupt = "review" => record = "stopped"
    /\ leaked => pc \in {"over", "returned"}

Init ==
    /\ mode \in Modes
    /\ now = 0 /\ container = "running" /\ cited \in BOOLEAN /\ stop = FALSE
    /\ pc = "waiting" /\ elapsed = 0 /\ timedOut = FALSE /\ interrupt = "none"
    /\ reviewer = "none" /\ frames = "none" /\ verdict = "unread" /\ record = "none"
    /\ held = FALSE /\ confirmed = "not" /\ outcome = "none" /\ leaked = FALSE

(* sample: what the program's stack shows, or nothing: it did not answer in *)
(* time, or is over.                                                        *)
Sampled == {"none"} \cup
    (IF container # "running" THEN {} ELSE IF cited THEN {"cited"} ELSE {"elsewhere"})

-----------------------------------------------------------------------------
(* The loop.                                                               *)

(* proc.wait: the exit is seen before anything else is looked at. *)
SeesExit ==
    /\ pc = "waiting" /\ container # "running"
    /\ pc' = "over"
    /\ UNCHANGED <<world, elapsed, timedOut, interrupt, leaked, outcome, review>>

WaitsOut ==
    /\ pc = "waiting" /\ container = "running"
    /\ pc' = "awake" /\ elapsed' = now
    /\ UNCHANGED <<world, timedOut, interrupt, leaked, outcome, review>>

Cancels ==
    /\ pc = "awake" /\ stop
    /\ interrupt' = "cancelled" /\ pc' = "killing"
    /\ UNCHANGED <<world, elapsed, timedOut, leaked, outcome, review>>

OutOfTime == elapsed >= Timeout + Grace

(* Faulty: a review that is under way is waited for. *)
TimesOutAfterReview ==
    /\ pc = "awake" /\ ~stop /\ OutOfTime /\ reviewer # "thinking"
    /\ timedOut' = TRUE /\ pc' = "killing"
    /\ UNCHANGED <<world, elapsed, interrupt, leaked, outcome, review>>

TimesOut ==
    /\ pc = "awake" /\ ~stop /\ OutOfTime
    /\ timedOut' = TRUE /\ pc' = "killing"
    /\ UNCHANGED <<world, elapsed, interrupt, leaked, outcome, review>>

DueForReview == mode # "off" /\ reviewer = "none" /\ elapsed >= ReviewAfter

(* tick: the review is begun once, with a sample. *)
BeginsReview ==
    /\ pc = "awake" /\ ~stop /\ ~OutOfTime /\ DueForReview
    /\ reviewer' = "thinking"
    /\ frames' \in Sampled
    /\ pc' = "looking"
    /\ UNCHANGED <<world, elapsed, timedOut, interrupt, leaked, outcome, verdict, record, held, confirmed>>

(* The review's thread cannot start: the error goes up through the finally.  *)
CannotReview ==
    /\ pc = "awake" /\ ~stop /\ ~OutOfTime /\ DueForReview
    /\ frames' \in Sampled
    /\ interrupt' = "raised" /\ pc' = "killing"
    /\ UNCHANGED <<world, elapsed, timedOut, leaked, outcome,
                   reviewer, verdict, record, held, confirmed>>

GoesOn ==
    /\ pc = "awake" /\ ~stop /\ ~OutOfTime /\ ~DueForReview
    /\ pc' = "looking"
    /\ UNCHANGED <<world, elapsed, timedOut, interrupt, leaked, outcome, review>>

(* accept_verdict: a claim that the code is slow must cite where the program *)
(* is; without a sample, the run must be past half its limit.                *)
Accepted(v, sample) ==
    \/ v = "wrong"
    \/ v = "slow" /\ (sample = "cited" \/ (sample = "none" /\ 2 * elapsed >= Timeout))

Unsettled == reviewer = "answered" /\ record = "none"

(* Faulty: a slow line stops the run at once. *)
HoldsNever == FALSE

(* A performance stop has a floor. *)
Holds == mode = "interrupt" /\ verdict = "slow" /\ elapsed < Floor

Settles ==
    /\ pc = "looking" /\ Unsettled
    /\ \/ /\ verdict = "unavailable"
          /\ record' = "failed" /\ pc' = "waiting" /\ UNCHANGED <<held, interrupt>>
       \/ /\ verdict # "unavailable" /\ ~Accepted(verdict, frames)
          /\ record' = IF verdict = "fine" THEN "done" ELSE "not_acted_on"
          /\ pc' = "waiting" /\ UNCHANGED <<held, interrupt>>
       \/ /\ Accepted(verdict, frames) /\ Holds
          /\ record' = "held" /\ held' = TRUE
          /\ pc' = "waiting" /\ UNCHANGED interrupt
       \/ /\ Accepted(verdict, frames) /\ ~Holds /\ mode = "interrupt"
          /\ record' = "stopped" /\ interrupt' = "review"
          /\ pc' = "killing" /\ UNCHANGED held
       \/ /\ Accepted(verdict, frames) /\ ~Holds /\ mode = "observe"
          /\ record' = "done" /\ pc' = "waiting" /\ UNCHANGED <<held, interrupt>>
    /\ UNCHANGED <<world, elapsed, timedOut, leaked, outcome, reviewer, frames, verdict, confirmed>>

(* _confirm_held: at the floor, with a fresh sample. *)
ConfirmsHeld ==
    /\ pc = "looking" /\ ~Unsettled /\ held /\ elapsed >= Floor
    /\ held' = FALSE
    /\ \E sample \in Sampled :
          \/ /\ Accepted(verdict, sample)
             /\ confirmed' = sample
             /\ record' = "stopped" /\ interrupt' = "review" /\ pc' = "killing"
          \/ /\ ~Accepted(verdict, sample)
             /\ record' = "not_acted_on" /\ pc' = "waiting"
             /\ UNCHANGED <<confirmed, interrupt>>
    /\ UNCHANGED <<world, elapsed, timedOut, leaked, outcome, reviewer, frames, verdict>>

LooksAgain ==
    /\ pc = "looking" /\ ~Unsettled /\ ~(held /\ elapsed >= Floor)
    /\ pc' = "waiting"
    /\ UNCHANGED <<world, elapsed, timedOut, interrupt, leaked, outcome, review>>

(* finally: docker kill; a program that has just ended keeps its end, and  *)
(* its exit code is thrown away.                                           *)
Kills ==
    /\ pc = "killing"
    /\ pc' = "over"
    /\ \/ /\ container' = IF container = "running" THEN "killed" ELSE container
          /\ UNCHANGED leaked
       \/ /\ container = "running" /\ leaked' = TRUE         \* docker kill failed
          /\ UNCHANGED container
    /\ UNCHANGED <<mode, now, cited, stop, elapsed, timedOut, interrupt, outcome, review>>

(* Faulty: a run that was killed counts as failed. *)
OutcomeByExit == IF container = "killed" THEN "failed" ELSE container

Outcome ==
    IF timedOut THEN "timed_out" ELSE IF interrupt # "none" THEN interrupt
    ELSE IF container = "ok" THEN "ok" ELSE "failed"

(* RunWatch.finish: a review that has not answered is dropped. *)
RecordAtEnd == IF record = "none" /\ reviewer = "thinking" THEN "dropped" ELSE record

Finishes ==
    /\ pc = "over" /\ pc' = "returned"
    /\ outcome' = Outcome /\ record' = RecordAtEnd
    /\ UNCHANGED <<world, elapsed, timedOut, interrupt, leaked,
                   reviewer, frames, verdict, held, confirmed>>

-----------------------------------------------------------------------------
(* The review's thread, the program, the person, time.                     *)

Answers ==
    /\ reviewer = "thinking"
    /\ reviewer' = "answered"
    /\ verdict' \in Verdicts \ {"unread"}
    /\ UNCHANGED <<world, loop, frames, record, held, confirmed>>

Moves ==
    /\ container = "running"
    /\ cited' = ~cited
    /\ UNCHANGED <<mode, now, container, stop, loop, review>>

Exits ==
    /\ container = "running"
    /\ container' \in {"ok", "failed"}
    /\ UNCHANGED <<mode, now, cited, stop, loop, review>>

AskStop ==
    /\ ~stop /\ stop' = TRUE
    /\ UNCHANGED <<mode, now, container, cited, loop, review>>

Passes ==
    /\ now < MaxTime /\ now' = now + 1
    /\ UNCHANGED <<mode, container, cited, stop, loop, review>>

Loop ==
    \/ SeesExit \/ WaitsOut \/ Cancels \/ TimesOut \/ BeginsReview \/ CannotReview \/ GoesOn
    \/ Settles \/ ConfirmsHeld \/ LooksAgain \/ Kills \/ Finishes

Next == Loop \/ Answers \/ Moves \/ Exits \/ AskStop \/ Passes

(* The loop's thread runs and time passes; nobody makes the program end, the *)
(* reviewer answer or the person stop.                                       *)
Spec == Init /\ [][Next]_vars /\ WF_vars(Loop) /\ WF_vars(Passes)

-----------------------------------------------------------------------------
(* Properties.                                                             *)

(* The review stops a run only where it may and for a verdict that was      *)
(* accepted; slow code never before its floor, nor when the last look had   *)
(* found the program elsewhere.                                             *)
StopJustified ==
    interrupt = "review" =>
       /\ mode = "interrupt" /\ verdict \in {"slow", "wrong"}
       /\ verdict = "slow" =>
             elapsed >= Floor /\ frames # "elsewhere" /\ confirmed # "elsewhere"

(* A container outlives its run only if it could not be killed; it is never *)
(* killed but for a reason the run reports; and a run reported as having    *)
(* ended by itself has.                                                     *)
NoneLeft ==
    pc = "returned" =>
       /\ container = "running" => leaked
       /\ container = "killed" => outcome \in {"timed_out", "cancelled", "review", "raised"}
       /\ outcome \in {"ok", "failed"} => outcome = container

(* Every run ends, whatever the program does and though the reviewer never  *)
(* answers.                                                                 *)
RunEnds == <>(pc = "returned")
==============================================================================
