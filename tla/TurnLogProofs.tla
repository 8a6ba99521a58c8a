--------------------------- MODULE TurnLogProofs ---------------------------
(* Theorems of TurnLog, for any calls, results, threads and limits. *)
EXTENDS TurnLog, FiniteSetTheorems, TLAPS

-----------------------------------------------------------------------------
(* Types *)

\* Recording a result that ran keeps the log well typed.
LEMMA RecordRealType ==
  ASSUME TypeOK, NEW c \in Calls, NEW r \in Tokens, NEW saw \in Nat,
         RecordReal(c, r, saw)
  PROVE  /\ world' \in Nat /\ seen' \subseteq Tokens /\ answered' \subseteq Calls
         /\ last' \in [Calls -> Result] /\ failures' \in [Calls -> Nat]
         /\ run' \in Run
<1> DEFINE e == [call |-> c, real |-> TRUE, ok |-> r \in Contents,
                 new |-> r \notin seen]
           res == [ok |-> r \in Contents, world |-> world, disk |-> saw,
                   step |-> step]
<1>1. e \in Event
  <2>1. (r \in Contents) \in BOOLEAN /\ (r \notin seen) \in BOOLEAN
    OBVIOUS
  <2> QED
    BY <2>1, Zenon DEF Event
<1>2. res \in Result
  <2>1. (r \in Contents) \in BOOLEAN
    OBVIOUS
  <2> QED
    BY <2>1, Zenon DEF TypeOK, Result
<1>3. run' \in Run
  <2>1. run' = [run EXCEPT !.pending = @ \cup {e}]
    BY DEF RecordReal
  <2>2. run \in Run /\ run.pending \cup {e} \subseteq Event
    BY <1>1 DEF TypeOK, Run
  <2> HIDE DEF e
  <2> QED
    BY <2>1, <2>2 DEF Run
<1>4. last' \in [Calls -> Result]
  <2>1. last' = [last EXCEPT ![c] = res]
    BY DEF RecordReal
  <2> HIDE DEF res
  <2> QED
    BY <2>1, <1>2 DEF TypeOK
<1>5. failures' \in [Calls -> Nat]
  BY DEF TypeOK, RecordReal
<1> QED
  BY <1>3, <1>4, <1>5 DEF TypeOK, RecordReal

\* Closing a step keeps the log well typed.
LEMMA CloseStepType ==
  ASSUME TypeOK, CloseStep
  PROVE  /\ world' \in Nat /\ last' \in [Calls -> Result] /\ run' \in Run
         /\ settled' \in Nat /\ step' \in Nat /\ newAt' \in Nat
<1>1. CASE run.pending = {}
  BY <1>1 DEF TypeOK, CloseStep
<1>2. CASE run.pending # {}
  <2>1. world' \in Nat
    BY <1>2 DEF TypeOK, CloseStep
  <2>2. last' \in [Calls -> Result]
    <3>1. last' = Stamp(world')
      BY <1>2 DEF CloseStep
    <3>2. ASSUME NEW c \in Calls
          PROVE  [last[c] EXCEPT !.world = world'] \in Result /\ last[c] \in Result
      BY <2>1 DEF TypeOK, Result
    <3> QED
      BY <3>1, <3>2 DEF Stamp
  <2>3. run' \in Run
    BY <1>2 DEF TypeOK, CloseStep, Run
  <2>4. settled' \in Nat /\ step' \in Nat /\ newAt' \in Nat
    BY <1>2 DEF TypeOK, CloseStep
  <2> QED
    BY <2>1, <2>2, <2>3, <2>4
<1> QED
  BY <1>1, <1>2

\* The idle thread is a slot.
LEMMA NoSlotType == NoSlot \in Slot
<1>1. (CHOOSE c \in Calls : TRUE) \in Calls
  BY LogConstants
<1>2. (CHOOSE r \in Contents : TRUE) \in Contents
  BY LogConstants
<1> QED
  BY <1>1, <1>2 DEF NoSlot, Slot, Tokens

\* A new log is well typed.
LEMMA TypeInit == Init => TypeOK
<1> SUFFICES ASSUME Init PROVE TypeOK
  OBVIOUS
<1>1. slots \in [Slots -> Slot]
  BY NoSlotType DEF Init
<1>2. last \in [Calls -> Result]
  BY DEF Init, NoResult, Result
<1> QED
  BY <1>1, <1>2, LogConstants DEF Init, TypeOK, Run, NewRun

\* Every action keeps the types.
LEMMA TypeStep == TypeOK /\ [Next]_vars => TypeOK'
<1> SUFFICES ASSUME TypeOK, [Next]_vars PROVE TypeOK'
  OBVIOUS
<1>1. CASE BeginRun
  BY <1>1, LogConstants DEF BeginRun, TypeOK, Run, NewRun
<1>2. CASE ModelCall
  <2>1. slots' \in [Slots -> Slot] /\ phase' \in {"out", "run", "stopping"}
    <3>1. CASE slots' = slots /\ phase' = "stopping"
      BY <3>1 DEF TypeOK
    <3>2. CASE /\ phase' = "run"
               /\ \E used \in (SUBSET Slots) \ {{}} : \E ask \in [used -> Calls] :
                    slots' = Asking(ask)
      <4>1. PICK used \in (SUBSET Slots) \ {{}} :
              \E ask \in [used -> Calls] : slots' = Asking(ask)
        BY <3>2
      <4>2. PICK ask \in [used -> Calls] : slots' = Asking(ask)
        BY <4>1
      <4>3. ASSUME NEW s \in used
            PROVE  [NoSlot EXCEPT !.pc = "asked", !.call = ask[s]] \in Slot
        <5>1. ask[s] \in Calls
          BY <4>3
        <5> QED
          BY <5>1, NoSlotType DEF Slot
      <4> QED
        BY <3>2, <4>2, <4>3, NoSlotType DEF Asking
    <3> QED
      BY <1>2, <3>1, <3>2, Zenon DEF ModelCall
  <2>2. CloseStep
    BY <1>2 DEF ModelCall
  <2> QED
    BY <1>2, <2>1, <2>2, CloseStepType DEF ModelCall, TypeOK
<1>3. CASE EndRun \/ RunDies
  <2>1. CloseStep
    BY <1>3 DEF EndRun, RunDies, ExitBind
  <2> QED
    BY <1>3, <2>1, CloseStepType DEF EndRun, RunDies, ExitBind, TypeOK
<1>4. ASSUME NEW s \in Slots, LookUp(s) PROVE TypeOK'
  <2>1. slots' \in [Slots -> Slot]
    BY <1>4 DEF LookUp, TypeOK, Slot
  <2> QED
    BY <1>4, <2>1 DEF LookUp, TypeOK, log
<1>5. ASSUME NEW s \in Slots, RunTool(s) PROVE TypeOK'
  <2>1. PICK r \in Returns[slots[s].call] :
           /\ disk' = IF slots[s].call \in Writes /\ r \in Contents
                      THEN disk + 1 ELSE disk
           /\ slots' = [slots EXCEPT ![s].pc = "ran", ![s].result = r,
                                     ![s].saw = disk']
    BY <1>5 DEF RunTool
  <2>2. r \in Tokens
    BY <1>5, <2>1, LogConstants DEF TypeOK, Slot, Tokens
  <2>3. disk' \in Nat
    BY <2>1 DEF TypeOK
  <2>4. slots' \in [Slots -> Slot]
    <3> DEFINE d == disk'
               ran == [slots[s] EXCEPT !.pc = "ran", !.result = r, !.saw = d]
    <3>1. ran \in Slot
      BY <2>2, <2>3 DEF TypeOK, Slot
    <3>2. slots' = [slots EXCEPT ![s] = ran]
      BY <2>1
    <3> HIDE DEF ran
    <3> QED
      BY <3>1, <3>2 DEF TypeOK
  <2> QED
    BY <1>5, <2>3, <2>4 DEF RunTool, TypeOK, log
<1>6. ASSUME NEW s \in Slots, Record(s) PROVE TypeOK'
  <2>1. /\ RecordReal(slots[s].call, slots[s].result, slots[s].saw)
        /\ slots[s].call \in Calls /\ slots[s].result \in Tokens
        /\ slots[s].saw \in Nat
    BY <1>6 DEF Record, TypeOK, Slot
  <2>2. slots' \in [Slots -> Slot]
    BY <1>6, NoSlotType DEF Record, TypeOK
  <2> QED
    BY <1>6, <2>1, <2>2, RecordRealType DEF Record, TypeOK
<1>7. ASSUME NEW s \in Slots, AnswerRepeat(s) PROVE TypeOK'
  <2> DEFINE c == slots[s].call
             e == [call |-> c, real |-> FALSE, ok |-> TRUE, new |-> FALSE]
  <2>1. c \in Calls
    BY <1>7 DEF TypeOK, Slot
  <2>2. e \in Event
    BY <2>1 DEF Event
  <2>3. run' \in Run
    <3>1. run' = [run EXCEPT !.pending = @ \cup {e}]
      BY <1>7 DEF AnswerRepeat, RecordMemo
    <3> HIDE DEF e
    <3> QED
      BY <3>1, <2>2 DEF TypeOK, Run
  <2>4. slots' \in [Slots -> Slot]
    BY <1>7, NoSlotType DEF AnswerRepeat, TypeOK
  <2> QED
    BY <1>7, <2>3, <2>4 DEF AnswerRepeat, RecordMemo, TypeOK
<1>8. CASE Ingest
  <2>0. PICK c \in Calls : \E r \in Returns[c] :
           /\ disk' = IF c \in Writes /\ r \in Contents THEN disk + 1 ELSE disk
           /\ RecordReal(c, r, disk')
           /\ newAt' = IF r \in Contents \ seen THEN step ELSE newAt
    BY <1>8 DEF Ingest
  <2>1. PICK r \in Returns[c] :
           /\ disk' = IF c \in Writes /\ r \in Contents THEN disk + 1 ELSE disk
           /\ RecordReal(c, r, disk')
           /\ newAt' = IF r \in Contents \ seen THEN step ELSE newAt
    BY <2>0
  <2>2. r \in Tokens
    BY <2>1, LogConstants DEF Tokens
  <2>3. disk' \in Nat
    BY <2>1 DEF TypeOK
  <2>4. newAt' \in Nat
    BY <2>1 DEF TypeOK
  <2> QED
    BY <1>8, <2>1, <2>2, <2>3, <2>4, RecordRealType, LogConstants DEF Ingest, TypeOK
<1>9. CASE UNCHANGED vars
  BY <1>9 DEF TypeOK, vars
<1> QED
  BY <1>1, <1>2, <1>3, <1>4, <1>5, <1>6, <1>7, <1>8, <1>9 DEF Next, Tool

\* Every variable keeps its type: the counts of a run stay natural numbers and a
\* step holds only events of calls that exist.
THEOREM TypeCorrect == Spec => []TypeOK
  BY TypeInit, TypeStep, PTL DEF Spec

-----------------------------------------------------------------------------
(* Progress *)

\* What the open step adds if it is closed now.
Pending == IF Added THEN 1 ELSE 0

\* The counts of a run pay for its steps; the turn's contents pay for its progress.
ProgressInv ==
  /\ IsFiniteSet(seen)
  /\ run.steps <= PROGRESS_LIMIT * run.productive + run.unproductive
  /\ run.unproductive <= PROGRESS_LIMIT
  /\ phase = "run" => run.unproductive < PROGRESS_LIMIT
  /\ phase # "run" => Quiet
  /\ phase = "stopping" => run.pending = {}
  /\ run.productive + Pending <= Cardinality(seen)

\* A result that was recorded adds a content for the step it makes productive.
LEMMA RecordRealPays ==
  ASSUME TypeOK, IsFiniteSet(seen), run.productive + Pending <= Cardinality(seen),
         NEW c \in Calls, NEW r \in Tokens, NEW saw \in Nat, RecordReal(c, r, saw)
  PROVE  /\ IsFiniteSet(seen')
         /\ run'.steps = run.steps /\ run'.productive = run.productive
         /\ run'.unproductive = run.unproductive
         /\ run'.productive + Pending' <= Cardinality(seen')
<1> DEFINE e == [call |-> c, real |-> TRUE, ok |-> r \in Contents,
                 new |-> r \notin seen]
<1>1. run' = [run EXCEPT !.pending = @ \cup {e}] /\ seen' = seen \cup {r}
  BY DEF RecordReal
<1>2. /\ run'.steps = run.steps /\ run'.productive = run.productive
      /\ run'.unproductive = run.unproductive
      /\ run'.pending = run.pending \cup {e}
  <2> HIDE DEF e
  <2> QED
    BY <1>1 DEF TypeOK, Run
<1>3. e.new <=> r \notin seen
  OBVIOUS
<1>4. Added' <=> Added \/ r \notin seen
  <2> HIDE DEF e
  <2> QED
    BY <1>2, <1>3 DEF Added
<1>5. /\ IsFiniteSet(seen')
      /\ Cardinality(seen') = IF r \in seen THEN Cardinality(seen)
                                            ELSE Cardinality(seen) + 1
  BY <1>1, FS_AddElement
<1>6. Cardinality(seen) \in Nat /\ run.productive \in Nat
  BY FS_CardinalityType DEF TypeOK, Run
<1> QED
  BY <1>2, <1>4, <1>5, <1>6 DEF Pending

\* A closed step is paid for by what it added, or by the patience of the run.
LEMMA CloseStepPays ==
  ASSUME TypeOK, ProgressInv, phase \in {"run", "stopping"}, CloseStep
  PROVE  /\ run'.steps <= PROGRESS_LIMIT * run'.productive + run'.unproductive
         /\ run'.unproductive <= PROGRESS_LIMIT
         /\ run'.productive <= Cardinality(seen)
         /\ run'.pending = {}
<1>1. /\ run.steps \in Nat /\ run.productive \in Nat /\ run.unproductive \in Nat
      /\ Cardinality(seen) \in Nat /\ PROGRESS_LIMIT \in Nat
  BY FS_CardinalityType, LogConstants DEF TypeOK, Run, ProgressInv
<1>2. CASE run.pending = {}
  <2>1. run' = run
    BY <1>2 DEF CloseStep
  <2> QED
    BY <1>1, <1>2, <2>1 DEF ProgressInv, Pending
<1>3. CASE run.pending # {}
  <2>1. run.unproductive < PROGRESS_LIMIT
    BY <1>3 DEF ProgressInv
  <2>2. /\ run'.steps = run.steps + 1 /\ run'.pending = {}
        /\ run'.productive = run.productive + Pending
        /\ run'.unproductive = IF Added THEN 0 ELSE run.unproductive + 1
    BY <1>3 DEF CloseStep, Pending
  <2>3. PROGRESS_LIMIT * (run.productive + 1)
          = PROGRESS_LIMIT * run.productive + PROGRESS_LIMIT
    BY <1>1
  <2>4. PROGRESS_LIMIT * run.productive \in Nat
    BY <1>1
  <2>5. /\ run.steps <= PROGRESS_LIMIT * run.productive + run.unproductive
        /\ run.productive + Pending <= Cardinality(seen)
    BY DEF ProgressInv
  <2>6. CASE Added
    <3>1. run'.productive = run.productive + 1 /\ run'.unproductive = 0
      BY <2>2, <2>6 DEF Pending
    <3>2. PROGRESS_LIMIT * run'.productive
            = PROGRESS_LIMIT * run.productive + PROGRESS_LIMIT
      BY <2>3, <3>1
    <3> DEFINE paid == PROGRESS_LIMIT * run.productive
    <3>3. run.steps + 1 <= paid + PROGRESS_LIMIT
      <4>1. run.steps <= paid + run.unproductive /\ paid \in Nat
        BY <2>4, <2>5
      <4> HIDE DEF paid
      <4> QED
        BY <1>1, <2>1, <4>1
    <3> QED
      BY <1>1, <2>2, <2>5, <3>1, <3>2, <3>3
  <2>7. CASE ~Added
    <3>1. run'.productive = run.productive /\ run'.unproductive = run.unproductive + 1
      BY <1>1, <2>2, <2>7 DEF Pending
    <3> DEFINE paid == PROGRESS_LIMIT * run.productive
    <3>2. run.steps + 1 <= paid + (run.unproductive + 1)
      <4>1. run.steps <= paid + run.unproductive /\ paid \in Nat
        BY <2>4, <2>5
      <4> HIDE DEF paid
      <4> QED
        BY <1>1, <4>1
    <3>3. run.productive <= Cardinality(seen)
      BY <1>1, <2>5, <2>7 DEF Pending
    <3> QED
      BY <1>1, <2>1, <2>2, <3>1, <3>2, <3>3
  <2> QED
    BY <2>6, <2>7
<1> QED
  BY <1>2, <1>3

\* A new log owes nothing.
LEMMA ProgressInit == Init => ProgressInv
<1> SUFFICES ASSUME Init PROVE ProgressInv
  OBVIOUS
<1>1. IsFiniteSet(seen) /\ Cardinality(seen) = 0
  BY FS_EmptySet DEF Init
<1>2. ~Added /\ Quiet
  BY DEF Init, NewRun, Added, Quiet, NoSlot
<1>3. PROGRESS_LIMIT * 0 = 0
  BY LogConstants
<1> QED
  BY <1>1, <1>2, <1>3, LogConstants DEF Init, NewRun, ProgressInv, Pending

\* Every action keeps the accounts of the run and of the turn.
LEMMA ProgressStep == TypeOK /\ ProgressInv /\ [Next]_vars => ProgressInv'
<1> SUFFICES ASSUME TypeOK, ProgressInv, [Next]_vars PROVE ProgressInv'
  OBVIOUS
<1>0. /\ run.steps \in Nat /\ run.productive \in Nat /\ run.unproductive \in Nat
      /\ Cardinality(seen) \in Nat /\ PROGRESS_LIMIT \in Nat \ {0}
  BY FS_CardinalityType, LogConstants DEF TypeOK, Run, ProgressInv
<1>1. CASE BeginRun
  <2>1. /\ run'.steps = 0 /\ run'.productive = 0 /\ run'.unproductive = 0
        /\ run'.pending = {} /\ seen' = seen /\ phase' = "run"
    BY <1>1 DEF BeginRun, NewRun
  <2>2. Pending' = 0
    BY <2>1 DEF Pending, Added
  <2>3. PROGRESS_LIMIT * 0 = 0
    BY <1>0
  <2> QED
    BY <1>0, <2>1, <2>2, <2>3 DEF ProgressInv
<1>2. CASE ModelCall
  <2>1. CloseStep /\ phase = "run" /\ Quiet /\ seen' = seen
    BY <1>2 DEF ModelCall
  <2>2. \/ phase' = "stopping" /\ slots' = slots
        \/ phase' = "run" /\ ~Exhausted(run')
    BY <1>2, Zenon DEF ModelCall
  <2>3. run' \in Run
    BY <2>1, CloseStepType
  <2>4. phase' = "run" => run'.unproductive < PROGRESS_LIMIT
    BY <1>0, <2>2, <2>3 DEF Exhausted, Run
  <2>5. run'.pending = {}
    BY <2>1, CloseStepPays
  <2>6. Pending' = 0
    BY <2>5 DEF Pending, Added
  <2>7. run'.productive + 0 = run'.productive
    BY <2>3 DEF Run
  <2>8. phase' # "run" => Quiet'
    BY <2>1, <2>2 DEF Quiet
  <2> QED
    BY <2>1, <2>4, <2>5, <2>6, <2>7, <2>8, CloseStepPays DEF ProgressInv
<1>3. CASE EndRun \/ RunDies
  <2>1. /\ CloseStep /\ phase \in {"run", "stopping"} /\ phase' = "out"
        /\ seen' = seen /\ slots' = slots
    BY <1>3 DEF EndRun, RunDies, ExitBind
  <2>2. run'.pending = {} /\ run' \in Run
    BY <2>1, CloseStepPays, CloseStepType
  <2>3. Pending' = 0 /\ run'.productive + 0 = run'.productive
    BY <2>2 DEF Pending, Added, Run
  <2>4. Quiet'
    BY <1>3, <2>1 DEF EndRun, RunDies, ProgressInv, Quiet
  <2> QED
    BY <2>1, <2>2, <2>3, <2>4, CloseStepPays DEF ProgressInv
<1>4. ASSUME NEW s \in Slots, Tool(s) PROVE phase = "run" /\ phase' = "run"
  <2>1. slots[s].pc # "idle"
    BY <1>4 DEF Tool, LookUp, RunTool, Record, AnswerRepeat
  <2>2. phase' = phase
    BY <1>4 DEF Tool, LookUp, RunTool, Record, AnswerRepeat
  <2> QED
    BY <2>1, <2>2 DEF ProgressInv, Quiet
<1>5. ASSUME NEW s \in Slots, Tool(s), LookUp(s) \/ RunTool(s) PROVE ProgressInv'
  <2>1. UNCHANGED <<seen, run>>
    BY <1>5 DEF LookUp, RunTool, log
  <2>2. Added' <=> Added
    BY <2>1 DEF Added
  <2> QED
    BY <1>4, <1>5, <2>1, <2>2 DEF ProgressInv, Pending
<1>6. ASSUME NEW s \in Slots, Tool(s), Record(s) PROVE ProgressInv'
  <2>1. /\ RecordReal(slots[s].call, slots[s].result, slots[s].saw)
        /\ slots[s].call \in Calls /\ slots[s].result \in Tokens
        /\ slots[s].saw \in Nat
    BY <1>6 DEF Record, TypeOK, Slot
  <2> QED
    BY <1>4, <1>6, <2>1, RecordRealPays DEF ProgressInv
<1>7. ASSUME NEW s \in Slots, Tool(s), AnswerRepeat(s) PROVE ProgressInv'
  <2> DEFINE e == [call |-> slots[s].call, real |-> FALSE, ok |-> TRUE, new |-> FALSE]
  <2>1. run' = [run EXCEPT !.pending = @ \cup {e}] /\ UNCHANGED seen
    BY <1>7 DEF AnswerRepeat, RecordMemo
  <2>2. ~e.new
    OBVIOUS
  <2>3. /\ run'.steps = run.steps /\ run'.productive = run.productive
        /\ run'.unproductive = run.unproductive
        /\ run'.pending = run.pending \cup {e}
    <3> HIDE DEF e
    <3> QED
      BY <2>1 DEF TypeOK, Run
  <2>4. Added' <=> Added
    <3> HIDE DEF e
    <3> QED
      BY <2>2, <2>3 DEF Added
  <2> QED
    BY <1>4, <1>7, <2>1, <2>3, <2>4 DEF ProgressInv, Pending
<1>8. CASE Ingest
  <2>0. PICK c \in Calls : \E r \in Returns[c] :
           /\ disk' = IF c \in Writes /\ r \in Contents THEN disk + 1 ELSE disk
           /\ RecordReal(c, r, disk')
    BY <1>8 DEF Ingest
  <2>1. PICK r \in Returns[c] :
           /\ disk' = IF c \in Writes /\ r \in Contents THEN disk + 1 ELSE disk
           /\ RecordReal(c, r, disk')
    BY <2>0
  <2>2. r \in Tokens /\ disk' \in Nat
    BY <2>1, LogConstants DEF Tokens, TypeOK
  <2>3. phase = "out" /\ phase' = "out" /\ (Quiet => Quiet')
    BY <1>8 DEF Ingest, Quiet
  <2> QED
    BY <2>1, <2>2, <2>3, RecordRealPays DEF ProgressInv
<1>9. CASE UNCHANGED vars
  <2>1. UNCHANGED <<seen, run, phase>> /\ (Added' <=> Added) /\ (Quiet' <=> Quiet)
    BY <1>9 DEF vars, Added, Quiet
  <2> QED
    BY <2>1 DEF ProgressInv, Pending
<1> QED
  BY <1>1, <1>2, <1>3, <1>5, <1>6, <1>7, <1>8, <1>9 DEF Next, Tool

\* A run's steps are bounded by its limit and by what the turn has seen, whatever
\* the models ask for, so repeats and guesses cannot keep it alive.
THEOREM ProgressCorrect == Spec => []ProgressPaysForSteps
<1>1. TypeOK /\ ProgressInv => ProgressPaysForSteps
  <2> SUFFICES ASSUME TypeOK, ProgressInv PROVE ProgressPaysForSteps
    OBVIOUS
  <2>1. /\ run.steps \in Nat /\ run.productive \in Nat /\ run.unproductive \in Nat
        /\ Cardinality(seen) \in Nat /\ PROGRESS_LIMIT \in Nat
    BY FS_CardinalityType, LogConstants DEF TypeOK, Run, ProgressInv
  <2> DEFINE paid == PROGRESS_LIMIT * run.productive
  <2>2. paid \in Nat /\ PROGRESS_LIMIT * (run.productive + 1) = paid + PROGRESS_LIMIT
    BY <2>1
  <2>3. run.steps <= paid + run.unproductive /\ run.unproductive <= PROGRESS_LIMIT
    BY DEF ProgressInv
  <2>4. run.productive <= Cardinality(seen)
    BY <2>1 DEF ProgressInv, Pending
  <2> HIDE DEF paid
  <2> QED
    BY <2>1, <2>2, <2>3, <2>4 DEF ProgressPaysForSteps
<1> QED
  BY <1>1, TypeCorrect, ProgressInit, ProgressStep, PTL DEF Spec

\* What a run's steps can come to when the tools have only so much to say.
StepsWithinTokens == run.steps <= PROGRESS_LIMIT * (Cardinality(Tokens) + 1)

\* There is a number of steps that no run of the turn passes, though the code sets
\* none: the limit on steps that add nothing, once for every different content and
\* error class, and once more.
THEOREM RunsBounded == ASSUME IsFiniteSet(Tokens) PROVE Spec => []StepsWithinTokens
<1>1. TypeOK /\ ProgressPaysForSteps => StepsWithinTokens
  <2> SUFFICES ASSUME TypeOK, ProgressPaysForSteps PROVE StepsWithinTokens
    OBVIOUS
  <2> DEFINE n == Cardinality(Tokens)  m == run.productive
  <2>1. Cardinality(seen) <= n /\ Cardinality(seen) \in Nat /\ n \in Nat
    BY FS_Subset, FS_CardinalityType DEF TypeOK
  <2>2. m <= n /\ m \in Nat /\ run.steps \in Nat /\ PROGRESS_LIMIT \in Nat
    BY <2>1, LogConstants DEF ProgressPaysForSteps, TypeOK, Run
  <2>3. run.steps <= PROGRESS_LIMIT * (m + 1)
    BY DEF ProgressPaysForSteps
  <2> HIDE DEF n, m
  <2>4. PROGRESS_LIMIT * (n + 1) = PROGRESS_LIMIT * (m + 1) + PROGRESS_LIMIT * (n - m)
        /\ PROGRESS_LIMIT * (n - m) >= 0 /\ PROGRESS_LIMIT * (m + 1) \in Nat
        /\ PROGRESS_LIMIT * (n - m) \in Nat
    BY <2>1, <2>2
  <2>5. run.steps <= PROGRESS_LIMIT * (n + 1)
    BY <2>2, <2>3, <2>4
  <2> QED
    BY <2>5 DEF StepsWithinTokens, n
<1> QED
  BY <1>1, TypeCorrect, ProgressCorrect, PTL

-----------------------------------------------------------------------------
(* The memo *)

\* What a result's world means: the result of an open step carries the world as
\* it is; one of a closed step is at the current world exactly when no later step
\* added a new success.
WorldInv ==
  /\ newAt < step
  /\ phase # "run" => run.pending = {} /\ Quiet
  /\ \A e \in run.pending : e.real => e.call \in answered
  /\ \A c \in answered :
       /\ last[c].world <= world
       /\ last[c].world = world <=> ~MovedSince(c)
       /\ IF InStep(c) THEN last[c].step = step /\ last[c].world = world
                       ELSE last[c].step < step

\* Closing a step moves the world for every result but the step's own.
LEMMA CloseStepWorld ==
  ASSUME TypeOK, WorldInv, CloseStep
  PROVE  /\ newAt' < step' /\ run'.pending = {}
         /\ \A c \in answered :
              /\ last'[c].world <= world'
              /\ last'[c].world = world' <=> ~(newAt' > last'[c].step)
              /\ last'[c].step < step'
<1>1. /\ world \in Nat /\ step \in Nat /\ newAt \in Nat /\ newAt < step
      /\ answered \subseteq Calls
  BY DEF TypeOK, WorldInv
<1>2. ASSUME NEW c \in answered
      PROVE  /\ last[c].world \in Nat /\ last[c].step \in Nat /\ c \in Calls
             /\ last[c].world <= world
             /\ last[c].world = world <=> ~(newAt > last[c].step)
             /\ IF InStep(c) THEN last[c].step = step /\ last[c].world = world
                             ELSE last[c].step < step
  BY DEF TypeOK, Result, WorldInv, MovedSince
<1>3. CASE run.pending = {}
  <2>1. UNCHANGED <<world, last, run, step, newAt>>
    BY <1>3 DEF CloseStep
  <2>2. \A c \in answered : ~InStep(c)
    BY <1>3 DEF InStep
  <2> QED
    BY <1>1, <1>2, <1>3, <2>1, <2>2
<1>4. CASE run.pending # {}
  <2>1. /\ world' = IF Moves THEN world + 1 ELSE world
        /\ last' = Stamp(world')
        /\ run'.pending = {} /\ step' = step + 1
        /\ newAt' = IF Moves THEN step ELSE newAt
    BY <1>4 DEF CloseStep
  <2>2. ASSUME NEW c \in answered
        PROVE  /\ last'[c].world = IF InStep(c) THEN world' ELSE last[c].world
               /\ last'[c].step = last[c].step
    <3>1. c \in Calls /\ last[c] \in Result
      BY <1>1 DEF TypeOK
    <3>2. last'[c] = IF InStep(c) THEN [last[c] EXCEPT !.world = world'] ELSE last[c]
      BY <2>1, <3>1 DEF Stamp
    <3> QED
      BY <3>1, <3>2 DEF Result
  <2>3. ASSUME NEW c \in answered
        PROVE  /\ last'[c].world <= world'
               /\ last'[c].world = world' <=> ~(newAt' > last'[c].step)
               /\ last'[c].step < step'
    BY <1>1, <1>2, <2>1, <2>2, <2>3
  <2> QED
    BY <1>1, <2>1, <2>3
<1> QED
  BY <1>3, <1>4

\* A result recorded in the open step carries the step and the world as it is.
LEMMA RecordRealWorld ==
  ASSUME TypeOK, WorldInv, phase = "run", phase' = "run", UNCHANGED <<step, newAt>>,
         NEW c \in Calls, NEW r \in Tokens, NEW saw \in Nat, RecordReal(c, r, saw)
  PROVE  WorldInv'
<1> DEFINE e == [call |-> c, real |-> TRUE, ok |-> r \in Contents,
                 new |-> r \notin seen]
           res == [ok |-> r \in Contents, world |-> world, disk |-> saw,
                   step |-> step]
<1>1. e.call = c /\ e.real
  OBVIOUS
<1>2. res.world = world /\ res.step = step
  OBVIOUS
<1>3. /\ answered' = answered \cup {c} /\ world' = world
      /\ last' = [last EXCEPT ![c] = res]
      /\ run' = [run EXCEPT !.pending = @ \cup {e}]
  BY DEF RecordReal
<1> HIDE DEF e, res
<1>4. run'.pending = run.pending \cup {e}
  BY <1>3 DEF TypeOK, Run
<1>5. \A d \in Calls : InStep(d)' <=> InStep(d) \/ d = c
  BY <1>1, <1>4 DEF InStep
<1>6. \A d \in Calls : last'[d] = IF d = c THEN res ELSE last[d]
  BY <1>3 DEF TypeOK
<1>7. world \in Nat /\ step \in Nat /\ newAt \in Nat /\ answered \subseteq Calls
  BY DEF TypeOK
<1>8. ASSUME NEW d \in answered'
      PROVE  /\ last'[d].world <= world'
             /\ last'[d].world = world' <=> ~(newAt' > last'[d].step)
             /\ IF InStep(d)' THEN last'[d].step = step' /\ last'[d].world = world'
                              ELSE last'[d].step < step'
  <2>1. CASE d = c
    <3>1. last'[d] = res /\ InStep(d)'
      BY <1>5, <1>6, <2>1
    <3>2. ~(newAt > step)
      BY <1>7 DEF WorldInv
    <3> QED
      BY <1>2, <1>3, <1>7, <3>1, <3>2
  <2>2. CASE d # c
    <3>1. d \in answered /\ d \in Calls
      BY <1>3, <1>7, <2>2
    <3>2. last'[d] = last[d] /\ (InStep(d)' <=> InStep(d))
      BY <1>5, <1>6, <2>2, <3>1
    <3> QED
      BY <1>3, <3>1, <3>2 DEF WorldInv, MovedSince
  <2> QED
    BY <2>1, <2>2
<1>9. \A f \in run'.pending : f.real => f.call \in answered'
  BY <1>1, <1>3, <1>4 DEF WorldInv
<1> QED
  BY <1>8, <1>9 DEF WorldInv, MovedSince

\* An empty log.
LEMMA WorldInit == Init => WorldInv
  BY DEF Init, NewRun, WorldInv, Quiet, NoSlot

\* Every step keeps it but the ingestion of a peer's own results.
LEMMA WorldStep == TypeOK /\ WorldInv /\ [Next]_vars /\ reports' = 0 => WorldInv'
<1> SUFFICES ASSUME TypeOK, WorldInv, [Next]_vars, reports' = 0 PROVE WorldInv'
  OBVIOUS
<1>1. CASE BeginRun
  <2>1. /\ UNCHANGED <<world, answered, last, step, newAt>>
        /\ run.pending = {} /\ run'.pending = {} /\ phase' = "run"
    BY <1>1 DEF BeginRun, NewRun, WorldInv
  <2>2. \A c \in answered : ~InStep(c) /\ ~InStep(c)'
    BY <2>1 DEF InStep
  <2> QED
    BY <2>1, <2>2 DEF WorldInv, MovedSince
<1>2. CASE ModelCall \/ EndRun \/ RunDies
  <2>1. CloseStep /\ answered' = answered
    BY <1>2 DEF ModelCall, EndRun, RunDies, ExitBind
  <2>2. phase' # "run" => Quiet'
    <3>1. CASE ModelCall
      <4>1. \/ phase' = "stopping" /\ slots' = slots
            \/ phase' = "run"
        BY <3>1, Zenon DEF ModelCall
      <4> QED
        BY <3>1, <4>1 DEF ModelCall, Quiet
    <3>2. CASE EndRun \/ RunDies
      BY <3>2 DEF EndRun, RunDies, ExitBind, WorldInv, Quiet
    <3> QED
      BY <1>2, <3>1, <3>2
  <2>3. run'.pending = {}
    BY <2>1, CloseStepWorld
  <2>4. \A c \in answered : ~InStep(c)'
    BY <2>3 DEF InStep
  <2> QED
    BY <2>1, <2>2, <2>3, <2>4, CloseStepWorld DEF WorldInv, MovedSince
<1>3. ASSUME NEW s \in Slots, Tool(s) PROVE phase = "run" /\ phase' = "run"
  <2>1. slots[s].pc # "idle" /\ phase' = phase
    BY <1>3 DEF Tool, LookUp, RunTool, Record, AnswerRepeat
  <2> QED
    BY <2>1 DEF WorldInv, Quiet
<1>4. ASSUME NEW s \in Slots, Tool(s), LookUp(s) \/ RunTool(s) PROVE WorldInv'
  <2>1. UNCHANGED <<world, answered, last, run, step, newAt>>
    BY <1>4 DEF LookUp, RunTool, log
  <2>2. \A c \in answered : InStep(c)' <=> InStep(c)
    BY <2>1 DEF InStep
  <2> QED
    BY <1>3, <1>4, <2>1, <2>2 DEF WorldInv, MovedSince
<1>5. ASSUME NEW s \in Slots, Tool(s), Record(s) PROVE WorldInv'
  <2>1. /\ RecordReal(slots[s].call, slots[s].result, slots[s].saw)
        /\ slots[s].call \in Calls /\ slots[s].result \in Tokens
        /\ slots[s].saw \in Nat /\ UNCHANGED <<step, newAt>>
    BY <1>5 DEF Record, TypeOK, Slot
  <2> QED
    BY <1>3, <1>5, <2>1, RecordRealWorld
<1>6. ASSUME NEW s \in Slots, Tool(s), AnswerRepeat(s) PROVE WorldInv'
  <2> DEFINE e == [call |-> slots[s].call, real |-> FALSE, ok |-> TRUE, new |-> FALSE]
  <2>1. /\ run' = [run EXCEPT !.pending = @ \cup {e}]
        /\ UNCHANGED <<world, answered, last, step, newAt>>
    BY <1>6 DEF AnswerRepeat, RecordMemo
  <2>2. ~e.real
    OBVIOUS
  <2> HIDE DEF e
  <2>3. run'.pending = run.pending \cup {e}
    BY <2>1 DEF TypeOK, Run
  <2>4. \A c \in answered : InStep(c)' <=> InStep(c)
    BY <2>2, <2>3 DEF InStep
  <2> QED
    BY <1>3, <1>6, <2>1, <2>2, <2>3, <2>4 DEF WorldInv, MovedSince
<1>7. ~Ingest
  BY DEF Ingest, TypeOK
<1>8. CASE UNCHANGED vars
  <2>1. \A c \in answered : InStep(c)' <=> InStep(c)
    BY <1>8 DEF vars, InStep
  <2> QED
    BY <1>8, <2>1 DEF vars, WorldInv, MovedSince, Quiet
<1> QED
  BY <1>1, <1>2, <1>4, <1>5, <1>6, <1>7, <1>8 DEF Next, Tool

\* The invariant of the memo: it is what it should be until a peer reports.
MemoInv == reports = 0 => WorldInv

\* It holds at first, and no step takes a report back.
LEMMA MemoInit == Init => MemoInv
  BY WorldInit DEF MemoInv

\* Every action keeps what the memo rests on: recording stamps, closing restamps.
LEMMA MemoStep == TypeOK /\ MemoInv /\ [Next]_vars => MemoInv'
<1> SUFFICES ASSUME TypeOK, MemoInv, [Next]_vars, reports' = 0 PROVE WorldInv'
  BY DEF MemoInv
<1>1. reports = 0
  <2>1. reports' = reports \/ reports' = reports + 1
    <3>1. ASSUME NEW s \in Slots, Tool(s) PROVE reports' = reports
      BY <3>1 DEF Tool, LookUp, RunTool, Record, AnswerRepeat
    <3> QED
      BY <3>1 DEF Next, BeginRun, ModelCall, EndRun, RunDies, ExitBind, Ingest, vars
  <2> QED
    BY <2>1 DEF TypeOK
<1> QED
  BY <1>1, WorldStep DEF MemoInv

\* A thread passes from asked to repeat, or to miss, only by looking the log up.
LEMMA OnlyLookUpDecides ==
  ASSUME WorldInv, TypeOK, Next, NEW s \in Slots,
         slots[s].pc = "asked", slots'[s].pc \in {"repeat", "miss"}
  PROVE  LookUp(s)
<1>1. ~Quiet
  BY DEF Quiet
<1>2. ~BeginRun /\ ~ModelCall /\ ~EndRun /\ ~RunDies /\ ~Ingest
  <2>1. phase = "run"
    BY <1>1 DEF WorldInv
  <2> QED
    BY <1>1, <2>1 DEF BeginRun, ModelCall, EndRun, RunDies, Ingest
<1>3. PICK t \in Slots : Tool(t)
  BY <1>2 DEF Next
<1>4. t = s
  BY <1>3 DEF Tool, LookUp, RunTool, Record, AnswerRepeat, TypeOK, Slot
<1> QED
  BY <1>3, <1>4 DEF Tool, RunTool, Record, AnswerRepeat

\* While every result comes through the middleware, the log answers a call exactly
\* when no later step of the turn, of any peer, has added a new success.
THEOREM MemoServesQuiet == Spec => ServedOnlyWhenQuiet
<1>1. TypeOK /\ MemoInv /\ [Next]_vars =>
        [reports = 0 => \A s \in Slots : ~ServesChanged(s)]_vars
  <2> SUFFICES ASSUME TypeOK, WorldInv, Next, NEW s \in Slots, ServesChanged(s)
               PROVE  FALSE
    BY DEF MemoInv
  <2>1. LookUp(s)
    BY OnlyLookUpDecides DEF ServesChanged
  <2>2. EarlierAnswer(slots[s].call)
    BY <2>1 DEF LookUp, TypeOK, ServesChanged
  <2> QED
    BY <2>2 DEF EarlierAnswer, WorldInv, ServesChanged
<1> QED
  BY <1>1, TypeInit, TypeStep, MemoInit, MemoStep, PTL DEF Spec, ServedOnlyWhenQuiet

\* And it runs an answered call again only for a reason: the world has moved, or
\* a failed call has its retry left.
THEOREM MemoRerunsJustified == Spec => RerunsJustified
<1>1. TypeOK /\ MemoInv /\ [Next]_vars =>
        [\A s \in Slots :
           /\ reports = 0
           /\ slots[s].pc = "asked" /\ slots'[s].pc = "miss"
           /\ slots[s].call \in answered
           => LET c == slots[s].call IN
              \/ MovedSince(c)
              \/ ~last[c].ok /\ failures[c] <= FAILED_RETRIES]_vars
  <2> SUFFICES ASSUME TypeOK, WorldInv, Next, NEW s \in Slots,
                      slots[s].pc = "asked", slots'[s].pc = "miss",
                      slots[s].call \in answered
               PROVE  \/ MovedSince(slots[s].call)
                      \/ /\ ~last[slots[s].call].ok
                         /\ failures[slots[s].call] <= FAILED_RETRIES
    BY DEF MemoInv
  <2>1. LookUp(s)
    BY OnlyLookUpDecides
  <2>2. ~EarlierAnswer(slots[s].call)
    BY <2>1 DEF LookUp, TypeOK
  <2>3. failures[slots[s].call] \in Nat
    BY DEF TypeOK
  <2> QED
    BY <2>2, <2>3, LogConstants DEF EarlierAnswer, WorldInv
<1> QED
  BY <1>1, TypeInit, TypeStep, MemoInit, MemoStep, PTL DEF Spec, RerunsJustified

=============================================================================
