-------------------------- MODULE ModelChoiceProofs --------------------------
(***************************************************************************)
(* What TLAPS proves of ModelFailover and ToolProbe, for any number of     *)
(* threads, models, workers, changes, faults and restarts: the side in the *)
(* file, and the one probe of a model.  Each is proved of its own steps,   *)
(* then of the runs that explore the two.                                  *)
(***************************************************************************)
EXTENDS MCModelChoice, FiniteSetTheorems, TLAPS

(* Steps that leave a set of variables between 0 and its bound. *)
LEMMA OneMore ==
  ASSUME NEW N \in Nat, NEW n \in 0 .. N, n < N PROVE n + 1 \in 0 .. N
  OBVIOUS

-----------------------------------------------------------------------------
(* The default model.                                                      *)

FailoverInv == F!TypesOK /\ F!RestartKeepsSide

LEMMA InitFailover == F!Init => FailoverInv
<1> SUFFICES ASSUME F!Init PROVE FailoverInv
  OBVIOUS
<1>1. moves \in 0 .. MaxMoves /\ faults \in 0 .. MaxFaults /\ restarts \in 0 .. MaxRestarts
  BY ChoiceBounds DEF F!Init
<1>2. F!RestartKeepsSide
  BY DEF F!Init, F!RestartKeepsSide, F!InFile
<1>3. QED
  BY <1>1, <1>2 DEF F!Init, F!TypesOK, F!Idle, F!Sides, F!Levels, FailoverInv

(* A load gives a side: while nothing has failed, the one the file names. *)
LEMMA LoadedSide ==
  ASSUME F!TypesOK, NEW now \in F!Loaded PROVE now \in F!Sides /\ F!Misread(now) \in {0, 1}
  BY DEF F!TypesOK, F!Loaded, F!InFile, F!Sides, F!Misread

LEMMA LoadedFile ==
  ASSUME F!RestartKeepsSide, faults = 0, NEW now \in F!Loaded, F!Misread(now) = 0
  PROVE  now = F!InFile
  BY DEF F!Loaded, F!Misread, F!RestartKeepsSide

(* Failures are counted, and what is counted stays counted. *)
LEMMA FaultCounts ==
  ASSUME F!TypesOK, NEW n \in {0, 1, 2}, F!Fault(n)
  PROVE  faults' \in 0 .. MaxFaults /\ (faults' = 0 => faults = 0 /\ n = 0)
  BY ChoiceBounds DEF F!TypesOK, F!Fault

LEMMA SideAfterSide ==
  ASSUME NEW current \in F!Sides, NEW read PROVE F!SideAfter(current, read) \in F!Sides
  BY DEF F!SideAfter, F!Sides

LEMMA AsksKeeps == ASSUME NEW t \in Threads, FailoverInv, F!Asks(t) PROVE FailoverInv'
<1>1. PICK now \in F!Loaded : side' = now /\ F!Fault(F!Misread(now))
  BY DEF F!Asks
<1>2. now \in F!Sides /\ F!Misread(now) \in {0, 1}
  BY LoadedSide DEF FailoverInv
<1>3. faults' \in 0 .. MaxFaults /\ (faults' = 0 => faults = 0 /\ F!Misread(now) = 0)
  BY <1>1, <1>2, FaultCounts DEF FailoverInv
<1>4. F!TypesOK'
  BY <1>1, <1>2, <1>3 DEF FailoverInv, F!TypesOK, F!Asks
<1>5. faults' = 0 => side' = F!InFile
  BY <1>1, <1>3, LoadedFile DEF FailoverInv
<1>6. F!InFile' = F!InFile
  BY DEF F!Asks, F!InFile
<1>7. QED
  BY <1>4, <1>5, <1>6 DEF FailoverInv, F!RestartKeepsSide

LEMMA ReadsKeeps == ASSUME NEW t \in Threads, FailoverInv, F!Reads(t) PROVE FailoverInv'
<1>1. PICK known \in BOOLEAN :
        /\ reqs' = [reqs EXCEPT ![t] =
              [pc |-> "observing", read |-> IF known THEN balance ELSE "unknown"]]
        /\ F!Fault(IF known THEN 0 ELSE 1)
  BY DEF F!Reads
<1>2. UNCHANGED <<balance, side, file, due, moves, restarts>>
  BY DEF F!Reads
<1>3. faults' \in 0 .. MaxFaults /\ (faults' = 0 => faults = 0)
  BY <1>1, FaultCounts DEF FailoverInv
<1>4. reqs' \in [Threads -> [pc : {"idle", "reading", "observing"},
                             read : F!Levels \cup {"unknown"}]]
  BY <1>1 DEF FailoverInv, F!TypesOK
<1>5. QED
  BY <1>2, <1>3, <1>4 DEF FailoverInv, F!TypesOK, F!RestartKeepsSide, F!InFile

(* A change of side is written in the same step, or its write counts as a   *)
(* fault; without a change the file stands.                                 *)
LEMMA ObservesKeeps == ASSUME NEW t \in Threads, FailoverInv, F!Observes(t) PROVE FailoverInv'
<1>1. PICK now \in F!Loaded, written \in BOOLEAN :
        LET after == F!SideAfter(now, reqs[t].read)
            turns == F!Saves(now, after) IN
        /\ side' = after
        /\ file' = IF turns /\ written THEN after ELSE file
        /\ F!Fault(F!Misread(now) + IF turns /\ ~written THEN 1 ELSE 0)
  BY DEF F!Observes
<1> DEFINE after == F!SideAfter(now, reqs[t].read)
           turns == F!Saves(now, after)
           failed == IF turns /\ ~written THEN 1 ELSE 0
<1>2. now \in F!Sides /\ after \in F!Sides /\ F!Misread(now) \in {0, 1}
  BY LoadedSide, SideAfterSide DEF FailoverInv
<1>3. side' = after /\ file' = (IF turns /\ written THEN after ELSE file)
  BY <1>1
<1>4. faults' \in 0 .. MaxFaults /\ (faults' = 0 => faults = 0 /\ F!Misread(now) = 0 /\ failed = 0)
  <2>1. F!Misread(now) + failed \in {0, 1, 2}
    BY <1>2
  <2>2. F!Misread(now) + failed = 0 => F!Misread(now) = 0 /\ failed = 0
    BY <1>2
  <2>3. QED
    BY <1>1, <2>1, <2>2, FaultCounts DEF FailoverInv
<1>5. UNCHANGED <<balance, due, moves, restarts>>
      /\ reqs' \in [Threads -> [pc : {"idle", "reading", "observing"},
                                read : F!Levels \cup {"unknown"}]]
  BY DEF FailoverInv, F!TypesOK, F!Observes, F!Idle
<1>6. turns <=> now # after
  BY DEF F!Saves
<1> HIDE DEF after, turns
<1>7. F!TypesOK'
  BY <1>2, <1>3, <1>4, <1>5 DEF FailoverInv, F!TypesOK
<1>8. ASSUME faults' = 0 PROVE side' = F!InFile'
  <2>1. now = F!InFile /\ failed = 0
    BY <1>4, <1>8, LoadedFile DEF FailoverInv
  <2>2. CASE turns
    <3>1. written
      BY <2>1, <2>2
    <3>2. file' = after /\ after # "none"
      BY <1>2, <1>3, <2>2, <3>1 DEF F!Sides
    <3>3. QED
      BY <1>3, <3>2 DEF F!InFile
  <2>3. CASE ~turns
    BY <1>3, <1>6, <2>1, <2>3 DEF F!InFile
  <2>4. QED
    BY <2>2, <2>3
<1>9. QED
  BY <1>7, <1>8 DEF FailoverInv, F!RestartKeepsSide

LEMMA FailoverStep == FailoverInv /\ [F!Next]_fvars => FailoverInv'
<1> SUFFICES ASSUME FailoverInv, [F!Next]_fvars PROVE FailoverInv'
  OBVIOUS
<1>1. ASSUME NEW t \in Threads, F!Step(t) PROVE FailoverInv'
  <2>1. CASE F!TurnEnds(t)
    BY <2>1 DEF F!TurnEnds, FailoverInv, F!TypesOK, F!RestartKeepsSide, F!InFile
  <2>2. QED
    BY <1>1, <2>1, AsksKeeps, ReadsKeeps, ObservesKeeps DEF F!Step
<1>2. CASE F!MinutePasses
  BY <1>2 DEF F!MinutePasses, FailoverInv, F!TypesOK, F!RestartKeepsSide, F!InFile
<1>3. CASE F!BalanceMoves
  <2>1. moves' \in 0 .. MaxMoves /\ balance' \in F!Levels
    BY <1>3, ChoiceBounds DEF F!BalanceMoves, FailoverInv, F!TypesOK
  <2>2. QED
    BY <1>3, <2>1 DEF F!BalanceMoves, FailoverInv, F!TypesOK, F!RestartKeepsSide, F!InFile
<1>4. CASE F!Restart
  <2>1. restarts' \in 0 .. MaxRestarts
    BY <1>4, ChoiceBounds DEF F!Restart, FailoverInv, F!TypesOK
  <2>2. QED
    BY <1>4, <2>1 DEF F!Restart, F!Idle, FailoverInv, F!TypesOK, F!RestartKeepsSide, F!InFile
<1>5. CASE UNCHANGED fvars
  BY <1>5 DEF fvars, FailoverInv, F!TypesOK, F!RestartKeepsSide, F!InFile
<1>6. QED
  BY <1>1, <1>2, <1>3, <1>4, <1>5 DEF F!Next

-----------------------------------------------------------------------------
(* Probes.  A model in flight has one probe, at one stage; what is not in   *)
(* flight, or was lost before its thread began, has none.                   *)

NoProbe == [g \in P!Stages |-> 0]
OneAt(g) == [h \in P!Stages |-> IF h = g THEN 1 ELSE 0]
HasProbe(m) == m \in inflight \ lost

ProbeOf(m) ==
    /\ HasProbe(m) => \E g \in P!Stages : probes[m] = OneAt(g)
    /\ ~HasProbe(m) => probes[m] = NoProbe

ProbeInv == P!TypesOK /\ \A m \in Models : ProbeOf(m)

LEMMA CountsType ==
  NoProbe \in [P!Stages -> Nat] /\ \A g \in P!Stages : OneAt(g) \in [P!Stages -> Nat]
  BY DEF NoProbe, OneAt

LEMMA TakenOut == ASSUME NEW g \in P!Stages PROVE [OneAt(g) EXCEPT ![g] = @ - 1] = NoProbe
<1>1. \A h \in P!Stages : [OneAt(g) EXCEPT ![g] = OneAt(g)[g] - 1][h] = 0
  BY DEF OneAt
<1>2. QED
  BY <1>1 DEF OneAt, NoProbe

(* Where a probe is, nothing else is: its model has one, there. *)
LEMMA FoundAt ==
  ASSUME ProbeInv, NEW m \in Models, NEW g \in P!Stages, probes[m][g] > 0
  PROVE  HasProbe(m) /\ probes[m] = OneAt(g)
<1>1. HasProbe(m)
  BY DEF ProbeInv, ProbeOf, NoProbe
<1>2. PICK h \in P!Stages : probes[m] = OneAt(h)
  BY <1>1 DEF ProbeInv, ProbeOf
<1>3. h = g
  BY <1>2 DEF OneAt
<1>4. QED
  BY <1>1, <1>2, <1>3

(* A probe that goes from one stage to the next leaves the first. *)
LEMMA AdvanceMoves ==
  ASSUME ProbeInv, NEW m \in Models, NEW from \in P!Stages, NEW to \in P!Stages, from # to,
         probes[m][from] > 0, P!Advance(m, from, to)
  PROVE  HasProbe(m) /\ probes' = [probes EXCEPT ![m] = OneAt(to)]
<1> DEFINE Moved(f) == [[f EXCEPT ![from] = @ - 1] EXCEPT ![to] = @ + 1]
<1>1. HasProbe(m) /\ probes[m] = OneAt(from)
  BY FoundAt
<1>2. probes' = [probes EXCEPT ![m] = Moved(probes[m])]
  BY DEF P!Advance, ProbeInv, P!TypesOK
<1>3. Moved(OneAt(from)) = OneAt(to)
  BY DEF OneAt
<1> HIDE DEF Moved
<1>4. QED
  BY <1>1, <1>2, <1>3

(* The count of a set is the same in ToolProbe. *)
LEMMA SameCount == ASSUME NEW S PROVE P!Cardinality(S) = Cardinality(S)
  BY DEF P!Cardinality, Cardinality

LEMMA OneProbeOf == ProbeInv => P!OneProbeEach
<1> SUFFICES ASSUME ProbeInv, NEW m \in Models
             PROVE  /\ \A g \in P!Stages : probes[m][g] <= 1
                    /\ Cardinality(P!Running(m)) = IF HasProbe(m) THEN 1 ELSE 0
  BY SameCount DEF P!OneProbeEach, HasProbe
<1>1. CASE HasProbe(m)
  <2>1. PICK g \in P!Stages : probes[m] = OneAt(g)
    BY <1>1 DEF ProbeInv, ProbeOf
  <2>2. P!Running(m) = {g}
    BY <2>1 DEF P!Running, OneAt
  <2>3. Cardinality({g}) = 1
    BY FS_Singleton
  <2>4. QED
    BY <1>1, <2>1, <2>2, <2>3 DEF OneAt
<1>2. CASE ~HasProbe(m)
  <2>1. probes[m] = NoProbe
    BY <1>2 DEF ProbeInv, ProbeOf
  <2>2. P!Running(m) = {}
    BY <2>1 DEF P!Running, NoProbe
  <2>3. QED
    BY <1>2, <2>1, <2>2, FS_EmptySet DEF NoProbe
<1>3. QED
  BY <1>1, <1>2

LEMMA InitProbe == P!Init => ProbeInv
<1> SUFFICES ASSUME P!Init PROVE ProbeInv
  OBVIOUS
<1>1. probes = [m \in Models |-> NoProbe]
  BY DEF P!Init, NoProbe
<1>2. changes \in 0 .. MaxChanges /\ failures \in 0 .. MaxFaults
  BY ChoiceBounds DEF P!Init
<1>3. P!TypesOK
  BY <1>1, <1>2, CountsType DEF P!Init, P!TypesOK
<1>4. QED
  BY <1>1, <1>3 DEF P!Init, ProbeInv, ProbeOf, HasProbe

(* The models a request starts a probe for had none. *)
LEMMA CatalogueKeeps == ProbeInv /\ P!Catalogue => ProbeInv'
<1> SUFFICES ASSUME ProbeInv, P!Catalogue PROVE ProbeInv'
  OBVIOUS
<1> DEFINE Starts(S) == probes' = [m \in Models |->
                           [probes[m] EXCEPT !["queued"] = IF m \in S THEN @ + 1 ELSE @]]
<1>1. P!ToStart \subseteq Models /\ P!ToStart \cap inflight = {}
  BY DEF P!ToStart
<1>2. ASSUME NEW S \in SUBSET P!ToStart, Starts(S)
      PROVE  probes' = [m \in Models |-> IF m \in S THEN OneAt("queued") ELSE probes[m]]
  <2>1. ASSUME NEW m \in Models
        PROVE  [probes[m] EXCEPT !["queued"] = IF m \in S THEN @ + 1 ELSE @]
                 = IF m \in S THEN OneAt("queued") ELSE probes[m]
    <3>1. CASE m \in S
      <4>1. probes[m] = NoProbe
        BY <1>1, <3>1 DEF ProbeInv, ProbeOf, HasProbe
      <4>2. [NoProbe EXCEPT !["queued"] = @ + 1] = OneAt("queued")
        BY DEF NoProbe, OneAt, P!Stages
      <4>3. QED
        BY <3>1, <4>1, <4>2
    <3>2. CASE m \notin S
      BY <3>2 DEF ProbeInv, P!TypesOK
    <3>3. QED
      BY <3>1, <3>2
  <2>2. QED
    BY <1>2, <2>1
<1> HIDE DEF Starts
<1>3. ASSUME NEW S \in SUBSET P!ToStart, NEW L \in SUBSET P!ToStart, L \cap S = {}, Starts(S),
             inflight' = inflight \cup S \cup L, lost' = lost \cup L, failures' \in 0 .. MaxFaults
      PROVE  ProbeInv'
  <2>1. probes' = [m \in Models |-> IF m \in S THEN OneAt("queued") ELSE probes[m]]
    BY <1>2, <1>3
  <2>2. P!TypesOK'
    BY <1>1, <1>3, <2>1, CountsType DEF P!Catalogue, ProbeInv, P!TypesOK, P!Stages
  <2>3. ASSUME NEW m \in Models PROVE ProbeOf(m)'
    <3>1. CASE m \in S
      BY <1>1, <1>3, <2>1, <3>1 DEF ProbeInv, P!TypesOK, ProbeOf, HasProbe, P!Stages
    <3>2. CASE m \notin S
      <4>1. probes'[m] = probes[m] /\ (HasProbe(m)' <=> HasProbe(m))
        BY <1>1, <1>3, <2>1, <3>2 DEF ProbeInv, P!TypesOK, HasProbe
      <4>2. QED
        BY <4>1 DEF ProbeInv, ProbeOf
    <3>3. QED
      BY <3>1, <3>2
  <2>4. QED
    BY <2>2, <2>3 DEF ProbeInv
<1>4. CASE inflight' = inflight \cup P!ToStart /\ Starts(P!ToStart) /\ UNCHANGED <<failures, lost>>
  <2>1. failures' \in 0 .. MaxFaults
    BY <1>4 DEF ProbeInv, P!TypesOK
  <2>2. {} \in SUBSET P!ToStart /\ {} \cap P!ToStart = {} /\ P!ToStart \in SUBSET P!ToStart
    OBVIOUS
  <2>3. inflight' = inflight \cup P!ToStart \cup {} /\ lost' = lost \cup {}
    BY <1>4
  <2>4. QED
    BY <1>3, <1>4, <2>1, <2>2, <2>3
<1>5. ASSUME NEW bad \in P!ToStart, NEW S \in SUBSET (P!ToStart \ {bad}),
             failures < MaxFaults, failures' = failures + 1,
             inflight' = inflight \cup S \cup {bad}, lost' = lost \cup {bad}, Starts(S)
      PROVE  ProbeInv'
  <2>1. failures' \in 0 .. MaxFaults
    BY <1>5, ChoiceBounds DEF ProbeInv, P!TypesOK
  <2>2. QED
    BY <1>3, <1>5, <2>1
<1>6. QED
  BY <1>4, <1>5 DEF P!Catalogue, Starts

(* A step that moves one probe on, or none. *)
LEMMA MovedKeeps ==
  ASSUME ProbeInv, NEW m \in Models, NEW g \in P!Stages,
         \/ UNCHANGED probes
         \/ HasProbe(m) /\ probes' = [probes EXCEPT ![m] = OneAt(g)],
         UNCHANGED <<backend, tools, asked, inflight, changes, lost>>,
         texts' \in [Models -> BOOLEAN], failures' \in 0 .. MaxFaults
  PROVE  ProbeInv'
<1>1. P!TypesOK'
  BY CountsType DEF ProbeInv, P!TypesOK
<1>2. ASSUME NEW n \in Models PROVE ProbeOf(n)'
  <2>1. HasProbe(n)' <=> HasProbe(n)
    BY DEF HasProbe
  <2>2. CASE probes'[n] = probes[n]
    BY <2>1, <2>2 DEF ProbeInv, ProbeOf
  <2>3. CASE probes'[n] # probes[n]
    <3>1. n = m /\ HasProbe(m) /\ probes'[m] = OneAt(g)
      BY <2>3 DEF ProbeInv, P!TypesOK
    <3>2. QED
      BY <2>1, <3>1 DEF ProbeOf
  <2>4. QED
    BY <2>2, <2>3
<1>3. QED
  BY <1>1, <1>2 DEF ProbeInv

LEMMA BeginsKeeps == ASSUME NEW m \in Models, ProbeInv, P!Begins(m) PROVE ProbeInv'
<1>1. HasProbe(m) /\ probes' = [probes EXCEPT ![m] = OneAt("asking")]
  BY AdvanceMoves DEF P!Begins, P!Stages
<1>2. texts' \in [Models -> BOOLEAN] /\ failures' \in 0 .. MaxFaults
  BY DEF P!Begins, ProbeInv, P!TypesOK
<1>3. QED
  BY <1>1, <1>2, MovedKeeps DEF P!Begins, P!Stages

LEMMA AnsweredKeeps == ASSUME NEW m \in Models, ProbeInv, P!Answered(m) PROVE ProbeInv'
<1> DEFINE Answer(g) == P!Advance(m, "asking", g)
<1>1. texts' \in [Models -> BOOLEAN]
  BY DEF P!Answered, ProbeInv, P!TypesOK
<1>2. failures' \in 0 .. MaxFaults
  BY ChoiceBounds DEF P!Answered, ProbeInv, P!TypesOK
<1>3. UNCHANGED probes \/ Answer("yes") \/ Answer("no") \/ Answer("unknown")
  BY DEF P!Answered
<1> HIDE DEF Answer
<1>4. UNCHANGED <<backend, tools, asked, inflight, changes, lost>> /\ probes[m]["asking"] > 0
  BY DEF P!Answered
<1>5. ASSUME NEW g \in P!Stages \ {"asking"}, Answer(g) PROVE ProbeInv'
  <2>1. HasProbe(m) /\ probes' = [probes EXCEPT ![m] = OneAt(g)]
    BY <1>4, <1>5, AdvanceMoves DEF Answer, P!Stages
  <2>2. QED
    BY <1>1, <1>2, <1>4, <2>1, MovedKeeps
<1>6. CASE UNCHANGED probes
  BY <1>1, <1>2, <1>4, <1>6, MovedKeeps DEF P!Stages
<1>7. QED
  BY <1>3, <1>5, <1>6 DEF P!Stages

(* The probe is gone, and its model is no longer in flight. *)
LEMMA RecordsKeeps == ASSUME NEW m \in Models, ProbeInv, P!Records(m) PROVE ProbeInv'
<1>1. PICK g \in P!Running(m) \ {"queued", "asking"} :
         /\ probes' = [probes EXCEPT ![m][g] = @ - 1]
         /\ inflight' = inflight \ {m}
         /\ tools' = [tools EXCEPT ![m] = IF g # "unknown" THEN g ELSE IF @ = "none" THEN g ELSE @]
         /\ asked' = [asked EXCEPT ![m] = FALSE]
         /\ UNCHANGED <<backend, texts, changes, failures, lost>>
  BY DEF P!Records
<1>2. g \in {"yes", "no", "unknown"} /\ g \in P!Stages /\ probes[m][g] > 0
  BY <1>1 DEF P!Running, P!Stages
<1>3. HasProbe(m) /\ probes[m] = OneAt(g)
  BY <1>2, FoundAt
<1>4. probes' = [probes EXCEPT ![m] = NoProbe]
  BY <1>1, <1>2, <1>3, TakenOut DEF ProbeInv, P!TypesOK
<1>5. P!TypesOK'
  <2>1. tools' \in [Models -> {"none", "unknown", "yes", "no"}]
    BY <1>1, <1>2 DEF ProbeInv, P!TypesOK
  <2>2. lost' \subseteq inflight' /\ inflight' \subseteq Models
    BY <1>1, <1>3 DEF ProbeInv, P!TypesOK, HasProbe
  <2>3. probes' \in [Models -> [P!Stages -> Nat]]
    BY <1>4, CountsType DEF ProbeInv, P!TypesOK
  <2>4. QED
    BY <1>1, <2>1, <2>2, <2>3 DEF ProbeInv, P!TypesOK
<1>6. ASSUME NEW n \in Models PROVE ProbeOf(n)'
  <2>1. CASE n = m
    BY <1>1, <1>4, <2>1 DEF ProbeInv, P!TypesOK, ProbeOf, HasProbe
  <2>2. CASE n # m
    <3>1. probes'[n] = probes[n] /\ (HasProbe(n)' <=> HasProbe(n))
      BY <1>1, <1>4, <2>2 DEF ProbeInv, P!TypesOK, HasProbe
    <3>2. QED
      BY <3>1 DEF ProbeInv, ProbeOf
  <2>3. QED
    BY <2>1, <2>2
<1>7. QED
  BY <1>5, <1>6 DEF ProbeInv

LEMMA ProbeStep == ProbeInv /\ [P!Next]_pvars => ProbeInv'
<1> SUFFICES ASSUME ProbeInv, [P!Next]_pvars PROVE ProbeInv'
  OBVIOUS
<1>1. ASSUME NEW m \in Models, P!Expires(m) \/ P!BackendChanges(m) PROVE ProbeInv'
  <2>1. P!TypesOK'
    <3>1. CASE P!Expires(m)
      BY <3>1 DEF P!Expires, ProbeInv, P!TypesOK
    <3>2. CASE P!BackendChanges(m)
      BY <3>2, ChoiceBounds DEF P!BackendChanges, ProbeInv, P!TypesOK
    <3>3. QED
      BY <1>1, <3>1, <3>2
  <2>2. UNCHANGED <<probes, inflight, lost>>
    BY <1>1 DEF P!Expires, P!BackendChanges
  <2>3. QED
    BY <2>1, <2>2 DEF ProbeInv, ProbeOf, HasProbe
<1>2. CASE UNCHANGED pvars
  BY <1>2 DEF pvars, ProbeInv, P!TypesOK, ProbeOf, HasProbe
<1>3. QED
  BY <1>1, <1>2, CatalogueKeeps, BeginsKeeps, AnsweredKeeps, RecordsKeeps DEF P!Next

-----------------------------------------------------------------------------
(* The two, each by itself and as the runs explore them.                   *)

ChoiceInv == part \in {"failover", "probe"} /\ FailoverInv /\ ProbeInv

LEMMA ChoiceStep == ChoiceInv /\ [Next]_vars => ChoiceInv'
<1> SUFFICES ASSUME ChoiceInv, [Next]_vars PROVE ChoiceInv'
  OBVIOUS
<1>1. [F!Next]_fvars /\ [P!Next]_pvars /\ UNCHANGED part
  BY DEF Next, FailoverSteps, ProbeSteps, vars
<1>2. QED
  BY <1>1, FailoverStep, ProbeStep DEF ChoiceInv

(* Unless a reading or a write failed, the file and the process name one    *)
(* side, however the threads' readings cross and whenever it restarts.      *)
THEOREM RestartKeeps == Spec => []RestartKeepsSide
<1>1. Init => ChoiceInv
  BY InitFailover, InitProbe DEF Init, ChoiceInv
<1>2. ChoiceInv => RestartKeepsSide
  BY DEF ChoiceInv, FailoverInv, RestartKeepsSide
<1>3. QED
  BY <1>1, <1>2, ChoiceStep, PTL DEF Spec

(* A model has one probe while it is in flight, and none when it is not or  *)
(* when its thread never began, whatever fails and however many probes wait *)
(* for a worker; and every variable has its type.                           *)
THEOREM OneProbe == Spec => []TypesOK
<1>1. Init => ChoiceInv
  BY InitFailover, InitProbe DEF Init, ChoiceInv
<1>2. ChoiceInv => TypesOK
  BY OneProbeOf DEF ChoiceInv, FailoverInv, ProbeInv, TypesOK
<1>3. QED
  BY <1>1, <1>2, ChoiceStep, PTL DEF Spec

(* The failover by itself keeps its side. *)
THEOREM FailoverAlone == F!Spec => []F!RestartKeepsSide
<1>1. FailoverInv => F!RestartKeepsSide
  BY DEF FailoverInv
<1>2. FailoverInv /\ [F!Next]_F!vars => FailoverInv'
  BY FailoverStep DEF fvars, F!vars
<1>3. QED
  BY <1>1, <1>2, InitFailover, PTL DEF F!Spec
=============================================================================
