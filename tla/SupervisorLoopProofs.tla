------------------------ MODULE SupervisorLoopProofs ------------------------
(***************************************************************************)
(* Theorems about SupervisorLoop, for every value of its constants: what   *)
(* bounds a turn, whatever its peers answer, ask for or raise.             *)
(***************************************************************************)
EXTENDS SupervisorLoop, FiniteSetTheorems, SequenceTheorems,
        WellFoundedInduction, TLAPS

-----------------------------------------------------------------------------
(* Filtering the queue *)

(* A non-empty set of naturals has a least element: the induction used below. *)
LEMMA LeastElement ==
  ASSUME NEW T \in SUBSET Nat, T # {}
  PROVE  \E m \in T : \A k \in T : m <= k
<1>1. \E m \in T : \A k \in T : <<k, m>> \notin OpToRel(<, Nat)
  BY WFMin, NatLessThanWellFounded
<1>2. \A k, m \in Nat : <<k, m>> \in OpToRel(<, Nat) <=> k < m
  BY DEF OpToRel
<1>3. PICK m \in T : \A k \in T : <<k, m>> \notin OpToRel(<, Nat)
  BY <1>1
<1>4. ASSUME NEW k \in T PROVE m <= k
  <2>1. ~ (k < m)
    BY <1>2, <1>3
  <2> QED BY <2>1
<1> QED BY <1>4

(* What the local function of Kept satisfies. *)
KeptBy(f, queue, alive) ==
  f = [i \in 0..Len(queue) |->
         IF i = 0 THEN <<>>
         ELSE IF queue[i] \in alive THEN Append(f[i-1], queue[i]) ELSE f[i-1]]

(* The recursion in Kept has a solution. *)
LEMMA KeptExists ==
  ASSUME NEW S, NEW queue \in Seq(S), NEW alive
  PROVE  \E f : KeptBy(f, queue, alive)
<1> DEFINE N == Len(queue)
           Steps(f, n) == /\ f[0] = <<>>
                          /\ \A i \in 1..n : f[i] = IF queue[i] \in alive
                                                    THEN Append(f[i-1], queue[i])
                                                    ELSE f[i-1]
           Bad == {n \in 0..N : ~ \E f : Steps(f, n)}
<1>1. N \in Nat
  BY LenProperties
<1>2. Bad = {}
  <2> SUFFICES ASSUME Bad # {} PROVE FALSE
    OBVIOUS
  <2>1. PICK m \in Bad : \A k \in Bad : m <= k
    <3> Bad \in SUBSET Nat
      BY <1>1
    <3> HIDE DEF Bad
    <3> QED BY LeastElement
  <2>2. CASE m = 0
    <3> DEFINE f0 == [i \in {0} |-> <<>>]
    <3>1. f0[0] = <<>>
      OBVIOUS
    <3> HIDE DEF f0
    <3>2. \A i \in 1..0 : FALSE
      OBVIOUS
    <3>3. Steps(f0, m)
      BY <2>2, <3>1, <3>2
    <3> QED BY <2>1, <3>3
  <2>3. CASE m # 0
    <3>1. m \in 1..N /\ m-1 \in 0..N /\ m-1 \notin Bad
      <4>1. m \in 0..N /\ Bad \subseteq Nat
        BY <1>1
      <4> HIDE DEF Bad, N
      <4>2. m \in 1..N /\ m-1 \in 0..N /\ ~(m <= m-1)
        BY <1>1, <2>3, <4>1
      <4> QED BY <2>1, <4>2
    <3>2. PICK f : Steps(f, m-1)
      BY <3>1
    <3> DEFINE last == IF queue[m] \in alive THEN Append(f[m-1], queue[m]) ELSE f[m-1]
               g == [i \in 0..m |-> IF i = m THEN last ELSE f[i]]
    <3>3. Steps(g, m)
      <4>1. g[0] = <<>>
        BY <3>1, <3>2
      <4>2. ASSUME NEW i \in 1..m
            PROVE  g[i] = IF queue[i] \in alive THEN Append(g[i-1], queue[i]) ELSE g[i-1]
        <5>1. i-1 \in 0..m /\ i-1 # m /\ i \in 0..m /\ m \in Int
          BY <3>1
        <5>2. g[i-1] = f[i-1]
          BY <5>1
        <5>3. CASE i = m
          BY <5>1, <5>2, <5>3
        <5>4. CASE i # m
          <6>1. i \in 1..(m-1)
            BY <5>1, <5>4
          <6>2. g[i] = f[i]
            BY <5>1, <5>4
          <6> QED BY <3>2, <5>2, <6>1, <6>2
        <5> QED BY <5>3, <5>4
      <4> HIDE DEF g
      <4> QED BY <4>1, <4>2
    <3> QED BY <2>1, <3>3
  <2> QED BY <2>2, <2>3
<1>3. PICK f : Steps(f, N)
  BY <1>1, <1>2
<1> DEFINE h == [i \in 0..N |-> f[i]]
<1>4. KeptBy(h, queue, alive)
  <2>1. ASSUME NEW i \in 0..N
        PROVE  h[i] = IF i = 0 THEN <<>> ELSE IF queue[i] \in alive
                      THEN Append(h[i-1], queue[i]) ELSE h[i-1]
    <3>1. CASE i = 0
      BY <1>3, <3>1
    <3>2. CASE i # 0
      <4>1. i \in 1..N /\ i-1 \in 0..N
        BY <1>1, <3>2
      <4> QED BY <1>3, <3>2, <4>1
    <3> QED BY <3>1, <3>2
  <2> QED BY <2>1 DEF KeptBy
<1> QED BY <1>4

(* Filtering a queue leaves a queue of elements that pass the filter. *)
LEMMA KeptType ==
  ASSUME NEW S, NEW queue \in Seq(S), NEW alive
  PROVE  Kept(queue, alive) \in Seq(S \cap alive)
<1> DEFINE N == Len(queue)
           kept == CHOOSE f : KeptBy(f, queue, alive)
           Off == {n \in 0..N : kept[n] \notin Seq(S \cap alive)}
<1>1. N \in Nat
  BY LenProperties
<1>2. KeptBy(kept, queue, alive)
  BY KeptExists
<1>3. Kept(queue, alive) = kept[N]
  BY DEF Kept, KeptBy
<1> HIDE DEF kept
<1>4. \A i \in 0..N : kept[i] = IF i = 0 THEN <<>>
         ELSE IF queue[i] \in alive THEN Append(kept[i-1], queue[i]) ELSE kept[i-1]
  BY <1>2, Zenon DEF KeptBy
<1>5. Off = {}
  <2> SUFFICES ASSUME Off # {} PROVE FALSE
    OBVIOUS
  <2>1. PICK m \in Off : \A k \in Off : m <= k
    <3> Off \in SUBSET Nat
      BY <1>1
    <3> HIDE DEF Off
    <3> QED BY LeastElement
  <2>2. m # 0
    BY <2>1, <1>4, EmptySeq
  <2>3. m-1 \in 0..N /\ m-1 \notin Off /\ m \in 1..N
    BY <1>1, <2>1, <2>2
  <2>4. queue[m] \in S
    BY <2>3, ElementOfSeq
  <2>5. kept[m-1] \in Seq(S \cap alive)
    BY <2>3
  <2>6. kept[m] = IF queue[m] \in alive THEN Append(kept[m-1], queue[m]) ELSE kept[m-1]
    BY <1>4, <2>2, <2>3
  <2>7. kept[m] \in Seq(S \cap alive)
    <3>1. CASE queue[m] \in alive
      BY <2>4, <2>5, <2>6, <3>1, AppendProperties
    <3>2. CASE queue[m] \notin alive
      BY <2>5, <2>6, <3>2
    <3> QED BY <3>1, <3>2
  <2> QED BY <2>1, <2>7
<1> QED BY <1>1, <1>3, <1>5
-----------------------------------------------------------------------------
(* Type correctness *)

(* The log a node works on is well typed, evicted or not. *)
LEMMA LogForStateType ==
  ASSUME log \in LogType
  PROVE  LogForState \in LogType
BY DEF LogForState, NewLog, LogType, Answering

(* Recording what a run said, asked and delivered keeps the log well typed. *)
LEMMA LoggedType ==
  ASSUME NEW l \in LogType, NEW p \in Answering, NEW o \in Outcome
  PROVE  Logged(l, p, o) \in LogType
<1>1. Elements(o.needs) \in SUBSET Peers
  BY LoopConstants, LenProperties, ElementOfSeq DEF Outcome, Elements
<1>2. Held(o) \in SUBSET {"result", "map"}
  BY DEF Held
<1>3. /\ Logged(l, p, o).lastRun \in [Answering -> {"none", "new", "nothing"}]
      /\ Logged(l, p, o).said \in SUBSET Answering
      /\ Logged(l, p, o).asked \in SUBSET SUBSET Peers
  BY <1>1 DEF Logged, LogType
<1>4. Logged(l, p, o).held \in [Answering -> SUBSET {"result", "map"}]
  BY <1>2 DEF Logged, LogType
<1> QED BY <1>3, <1>4 DEF Logged, LogType

(* The needs the supervisor still serves are requests for existing peers. *)
LEMMA LiveNeedsType ==
  ASSUME needs \in Seq(Need)
  PROVE  LiveNeeds \in Seq({n \in Need : ~Dead(n)})
<1>1. LiveNeeds \in Seq(Need \cap {n \in Elements(needs) : ~Dead(n)})
  BY KeptType DEF LiveNeeds
<1>2. Need \cap {n \in Elements(needs) : ~Dead(n)} \subseteq {n \in Need : ~Dead(n)}
  OBVIOUS
<1> QED BY <1>1, <1>2, SeqMonotonic

(* Queueing a peer's requests, and dropping the repeated ones, keeps the queue typed. *)
LEMMA EnqueueType ==
  ASSUME needs \in Seq(Need), NEW raw \in NeedLists, NEW p \in Peers
  PROVE  Enqueue(raw, p) \in Seq(Need)
<1>1. raw \in Seq(Peers) /\ DOMAIN raw = 1..Len(raw) /\ Len(raw) \in Nat
  BY LoopConstants, LenProperties
<1> DEFINE asked == [i \in DOMAIN raw |-> [cap |-> raw[i], by |-> p]]
<1>2. asked \in Seq(Need)
  <2>1. \A i \in 1..Len(raw) : [cap |-> raw[i], by |-> p] \in Need
    BY <1>1, ElementOfSeq DEF Need
  <2> QED BY <1>1, <2>1
<1>3. <<[cap |-> p, by |-> p]>> \in Seq(Need)
  BY DEF Need
<1> QED BY <1>2, <1>3, ConcatProperties DEF Enqueue

(* A decision with a typed queue and typed failures keeps every type. *)
LEMMA RouteType ==
  ASSUME TypeOK, NEW nxt \in Actions, NEW remaining \in Seq(Need),
         NEW fails \in Seq(Failure), DOMAIN failures \subseteq DOMAIN fails,
         Route(nxt, remaining, fails)
  PROVE  TypeOK'
<1>1. Floor(nxt) \in Actions
  BY DEF Floor, Actions, Peers, Answering
<1>2. node' \in Running /\ actions' \in Seq(Actions)
  BY <1>1, AppendProperties DEF Route, TypeOK, Running, Actions
<1>3. log' \in LogType
  BY LogForStateType DEF Route, TypeOK
<1>4. needs' \in Seq(Need) /\ failures' \in Seq(Failure) /\ reported' \subseteq DOMAIN failures'
  BY DEF Route, TypeOK, turnVars
<1> QED BY <1>2, <1>3, <1>4 DEF Route, TypeOK, turnVars, workVars

(* Recording the turn keeps the ledger a count and the log well typed. *)
LEMMA RecordTurnType ==
  ASSUME log \in LogType, ledger \in Nat, NEW content \in BOOLEAN, NEW times \in 1..2,
         RecordTurn(content, times)
  PROVE  log' \in LogType /\ ledger' \in Nat
<1>1. log' \in LogType
  BY DEF RecordTurn, LogType
<1>2. ledger' \in {ledger, ledger + 1, ledger + times}
  BY DEF RecordTurn
<1> QED BY <1>1, <1>2

(* Every variable keeps its type, the queue its well-formed requests, and the *)
(* reported failures are failures that were recorded.                         *)
LEMMA TypeInit == Init => TypeOK
<1> SUFFICES ASSUME Init PROVE TypeOK
  OBVIOUS
<1>1. log \in LogType
  BY DEF Init, NewLog, LogType, Answering
<1>2. node \in Running
  BY DEF Init, Running
<1>3. needs \in Seq(Need) /\ actions \in Seq(Actions) /\ failures \in Seq(Failure)
      /\ trail \in Seq(NodeOutcomes) /\ reported \subseteq DOMAIN failures
  BY EmptySeq DEF Init
<1> QED BY <1>1, <1>2, <1>3 DEF Init, TypeOK

(* Each of the supervisor's ways out keeps the types. *)
LEMMA TypeSupervise ==
  ASSUME TypeOK, Supervise
  PROVE  TypeOK'
<1>1. <<>> \in Seq(Need) /\ failures \in Seq(Failure) /\ needs \in Seq(Need) /\ step \in Nat
  BY EmptySeq, LenProperties DEF TypeOK, step
<1>2. CASE SupervisorStop
  BY <1>1, <1>2, RouteType DEF SupervisorStop, Actions
<1>3. CASE SupervisorNeed
  <2>1. LiveNeeds \in Seq({n \in Need : ~Dead(n)}) /\ LiveNeeds # <<>>
    BY <1>1, <1>3, LiveNeedsType DEF SupervisorNeed
  <2>2. Head(LiveNeeds) \in {n \in Need : ~Dead(n)} /\ Tail(LiveNeeds) \in Seq({n \in Need : ~Dead(n)})
    BY <2>1, HeadTailProperties
  <2>3. Head(LiveNeeds).cap \in Actions /\ Tail(LiveNeeds) \in Seq(Need)
    <3>1. {n \in Need : ~Dead(n)} \subseteq Need
      OBVIOUS
    <3>2. Tail(LiveNeeds) \in Seq(Need)
      BY <2>2, <3>1, SeqMonotonic
    <3> QED BY <2>2, <3>2 DEF Need, Actions
  <2> QED BY <1>1, <1>3, <2>3, RouteType DEF SupervisorNeed
<1>4. CASE SupervisorDecide
  <2>1. PICK d \in Actions : Route(Vetoed(d), <<>>, failures)
    BY <1>4 DEF SupervisorDecide
  <2>2. Vetoed(d) \in Actions
    BY DEF Vetoed, Actions
  <2> QED BY <1>1, <2>1, <2>2, RouteType
<1>5. CASE SupervisorDecideFails
  <2> DEFINE d == IF evidence = {} THEN "search" ELSE "done"
             f(fatal) == [peer |-> "decide", fatal |-> fatal, at |-> step]
  <2>1. PICK fatal \in BOOLEAN : Route(Vetoed(d), <<>>, Append(failures, f(fatal)))
    BY <1>5 DEF SupervisorDecideFails
  <2>2. Vetoed(d) \in Actions
    BY DEF Vetoed, Actions, Peers
  <2>3. f(fatal) \in Failure
    BY <1>1 DEF Failure
  <2>4. Append(failures, f(fatal)) \in Seq(Failure)
        /\ DOMAIN failures \subseteq DOMAIN Append(failures, f(fatal))
    <3> HIDE DEF f
    <3>1. Len(failures) \in Nat /\ DOMAIN failures = 1..Len(failures)
      BY <1>1, LenProperties
    <3>2. Append(failures, f(fatal)) \in Seq(Failure)
          /\ Len(Append(failures, f(fatal))) = Len(failures) + 1
      BY <1>1, <2>3, AppendProperties
    <3>3. DOMAIN Append(failures, f(fatal)) = 1..(Len(failures) + 1)
      BY <3>2, LenProperties
    <3> QED BY <3>1, <3>2, <3>3
  <2> HIDE DEF d, f
  <2> QED BY <1>1, <2>1, <2>2, <2>4, RouteType
<1> QED BY <1>2, <1>3, <1>4, <1>5 DEF Supervise

(* A peer's failure, appended, keeps the failures and what was reported typed. *)
LEMMA PeerFailedType ==
  ASSUME TypeOK, NEW p \in Peers, NEW fatal \in BOOLEAN, PeerFailed(p, fatal)
  PROVE  failures' \in Seq(Failure) /\ DOMAIN failures \subseteq DOMAIN failures'
<1> DEFINE f == [peer |-> p, fatal |-> fatal, at |-> step]
<1>1. f \in Failure
  BY LenProperties DEF TypeOK, step, Failure
<1>2. failures \in Seq(Failure) /\ failures' = Append(failures, f)
  BY DEF TypeOK, PeerFailed
<1> HIDE DEF f
<1>3. Len(failures) \in Nat /\ DOMAIN failures = 1..Len(failures)
      /\ Append(failures, f) \in Seq(Failure) /\ Len(Append(failures, f)) = Len(failures) + 1
  BY <1>1, <1>2, LenProperties, AppendProperties
<1>4. DOMAIN Append(failures, f) = 1..(Len(failures) + 1)
  BY <1>3, LenProperties
<1> QED BY <1>2, <1>3, <1>4

(* A search that returns, fails or aborts keeps the types. *)
LEMMA TypeSearch ==
  ASSUME TypeOK, SearchFails \/ SearchReturns \/ SearchAborts
  PROVE  TypeOK'
<1>1. CASE SearchFails
  <2>1. failures' \in Seq(Failure) /\ DOMAIN failures \subseteq DOMAIN failures'
    BY <1>1, PeerFailedType DEF SearchFails, Peers
  <2>2. trail' \in Seq(NodeOutcomes)
    BY <1>1, AppendProperties DEF SearchFails, TypeOK, NodeOutcomes
  <2> QED BY <1>1, <2>1, <2>2 DEF SearchFails, TypeOK, turnVars, Running, Terminal
<1>2. CASE SearchReturns
  <2>1. needs' \in Seq(Need) /\ evidence' \in SUBSET Docs /\ streak' \in Nat /\ rows' \in BOOLEAN
    BY <1>2, EnqueueType DEF SearchReturns, TypeOK, Peers
  <2>2. trail' \in Seq(NodeOutcomes) /\ attempts' \in Nat
    BY <1>2, AppendProperties DEF SearchReturns, TypeOK, NodeOutcomes
  <2> QED BY <1>2, <2>1, <2>2 DEF SearchReturns, TypeOK, Running, Terminal
<1>3. CASE SearchAborts
  <2>1. log' \in LogType /\ ledger' \in Nat
    <3> DEFINE worked == \E p \in Answering : log.held[p] # {}
    <3>1. worked \in BOOLEAN /\ 1 \in 1..2
      OBVIOUS
    <3>2. RecordTurn(worked, 1) \/ UNCHANGED <<ledger, log>>
      BY <1>3 DEF SearchAborts
    <3> HIDE DEF worked
    <3> QED BY <3>1, <3>2, RecordTurnType DEF TypeOK
  <2> QED BY <1>3, <2>1 DEF SearchAborts, TypeOK, workVars, Running, Terminal
<1> QED BY <1>1, <1>2, <1>3

(* An answering peer that returns or fails keeps the types. *)
LEMMA TypePeer ==
  ASSUME TypeOK, NEW p \in Answering, PeerReturns(p) \/ PeerFails(p)
  PROVE  TypeOK'
<1>1. LogForState \in LogType
  BY LogForStateType DEF TypeOK
<1>2. CASE PeerReturns(p)
  <2>1. PICK o \in Outcome :
          /\ log' = Logged(LogForState, p, o)
          /\ held' = [held EXCEPT ![p] = log'.held[p]]
          /\ slot' = [slot EXCEPT ![p] = IF o.answer = "blank" THEN "blank" ELSE "answered"]
          /\ needs' = Enqueue(o.needs, p)
          /\ evidence' = evidence \cup o.docs
          /\ IF o.docs = {} THEN UNCHANGED <<attempts, streak>>
             ELSE attempts' = attempts + 1 /\ streak' = 0
          /\ trail' = Append(trail, IF o.answer = "blank" THEN "blank" ELSE "answered")
    BY <1>2 DEF PeerReturns
  <2>2. log' \in LogType
    BY <1>1, <2>1, LoggedType
  <2>3. held' \in [Answering -> SUBSET {"result", "map"}]
    BY <2>1, <2>2 DEF TypeOK, LogType
  <2>4. needs' \in Seq(Need) /\ evidence' \in SUBSET Docs
    BY <2>1, EnqueueType DEF TypeOK, Outcome, Peers
  <2>5. trail' \in Seq(NodeOutcomes)
    BY <2>1, AppendProperties DEF TypeOK, NodeOutcomes
  <2>6. slot' \in [Answering -> {"none", "blank", "answered"}] /\ attempts' \in Nat /\ streak' \in Nat
    BY <2>1 DEF TypeOK
  <2> QED BY <1>2, <2>2, <2>3, <2>4, <2>5, <2>6
          DEF PeerReturns, TypeOK, turnVars, Running, Terminal
<1>3. CASE PeerFails(p)
  <2>1. PICK fatal \in BOOLEAN, o \in Outcome :
          /\ PeerFailed(p, fatal)
          /\ log' = Logged(LogForState, p, o)
          /\ held' = [held EXCEPT ![p] = log'.held[p]]
    BY <1>3 DEF PeerFails
  <2>2. log' \in LogType
    BY <1>1, <2>1, LoggedType
  <2>3. held' \in [Answering -> SUBSET {"result", "map"}]
    BY <2>1, <2>2 DEF TypeOK, LogType
  <2>4. failures' \in Seq(Failure) /\ DOMAIN failures \subseteq DOMAIN failures'
    BY <2>1, PeerFailedType DEF Peers
  <2>5. trail' \in Seq(NodeOutcomes) /\ slot' \in [Answering -> {"none", "blank", "answered"}]
    BY <1>3, AppendProperties DEF PeerFails, TypeOK, NodeOutcomes, FailedSlot
  <2> QED BY <1>3, <2>2, <2>3, <2>4, <2>5 DEF PeerFails, TypeOK, turnVars, Running, Terminal
<1> QED BY <1>2, <1>3

(* Whether the turn did work is a truth value. *)
LEMMA WorkedBoolean == Worked \in BOOLEAN
<1>1. (rows \/ \E p \in Answering : held[p] # {} \/ (log.live /\ log.held[p] # {})) \in BOOLEAN
  OBVIOUS
<1> QED BY <1>1 DEF Worked

(* Every return of synthesize keeps the types. *)
LEMMA TypeSynthesize ==
  ASSUME TypeOK, Synthesize
  PROVE  TypeOK'
<1>1. ASSUME NEW times \in 1..2, RecordTurn(Worked, times)
      PROVE  log' \in LogType /\ ledger' \in Nat
  BY <1>1, WorkedBoolean, RecordTurnType DEF TypeOK
<1>2. Unresolved \subseteq DOMAIN failures
  BY DEF Unresolved
<1>3. trail' \in Seq(NodeOutcomes)
  <2>1. trail' = Append(trail, "composed")
    BY DEF Synthesize, SynthesizeGeneral, SynthesizeInsufficient, SynthesizeAnswer,
           SynthesizeReground, SynthesizeRaises
  <2> QED BY <2>1, AppendProperties DEF TypeOK, NodeOutcomes
<1>4. ASSUME NEW flag \in BOOLEAN, Leave(flag)
      PROVE  reground' \in BOOLEAN /\ node' \in Running \cup Terminal
  BY <1>4 DEF Leave, Running, Terminal
<1>5. CASE SynthesizeGeneral
  BY <1>2, <1>3, <1>4, <1>5 DEF SynthesizeGeneral, TypeOK, workVars
<1>6. CASE SynthesizeInsufficient
  <2>1. log' \in LogType /\ ledger' \in Nat
    BY <1>1, <1>6 DEF SynthesizeInsufficient
  <2>2. reground' \in BOOLEAN /\ node' \in Running \cup Terminal
    BY <1>4, <1>6 DEF SynthesizeInsufficient
  <2> QED BY <1>2, <1>3, <1>6, <2>1, <2>2 DEF SynthesizeInsufficient, TypeOK, workVars
<1>7. CASE SynthesizeAnswer
  <2>1. log' \in LogType /\ ledger' \in Nat
    BY <1>1, <1>7 DEF SynthesizeAnswer
  <2>2. reground' \in BOOLEAN /\ node' \in Running \cup Terminal
    BY <1>4, <1>7 DEF SynthesizeAnswer
  <2> QED BY <1>2, <1>3, <1>7, <2>1, <2>2 DEF SynthesizeAnswer, TypeOK, workVars
<1>8. CASE SynthesizeReground
  <2>1. RegroundTarget \in Peers
    BY <1>8 DEF SynthesizeReground, RegroundTarget, Peers, Answering
  <2>2. needs' \in Seq(Need)
    BY <1>8, <2>1, AppendProperties DEF SynthesizeReground, TypeOK, Need
  <2>3. reground' \in BOOLEAN /\ node' \in Running \cup Terminal
    BY <1>4, <1>8 DEF SynthesizeReground
  <2>4. retries' \in Nat
    BY <1>8 DEF SynthesizeReground, TypeOK
  <2> QED BY <1>3, <1>8, <2>2, <2>3, <2>4 DEF SynthesizeReground, TypeOK, turnVars, workVars
<1>9. CASE SynthesizeRaises
  <2>1. failures' \in Seq(Failure)
    BY <1>9, AppendProperties DEF SynthesizeRaises, TypeOK, Failure
  <2>2. log' \in LogType /\ ledger' \in Nat
    BY <1>1, <1>9 DEF SynthesizeRaises
  <2> QED BY <1>3, <1>4, <1>9, <2>1, <2>2 DEF SynthesizeRaises, TypeOK, workVars
<1> QED BY <1>5, <1>6, <1>7, <1>8, <1>9 DEF Synthesize

(* The clarify node, an eviction and a cancellation keep the types. *)
LEMMA TypeOther ==
  ASSUME TypeOK, Clarify \/ Cancel \/ EvictLog \/ UNCHANGED vars
  PROVE  TypeOK'
<1>1. CASE Clarify
  BY <1>1 DEF Clarify, TypeOK, workVars, Running, Terminal
<1>2. CASE Cancel
  BY <1>2 DEF Cancel, TypeOK, turnVars, workVars, Terminal
<1>3. CASE EvictLog
  <2>1. log' \in LogType
    BY <1>3 DEF EvictLog, TypeOK, LogType
  <2> QED BY <1>3, <2>1 DEF EvictLog, TypeOK, turnVars, workVars
<1>4. CASE UNCHANGED vars
  BY <1>4 DEF vars, TypeOK
<1> QED BY <1>1, <1>2, <1>3, <1>4

(* Every variable keeps its type, whatever the constants: in particular the   *)
(* queue only holds requests for existing peers, so every route leads to a    *)
(* node of the graph, and every failure the answer names was recorded.        *)
THEOREM TypeCorrect == Spec => []TypeOK
<1>1. TypeOK /\ [Next]_vars => TypeOK'
  BY TypeSupervise, TypeSearch, TypePeer, TypeSynthesize, TypeOther
     DEF Next, GraphStep, RunPeer
<1> QED BY <1>1, TypeInit, PTL DEF Spec

-----------------------------------------------------------------------------
(* What the steps of each node do to the control state *)

(* What one more decision does to the number of decisions for a peer. *)
LEMMA CountAppend ==
  ASSUME actions \in Seq(Actions), NEW to \in Actions, actions' = Append(actions, to)
  PROVE  /\ step' = step + 1 /\ step \in Nat
         /\ \A a : Count(a)' = Count(a) + (IF to = a THEN 1 ELSE 0) /\ Count(a) \in Nat
<1>1. step \in Nat /\ DOMAIN actions = 1..step /\ step' = step + 1
  BY LenProperties, AppendProperties DEF step
<1>2. DOMAIN actions' = 1..(step+1) /\ actions'[step+1] = to
      /\ \A i \in 1..step : actions'[i] = actions[i]
  BY <1>1, AppendProperties, LenProperties DEF step
<1>3. ASSUME NEW a
      PROVE  Count(a)' = Count(a) + (IF to = a THEN 1 ELSE 0) /\ Count(a) \in Nat
  <2> DEFINE old == {i \in DOMAIN actions : actions[i] = a}
             new == {i \in DOMAIN actions' : actions'[i] = a}
  <2>1. IsFiniteSet(old) /\ Cardinality(old) \in Nat
    <3>1. IsFiniteSet(1..step)
      BY <1>1, FS_Interval
    <3>2. old \subseteq 1..step
      BY <1>1
    <3> QED BY <3>1, <3>2, FS_Subset, FS_CardinalityType
  <2>2. Count(a) = Cardinality(old) /\ Count(a)' = Cardinality(new)
    BY DEF Count
  <2>3. CASE to = a
    <3>1. new = old \cup {step + 1} /\ step + 1 \notin old
      BY <1>1, <1>2, <2>3
    <3>2. Cardinality(new) = Cardinality(old) + 1
      BY <2>1, <3>1, FS_AddElement
    <3> QED BY <2>1, <2>2, <2>3, <3>2
  <2>4. CASE to # a
    <3>1. new = old
      BY <1>1, <1>2, <2>4
    <3>2. Cardinality(new) = Cardinality(old)
      BY <3>1
    <3> HIDE DEF old, new
    <3> QED BY <2>1, <2>2, <2>4, <3>2
  <2> QED BY <2>3, <2>4
<1> QED BY <1>1, <1>3

(* The supervisor appends one decision and goes where it says.  It decides   *)
(* for a peer only within the step limit, for search only under its cap, and *)
(* hands synthesis an empty queue.                                           *)
Decided(to) ==
  /\ node = "supervisor"
  /\ actions' = Append(actions, to)
  /\ node' = IF to = "done" THEN "synthesize" ELSE to
  /\ step < MaxSteps \/ to = "done" \/ step = 0
  /\ to = "done" => needs' = <<>>
  /\ to = "search" => attempts < MaxSearches
  /\ to \in Answering => actions = <<>> \/ ~LastRunAddedNothing(to)
  /\ UNCHANGED <<attempts, retries, reground>>

(* A route is one decision, and the node it leads to is the decided one. *)
LEMMA RouteDecides ==
  ASSUME TypeOK, node = "supervisor", NEW nxt \in Actions, NEW remaining, NEW fails,
         Route(nxt, remaining, fails),
         nxt = "done" => remaining = <<>>,
         nxt # "done" => step < MaxSteps,
         nxt = "search" => attempts < MaxSearches,
         nxt \in Answering => ~LastRunAddedNothing(nxt)
  PROVE  \E to \in Actions : Decided(to)
<1>1. step \in Nat /\ (actions = <<>> => step = 0)
  BY LenProperties, EmptySeq DEF TypeOK, step
<1>2. CASE Floor(nxt) = nxt
  BY <1>2 DEF Decided, Route, workVars, Actions
<1>3. CASE Floor(nxt) # nxt
  <2>1. Floor(nxt) = "analyze" /\ actions = <<>>
    BY <1>3 DEF Floor
  <2>2. Decided("analyze")
    BY <1>1, <2>1 DEF Decided, Route, workVars
  <2> QED BY <2>2 DEF Actions, Peers, Answering
<1> QED BY <1>2, <1>3

(* Whichever way out the supervisor takes, it makes one decision. *)
LEMMA SuperviseSteps ==
  ASSUME TypeOK, Supervise
  PROVE  \E to \in Actions : Decided(to)
<1>1. step \in Nat /\ needs \in Seq(Need) /\ (MustStop \/ step < MaxSteps)
  BY LenProperties, LoopConstants DEF TypeOK, step, MustStop
<1>2. CASE SupervisorStop
  <2>1. Route("done", <<>>, failures) /\ node = "supervisor" /\ "done" \in Actions
    BY <1>2 DEF SupervisorStop, Actions
  <2>2. "done" \notin Answering
    BY DEF Answering
  <2> QED BY <2>1, <2>2, RouteDecides
<1>3. CASE SupervisorNeed
  <2>1. LiveNeeds \in Seq({n \in Need : ~Dead(n)}) /\ LiveNeeds # <<>>
    BY <1>1, <1>3, LiveNeedsType DEF SupervisorNeed
  <2>2. Head(LiveNeeds) \in {n \in Need : ~Dead(n)}
    BY <2>1, HeadTailProperties
  <2> DEFINE n == Head(LiveNeeds)
  <2>3. n.cap \in Peers /\ n.cap # "done" /\ ~Dead(n)
    BY <2>2 DEF Need, Peers, Answering
  <2>4. n.cap = "search" => attempts < MaxSearches
    BY <2>3, LoopConstants DEF Dead, TypeOK
  <2>5. n.cap \in Answering => ~LastRunAddedNothing(n.cap)
    BY <2>3 DEF Dead
  <2>6. Route(n.cap, Tail(LiveNeeds), failures) /\ node = "supervisor" /\ step < MaxSteps
    BY <1>1, <1>3 DEF SupervisorNeed
  <2> HIDE DEF n
  <2> QED BY <2>3, <2>4, <2>5, <2>6, RouteDecides DEF Actions
<1>4. ASSUME NEW d \in Actions, NEW fails, Consults, Route(Vetoed(d), <<>>, fails)
      PROVE  \E to \in Actions : Decided(to)
  <2>1. Vetoed(d) \in Actions
    BY DEF Vetoed, Actions
  <2>2. Vetoed(d) = "search" => attempts < MaxSearches
    BY LoopConstants DEF Vetoed, SearchExhausted, TypeOK
  <2>3. Vetoed(d) \in Answering => ~LastRunAddedNothing(Vetoed(d))
    BY DEF Vetoed, UnproductiveRepeat, Answering
  <2>4. node = "supervisor" /\ step < MaxSteps
    BY <1>1, <1>4 DEF Consults
  <2> QED BY <1>4, <2>1, <2>2, <2>3, <2>4, RouteDecides
<1>5. CASE SupervisorDecide
  BY <1>4, <1>5 DEF SupervisorDecide
<1>6. CASE SupervisorDecideFails
  <2>1. (IF evidence = {} THEN "search" ELSE "done") \in Actions
    BY DEF Actions, Peers
  <2> QED BY <1>4, <1>6, <2>1 DEF SupervisorDecideFails
<1> QED BY <1>2, <1>3, <1>5, <1>6 DEF Supervise

(* A peer always hands back to the supervisor, unless its retry raised; a     *)
(* search is counted.                                                         *)
LEMMA RunPeerSteps ==
  ASSUME TypeOK, RunPeer
  PROVE  /\ node \in Peers
         /\ \/ /\ node' = "supervisor"
               /\ attempts' >= attempts + (IF node = "search" THEN 1 ELSE 0)
            \/ node' = "aborted" /\ attempts' = attempts
         /\ UNCHANGED <<actions, retries, reground>>
<1>1. attempts \in Nat
  BY DEF TypeOK
<1>2. CASE SearchFails \/ SearchReturns \/ SearchAborts
  <2>1. CASE SearchFails
    BY <1>1, <2>1 DEF SearchFails, Peers
  <2>2. CASE SearchReturns
    BY <1>1, <2>2 DEF SearchReturns, Peers
  <2>3. CASE SearchAborts
    BY <1>1, <2>3 DEF SearchAborts, workVars, Peers
  <2> QED BY <1>2, <2>1, <2>2, <2>3
<1>3. ASSUME NEW p \in Answering, PeerReturns(p)
      PROVE  node = p /\ node' = "supervisor" /\ attempts' >= attempts
             /\ UNCHANGED <<actions, retries, reground>>
  BY <1>1, <1>3 DEF PeerReturns
<1>4. ASSUME NEW p \in Answering, PeerFails(p)
      PROVE  node = p /\ node' = "supervisor" /\ attempts' = attempts
             /\ UNCHANGED <<actions, retries, reground>>
  BY <1>1, <1>4 DEF PeerFails
<1>5. CASE \E p \in Answering : PeerReturns(p) \/ PeerFails(p)
  <2>1. PICK p \in Answering : PeerReturns(p) \/ PeerFails(p)
    BY <1>5
  <2>2. p \in Peers /\ p # "search"
    BY DEF Peers, Answering
  <2> QED BY <1>1, <1>3, <1>4, <2>1, <2>2
<1> QED BY <1>2, <1>5 DEF RunPeer

(* Synthesis ends the turn with the flag cleared, or queues one need and goes *)
(* back with at least two steps left.                                         *)
LEMMA SynthesizeSteps ==
  ASSUME TypeOK, Synthesize
  PROVE  /\ node = "synthesize"
         /\ \/ node' = "end" /\ ~reground' /\ UNCHANGED <<needs, retries>>
            \/ /\ node' = "supervisor" /\ step + 2 <= MaxSteps
               /\ retries < MaxRegrounds /\ retries' = retries + 1
         /\ UNCHANGED <<actions, attempts>>
<1>1. step \in Nat /\ retries \in Nat
  BY LenProperties DEF TypeOK, step
<1>2. CASE SynthesizeReground
  <2>1. ~(retries >= MaxRegrounds \/ step + 2 > MaxSteps)
    BY <1>2 DEF SynthesizeReground, RegroundTarget
  <2> QED BY <1>1, <1>2, <2>1, LoopConstants DEF SynthesizeReground, Leave, workVars
<1>3. CASE SynthesizeGeneral
  BY <1>3 DEF SynthesizeGeneral, Leave, workVars
<1>4. CASE SynthesizeInsufficient
  BY <1>4 DEF SynthesizeInsufficient, Leave, workVars
<1>5. CASE SynthesizeAnswer
  BY <1>5 DEF SynthesizeAnswer, Leave, workVars
<1>6. CASE SynthesizeRaises
  BY <1>6 DEF SynthesizeRaises, Leave, workVars
<1> QED BY <1>2, <1>3, <1>4, <1>5, <1>6 DEF Synthesize

(* No other step decides, queues or composes anything. *)
LEMMA OtherSteps ==
  ASSUME Clarify \/ Cancel \/ EvictLog \/ UNCHANGED vars
  PROVE  /\ \/ node' = node
            \/ node' = "cancelled"
            \/ node = "clarify" /\ node' \in {"end", "supervisor"}
         /\ UNCHANGED <<actions, attempts, retries, reground, needs>>
BY DEF Clarify, Cancel, EvictLog, vars, turnVars, workVars

-----------------------------------------------------------------------------
(* The inductive invariant behind the bounds *)

(* While a peer may still run, the turn is within the step limit; only the    *)
(* decision to compose may exceed it.                                         *)
StepInv ==
  /\ node = "clarify" => step = 0
  /\ node \in {"supervisor"} \cup Peers => step <= MaxSteps
  /\ step <= MaxSteps + 1

(* The queue is empty before the first decision and whenever the turn is      *)
(* composed.                                                                  *)
QueueInv == node \in {"clarify", "synthesize", "end"} => needs = <<>>

(* Each composition but the current one was sent back.                        *)
ComposeInv ==
  /\ retries <= MaxRegrounds
  /\ Count("done") <= retries + 1
  /\ node \in {"clarify", "supervisor"} \cup Peers => Count("done") <= retries
  /\ node \in {"clarify", "end"} => ~reground

(* Every search decided on was counted as an attempt, but the running one.    *)
SearchInv ==
  /\ Count("search") <= MaxSearches
  /\ node = "search" => Count("search") <= attempts + 1
  /\ node \in {"clarify", "supervisor", "synthesize"} \cup Answering
       => Count("search") <= attempts

ControlInv == StepInv /\ QueueInv /\ ComposeInv /\ SearchInv

(* A new turn satisfies the control invariant. *)
LEMMA ControlInit == Init => ControlInv
<1> SUFFICES ASSUME Init PROVE ControlInv
  OBVIOUS
<1>1. step = 0 /\ \A a : Count(a) = 0
  <2>1. step = 0 /\ DOMAIN actions = {}
    BY EmptySeq DEF Init, step
  <2> QED BY <2>1, FS_EmptySet DEF Count
<1>2. node \in {"clarify", "supervisor"} /\ retries = 0 /\ attempts = 0 /\ needs = <<>> /\ ~reground
  BY DEF Init
<1> QED BY <1>1, <1>2, LoopConstants
        DEF ControlInv, StepInv, QueueInv, ComposeInv, SearchInv, Peers, Answering

(* Every step keeps the control invariant, by the node it is taken at. *)
LEMMA ControlStep ==
  ASSUME TypeOK, ControlInv, [Next]_vars
  PROVE  ControlInv'
<1> USE LoopConstants DEF Peers, Answering
<1>1. step \in Nat /\ attempts \in Nat /\ retries \in Nat
      /\ Count("search") \in Nat /\ Count("done") \in Nat
  <2>1. IsFiniteSet(1..step) /\ DOMAIN actions = 1..step /\ step \in Nat
    BY LenProperties, FS_Interval DEF TypeOK, step
  <2>2. \A a : {i \in DOMAIN actions : actions[i] = a} \subseteq 1..step
    BY <2>1
  <2>3. \A a : Count(a) \in Nat
    BY <2>1, <2>2, FS_Subset, FS_CardinalityType DEF Count
  <2> QED BY <2>1, <2>3 DEF TypeOK
<1>2. ASSUME UNCHANGED actions
      PROVE  step' = step /\ Count("search")' = Count("search") /\ Count("done")' = Count("done")
  BY <1>2 DEF step, Count
<1>3. CASE Supervise
  <2>1. PICK to \in Actions : Decided(to)
    BY <1>3, SuperviseSteps
  <2>2. step' = step + 1
        /\ Count("search")' = Count("search") + (IF to = "search" THEN 1 ELSE 0)
        /\ Count("done")' = Count("done") + (IF to = "done" THEN 1 ELSE 0)
    BY <2>1, CountAppend DEF Decided, TypeOK
  <2>3. StepInv'
    BY <1>1, <2>1, <2>2 DEF Decided, ControlInv, StepInv, Actions
  <2>4. QueueInv'
    BY <2>1 DEF Decided, QueueInv, Actions
  <2>5. ComposeInv'
    BY <1>1, <2>1, <2>2 DEF Decided, ControlInv, ComposeInv, Actions
  <2>6. SearchInv'
    BY <1>1, <2>1, <2>2 DEF Decided, ControlInv, SearchInv, Actions
  <2> QED BY <2>3, <2>4, <2>5, <2>6 DEF ControlInv
<1>4. CASE RunPeer
  <2>1. attempts' \in Nat
    BY <1>4, TypeSearch, TypePeer DEF RunPeer, TypeOK
  <2> QED BY <1>1, <1>2, <1>4, <2>1, RunPeerSteps
          DEF ControlInv, StepInv, QueueInv, ComposeInv, SearchInv
<1>5. CASE Synthesize
  BY <1>1, <1>2, <1>5, SynthesizeSteps
     DEF ControlInv, StepInv, QueueInv, ComposeInv, SearchInv
<1>6. CASE Clarify \/ Cancel \/ EvictLog \/ UNCHANGED vars
  BY <1>1, <1>2, <1>6, OtherSteps
     DEF ControlInv, StepInv, QueueInv, ComposeInv, SearchInv
<1> QED BY <1>3, <1>4, <1>5, <1>6 DEF Next, GraphStep

(* The control invariant holds throughout every turn. *)
THEOREM ControlCorrect == Spec => []ControlInv
<1>1. Spec => []TypeOK
  BY TypeCorrect
<1> QED BY <1>1, ControlInit, ControlStep, PTL DEF Spec

(* A turn makes at most max_steps decisions and the final forced one.         *)
THEOREM StepsBounded == Spec => []StepBound
<1>1. ControlInv => StepBound
  BY DEF ControlInv, StepInv, StepBound
<1> QED BY <1>1, ControlCorrect, PTL

(* The search peer runs at most AGENT_SUPERVISOR_MAX_SEARCHES times.          *)
THEOREM SearchesCapped == Spec => []SearchesBounded
<1>1. ControlInv => SearchesBounded
  BY DEF ControlInv, SearchInv, SearchesBounded
<1> QED BY <1>1, ControlCorrect, PTL

(* A turn is composed at most once more than it may be re-grounded.           *)
THEOREM ComposedBounded == Spec => []ComposedOnce
<1>1. TypeOK /\ ControlInv => ComposedOnce
  <2> SUFFICES ASSUME TypeOK, ControlInv PROVE ComposedOnce
    OBVIOUS
  <2>1. Count("done") \in Nat /\ retries \in Nat
    <3>1. DOMAIN actions = 1..step /\ IsFiniteSet(1..step)
      BY LenProperties, FS_Interval DEF TypeOK, step
    <3>2. {i \in DOMAIN actions : actions[i] = "done"} \subseteq 1..step
      BY <3>1
    <3> QED BY <3>1, <3>2, FS_Subset, FS_CardinalityType DEF Count, TypeOK
  <2> QED BY <2>1, LoopConstants DEF ControlInv, ComposeInv, ComposedOnce
<1> QED BY <1>1, TypeCorrect, ControlCorrect, PTL

(* No capability request is left when the turn is composed.                   *)
THEOREM QueueDrained == Spec => []NeedsDrained
<1>1. ControlInv => NeedsDrained
  BY DEF ControlInv, QueueInv, NeedsDrained
<1> QED BY <1>1, ControlCorrect, PTL

(* The nodes a turn may still run: two for each decision left, save the node  *)
(* it is at.                                                                  *)
NodesLeft ==
  IF node \in Terminal THEN 0
  ELSE 2 * (MaxSteps + 1 - step)
         + (IF node = "supervisor" THEN 1 ELSE 2)

(* Every node the graph runs uses up one of them at least, and nothing gives  *)
(* one back.                                                                  *)
NodesRunOut ==
  /\ [](NodesLeft \in 0 .. 2 * MaxSteps + 4)
  /\ [][ /\ GraphStep => NodesLeft' < NodesLeft
         /\ NodesLeft' <= NodesLeft ]_vars

(* One step of the graph, or of who cancels the turn or evicts its log. *)
LEMMA NodesStep ==
  ASSUME TypeOK, TypeOK', ControlInv, ControlInv', [Next]_vars
  PROVE  /\ GraphStep => NodesLeft' < NodesLeft
         /\ NodesLeft' <= NodesLeft
<1> USE LoopConstants DEF Peers, Answering, Terminal
<1>1. step \in Nat /\ step' \in Nat /\ step <= MaxSteps + 1 /\ step' <= MaxSteps + 1
      /\ MaxSteps \in Nat
  BY LenProperties DEF TypeOK, step, ControlInv, StepInv
<1>2. UNCHANGED actions => step' = step
  BY DEF step
<1>3. CASE Supervise
  <2>1. PICK to \in Actions : Decided(to)
    BY <1>3, SuperviseSteps
  <2>2. step' = step + 1
    BY <2>1, CountAppend DEF Decided, TypeOK
  <2>3. node = "supervisor" /\ node' \in Running \ {"supervisor"}
    BY <2>1 DEF Decided, Actions, Running
  <2> QED BY <1>1, <2>2, <2>3 DEF NodesLeft, Running
<1>4. CASE RunPeer
  <2>1. node \in Peers /\ node' \in {"supervisor", "aborted"} /\ step' = step
    BY <1>2, <1>4, RunPeerSteps
  <2> QED BY <1>1, <2>1 DEF NodesLeft
<1>5. CASE Synthesize
  <2>1. node = "synthesize" /\ node' \in {"supervisor", "end"} /\ step' = step
    BY <1>2, <1>5, SynthesizeSteps
  <2> QED BY <1>1, <2>1 DEF NodesLeft
<1>6. CASE Clarify
  <2>1. node = "clarify" /\ node' \in {"supervisor", "end"} /\ step' = step
    BY <1>2, <1>6 DEF Clarify
  <2> QED BY <1>1, <2>1 DEF NodesLeft
<1>7. CASE (Cancel \/ EvictLog \/ UNCHANGED vars) /\ ~GraphStep
  <2>1. node' \in {node, "cancelled"} /\ step' = step
    BY <1>2, <1>7 DEF Cancel, EvictLog, vars, turnVars, workVars
  <2> QED BY <1>1, <1>7, <2>1 DEF NodesLeft
<1> QED BY <1>3, <1>4, <1>5, <1>6, <1>7 DEF Next, GraphStep

(* Whatever peers answer, ask for or raise, a turn runs at most 2 * max_steps *)
(* + 4 nodes of the graph: 20 with the default of 8 steps, where LangGraph     *)
(* gives up at its default of 25.                                             *)
THEOREM NodesBounded == Spec => NodesRunOut
<1>1. TypeOK /\ ControlInv => NodesLeft \in 0 .. 2 * MaxSteps + 4
  BY LenProperties, LoopConstants DEF TypeOK, step, ControlInv, StepInv, NodesLeft
<1>2. TypeOK /\ TypeOK' /\ ControlInv /\ ControlInv' /\ [Next]_vars
        => [ /\ GraphStep => NodesLeft' < NodesLeft
             /\ NodesLeft' <= NodesLeft ]_vars
  BY NodesStep
<1> QED BY <1>1, <1>2, TypeCorrect, ControlCorrect, PTL DEF Spec, NodesRunOut

-----------------------------------------------------------------------------
(* Progress *)

(* Before the first decision no peer has run. *)
FirstInv ==
  actions = <<>> =>
    /\ node \notin Peers \cup {"synthesize"}
    /\ \A p \in Answering : log.lastRun[p] # "nothing"

(* Every step keeps the invariant about turns that have decided nothing. *)
LEMMA FirstStep ==
  ASSUME TypeOK, FirstInv, [Next]_vars
  PROVE  FirstInv'
<1>1. CASE Supervise
  <2>1. PICK to \in Actions : actions' = Append(actions, to)
    BY <1>1, SuperviseSteps DEF Decided
  <2>2. actions' # <<>>
    BY <2>1, AppendProperties DEF TypeOK
  <2> QED BY <2>2 DEF FirstInv
<1>2. CASE RunPeer
  BY <1>2, RunPeerSteps DEF FirstInv
<1>3. CASE Synthesize
  BY <1>3, SynthesizeSteps DEF FirstInv
<1>4. CASE Clarify \/ Cancel \/ EvictLog \/ UNCHANGED vars
  <2>1. \A p \in Answering : log'.lastRun[p] = log.lastRun[p]
    BY <1>4 DEF Clarify, Cancel, EvictLog, vars, turnVars, workVars, TypeOK, LogType
  <2> QED BY <1>4, <2>1, OtherSteps DEF FirstInv, Peers, Answering
<1> QED BY <1>1, <1>2, <1>3, <1>4 DEF Next, GraphStep

(* A peer whose last run added nothing is never started again while the turn  *)
(* keeps its log, by a decision, a queued request or a re-grounding pass.     *)
THEOREM FruitlessNotRerun == Spec => NoFruitlessRerun
<1>1. Init => FirstInv
  BY DEF Init, FirstInv, NewLog, Peers, Answering
<1>2. Spec => []FirstInv
  BY <1>1, FirstStep, TypeCorrect, PTL DEF Spec
<1>3. ASSUME TypeOK, FirstInv, [Next]_vars
      PROVE  [\A p \in Answering :
                node = "supervisor" /\ node' = p /\ log.live => log.lastRun[p] # "nothing"]_vars
  <2> SUFFICES ASSUME NEW p \in Answering, node = "supervisor", node' = p, log.live
               PROVE  log.lastRun[p] # "nothing"
    OBVIOUS
  <2>1. CASE Supervise
    <3>1. PICK to \in Actions : Decided(to)
      BY <1>3, <2>1, SuperviseSteps
    <3>2. to = p
      BY <3>1 DEF Decided, Answering
    <3> QED BY <1>3, <3>1, <3>2 DEF Decided, LastRunAddedNothing, FirstInv
  <2>2. CASE RunPeer
    BY <1>3, <2>2, RunPeerSteps DEF Peers, Answering
  <2>3. CASE Synthesize
    BY <1>3, <2>3, SynthesizeSteps
  <2>4. CASE Clarify \/ Cancel \/ EvictLog \/ UNCHANGED vars
    BY <2>4, OtherSteps DEF Answering
  <2> QED BY <1>3, <2>1, <2>2, <2>3, <2>4 DEF Next, GraphStep
<1> QED BY <1>2, <1>3, TypeCorrect, PTL DEF Spec, NoFruitlessRerun

-----------------------------------------------------------------------------
(* The first decision *)

(* Nothing is held before the first decision, which is not to compose. *)
UnworkedInv ==
  /\ actions = <<>> => evidence = {} /\ NothingComputed
  /\ NeverAnswersUnworked

(* Every exit of the supervisor is a route. *)
LEMMA SuperviseRoutes ==
  ASSUME Supervise PROVE \E nxt, remaining, fails : Route(nxt, remaining, fails)
BY DEF Supervise, SupervisorStop, SupervisorNeed, SupervisorDecide, SupervisorDecideFails

LEMMA UnworkedStep ==
  ASSUME TypeOK, FirstInv, UnworkedInv, [Next]_vars
  PROVE  UnworkedInv'
<1>1. CASE Supervise
  <2>1. PICK to \in Actions : actions' = Append(actions, to)
    BY <1>1, SuperviseSteps DEF Decided
  <2>2. PICK nxt, remaining, fails : Route(nxt, remaining, fails)
    BY <1>1, SuperviseRoutes
  <2>3. actions' # <<>>
    BY <2>1, AppendProperties DEF TypeOK
  <2>4. CASE actions = <<>>
    <3>1. actions'[1] = Floor(nxt)
      BY <2>2, <2>4 DEF Route
    <3>2. req.unified => Floor(nxt) # "done"
      BY <2>4 DEF Floor, UnworkedInv
    <3>3. req' = req
      BY <2>2 DEF Route, turnVars
    <3> QED BY <2>3, <3>1, <3>2, <3>3 DEF UnworkedInv, NeverAnswersUnworked
  <2>5. CASE actions # <<>>
    <3>1. 1 \in 1..Len(actions)
      BY <2>5, LenProperties, EmptySeq DEF TypeOK
    <3>2. actions'[1] = actions[1] /\ req' = req
      BY <2>1, <2>2, <3>1, AppendProperties DEF TypeOK, Route, turnVars
    <3> QED BY <2>3, <2>5, <3>2 DEF UnworkedInv, NeverAnswersUnworked
  <2> QED BY <2>4, <2>5
<1>2. CASE RunPeer \/ Synthesize
  <2>1. actions' = actions /\ actions # <<>>
    BY <1>2, RunPeerSteps, SynthesizeSteps DEF FirstInv
  <2>2. req' = req
    BY <1>2 DEF RunPeer, SearchFails, SearchReturns, SearchAborts, PeerReturns, PeerFails,
       Synthesize, SynthesizeGeneral, SynthesizeInsufficient, SynthesizeAnswer,
       SynthesizeReground, SynthesizeRaises, turnVars
  <2> QED BY <2>1, <2>2 DEF UnworkedInv, NeverAnswersUnworked
<1>3. CASE Clarify \/ Cancel \/ EvictLog \/ UNCHANGED vars
  BY <1>3 DEF Clarify, Cancel, EvictLog, vars, turnVars, workVars, UnworkedInv,
              NeverAnswersUnworked, NothingComputed
<1> QED BY <1>1, <1>2, <1>3 DEF Next, GraphStep

(* Before the first decision nothing has run or added nothing. *)
LEMMA FirstAlways == Spec => []FirstInv
<1>1. Init => FirstInv
  BY DEF Init, FirstInv, NewLog, Peers, Answering
<1> QED BY <1>1, FirstStep, TypeCorrect, PTL DEF Spec

(* With the peers merged, no turn is composed before something has run,       *)
(* whatever the decider says and whatever fails.                              *)
THEOREM NothingUnworked == Spec => []NeverAnswersUnworked
<1>1. Init => UnworkedInv
  BY DEF Init, UnworkedInv, NeverAnswersUnworked, NothingComputed
<1>2. UnworkedInv => NeverAnswersUnworked
  BY DEF UnworkedInv
<1> QED BY <1>1, <1>2, UnworkedStep, FirstAlways, TypeCorrect, PTL DEF Spec

-----------------------------------------------------------------------------
(* The turn's record and the ledger *)

(* The log the turn opened holds what the slots hold of it. *)
RecordInv == log.first => \A p \in Answering : held[p] \subseteq log.held[p]

(* The turn is recorded only as it ends, so a running turn has not been; and  *)
(* a turn that opens with a question has nothing to record.                   *)
LedgerInv ==
  /\ node \in Running => ledger = 0 /\ ~log.written
  /\ node = "clarify" => \A p \in Answering : held[p] = {}
  /\ LedgerExact

(* Recording marks the log and changes nothing else of it. *)
LEMMA RecordTurnLog ==
  ASSUME log \in LogType, NEW content, NEW times, RecordTurn(content, times)
  PROVE  log'.live = log.live /\ log'.first = log.first /\ log'.held = log.held
BY DEF RecordTurn, LogType

(* A run adds to the record it works on. *)
LEMMA LoggedAdds ==
  ASSUME NEW l \in LogType, NEW p \in Answering, NEW o, log' = Logged(l, p, o)
  PROVE  /\ log'.live = l.live /\ log'.first = l.first /\ log'.written = l.written
         /\ \A q \in Answering : l.held[q] \subseteq log'.held[q]
BY DEF Logged, LogType, Answering

(* A log the turn opened is the one it works on. *)
LEMMA SameLog ==
  ASSUME log \in LogType
  PROVE  /\ LogForState.first => LogForState = log
         /\ ~log.written => ~LogForState.written
BY DEF LogForState, NewLog

(* What a run of an answering peer leaves of the record. *)
LEMMA PeerRecords ==
  ASSUME TypeOK, RecordInv, NEW p \in Answering, PeerReturns(p) \/ PeerFails(p)
  PROVE  /\ RecordInv'
         /\ log'.first => \A q \in Answering : held[q] \subseteq held'[q]
         /\ ~log.written => ~log'.written
<1>1. PICK o : log' = Logged(LogForState, p, o) /\ held' = [held EXCEPT ![p] = log'.held[p]]
  BY DEF PeerReturns, PeerFails
<1>2. LogForState \in LogType
  BY LogForStateType DEF TypeOK
<1>3. /\ log'.first = LogForState.first /\ log'.written = LogForState.written
      /\ \A q \in Answering : LogForState.held[q] \subseteq log'.held[q]
  BY <1>1, <1>2, LoggedAdds
<1>4. log'.first => \A q \in Answering : held[q] \subseteq log'.held[q]
  BY <1>3, SameLog DEF RecordInv, TypeOK
<1>5. \A q \in Answering : held'[q] = IF q = p THEN log'.held[p] ELSE held[q]
  BY <1>1 DEF TypeOK
<1> QED BY <1>3, <1>4, <1>5, SameLog DEF RecordInv, TypeOK

(* No other step touches the slots' records, or adds to the log's. *)
LEMMA OthersRecord ==
  ASSUME TypeOK, RecordInv,
         \/ Supervise \/ SearchFails \/ SearchReturns \/ SearchAborts \/ Synthesize
         \/ Clarify \/ Cancel \/ EvictLog \/ UNCHANGED vars
  PROVE  held' = held /\ RecordInv'
<1>1. CASE Supervise
  <2>1. held' = held /\ log' = LogForState
    BY <1>1, SuperviseRoutes DEF Route, workVars
  <2> QED BY <2>1, SameLog DEF RecordInv, TypeOK
<1>2. CASE SearchFails \/ SearchReturns \/ Clarify \/ Cancel \/ UNCHANGED vars
  BY <1>2 DEF SearchFails, SearchReturns, Clarify, Cancel, vars, turnVars, workVars, RecordInv
<1>3. CASE SearchAborts \/ Synthesize
  <2>1. held' = held
    BY <1>3 DEF SearchAborts, Synthesize, SynthesizeGeneral, SynthesizeInsufficient,
       SynthesizeAnswer, SynthesizeReground, SynthesizeRaises, workVars
  <2>2. log' = log \/ \E content, times : RecordTurn(content, times)
    BY <1>3 DEF SearchAborts, Synthesize, SynthesizeGeneral, SynthesizeInsufficient,
       SynthesizeAnswer, SynthesizeReground, SynthesizeRaises
  <2> QED BY <2>1, <2>2, RecordTurnLog DEF RecordInv, TypeOK
<1>4. CASE EvictLog
  BY <1>4 DEF EvictLog, RecordInv, workVars, TypeOK, LogType
<1> QED BY <1>1, <1>2, <1>3, <1>4

LEMMA RecordStep == TypeOK /\ RecordInv /\ [Next]_vars => RecordInv'
BY PeerRecords, OthersRecord DEF Next, GraphStep, RunPeer

LEMMA RecordAlways == Spec => []RecordInv
<1>1. Init => RecordInv
  BY DEF Init, RecordInv
<1> QED BY <1>1, RecordStep, TypeCorrect, PTL DEF Spec

(* While the turn keeps its log, a later run or failure of a peer adds to the *)
(* turn's evidence and record and never replaces them.                        *)
THEOREM WorkKept == Spec => WorkAccumulates
<1>1. ASSUME TypeOK, RecordInv, [Next]_vars
      PROVE  [ /\ evidence \subseteq evidence'
               /\ log'.first => \A p \in Answering : held[p] \subseteq held'[p] ]_vars
  <2>1. evidence \subseteq evidence'
    <3>1. CASE Supervise
      BY <3>1, SuperviseRoutes DEF Route, workVars
    <3>2. CASE RunPeer
      BY <3>2 DEF RunPeer, SearchFails, SearchReturns, SearchAborts, PeerReturns, PeerFails, workVars
    <3>3. CASE Synthesize
      BY <3>3 DEF Synthesize, SynthesizeGeneral, SynthesizeInsufficient, SynthesizeAnswer,
         SynthesizeReground, SynthesizeRaises, workVars
    <3>4. CASE Clarify \/ Cancel \/ EvictLog \/ UNCHANGED vars
      BY <3>4 DEF Clarify, Cancel, EvictLog, vars, workVars
    <3> QED BY <1>1, <3>1, <3>2, <3>3, <3>4 DEF Next, GraphStep
  <2>2. log'.first => \A p \in Answering : held[p] \subseteq held'[p]
    BY <1>1, PeerRecords, OthersRecord DEF Next, GraphStep, RunPeer
  <2> QED BY <2>1, <2>2
<1> QED BY <1>1, RecordAlways, TypeCorrect, PTL DEF Spec, WorkAccumulates

(* A running turn goes on unrecorded. *)
LEMMA StillRunning ==
  ASSUME TypeOK, LedgerInv, node \in Running, node' \in Running \ {"clarify"},
         ledger' = ledger, ~log.written => ~log'.written
  PROVE  LedgerInv'
BY DEF LedgerInv, LedgerExact, Running, Peers, Answering

(* The first recording of a turn, once its answer is composed. *)
LEMMA LedgerRecords ==
  ASSUME TypeOK, LedgerInv, node = "synthesize", node' = "end", held' = held,
         NEW times \in 1..2, RecordTurn(Worked, times)
  PROVE  LedgerInv'
<1>1. ledger = 0 /\ ~log.written
  BY DEF LedgerInv, Running
<1>2. (\E p \in Answering : held[p] # {}) => Worked
  BY DEF Worked
<1>3. log'.live = log.live /\ log'.first = log.first
  BY RecordTurnLog DEF TypeOK
<1>4. log.live => ledger' <= 1
  BY <1>1 DEF RecordTurn
<1>5. Worked => ledger' >= 1
  BY <1>1 DEF RecordTurn
<1> QED BY <1>2, <1>3, <1>4, <1>5 DEF LedgerInv, LedgerExact, Running, Peers, Answering

LEMMA LedgerStep ==
  ASSUME TypeOK, LedgerInv, [Next]_vars
  PROVE  LedgerInv'
<1>1. CASE Supervise
  <2>1. PICK nxt, remaining, fails : Route(nxt, remaining, fails)
    BY <1>1, SuperviseRoutes
  <2>2. node = "supervisor" /\ node' \in Running \ {"clarify"}
    BY <1>1, SuperviseSteps DEF Decided, Running, Actions, Peers, Answering
  <2>3. ledger' = ledger /\ (~log.written => ~log'.written)
    BY <2>1, SameLog DEF Route, turnVars, TypeOK
  <2> QED BY <2>2, <2>3, StillRunning DEF Running
<1>2. CASE SearchFails \/ SearchReturns
  <2>1. node = "search" /\ node' = "supervisor" /\ ledger' = ledger /\ log' = log
    BY <1>2 DEF SearchFails, SearchReturns, turnVars
  <2> QED BY <2>1, StillRunning DEF Running, Peers
<1>3. CASE SearchAborts
  <2>1. node = "search" /\ node' = "aborted" /\ held' = held
    BY <1>3 DEF SearchAborts, workVars
  <2>2. ledger = 0 /\ ~log.written
    BY <2>1 DEF LedgerInv, Running, Peers
  <2>3. CASE UNCHANGED <<ledger, log>>
    BY <2>1, <2>2, <2>3 DEF LedgerInv, LedgerExact, Running, Peers, Answering
  <2>4. CASE \E content : RecordTurn(content, 1)
    <3>1. ledger' \in {0, 1}
      BY <2>2, <2>4 DEF RecordTurn
    <3> QED BY <2>1, <3>1 DEF LedgerInv, LedgerExact, Running, Peers, Answering
  <2> QED BY <1>3, <2>3, <2>4 DEF SearchAborts
<1>4. ASSUME NEW p \in Answering, PeerReturns(p) \/ PeerFails(p) PROVE LedgerInv'
  <2>1. node = p /\ node' = "supervisor" /\ ledger' = ledger
    BY <1>4 DEF PeerReturns, PeerFails, turnVars
  <2>2. PICK o : log' = Logged(LogForState, p, o)
    BY <1>4 DEF PeerReturns, PeerFails
  <2>3. log'.written = LogForState.written
    BY <2>2, LogForStateType, LoggedAdds DEF TypeOK
  <2> QED BY <2>1, <2>3, SameLog, StillRunning DEF Running, Peers, TypeOK
<1>5. CASE SynthesizeReground
  <2>1. node = "synthesize" /\ node' = "supervisor" /\ ledger' = ledger /\ log' = log
    BY <1>5 DEF SynthesizeReground, Leave, turnVars
  <2> QED BY <2>1, StillRunning DEF Running
<1>6. CASE SynthesizeGeneral
  <2>1. \A p \in Answering : held'[p] = {}
    BY <1>6 DEF SynthesizeGeneral, Grounded, workVars
  <2>2. node = "synthesize" /\ node' = "end" /\ UNCHANGED <<ledger, log>>
    BY <1>6 DEF SynthesizeGeneral, Leave
  <2> QED BY <2>1, <2>2 DEF LedgerInv, LedgerExact, Running, Peers, Answering
<1>7. CASE SynthesizeInsufficient \/ SynthesizeAnswer \/ SynthesizeRaises
  <2>1. /\ node = "synthesize" /\ node' = "end" /\ held' = held
        /\ \E times \in 1..2 : RecordTurn(Worked, times)
    BY <1>7 DEF SynthesizeInsufficient, SynthesizeAnswer, SynthesizeRaises, Leave, workVars
  <2> QED BY <2>1, LedgerRecords
<1>8. CASE Clarify
  <2>1. /\ node = "clarify" /\ node' \in {"end", "supervisor"} /\ held' = held
        /\ UNCHANGED <<ledger, log>>
    BY <1>8 DEF Clarify, workVars
  <2> QED BY <2>1 DEF LedgerInv, LedgerExact, Running, Peers, Answering
<1>9. CASE Cancel
  BY <1>9 DEF Cancel, LedgerInv, LedgerExact, Running, Peers, Answering, turnVars, workVars
<1>10. CASE EvictLog
  <2>1. /\ node \in Running /\ UNCHANGED <<node, ledger, held>> /\ ~log'.live
        /\ log'.written = log.written
    BY <1>10 DEF EvictLog, turnVars, workVars, TypeOK, LogType
  <2>2. node # "end"
    BY <2>1 DEF Running, Peers, Answering
  <2> QED BY <2>1, <2>2 DEF LedgerInv, LedgerExact
<1>11. CASE UNCHANGED vars
  BY <1>11 DEF vars, LedgerInv, LedgerExact
<1> QED BY <1>1, <1>2, <1>3, <1>4, <1>5, <1>6, <1>7, <1>8, <1>9, <1>10, <1>11
        DEF Next, GraphStep, RunPeer, Synthesize

(* A turn whose peers produced results is in the thread's ledger once it      *)
(* ends, however it was composed, and never twice under one log.              *)
THEOREM LedgerCorrect == Spec => []LedgerExact
<1>1. Init => LedgerInv
  BY DEF Init, LedgerInv, LedgerExact, NewLog, Running, Peers, Answering
<1>2. LedgerInv => LedgerExact
  BY DEF LedgerInv
<1> QED BY <1>1, <1>2, LedgerStep, TypeCorrect, PTL DEF Spec

-----------------------------------------------------------------------------
(* What the answer says of the failures *)

(* The trail keeps pace with the decisions: only the last one may be running. *)
PaceInv ==
  /\ node = "clarify" => failures = <<>>
  /\ node \in {"clarify", "supervisor", "end"} => Len(trail) = step
  /\ node \in Peers => step >= 1 /\ Len(trail) = step - 1 /\ actions[step] = node
  /\ node = "synthesize" => step >= 1 /\ Len(trail) = step - 1 /\ actions[step] = "done"
  /\ Len(trail) <= step

(* A run that failed is among the failures, at its position. *)
FailureNoted ==
  \A k \in DOMAIN trail : trail[k] = "failed" => \E i \in DOMAIN failures : failures[i].at = k

(* A slot that holds an answer got it from a run no older than any run of the *)
(* same peer that did not fail.                                               *)
AnswerNoted ==
  \A k \in DOMAIN trail :
    actions[k] \in Answering /\ trail[k] # "failed" /\ slot[actions[k]] = "answered" =>
      \E m \in DOMAIN trail : m >= k /\ trail[m] = "answered"

TrailInv == PaceInv /\ FailureNoted /\ AnswerNoted /\ UnresolvedReported

(* What appending to a sequence does. *)
LEMMA Appended ==
  ASSUME NEW S, NEW s \in Seq(S), NEW e \in S
  PROVE  /\ Append(s, e) \in Seq(S) /\ Len(s) \in Nat /\ DOMAIN s = 1..Len(s)
         /\ Len(Append(s, e)) = Len(s) + 1
         /\ DOMAIN Append(s, e) = 1..(Len(s) + 1)
         /\ \A i \in 1..Len(s) : Append(s, e)[i] = s[i]
         /\ Append(s, e)[Len(s) + 1] = e
BY AppendProperties, LenProperties

(* Failures are only ever added. *)
LEMMA FailuresGrow ==
  ASSUME TypeOK, failures' = failures \/ \E f \in Failure : failures' = Append(failures, f)
  PROVE  \A i \in DOMAIN failures : i \in DOMAIN failures' /\ failures'[i] = failures[i]
<1>1. CASE failures' = failures
  BY <1>1
<1>2. CASE \E f \in Failure : failures' = Append(failures, f)
  <2>1. PICK f \in Failure : failures' = Append(failures, f)
    BY <1>2
  <2>2. failures \in Seq(Failure)
    BY DEF TypeOK
  <2> QED BY <2>1, <2>2, Appended
<1> QED BY <1>1, <1>2

(* A decision does not touch the trail; it may note a failure of the decider. *)
LEMMA TrailSupervise ==
  ASSUME TypeOK, TrailInv, Supervise PROVE TrailInv'
<1>1. PICK to \in Actions : Decided(to)
  BY SuperviseSteps
<1>2. /\ step' = step + 1 /\ step \in Nat /\ actions'[step + 1] = to
      /\ \A i \in 1..step : actions'[i] = actions[i]
  BY <1>1, Appended DEF Decided, TypeOK, step
<1>3. trail' = trail /\ slot' = slot
  BY SuperviseRoutes DEF Route, workVars
<1>4. Len(trail) = step /\ DOMAIN trail = 1..step
  BY <1>1, LenProperties DEF Decided, TrailInv, PaceInv, TypeOK
<1>5. failures' = failures \/ \E f \in Failure : failures' = Append(failures, f)
  BY <1>2 DEF Supervise, SupervisorStop, SupervisorNeed, SupervisorDecide,
              SupervisorDecideFails, Route, Failure
<1>6. PaceInv'
  BY <1>1, <1>2, <1>3, <1>4 DEF Decided, PaceInv, Actions, Peers, Answering
<1>7. FailureNoted'
  <2>1. \A i \in DOMAIN failures : i \in DOMAIN failures' /\ failures'[i] = failures[i]
    BY <1>5, FailuresGrow
  <2> QED BY <1>3, <2>1 DEF TrailInv, FailureNoted
<1>8. AnswerNoted'
  BY <1>2, <1>3, <1>4 DEF TrailInv, AnswerNoted
<1>9. UnresolvedReported'
  BY <1>1 DEF Decided, UnresolvedReported, Actions, Peers, Answering
<1> QED BY <1>6, <1>7, <1>8, <1>9 DEF TrailInv

(* A search that ended, well or not: its trail holds no answer. *)
LEMMA TrailSearch ==
  ASSUME TypeOK, TrailInv, SearchFails \/ SearchReturns PROVE TrailInv'
<1>1. /\ node = "search" /\ node' = "supervisor" /\ actions' = actions /\ slot' = slot
      /\ \E e \in {"failed", "blank"} : trail' = Append(trail, e)
  BY DEF SearchFails, SearchReturns
<1>2. /\ step' = step /\ step \in Nat /\ step >= 1 /\ Len(trail) = step - 1
      /\ actions[step] = "search"
  BY <1>1, LenProperties DEF TrailInv, PaceInv, Peers, TypeOK, step
<1>3. /\ DOMAIN trail = 1..(step - 1) /\ DOMAIN trail' = 1..step /\ Len(trail') = step
      /\ \A k \in 1..(step - 1) : trail'[k] = trail[k]
  BY <1>1, <1>2, Appended DEF TypeOK, NodeOutcomes
<1>4. PaceInv'
  BY <1>1, <1>2, <1>3 DEF PaceInv, Peers, Answering
<1>5. FailureNoted'
  <2>1. CASE SearchFails
    <3>1. PICK fatal \in BOOLEAN : PeerFailed("search", fatal)
      BY <2>1 DEF SearchFails
    <3> DEFINE f == [peer |-> "search", fatal |-> fatal, at |-> step]
    <3>2. f \in Failure /\ f.at = step /\ failures' = Append(failures, f)
      BY <1>2, <3>1 DEF PeerFailed, Failure, Peers
    <3> HIDE DEF f
    <3>4. failures \in Seq(Failure)
      BY DEF TypeOK
    <3>3. /\ \A i \in DOMAIN failures : i \in DOMAIN failures' /\ failures'[i] = failures[i]
          /\ \E i \in DOMAIN failures' : failures'[i].at = step
      <4>1. Len(failures) \in Nat /\ DOMAIN failures = 1..Len(failures)
            /\ DOMAIN failures' = 1..(Len(failures) + 1)
            /\ failures'[Len(failures) + 1] = f
            /\ \A i \in 1..Len(failures) : failures'[i] = failures[i]
        BY <3>2, <3>4, Appended
      <4>2. Len(failures) + 1 \in DOMAIN failures'
        BY <4>1
      <4> QED BY <3>2, <4>1, <4>2
    <3> QED BY <1>2, <1>3, <3>3 DEF TrailInv, FailureNoted
  <2>2. CASE SearchReturns
    <3>1. failures' = failures /\ trail' = Append(trail, "blank")
      BY <2>2 DEF SearchReturns
    <3>2. trail'[step] = "blank"
      BY <1>2, <3>1, Appended DEF TypeOK, NodeOutcomes
    <3> QED BY <1>2, <1>3, <3>1, <3>2 DEF TrailInv, FailureNoted
  <2> QED BY <2>1, <2>2
<1>6. AnswerNoted'
  BY <1>1, <1>2, <1>3 DEF TrailInv, AnswerNoted, Answering
<1>7. UnresolvedReported'
  BY <1>1 DEF UnresolvedReported
<1> QED BY <1>4, <1>5, <1>6, <1>7 DEF TrailInv

(* A run of an answering peer that returned, or failed. *)
LEMMA TrailPeer ==
  ASSUME TypeOK, TrailInv, NEW p \in Answering, PeerReturns(p) \/ PeerFails(p)
  PROVE  TrailInv'
<1>1. /\ node = p /\ node' = "supervisor" /\ actions' = actions
      /\ \A q \in Answering : q # p => slot'[q] = slot[q]
      /\ \E e \in {"failed", "blank", "answered"} : trail' = Append(trail, e)
  BY DEF PeerReturns, PeerFails, TypeOK
<1>2. /\ step' = step /\ step \in Nat /\ step >= 1 /\ Len(trail) = step - 1
      /\ actions[step] = p
  BY <1>1, LenProperties DEF TrailInv, PaceInv, Peers, TypeOK, step
<1>3. /\ DOMAIN trail = 1..(step - 1) /\ DOMAIN trail' = 1..step /\ Len(trail') = step
      /\ \A k \in 1..(step - 1) : trail'[k] = trail[k]
  BY <1>1, <1>2, Appended DEF TypeOK, NodeOutcomes
<1>4. PaceInv'
  BY <1>1, <1>2, <1>3 DEF PaceInv, Peers, Answering
<1>5. CASE PeerReturns(p)
  <2>1. PICK o \in Outcome :
          /\ slot' = [slot EXCEPT ![p] = IF o.answer = "blank" THEN "blank" ELSE "answered"]
          /\ trail' = Append(trail, IF o.answer = "blank" THEN "blank" ELSE "answered")
    BY <1>5 DEF PeerReturns
  <2>2. /\ slot'[p] = IF o.answer = "blank" THEN "blank" ELSE "answered"
        /\ trail'[step] = IF o.answer = "blank" THEN "blank" ELSE "answered"
        /\ failures' = failures
    BY <1>2, <1>5, <2>1, Appended DEF PeerReturns, TypeOK, NodeOutcomes
  <2>3. FailureNoted'
    BY <1>2, <1>3, <2>2 DEF TrailInv, FailureNoted
  <2>4. AnswerNoted'
    BY <1>1, <1>2, <1>3, <2>2 DEF TrailInv, AnswerNoted
  <2> QED BY <1>1, <1>4, <2>3, <2>4 DEF TrailInv, UnresolvedReported
<1>6. CASE PeerFails(p)
  <2>1. PICK fatal \in BOOLEAN : PeerFailed(p, fatal)
    BY <1>6 DEF PeerFails
  <2> DEFINE f == [peer |-> p, fatal |-> fatal, at |-> step]
  <2>2. f \in Failure /\ f.at = step /\ failures' = Append(failures, f)
    BY <1>2, <2>1 DEF PeerFailed, Failure, Peers
  <2> HIDE DEF f
  <2>3. /\ \A i \in DOMAIN failures : i \in DOMAIN failures' /\ failures'[i] = failures[i]
        /\ \E i \in DOMAIN failures' : failures'[i].at = step
    BY <2>2, Appended DEF TypeOK
  <2>4. FailureNoted'
    BY <1>2, <1>3, <2>3 DEF TrailInv, FailureNoted
  <2>5. trail' = Append(trail, "failed") /\ (slot'[p] = "answered" => slot[p] = "answered")
    BY <1>6 DEF PeerFails, FailedSlot, TypeOK
  <2>6. trail'[step] = "failed"
    BY <1>2, <2>5, Appended DEF TypeOK, NodeOutcomes
  <2>7. AnswerNoted'
    BY <1>1, <1>2, <1>3, <2>5, <2>6 DEF TrailInv, AnswerNoted
  <2> QED BY <1>1, <1>4, <2>4, <2>7 DEF TrailInv, UnresolvedReported
<1> QED BY <1>5, <1>6

(* What the verdict leaves out was made good. *)
LEMMA ResolvedAnswered ==
  ASSUME TypeOK, TrailInv, node = "synthesize", NEW i \in DOMAIN failures, i \notin Unresolved
  PROVE  \E m \in DOMAIN trail : m > failures[i].at /\ trail[m] = "answered"
<1>1. Resolved(failures[i], failures)
  BY DEF Unresolved
<1>2. PICK k \in DOMAIN actions :
        /\ k > failures[i].at /\ actions[k] \in Answering /\ slot[actions[k]] = "answered"
        /\ k \notin {g.at : g \in Elements(failures)}
  BY <1>1 DEF Resolved
<1>3. /\ step \in Nat /\ step >= 1 /\ DOMAIN actions = 1..step /\ actions[step] = "done"
      /\ Len(trail) = step - 1 /\ DOMAIN trail = 1..(step - 1)
  BY LenProperties DEF TrailInv, PaceInv, TypeOK, step
<1>4. k \in DOMAIN trail
  BY <1>2, <1>3 DEF Answering
<1>5. trail[k] # "failed"
  BY <1>2, <1>4 DEF TrailInv, FailureNoted, Elements
<1>6. PICK m \in DOMAIN trail : m >= k /\ trail[m] = "answered"
  BY <1>2, <1>4, <1>5 DEF TrailInv, AnswerNoted
<1>7. failures[i].at \in Int /\ k \in Int /\ m \in Int
  <2>1. failures \in Seq(Failure) /\ i \in 1..Len(failures)
    BY LenProperties DEF TypeOK
  <2>2. failures[i] \in Failure
    BY <2>1, ElementOfSeq
  <2>3. failures[i].at \in Nat \cup {NoPos}
    BY <2>2 DEF Failure
  <2> QED BY <1>3, <1>4, <1>6, <2>3 DEF NoPos
<1> QED BY <1>2, <1>6, <1>7

LEMMA TrailSynthesize ==
  ASSUME TypeOK, TrailInv, Synthesize PROVE TrailInv'
<1>1. /\ node = "synthesize" /\ node' \in {"end", "supervisor"} /\ actions' = actions
      /\ slot' = slot /\ trail' = Append(trail, "composed")
  BY DEF Synthesize, SynthesizeGeneral, SynthesizeInsufficient, SynthesizeAnswer,
         SynthesizeReground, SynthesizeRaises, Leave, workVars
<1>2. /\ step' = step /\ step \in Nat /\ step >= 1 /\ Len(trail) = step - 1
      /\ actions[step] = "done"
  BY <1>1, LenProperties DEF TrailInv, PaceInv, TypeOK, step
<1>3. /\ DOMAIN trail = 1..(step - 1) /\ DOMAIN trail' = 1..step /\ Len(trail') = step
      /\ trail'[step] = "composed" /\ \A k \in 1..(step - 1) : trail'[k] = trail[k]
  BY <1>1, <1>2, Appended DEF TypeOK, NodeOutcomes
<1>4. failures' = failures \/ \E f \in Failure : failures' = Append(failures, f)
  BY DEF Synthesize, SynthesizeGeneral, SynthesizeInsufficient, SynthesizeAnswer,
         SynthesizeReground, SynthesizeRaises, Failure
<1>5. PaceInv'
  BY <1>1, <1>2, <1>3 DEF PaceInv, Peers, Answering
<1>6. FailureNoted'
  <2>1. \A i \in DOMAIN failures : i \in DOMAIN failures' /\ failures'[i] = failures[i]
    BY <1>4, FailuresGrow
  <2> QED BY <1>2, <1>3, <2>1 DEF TrailInv, FailureNoted
<1>7. AnswerNoted'
  BY <1>1, <1>2, <1>3 DEF TrailInv, AnswerNoted, Answering
<1>8. UnresolvedReported'
  <2>1. CASE SynthesizeGeneral \/ SynthesizeInsufficient \/ SynthesizeAnswer
    <3>1. failures' = failures /\ reported' = Unresolved
      BY <2>1 DEF SynthesizeGeneral, SynthesizeInsufficient, SynthesizeAnswer
    <3>2. \A i \in DOMAIN failures : i \in reported' \/
            \E m \in DOMAIN trail' : m > failures[i].at /\ trail'[m] = "answered"
      BY <1>1, <1>2, <1>3, <3>1, ResolvedAnswered
    <3> QED BY <3>1, <3>2 DEF UnresolvedReported
  <2>2. CASE SynthesizeReground \/ SynthesizeRaises
    BY <2>2 DEF SynthesizeReground, SynthesizeRaises, Leave, UnresolvedReported
  <2> QED BY <2>1, <2>2 DEF Synthesize
<1> QED BY <1>5, <1>6, <1>7, <1>8 DEF TrailInv

(* Clarify, an abort, a cancellation and an eviction leave trail and failures. *)
LEMMA TrailOther ==
  ASSUME TypeOK, TrailInv, Clarify \/ SearchAborts \/ Cancel \/ EvictLog \/ UNCHANGED vars
  PROVE  TrailInv'
<1>1. UNCHANGED <<actions, slot, failures, trail>> /\ step' = step
  BY DEF Clarify, SearchAborts, Cancel, EvictLog, vars, workVars, step
<1>2. FailureNoted' /\ AnswerNoted'
  BY <1>1 DEF TrailInv, FailureNoted, AnswerNoted
<1>3. PaceInv'
  BY <1>1, OtherSteps DEF TrailInv, PaceInv, Clarify, SearchAborts, Cancel, EvictLog, vars,
     Peers, Answering
<1>4. UnresolvedReported'
  <2>1. CASE Clarify
    <3>1. DOMAIN failures' = {}
      BY <1>1, <2>1, EmptySeq DEF Clarify, TrailInv, PaceInv
    <3> QED BY <3>1 DEF UnresolvedReported
  <2>2. CASE SearchAborts \/ Cancel
    BY <2>2 DEF SearchAborts, Cancel, UnresolvedReported
  <2>3. CASE EvictLog \/ UNCHANGED vars
    BY <2>3 DEF EvictLog, vars, turnVars, UnresolvedReported, TrailInv
  <2> QED BY <2>1, <2>2, <2>3
<1> QED BY <1>2, <1>3, <1>4 DEF TrailInv

(* A peer failure that no later answering peer made good is named in the      *)
(* answer, for any budgets, caps and requests.                                *)
THEOREM FailuresReported == Spec => []UnresolvedReported
<1>1. Init => TrailInv
  <2> SUFFICES ASSUME Init PROVE TrailInv
    OBVIOUS
  <2>1. Len(trail) = 0 /\ DOMAIN trail = {} /\ step = 0 /\ failures = <<>>
    BY EmptySeq DEF Init, step
  <2>2. node \in {"clarify", "supervisor"}
    BY DEF Init
  <2> QED BY <2>1, <2>2 DEF TrailInv, PaceInv, FailureNoted, AnswerNoted, UnresolvedReported,
                            Peers, Answering
<1>2. TypeOK /\ TrailInv /\ [Next]_vars => TrailInv'
  BY TrailSupervise, TrailSearch, TrailPeer, TrailSynthesize, TrailOther
     DEF Next, GraphStep, RunPeer
<1>3. TrailInv => UnresolvedReported
  BY DEF TrailInv
<1> QED BY <1>1, <1>2, <1>3, TypeCorrect, PTL DEF Spec

=============================================================================
