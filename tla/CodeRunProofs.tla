---------------------------- MODULE CodeRunProofs ----------------------------
(***************************************************************************)
(* What TLAPS proves of a sandbox run and of its bridge.  Of CodeRun, for  *)
(* every limit, review time, floor and mode: the types; that a review      *)
(* stops a run only where it may; that no container is left or killed      *)
(* unreported.  Of TileSearch, for every region, page, caps, and whatever  *)
(* the service holds and fails to answer: that a search which calls itself *)
(* complete is, unless an answer withheld something from it, and that a    *)
(* search is over within its cap on tiles.  Of ToolBridge, for every       *)
(* program, cap and capability: that a run with the bridge is a run,       *)
(* answers on record, nothing taken up late and served, and that the       *)
(* bridge implements CallContract.                                         *)
(***************************************************************************)
EXTENDS ToolBridge, FiniteSetTheorems, WellFoundedInduction, NaturalsInduction, TLAPS

Ended == pc \in {"over", "returned"}
Ending == pc \in {"killing", "over", "returned"}

(* A reason to kill: the limit, the person, or the review. *)
Reason == timedOut \/ interrupt # "none"

(* A held stop is one for slow code, by a review that was accepted; what it *)
(* was confirmed with never showed the program elsewhere.                   *)
HeldInv ==
    /\ held => mode = "interrupt" /\ verdict = "slow" /\ frames # "elsewhere"
    /\ confirmed # "elsewhere"

(* The loop has a reason exactly when it kills, and a container is killed   *)
(* only then.                                                               *)
EndInv ==
    /\ Reason => Ending
    /\ pc = "killing" => Reason
    /\ leaked => Reason
    /\ container = "killed" => Ended /\ Reason
    /\ Ended /\ container = "running" => leaked
    /\ pc = "returned" =>
          IF Reason THEN outcome \in {"timed_out", "cancelled", "review", "raised"}
                    ELSE outcome = container

RunInv == HeldInv /\ StopJustified /\ EndInv

LEMMA InitType == Init => TypeOK
<1> SUFFICES ASSUME Init PROVE TypeOK
  OBVIOUS
<1>1. now \in 0 .. MaxTime /\ elapsed \in 0 .. now
  BY RunConstants DEF Init
<1>2. QED
  BY <1>1, Zenon DEF Init, TypeOK, Samples, Verdicts

LEMMA SampledType == Sampled \subseteq Samples
  BY DEF Sampled, Samples

(* A step of the loop keeps the types. *)
LEMMA LoopType == TypeOK /\ Loop => TypeOK'
<1> SUFFICES ASSUME TypeOK, Loop PROVE TypeOK'
  OBVIOUS
<1>1. CASE SeesExit
  BY <1>1 DEF TypeOK, SeesExit, world, review, Samples, Verdicts
<1>2. CASE WaitsOut
  BY <1>2 DEF TypeOK, WaitsOut, world, review, Samples, Verdicts
<1>3. CASE Cancels
  BY <1>3 DEF TypeOK, Cancels, world, review, Samples, Verdicts
<1>4. CASE TimesOut
  BY <1>4 DEF TypeOK, TimesOut, world, review, Samples, Verdicts
<1>5. CASE BeginsReview
  BY <1>5, SampledType DEF TypeOK, BeginsReview, DueForReview, world, Samples, Verdicts
<1>6. CASE GoesOn
  BY <1>6 DEF TypeOK, GoesOn, world, review, Samples, Verdicts
<1>7. CASE Settles
  <2>0. UNCHANGED <<world, elapsed, timedOut, leaked, outcome, reviewer, frames, verdict, confirmed>>
        /\ pc = "looking" /\ reviewer = "answered"
    BY <1>7 DEF Settles, Unsettled
  <2>1. record' \in {"failed", "done", "not_acted_on", "held", "stopped"}
        /\ interrupt' \in {interrupt, "review"} /\ held' \in {held, TRUE}
        /\ pc' \in {"waiting", "killing"}
    BY <1>7 DEF Settles
  <2>2. held' <=> record' = "held"
    BY <1>7 DEF Settles, Unsettled, TypeOK
  <2>3. interrupt' = "review" => record' = "stopped"
    BY <1>7 DEF Settles, Unsettled, TypeOK
  <2>4. held' \in BOOLEAN /\ interrupt' \in {"none", "cancelled", "review", "raised"}
    BY <2>1 DEF TypeOK
  <2>5. QED
    BY <2>0, <2>1, <2>2, <2>3, <2>4 DEF TypeOK, world, Samples, Verdicts
<1>8. CASE ConfirmsHeld
  <2>0. UNCHANGED <<world, elapsed, timedOut, leaked, outcome, reviewer, frames, verdict>>
        /\ pc = "looking"
    BY <1>8 DEF ConfirmsHeld
  <2>1. record' \in {"stopped", "not_acted_on"} /\ held' = FALSE
        /\ interrupt' \in {interrupt, "review"} /\ pc' \in {"waiting", "killing"}
    BY <1>8 DEF ConfirmsHeld
  <2>2. confirmed' \in Samples \cup {"not"}
    BY <1>8, SampledType DEF ConfirmsHeld, TypeOK
  <2>3. interrupt' = "review" => record' = "stopped"
    BY <1>8 DEF ConfirmsHeld, TypeOK
  <2>4. held' \in BOOLEAN /\ interrupt' \in {"none", "cancelled", "review", "raised"}
    BY <2>1 DEF TypeOK
  <2>5. QED
    BY <2>0, <2>1, <2>2, <2>3, <2>4 DEF TypeOK, world, Samples, Verdicts
<1>9. CASE LooksAgain
  BY <1>9 DEF TypeOK, LooksAgain, world, review, Samples, Verdicts
<1>10. CASE Kills
  <2>1. container' \in {"running", "ok", "failed", "killed"} /\ leaked' \in BOOLEAN
    BY <1>10 DEF TypeOK, Kills
  <2>2. pc' = "over" /\ UNCHANGED <<mode, now, cited, stop, elapsed, timedOut, interrupt, outcome, review>>
    BY <1>10 DEF Kills
  <2>3. QED
    BY <2>1, <2>2 DEF TypeOK, review, Samples, Verdicts
<1>11. CASE Finishes
  BY <1>11 DEF TypeOK, Finishes, Outcome, RecordAtEnd, world, Samples, Verdicts
<1>12. CASE CannotReview
  BY <1>12, SampledType DEF TypeOK, CannotReview, DueForReview, world, Samples, Verdicts
<1>13. QED
  BY <1>1, <1>2, <1>3, <1>4, <1>5, <1>6, <1>7, <1>8, <1>9, <1>10, <1>11, <1>12 DEF Loop

LEMMA StepType == TypeOK /\ [Next]_vars => TypeOK'
<1> SUFFICES ASSUME TypeOK, [Next]_vars PROVE TypeOK'
  OBVIOUS
<1>1. CASE Loop
  BY <1>1, LoopType
<1>2. CASE Answers
  BY <1>2 DEF TypeOK, Answers, world, loop, Samples, Verdicts
<1>3. CASE Moves \/ Exits \/ AskStop
  <2>1. CASE Moves
    BY <2>1 DEF TypeOK, Moves, loop, review, Samples, Verdicts
  <2>2. CASE Exits
    BY <2>2 DEF TypeOK, Exits, loop, review, Samples, Verdicts
  <2>3. CASE AskStop
    BY <2>3 DEF TypeOK, AskStop, loop, review, Samples, Verdicts
  <2>4. QED
    BY <1>3, <2>1, <2>2, <2>3
<1>4. CASE Passes
  <2>1. now' \in 0 .. MaxTime /\ elapsed' \in 0 .. now'
    BY <1>4, RunConstants DEF TypeOK, Passes, loop
  <2>2. QED
    BY <1>4, <2>1 DEF TypeOK, Passes, loop, review, Samples, Verdicts
<1>5. CASE UNCHANGED vars
  BY <1>5 DEF TypeOK, vars, world, loop, review, Samples, Verdicts
<1>6. QED
  BY <1>1, <1>2, <1>3, <1>4, <1>5 DEF Next

(* Every variable keeps its type; a stop by the review is on record. *)
THEOREM TypeCorrect == Spec => []TypeOK
<1>1. Init => TypeOK
  BY InitType
<1>2. TypeOK /\ [Next]_vars => TypeOK'
  BY StepType
<1>3. QED
  BY <1>1, <1>2, PTL DEF Spec

-----------------------------------------------------------------------------
LEMMA InitRun == Init => RunInv
  BY DEF Init, RunInv, HeldInv, StopJustified, EndInv, Reason, Ending, Ended

LEMMA HeldStep == TypeOK /\ RunInv /\ [Next]_vars => HeldInv'
<1> SUFFICES ASSUME TypeOK, HeldInv, [Next]_vars PROVE HeldInv'
  BY DEF RunInv
<1>1. CASE BeginsReview \/ CannotReview
  BY <1>1 DEF HeldInv, TypeOK, BeginsReview, CannotReview, DueForReview, world
<1>2. CASE Settles
  BY <1>2 DEF HeldInv, TypeOK, Settles, Accepted, Holds, world
<1>3. CASE ConfirmsHeld
  BY <1>3 DEF HeldInv, ConfirmsHeld, Accepted, world
<1>4. CASE Answers
  BY <1>4 DEF HeldInv, TypeOK, Answers, world, loop
<1>5. CASE Finishes
  BY <1>5 DEF HeldInv, Finishes, world
<1>6. CASE SeesExit \/ WaitsOut \/ Cancels \/ TimesOut \/ GoesOn \/ LooksAgain \/ Kills
  BY <1>6 DEF HeldInv, SeesExit, WaitsOut, Cancels, TimesOut, GoesOn, LooksAgain, Kills,
              world, review
<1>7. CASE Moves \/ Exits \/ AskStop \/ Passes \/ UNCHANGED vars
  BY <1>7 DEF HeldInv, Moves, Exits, AskStop, Passes, vars, world, loop, review
<1>8. QED
  BY <1>1, <1>2, <1>3, <1>4, <1>5, <1>6, <1>7 DEF Next, Loop

(* Only two steps stop a run for its review, and after them its grounds are  *)
(* no longer touched.                                                        *)
LEMMA JustifiedStep == TypeOK /\ RunInv /\ [Next]_vars => StopJustified'
<1> SUFFICES ASSUME TypeOK, RunInv, [Next]_vars PROVE StopJustified'
  OBVIOUS
<1> USE DEF RunInv, StopJustified, EndInv, Reason, Ending
<1>1. CASE Settles
  BY <1>1, RunConstants DEF TypeOK, HeldInv, Settles, Unsettled, Accepted, Holds, world
<1>2. CASE ConfirmsHeld
  BY <1>2 DEF TypeOK, HeldInv, ConfirmsHeld, Accepted, world
<1>3. CASE BeginsReview \/ CannotReview
  BY <1>3 DEF BeginsReview, CannotReview, world
<1>4. CASE Answers
  BY <1>4 DEF TypeOK, Answers, world, loop, Verdicts
<1>5. CASE Cancels \/ WaitsOut
  BY <1>5 DEF Cancels, WaitsOut, world, review
<1>6. CASE SeesExit \/ TimesOut \/ GoesOn \/ LooksAgain \/ Kills \/ Finishes
  BY <1>6 DEF SeesExit, TimesOut, GoesOn, LooksAgain, Kills, Finishes, world, review
<1>7. CASE Moves \/ Exits \/ AskStop \/ Passes \/ UNCHANGED vars
  BY <1>7 DEF Moves, Exits, AskStop, Passes, vars, world, loop, review
<1>8. QED
  BY <1>1, <1>2, <1>3, <1>4, <1>5, <1>6, <1>7 DEF Next, Loop

LEMMA EndStep == TypeOK /\ RunInv /\ [Next]_vars => EndInv'
<1> SUFFICES ASSUME TypeOK, EndInv, [Next]_vars PROVE EndInv'
  BY DEF RunInv
<1> USE DEF EndInv, Reason, Ending, Ended
<1>1. CASE Settles
  BY <1>1 DEF Settles, world
<1>2. CASE ConfirmsHeld
  BY <1>2 DEF ConfirmsHeld, world
<1>3. CASE Kills
  BY <1>3 DEF Kills, review
<1>4. CASE Finishes
  BY <1>4 DEF TypeOK, Finishes, Outcome, world
<1>5. CASE SeesExit \/ WaitsOut \/ Cancels
  BY <1>5 DEF SeesExit, WaitsOut, Cancels, world, review
<1>6. CASE TimesOut \/ BeginsReview \/ CannotReview \/ GoesOn \/ LooksAgain
  BY <1>6 DEF TimesOut, BeginsReview, CannotReview, GoesOn, LooksAgain, world, review
<1>7. CASE Exits
  BY <1>7 DEF TypeOK, Exits, loop, review
<1>8. CASE Answers \/ Moves \/ AskStop \/ Passes \/ UNCHANGED vars
  BY <1>8 DEF Answers, Moves, AskStop, Passes, vars, world, loop, review
<1>9. QED
  BY <1>1, <1>2, <1>3, <1>4, <1>5, <1>6, <1>7, <1>8 DEF Next, Loop

(* The inductive invariant the two results follow from. *)
THEOREM RunCorrect == Spec => []RunInv
<1>1. Init => RunInv
  BY InitRun
<1>2. TypeOK /\ RunInv /\ [Next]_vars => RunInv'
  BY HeldStep, JustifiedStep, EndStep DEF RunInv
<1>3. QED
  BY <1>1, <1>2, TypeCorrect, PTL DEF Spec

(* The review stops a run only where it may, for a verdict it accepted, and *)
(* slow code never before its floor.                                        *)
THEOREM StopsJustified == Spec => []StopJustified
<1>1. RunInv => StopJustified
  BY DEF RunInv
<1>2. QED
  BY <1>1, RunCorrect, PTL

(* A container outlives its run only if it could not be killed, is killed   *)
(* only for a reason that is reported, and a run reported as ended by       *)
(* itself has.                                                              *)
THEOREM NothingLeft == Spec => []NoneLeft
<1>1. RunInv => NoneLeft
  BY DEF RunInv, EndInv, NoneLeft, Reason, Ended
<1>2. QED
  BY <1>1, RunCorrect, PTL

-----------------------------------------------------------------------------
(* Induction over the naturals, by the least counterexample. *)
LEMMA Least == ASSUME NEW T \in SUBSET Nat, T # {} PROVE \E m \in T : \A k \in T : m <= k
<1>1. PICK R : R = OpToRel(<, Nat)
  OBVIOUS
<1>2. \A x, y \in Nat : x < y => <<x, y>> \in R
  <2>1. R = {ss \in Nat \X Nat : ss[1] < ss[2]}
    BY <1>1 DEF OpToRel
  <2>2. QED
    BY <2>1
<1>3. IsWellFoundedOn(R, Nat)
  BY <1>1, NatLessThanWellFounded
<1>4. PICK m \in T : \A y \in T : ~(<<y, m>> \in R)
  BY <1>3, WFMin, Zenon
<1>5. ASSUME NEW k \in T PROVE m <= k
  <2>1. k \in Nat /\ m \in Nat
    OBVIOUS
  <2>2. ~(k < m)
    BY <1>2, <1>4, <2>1
  <2>3. QED
    BY <2>1, <2>2
<1>6. QED
  BY <1>5

LEMMA LeastOutside ==
    ASSUME NEW S, 0 \in S, \A n \in Nat \ {0} : n - 1 \in S => n \in S
    PROVE  Nat \subseteq S
<1> SUFFICES ASSUME Nat \ S # {} PROVE FALSE
  OBVIOUS
<1>1. PICK m \in Nat \ S : \A k \in Nat \ S : m <= k
  <2>1. Nat \ S \in SUBSET Nat
    OBVIOUS
  <2>2. QED
    BY <2>1, Least, Zenon
<1>2. m \in Nat \ {0} /\ m - 1 \in Nat /\ ~(m <= m - 1)
  BY <1>1
<1>3. m - 1 \in S
  BY <1>1, <1>2
<1>4. QED
  BY <1>1, <1>2, <1>3

(* A trail of any length exists, hence the one the search follows. *)
Follows(map, g, n) ==
    g = [k \in 0 .. n |-> IF k = 0 THEN Start ELSE Step(map, g[k - 1])]

LEMMA TrailDef ==
    ASSUME NEW map
    PROVE  Follows(map, Trail(map), MaxTiles)
<1> DEFINE S == {n \in Nat : \E g : Follows(map, g, n)}
<1>1. 0 \in S
  <2>1. Follows(map, [k \in 0 .. 0 |-> Start], 0)
    BY DEF Follows
  <2>2. QED
    BY <2>1
<1>2. ASSUME NEW n \in Nat \ {0}, n - 1 \in S PROVE n \in S
  <2>1. PICK g : Follows(map, g, n - 1)
    BY <1>2
  <2> DEFINE h == [k \in 0 .. n |-> IF k = n THEN Step(map, g[n - 1]) ELSE g[k]]
  <2>2. ASSUME NEW k \in 0 .. n PROVE h[k] = IF k = 0 THEN Start ELSE Step(map, h[k - 1])
    <3>1. CASE k = n
      BY <3>1
    <3>2. CASE k # n
      <4>1. k \in 0 .. (n - 1) /\ h[k] = g[k]
        BY <3>2
      <4>2. g[k] = IF k = 0 THEN Start ELSE Step(map, g[k - 1])
        BY <2>1, <4>1, Zenon DEF Follows
      <4>3. k # 0 => h[k - 1] = g[k - 1]
        BY <3>2
      <4>4. QED
        BY <4>1, <4>2, <4>3
    <3>3. QED
      BY <3>1, <3>2
  <2>3. Follows(map, h, n)
    <3> HIDE DEF h
    <3>1. h = [k \in 0 .. n |-> h[k]]
      BY DEF h
    <3>2. QED
      BY <3>1, <2>2, Zenon DEF Follows
  <2>4. QED
    BY <2>3
<1>3. MaxTiles \in S
  <2> HIDE DEF S
  <2>1. Nat \subseteq S
    BY <1>1, <1>2, LeastOutside, Zenon
  <2>2. QED
    BY <2>1, SearchConstants
<1>4. PICK g : g = [k \in 0 .. MaxTiles |-> IF k = 0 THEN Start ELSE Step(map, g[k - 1])]
  BY <1>3 DEF Follows
<1>5. Trail(map) = CHOOSE f : f = [k \in 0 .. MaxTiles |-> IF k = 0 THEN Start ELSE Step(map, f[k - 1])]
  BY Zenon DEF Trail
<1>6. QED
  BY <1>4, <1>5, Zenon DEF Follows

-----------------------------------------------------------------------------
(* Boxes and what lies in them. *)
Points == Int \X Int
Boxes == Int \X Int \X Int \X Int
Tiles == [box : Boxes, failures : Nat]
MapOK(map) == IsFiniteSet(DOMAIN map.at) /\ \A f \in DOMAIN map.at : map.at[f] \subseteq Points

(* Every point of a box is in a quarter, and a quarter has no others. *)
LEMMA QuartersCover ==
    ASSUME NEW box \in Boxes, NEW p \in Points
    PROVE  Inside(p, box) <=> \E i \in 1 .. 4 : Inside(p, Quarters(box)[i])
<1> DEFINE mx == (box[1] + box[3]) \div 2
           my == (box[2] + box[4]) \div 2
<1>1. /\ {box[1], box[2], box[3], box[4], p[1], p[2], mx, my} \subseteq Int
      /\ 2 * mx <= box[1] + box[3] /\ box[1] + box[3] < 2 * mx + 2
      /\ 2 * my <= box[2] + box[4] /\ box[2] + box[4] < 2 * my + 2
  BY DEF Boxes, Points
<1>2. Quarters(box) = << <<box[1], box[2], mx, my>>, <<mx, box[2], box[3], my>>,
                         <<box[1], my, mx, box[4]>>, <<mx, my, box[3], box[4]>> >>
  BY Zenon DEF Quarters
<1> HIDE DEF mx, my
<1>3. (\E i \in 1 .. 4 : Inside(p, Quarters(box)[i])) <=>
         \/ Inside(p, <<box[1], box[2], mx, my>>) \/ Inside(p, <<mx, box[2], box[3], my>>)
         \/ Inside(p, <<box[1], my, mx, box[4]>>) \/ Inside(p, <<mx, my, box[3], box[4]>>)
  <2>1. 1 .. 4 = {1, 2, 3, 4}
    OBVIOUS
  <2>2. QED
    BY <1>2, <2>1
<1>4. QED
  BY <1>1, <1>3 DEF Inside

LEMMA SplitType ==
    ASSUME NEW box \in Boxes, NEW k \in Nat
    PROVE  Split(box, k) \in Seq(Tiles) /\ Len(Split(box, k)) = 4
           /\ \A i \in 1 .. 4 : Split(box, k)[i].box = Quarters(box)[i]
<1>1. (box[1] + box[3]) \div 2 \in Int /\ (box[2] + box[4]) \div 2 \in Int
  BY DEF Boxes
<1>2. \A i \in 1 .. 4 : Quarters(box)[i] \in Boxes
  <2>1. 1 .. 4 = {1, 2, 3, 4}
    OBVIOUS
  <2>2. QED
    BY <1>1, <2>1 DEF Quarters, Boxes
<1>3. QED
  BY <1>2 DEF Split, Tiles

(* The features of the boxes still to be asked. *)
Left(map, q) == UNION {In(map, q[i].box) : i \in 1 .. Len(q)}

LEMMA SplitLeft ==
    ASSUME NEW map, MapOK(map), NEW box \in Boxes, NEW k \in Nat
    PROVE  Left(map, Split(box, k)) = In(map, box)
<1>1. Left(map, Split(box, k)) = UNION {In(map, Quarters(box)[i]) : i \in 1 .. 4}
  <2>1. Len(Split(box, k)) = 4 /\ \A i \in 1 .. 4 : Split(box, k)[i].box = Quarters(box)[i]
    BY SplitType
  <2>2. Left(map, Split(box, k)) = UNION {In(map, Split(box, k)[i].box) : i \in 1 .. 4}
    BY <2>1 DEF Left
  <2>3. QED
    BY <2>1, <2>2
<1>2. ASSUME NEW f PROVE f \in In(map, box) <=> \E i \in 1 .. 4 : f \in In(map, Quarters(box)[i])
  <2>1. ASSUME NEW p \in map.at[f], f \in DOMAIN map.at
        PROVE  Inside(p, box) <=> \E i \in 1 .. 4 : Inside(p, Quarters(box)[i])
    BY <2>1, QuartersCover DEF MapOK
  <2>2. QED
    BY <2>1, Zenon DEF In
<1>3. QED
  BY <1>1, <1>2

LEMMA LeftParts ==
    ASSUME NEW map, NEW q \in Seq(Tiles), NEW r \in Seq(Tiles)
    PROVE  Left(map, q \o r) = Left(map, q) \cup Left(map, r)
<1>1. ASSUME NEW f PROVE f \in Left(map, q \o r) <=> f \in Left(map, q) \/ f \in Left(map, r)
  <2>1. ASSUME NEW i \in 1 .. Len(q \o r), f \in In(map, (q \o r)[i].box)
        PROVE  f \in Left(map, q) \/ f \in Left(map, r)
    <3>1. CASE i <= Len(q)
      <4>1. i \in 1 .. Len(q) /\ (q \o r)[i] = q[i]
        BY <3>1
      <4>2. QED
        BY <2>1, <4>1, Zenon DEF Left
    <3>2. CASE i > Len(q)
      <4>1. i - Len(q) \in 1 .. Len(r) /\ (q \o r)[i] = r[i - Len(q)]
        BY <3>2
      <4>2. QED
        BY <2>1, <4>1, Zenon DEF Left
    <3>3. QED
      BY <3>1, <3>2
  <2>2. ASSUME NEW i \in 1 .. Len(q), f \in In(map, q[i].box) PROVE f \in Left(map, q \o r)
    <3>1. i \in 1 .. Len(q \o r) /\ (q \o r)[i] = q[i]
      OBVIOUS
    <3>2. QED
      BY <2>2, <3>1, Zenon DEF Left
  <2>3. ASSUME NEW i \in 1 .. Len(r), f \in In(map, r[i].box) PROVE f \in Left(map, q \o r)
    <3>1. i + Len(q) \in 1 .. Len(q \o r) /\ (q \o r)[i + Len(q)] = r[i]
      OBVIOUS
    <3>2. QED
      BY <2>3, <3>1, Zenon DEF Left
  <2>4. QED
    BY <2>1, <2>2, <2>3, Zenon DEF Left
<1>2. QED
  BY <1>1

LEMMA LeftFirst ==
    ASSUME NEW map, NEW q \in Seq(Tiles), q # <<>>
    PROVE  Left(map, q) = In(map, Head(q).box) \cup Left(map, Tail(q))
<1>1. <<Head(q)>> \in Seq(Tiles) /\ Tail(q) \in Seq(Tiles) /\ q = <<Head(q)>> \o Tail(q)
  OBVIOUS
<1>2. Left(map, <<Head(q)>>) = In(map, Head(q).box)
  <2>1. Len(<<Head(q)>>) = 1 /\ <<Head(q)>>[1] = Head(q) /\ 1 .. 1 = {1}
    OBVIOUS
  <2>2. QED
    BY <2>1 DEF Left
<1>3. Left(map, <<Head(q)>> \o Tail(q)) = Left(map, <<Head(q)>>) \cup Left(map, Tail(q))
  BY <1>1, LeftParts, Zenon
<1>4. QED
  BY <1>1, <1>2, <1>3, Zenon

(* The first page of a set is all of it, or as many as fill a page. *)
LEMMA PageFills ==
    ASSUME NEW all, IsFiniteSet(all)
    PROVE  FirstPage(all) \subseteq all /\ (Cardinality(FirstPage(all)) = Page \/ FirstPage(all) = all)
<1>2. Cardinality(all) \in Nat /\ Page \in Nat
  BY FS_CardinalityType, SearchConstants
<1>3. CASE Cardinality(all) <= Page
  BY <1>3 DEF FirstPage
<1>4. CASE Cardinality(all) > Page
  <2>1. PICK f : f \in Bijection(1 .. Cardinality(all), all)
    BY FS_CardinalityType, Zenon DEF ExistsBijection
  <2>2. \E some \in SUBSET all : Cardinality(some) = Page
    <3> DEFINE some == {f[i] : i \in 1 .. Page}
               g == [i \in 1 .. Page |-> f[i]]
    <3>1. some \in SUBSET all
      BY <1>2, <1>4, <2>1 DEF Bijection, Surjection
    <3>2. g \in Bijection(1 .. Page, some)
      <4>1. f \in [1 .. Cardinality(all) -> all]
            /\ \A i, j \in 1 .. Cardinality(all) : f[i] = f[j] => i = j
        BY <2>1 DEF Bijection, Injection, IsInjective
      <4>2. \A i \in 1 .. Page : i \in 1 .. Cardinality(all)
        BY <1>2, <1>4
      <4>3. g \in [1 .. Page -> some] /\ \A i, j \in 1 .. Page : g[i] = g[j] => i = j
        BY <4>1, <4>2
      <4>4. \A t \in some : \E i \in 1 .. Page : g[i] = t
        OBVIOUS
      <4> HIDE DEF some, g
      <4>5. QED
        BY <4>3, <4>4 DEF Bijection, Surjection, Injection, IsInjective
    <3>3. Cardinality(some) = Page
      <4> HIDE DEF some, g
      <4>1. QED
        BY <1>2, <3>2, FS_CountingElements, Zenon DEF ExistsBijection
    <3>4. QED
      BY <3>1, <3>3
  <2>3. FirstPage(all) = CHOOSE some \in SUBSET all : Cardinality(some) = Page
    BY <1>2, <1>4 DEF FirstPage
  <2>4. QED
    BY <2>2, <2>3
<1>5. QED
  BY <1>2, <1>3, <1>4

Drawn(map, box) == In(map, box) \cap map.drawn

(* An answer of less than a page which withholds nothing is all that can be *)
(* drawn in the box.                                                        *)
LEMMA ShortPage ==
    ASSUME NEW map, MapOK(map), NEW box, NEW ask
    PROVE  /\ Answer(map, ask, box) \subseteq Drawn(map, box)
           /\ \/ Cardinality(Answer(map, ask, box)) >= Page
              \/ Withheld(map, ask, box)
              \/ Answer(map, ask, box) = Drawn(map, box)
<1> DEFINE rels == In(map, box) \cap map.rel
           rest == In(map, box) \ map.rel
           sent == (UNION Pages(map, ask, box)) \cap map.drawn
<1>1. IsFiniteSet(In(map, box)) /\ IsFiniteSet(rels) /\ IsFiniteSet(rest)
  <2>1. IsFiniteSet(In(map, box))
    BY FS_Subset DEF In, MapOK
  <2>2. QED
    BY <2>1, FS_Subset
<1>2. /\ Relations(map, box) \subseteq rels /\ Others(map, box) \subseteq rest
      /\ Cardinality(Relations(map, box)) = Page \/ Relations(map, box) = rels
      /\ Cardinality(Others(map, box)) = Page \/ Others(map, box) = rest
  BY <1>1, PageFills DEF Relations, Others
<1>3. sent \subseteq Drawn(map, box) /\ IsFiniteSet(sent)
  <2>1. sent \subseteq Drawn(map, box)
    BY <1>2 DEF Pages, Drawn
  <2>2. QED
    BY <1>1, <2>1, FS_Subset DEF Drawn
<1>4. /\ Answer(map, ask, box) \subseteq sent
      /\ Cardinality(Answer(map, ask, box)) = Page \/ Answer(map, ask, box) = sent
  <2> HIDE DEF sent
  <2>1. Answer(map, ask, box) = FirstPage(sent)
    BY DEF Answer, sent
  <2>2. QED
    BY <1>3, <2>1, PageFills
<1>5. ASSUME ~(Cardinality(Answer(map, ask, box)) >= Page), ~Withheld(map, ask, box)
      PROVE  Answer(map, ask, box) = Drawn(map, box)
  <2>0. Page \in Nat
    BY SearchConstants
  <2>1. Cardinality(Answer(map, ask, box)) \in Nat
    BY <1>3, <1>4, FS_Subset, FS_CardinalityType
  <2>2. Pages(map, ask, box) = {Relations(map, box), Others(map, box)}
    BY <1>5 DEF Withheld, Pages
  <2>3. \A page \in Pages(map, ask, box) : Cardinality(page) # Page
    BY <1>5, <2>0, <2>1 DEF Withheld
  <2>4. sent = Drawn(map, box)
    BY <1>2, <2>2, <2>3 DEF Drawn
  <2>5. Answer(map, ask, box) = sent
    <3> HIDE DEF sent
    <3>1. QED
      BY <1>4, <1>5, <2>0
  <2>6. QED
    BY <2>4, <2>5
<1>6. QED
  BY <1>3, <1>4, <1>5

(* Nothing of the region is lost but by an answer that withheld it: what is *)
(* not seen lies in a box that is still to be asked; and nothing else is    *)
(* ever found.                                                              *)
States(map) ==
    [pending : Seq(Tiles), seen : SUBSET Drawn(map, Region), tiles : Nat, refused : BOOLEAN,
     withheld : BOOLEAN]

Covered(map, s) ==
    /\ s \in States(map)
    /\ Left(map, s.pending) \subseteq In(map, Region)
    /\ s.withheld \/ Drawn(map, Region) \subseteq s.seen \cup Left(map, s.pending)

LEMMA StartCovered == ASSUME NEW map PROVE Covered(map, Start)
<1> DEFINE tile == [box |-> Region, failures |-> 0]
<1>1. tile \in Tiles /\ <<tile>> \in Seq(Tiles)
  BY SearchConstants DEF Tiles, Boxes
<1>2. Left(map, <<tile>>) = In(map, Region)
  <2>1. Len(<<tile>>) = 1 /\ <<tile>>[1].box = Region /\ 1 .. 1 = {1}
    OBVIOUS
  <2> HIDE DEF tile
  <2>2. QED
    BY <2>1 DEF Left
<1>3. QED
  BY <1>1, <1>2 DEF Start, Covered, States, Drawn

LEMMA StepCovered ==
    ASSUME NEW map, MapOK(map), NEW s, Covered(map, s), s.pending # <<>>
    PROVE  Covered(map, Ask(map, s))
<1> DEFINE q == s.pending
           tile == Head(q)
           asked == [s EXCEPT !.tiles = @ + 1]
<1>1. /\ q \in Seq(Tiles) /\ q # <<>> /\ Tail(q) \in Seq(Tiles) /\ tile \in Tiles
      /\ tile.box \in Boxes /\ tile.failures \in Nat
  <2>1. q \in Seq(Tiles) /\ q # <<>>
    BY DEF Covered, States
  <2> HIDE DEF q
  <2>2. Tail(q) \in Seq(Tiles) /\ tile \in Tiles
    BY <2>1
  <2> HIDE DEF tile
  <2>3. QED
    BY <2>1, <2>2 DEF Tiles
<1>2. /\ asked \in States(map) /\ asked.pending = q /\ asked.seen = s.seen
      /\ s.seen \subseteq Drawn(map, Region) /\ s.withheld \in BOOLEAN /\ asked.withheld = s.withheld
  BY DEF Covered, States
<1>3. /\ In(map, tile.box) \cup Left(map, Tail(q)) \subseteq In(map, Region)
      /\ \/ s.withheld
         \/ Drawn(map, Region) \subseteq s.seen \cup In(map, tile.box) \cup Left(map, Tail(q))
  <2>1. Left(map, q) = In(map, tile.box) \cup Left(map, Tail(q))
    BY <1>1, LeftFirst, Zenon
  <2>2. QED
    BY <2>1 DEF Covered
<1> HIDE DEF q, tile, asked
<1>4. \A r \in Seq(Tiles) : /\ Left(map, r \o Tail(q)) = Left(map, r) \cup Left(map, Tail(q))
                            /\ Left(map, Tail(q) \o r) = Left(map, Tail(q)) \cup Left(map, r)
  <2>1. Tail(q) \in Seq(Tiles)
    BY <1>1
  <2>2. QED
    BY <2>1, LeftParts
<1>5. CASE asked.tiles \in map.fails /\ ~ByName(map, asked.tiles, tile.box)
  <2>1. Ask(map, s) = Failed(asked)
    BY <1>5 DEF Ask, asked, tile, q
  <2>2. CASE tile.failures >= 2
    <3>1. Failed(asked) = [asked EXCEPT !.refused = TRUE]
      BY <1>2, <2>2 DEF Failed, tile
    <3>2. QED
      BY <2>1, <3>1, <1>2 DEF Covered, States, q
  <2>3. CASE tile.failures = 0
    <3> DEFINE again == [tile EXCEPT !.failures = 1]
    <3>1. again \in Tiles /\ <<again>> \in Seq(Tiles) /\ again.box = tile.box
      BY <1>1 DEF Tiles
    <3>2. <<again>> \o Tail(q) \in Seq(Tiles)
      BY <1>1, <3>1
    <3>3. Left(map, <<again>>) = In(map, tile.box)
      <4> HIDE DEF again
      <4>1. Len(<<again>>) = 1 /\ <<again>>[1] = again /\ 1 .. 1 = {1}
        OBVIOUS
      <4>2. QED
        BY <3>1, <4>1 DEF Left
    <3>4. Left(map, <<again>> \o Tail(q)) = In(map, tile.box) \cup Left(map, Tail(q))
      <4> HIDE DEF again
      <4>1. Left(map, <<again>> \o Tail(q)) = Left(map, <<again>>) \cup Left(map, Tail(q))
        BY <3>1, <1>4
      <4>2. QED
        BY <3>3, <4>1
    <3>5. Failed(asked) = [asked EXCEPT !.pending = <<again>> \o Tail(q)]
      BY <1>2, <2>3 DEF Failed, tile
    <3>6. QED
      BY <2>1, <3>2, <3>4, <3>5, <1>2, <1>3 DEF Covered, States
  <2>4. CASE ~(tile.failures >= 2) /\ tile.failures # 0
    <3>1. Split(tile.box, 2) \in Seq(Tiles) /\ Left(map, Split(tile.box, 2)) = In(map, tile.box)
      BY <1>1, SplitType, SplitLeft
    <3>2. /\ Split(tile.box, 2) \o Tail(q) \in Seq(Tiles)
          /\ Left(map, Split(tile.box, 2) \o Tail(q)) = In(map, tile.box) \cup Left(map, Tail(q))
      <4>1. Left(map, Split(tile.box, 2) \o Tail(q)) = Left(map, Split(tile.box, 2)) \cup Left(map, Tail(q))
        BY <3>1, <1>4
      <4>2. QED
        BY <1>1, <3>1, <4>1
    <3>3. Failed(asked) = [asked EXCEPT !.pending = Split(tile.box, 2) \o Tail(q)]
      BY <1>2, <2>4 DEF Failed, tile
    <3>4. QED
      BY <2>1, <3>2, <3>3, <1>2, <1>3 DEF Covered, States
  <2>5. QED
    BY <2>2, <2>3, <2>4
<1>6. CASE ~(asked.tiles \in map.fails /\ ~ByName(map, asked.tiles, tile.box))
  <2> DEFINE got == Answer(map, asked.tiles, tile.box)
             rest == IF Cardinality(got) >= Page THEN Tail(q) \o Split(tile.box, 0) ELSE Tail(q)
             kept == s.withheld \/ Withheld(map, asked.tiles, tile.box)
  <2>1. Ask(map, s) = [asked EXCEPT !.seen = s.seen \cup got, !.pending = rest, !.withheld = kept]
    <3>1. Ask(map, s) = Answered(map, asked)
      BY <1>6 DEF Ask, asked, tile, q
    <3>2. QED
      BY <1>2, <3>1 DEF Answered, tile
  <2>2. got \subseteq Drawn(map, tile.box)
        /\ (Cardinality(got) >= Page \/ Withheld(map, asked.tiles, tile.box) \/ got = Drawn(map, tile.box))
    BY ShortPage
  <2>3. Split(tile.box, 0) \in Seq(Tiles) /\ Left(map, Split(tile.box, 0)) = In(map, tile.box)
    BY <1>1, SplitType, SplitLeft
  <2>4. /\ Tail(q) \o Split(tile.box, 0) \in Seq(Tiles)
        /\ Left(map, Tail(q) \o Split(tile.box, 0)) = Left(map, Tail(q)) \cup In(map, tile.box)
    <3>1. Left(map, Tail(q) \o Split(tile.box, 0)) = Left(map, Tail(q)) \cup Left(map, Split(tile.box, 0))
      BY <2>3, <1>4
    <3>2. QED
      BY <1>1, <2>3, <3>1
  <2>5. kept \in BOOLEAN
    BY <1>2 DEF Withheld
  <2> HIDE DEF got, kept
  <2>6. /\ rest \in Seq(Tiles) /\ Left(map, rest) \subseteq In(map, Region)
        /\ kept \/ Drawn(map, Region) \subseteq (s.seen \cup got) \cup Left(map, rest)
    <3>1. CASE Cardinality(got) >= Page
      BY <3>1, <1>3, <2>4 DEF kept
    <3>2. CASE ~(Cardinality(got) >= Page)
      <4>1. rest = Tail(q)
        BY <3>2
      <4>2. Withheld(map, asked.tiles, tile.box) \/ got = Drawn(map, tile.box)
        BY <3>2, <2>2
      <4>3. ASSUME ~kept PROVE Drawn(map, Region) \subseteq (s.seen \cup got) \cup Left(map, Tail(q))
        BY <4>2, <4>3, <1>3 DEF kept, Drawn
      <4>4. QED
        BY <4>1, <4>3, <1>1, <1>3
    <3>3. QED
      BY <3>1, <3>2
  <2>7. s.seen \cup got \in SUBSET Drawn(map, Region)
    BY <1>2, <1>3, <2>2 DEF Drawn
  <2> HIDE DEF rest
  <2>8. QED
    BY <2>1, <2>5, <2>6, <2>7, <1>2 DEF Covered, States
<1>7. QED
  BY <1>5, <1>6

(* A search that goes on has asked once for every turn of its loop. *)
LEMMA TurnsCounted ==
    ASSUME NEW map, MapOK(map), NEW k \in 0 .. MaxTiles
    PROVE  /\ Covered(map, Trail(map)[k]) /\ Trail(map)[k].tiles <= k
           /\ Unfinished(Trail(map)[k]) => Trail(map)[k].tiles = k
<1> DEFINE Good(i) == /\ Covered(map, Trail(map)[i]) /\ Trail(map)[i].tiles <= i
                      /\ Unfinished(Trail(map)[i]) => Trail(map)[i].tiles = i
           S == {i \in Nat : i <= MaxTiles => Good(i)}
<1>1. \A i \in 0 .. MaxTiles :
         Trail(map)[i] = IF i = 0 THEN Start ELSE Step(map, Trail(map)[i - 1])
  <2>1. Trail(map) = [i \in 0 .. MaxTiles |->
                        IF i = 0 THEN Start ELSE Step(map, Trail(map)[i - 1])]
    BY TrailDef, Zenon DEF Follows
  <2>2. QED
    BY <2>1, Zenon
<1>2. MaxTiles \in Nat
  BY SearchConstants
<1>3. 0 \in S
  <2>1. 0 \in 0 .. MaxTiles
    BY <1>2
  <2>2. Trail(map)[0] = Start
    BY <1>1, <2>1
  <2>3. Start.tiles = 0
    BY DEF Start
  <2>4. QED
    BY <2>2, <2>3, StartCovered
<1>4. ASSUME NEW i \in Nat \ {0}, i - 1 \in S PROVE i \in S
  <2> SUFFICES ASSUME i <= MaxTiles PROVE Good(i)
    OBVIOUS
  <2> DEFINE s == Trail(map)[i - 1]  t == Trail(map)[i]
  <2>1. Good(i - 1) /\ i - 1 \in Nat
    BY <1>2, <1>4
  <2>2. t = Step(map, s)
    BY <1>1, <1>2
  <2>3. Covered(map, s) /\ s.tiles \in Nat /\ s.tiles <= i - 1
        /\ (Unfinished(s) => s.tiles = i - 1)
    BY <2>1 DEF Covered, States
  <2> HIDE DEF s, t
  <2>4. CASE Unfinished(s)
    <3>1. t = Ask(map, s) /\ s.pending # <<>> /\ s.tiles = i - 1
      BY <2>2, <2>3, <2>4 DEF Step, Unfinished
    <3>2. Covered(map, t)
      BY <2>3, <3>1, StepCovered
    <3>3. t.tiles = s.tiles + 1
      <4> DEFINE asked == [s EXCEPT !.tiles = @ + 1]
      <4>1. asked \in States(map) /\ asked.tiles = s.tiles + 1
        BY <2>3 DEF Covered, States
      <4> HIDE DEF asked
      <4>2. Failed(asked).tiles = asked.tiles /\ Answered(map, asked).tiles = asked.tiles
        BY <4>1 DEF Failed, Answered, States
      <4>3. t = Failed(asked) \/ t = Answered(map, asked)
        BY <3>1 DEF Ask, asked
      <4>4. QED
        BY <4>1, <4>2, <4>3
    <3>4. QED
      BY <2>3, <3>1, <3>2, <3>3 DEF t
  <2>5. CASE ~Unfinished(s)
    <3>1. t = s
      BY <2>2, <2>5 DEF Step
    <3>2. QED
      BY <2>3, <2>5, <3>1 DEF t
  <2>6. QED
    BY <2>4, <2>5
<1> HIDE DEF Good
<1>5. Nat \subseteq S
  <2> HIDE DEF S
  <2>1. QED
    BY <1>3, <1>4, LeastOutside, Zenon
<1>6. Good(k)
  BY <1>2, <1>5
<1>7. QED
  BY <1>6 DEF Good

LEMMA SearchCovered == ASSUME NEW map, MapOK(map) PROVE Covered(map, Search(map))
<1>1. MaxTiles \in 0 .. MaxTiles
  BY SearchConstants
<1>2. QED
  BY <1>1, TurnsCounted DEF Search

(* A search that says it is complete has all that can be drawn in its        *)
(* region, unless one of its answers withheld some.                         *)
THEOREM NothingShort == ASSUME NEW map, MapOK(map) PROVE SearchOutcome(map) # "short"
<1>1. Covered(map, Search(map))
  BY SearchCovered
<1>2. ASSUME Complete(Search(map)), ~Search(map).withheld
      PROVE  Search(map).seen = In(map, Region) \cap map.drawn
  <2>1. Left(map, <<>>) = {}
    BY DEF Left
  <2>2. QED
    BY <1>1, <1>2, <2>1 DEF Complete, Covered, States, Drawn
<1>3. QED
  BY <1>2 DEF SearchOutcome

(* The search's loop is over after as many turns as its cap on tiles allows, *)
(* whatever the service holds and fails to answer, and asks no more often.   *)
THEOREM SearchEnds ==
    ASSUME NEW map, MapOK(map)
    PROVE  ~Unfinished(Search(map)) /\ Search(map).tiles <= MaxTiles
<1>1. MaxTiles \in 0 .. MaxTiles
  BY SearchConstants
<1>2. /\ Search(map).tiles <= MaxTiles
      /\ Unfinished(Search(map)) => Search(map).tiles = MaxTiles
  BY <1>1, TurnsCounted DEF Search
<1>3. QED
  BY <1>1, <1>2 DEF Unfinished

-----------------------------------------------------------------------------
(* One step with the bridge is one of the run, or leaves the run alone. *)
LEMMA RunsAsBefore == BridgeNext \/ UNCHANGED allvars => [Next]_vars
  BY Zenon DEF BridgeNext, Within, allvars

(* With the bridge a run still does only what a run without it may do: no    *)
(* call, answer or late thread reaches into the loop, its review or its end. *)
THEOREM BridgeRuns == BridgeSpec => Init /\ [][Next]_vars
<1>1. BridgeInit => Init
  BY Zenon DEF BridgeInit
<1>2. [BridgeNext]_allvars => [Next]_vars
  BY RunsAsBefore
<1>3. QED
  BY <1>1, <1>2, PTL DEF BridgeSpec

(* With the bridge too a review stops a run only where it may, and nothing   *)
(* is left behind or killed unreported.                                      *)
THEOREM RunKeptWithBridge == BridgeSpec => []StopJustified /\ []NoneLeft
<1>1. BridgeInit => TypeOK /\ RunInv
  BY InitType, InitRun, Zenon DEF BridgeInit
<1>2. TypeOK /\ RunInv /\ [BridgeNext]_allvars => (TypeOK /\ RunInv)'
  BY RunsAsBefore, StepType, HeldStep, JustifiedStep, EndStep, Zenon DEF RunInv
<1>3. RunInv => StopJustified /\ NoneLeft
  BY DEF RunInv, EndInv, NoneLeft, Reason, Ended
<1>4. QED
  BY <1>1, <1>2, <1>3, PTL DEF BridgeSpec

(* Where a call is: what it was answered with is on record before it is     *)
(* given, and it is given before it is read.                                *)
CallTypes ==
    /\ client \in [Calls -> {"none", "waiting", "gave_up", "ok", "refused"}]
    /\ noted \in [Calls -> {"none", "ok", "refused"}]
    /\ given \in [Calls -> {"none", "ok", "refused"}]
    /\ inbox \subseteq Calls /\ batch \subseteq Calls
    /\ bridge \in {"off", "on", "stopping", "closed"}
    /\ stage \in {"idle", "listing", "taken", "handling", "handled", "noted", "ended"}
    /\ stage \in {"taken", "handling", "handled", "noted"} => serving \in Calls

InHand == stage \in {"taken", "handling", "handled"}
Open == inbox \cup batch \cup (IF InHand THEN {serving} ELSE {})

CallInv ==
    /\ CallTypes
    /\ \A c \in Calls :
          /\ client[c] = "none" => noted[c] = "none" /\ c \notin Open
          /\ c \in Open => noted[c] = "none"
          /\ given[c] # "none" => noted[c] = given[c]
          /\ client[c] \in {"ok", "refused"} => noted[c] = client[c]
    /\ InHand => serving \notin batch \cup inbox
    /\ stage = "noted" => noted[serving] = Told /\ client[serving] # "none" /\ serving \notin batch \cup inbox

LEMMA InitCalls == BridgeInit => CallInv
  BY DEF BridgeInit, NoAnswers, CallInv, CallTypes, Open, InHand

LEMMA CallStep == CallInv /\ [BridgeNext]_allvars => CallInv'
<1> SUFFICES ASSUME CallInv, [BridgeNext]_allvars PROVE CallInv'
  OBVIOUS
<1> USE DEF CallInv, CallTypes, Open, InHand, files, thread, ledger
<1>1. ASSUME NEW c \in Calls, Asks(c) PROVE CallInv'
  BY <1>1 DEF Asks, Mounted, Told
<1>2. ASSUME NEW c \in Calls, Reads(c) PROVE CallInv'
  BY <1>2 DEF Reads, Mounted, Told
<1>3. ASSUME NEW c \in Calls, GivesUp(c) PROVE CallInv'
  BY <1>3 DEF GivesUp, Told
<1>4. CASE Lists
  BY <1>4 DEF Lists, Told
<1>5. CASE Looks
  BY <1>5 DEF Looks, Told
<1>6. ASSUME NEW c \in Calls, Picks(c) \/ Drops(c) PROVE CallInv'
  <2>1. CASE Picks(c)
    BY <2>1 DEF Picks, Takes, Told
  <2>2. CASE Drops(c)
    BY <2>2 DEF Drops, Told
  <2>3. QED
    BY <1>6, <2>1, <2>2
<1>15. CASE Begins
  BY <1>15 DEF Begins, Told
<1>7. CASE Returns
  BY <1>7 DEF Returns, Told
<1>8. CASE Notes
  BY <1>8 DEF Notes, Told
<1>9. CASE Responds
  BY <1>9 DEF Responds, Told
<1>10. ASSUME NEW a \in Args, Forgets(a) PROVE CallInv'
  BY <1>10 DEF Forgets, Told
<1>11. CASE StopsBridge
  BY <1>11 DEF StopsBridge, Told
<1>12. CASE Closes
  BY <1>12 DEF Closes, NoAnswers, Told
<1>13. CASE UNCHANGED channel
  BY <1>13 DEF channel, Told
<1>14. QED
  BY <1>1, <1>2, <1>3, <1>4, <1>5, <1>6, <1>7, <1>8, <1>9, <1>10, <1>11, <1>12, <1>13, <1>15, Zenon
     DEF BridgeNext, Serves, Within, allvars

(* What the code was told is on the run's list as it was told.              *)
THEOREM AnswersRecorded == BridgeSpec => []AnswersOnRecord
<1>1. CallInv => AnswersOnRecord
  BY DEF CallInv, AnswersOnRecord
<1>2. QED
  BY <1>1, InitCalls, CallStep, PTL DEF BridgeSpec

(* A run returns only after its bridge is closed, and in a closed bridge no *)
(* request is left to be read.                                              *)
ClosedInv ==
    /\ pc = "returned" => bridge \in {"off", "closed"}
    /\ bridge \in {"off", "closed"} => inbox = {}

LEMMA ReturnsWhenOver == Next => pc' # "returned" \/ pc \in {"over", "returned"}
<1> SUFFICES ASSUME Next PROVE pc' # "returned" \/ pc \in {"over", "returned"}
  OBVIOUS
<1>1. CASE SeesExit \/ WaitsOut \/ Cancels \/ TimesOut \/ BeginsReview \/ CannotReview \/ GoesOn
  BY <1>1 DEF SeesExit, WaitsOut, Cancels, TimesOut, BeginsReview, CannotReview, GoesOn
<1>2. CASE Settles \/ ConfirmsHeld \/ LooksAgain \/ Kills \/ Finishes
  BY <1>2 DEF Settles, ConfirmsHeld, LooksAgain, Kills, Finishes
<1>3. CASE Answers \/ Moves \/ Exits \/ AskStop \/ Passes
  BY <1>3 DEF Answers, Moves, Exits, AskStop, Passes, loop
<1>4. QED
  BY <1>1, <1>2, <1>3 DEF Next, Loop

LEMMA ClosedStep == ClosedInv /\ [BridgeNext]_allvars => ClosedInv'
<1> SUFFICES ASSUME ClosedInv, [BridgeNext]_allvars PROVE ClosedInv'
  OBVIOUS
<1>1. CASE Within(Next)
  BY <1>1, ReturnsWhenOver DEF ClosedInv, Within, channel, files
<1>2. CASE UNCHANGED allvars
  BY <1>2 DEF ClosedInv, allvars, vars, loop, channel, files
<1>3. CASE UNCHANGED vars /\ ~(UNCHANGED allvars) /\ ~Within(Next)
  <2> USE DEF ClosedInv, files, thread, ledger
  <2>0. pc' = pc
    BY <1>3 DEF vars, loop
  <2>1. ASSUME NEW c \in Calls, Asks(c) PROVE ClosedInv'
    BY <2>0, <2>1 DEF Asks, Mounted
  <2>2. ASSUME NEW c \in Calls, Reads(c) \/ GivesUp(c) PROVE ClosedInv'
    BY <2>0, <2>2 DEF Reads, GivesUp
  <2>3. ASSUME NEW c \in Calls, Picks(c) \/ Drops(c) PROVE ClosedInv'
    BY <2>0, <2>3 DEF Picks, Takes, Drops
  <2>4. CASE Looks \/ Lists \/ Begins \/ Returns \/ Notes \/ Responds
    BY <2>0, <2>4 DEF Looks, Lists, Begins, Returns, Notes, Responds
  <2>5. ASSUME NEW a \in Args, Forgets(a) PROVE ClosedInv'
    BY <2>0, <2>5 DEF Forgets
  <2>6. CASE StopsBridge \/ Closes
    BY <2>0, <2>6 DEF StopsBridge, Closes
  <2>7. QED
    BY <1>3, <2>1, <2>2, <2>3, <2>4, <2>5, <2>6, Zenon DEF BridgeNext, Serves
<1>4. QED
  BY <1>1, <1>2, <1>3, Zenon DEF BridgeNext

(* A run that has returned does so once. *)
LEMMA ReturnedStays == [Next]_vars => (pc = "returned" => pc' = "returned")
<1> SUFFICES ASSUME [Next]_vars, pc = "returned" PROVE pc' = "returned"
  OBVIOUS
<1>1. CASE Loop
  BY <1>1 DEF Loop, SeesExit, WaitsOut, Cancels, TimesOut, BeginsReview, CannotReview, GoesOn, Settles,
              ConfirmsHeld, LooksAgain, Kills, Finishes
<1>2. CASE Answers \/ Moves \/ Exits \/ AskStop \/ Passes \/ UNCHANGED vars
  BY <1>2 DEF Answers, Moves, Exits, AskStop, Passes, vars, loop
<1>3. QED
  BY <1>1, <1>2 DEF Next

(* A request taken up late was not there to be read. *)
LateInv ==
    /\ pc # "returned" => late = {}
    /\ stage = "taken" /\ serving \in late => found = "refused"
    /\ LateAreRefused

LEMMA LateStep == ClosedInv /\ LateInv /\ [BridgeNext]_allvars => LateInv'
<1> SUFFICES ASSUME ClosedInv, LateInv, [BridgeNext]_allvars PROVE LateInv'
  OBVIOUS
<1> USE DEF LateInv, LateAreRefused, files, thread, ledger
<1>1. CASE Within(Next) \/ UNCHANGED allvars
  <2>1. UNCHANGED <<stage, serving, found, late>>
    BY <1>1 DEF Within, allvars, channel
  <2>2. pc = "returned" => pc' = "returned"
    BY <1>1, ReturnedStays DEF Within, allvars
  <2>3. QED
    BY <2>1, <2>2
<1>2. ASSUME pc' = pc, NEW c \in Calls, Picks(c) PROVE LateInv'
  <2>1. CASE pc = "returned"
    <3>1. inbox = {}
      BY <2>1 DEF ClosedInv
    <3>2. QED
      BY <1>2, <2>1, <3>1 DEF Picks, Takes
  <2>2. CASE pc # "returned"
    BY <1>2, <2>2 DEF Picks, Takes
  <2>3. QED
    BY <2>1, <2>2
<1>3. ASSUME pc' = pc, Begins PROVE LateInv'
  BY <1>3 DEF Begins
<1>4. ASSUME pc' = pc, Looks \/ Lists \/ Returns \/ Notes \/ Responds PROVE LateInv'
  BY <1>4 DEF Looks, Lists, Returns, Notes, Responds
<1>5. ASSUME pc' = pc, UNCHANGED <<stage, serving, found, late>> PROVE LateInv'
  BY <1>5
<1>6. ASSUME NEW c \in Calls, Asks(c) \/ Reads(c) \/ GivesUp(c) \/ Drops(c)
      PROVE  UNCHANGED <<stage, serving, found, late>>
  BY <1>6 DEF Asks, Reads, GivesUp, Drops
<1>7. ASSUME NEW a \in Args, Forgets(a) PROVE UNCHANGED <<stage, serving, found, late>>
  BY <1>7 DEF Forgets
<1>8. CASE StopsBridge \/ Closes
  BY <1>8 DEF StopsBridge, Closes, BridgeNext, Within, channel, allvars, vars, loop
<1>9. UNCHANGED vars => pc' = pc
  BY DEF vars, loop
<1>10. QED
  BY <1>1, <1>2, <1>3, <1>4, <1>5, <1>6, <1>7, <1>8, <1>9, Zenon DEF BridgeNext, Serves

(* Of what its thread takes up after the run has returned, however much it  *)
(* had listed, nothing goes to a capability.                                *)
THEOREM LateCallsRefused == BridgeSpec => []LateAreRefused
<1>1. BridgeInit => ClosedInv /\ LateInv
  BY DEF BridgeInit, Init, ClosedInv, LateInv, LateAreRefused
<1>2. LateInv => LateAreRefused
  BY DEF LateInv
<1>3. QED
  BY <1>1, <1>2, ClosedStep, LateStep, PTL DEF BridgeSpec

LEMMA RepliesComplete == ASSUME NEW a PROVE "short" \notin Replies(a)
<1>1. \A map \in Maps : SearchOutcome(map) # "short"
  BY BridgeConstants, NothingShort DEF MapOK, Points
<1>2. QED
  BY <1>1 DEF Replies, SearchReplies, Reply

LEMMA WholeStep == CompleteMeansAll /\ [BridgeNext]_allvars => CompleteMeansAll'
<1> SUFFICES ASSUME CompleteMeansAll, [BridgeNext]_allvars PROVE found' # "short"
  BY DEF CompleteMeansAll
<1> USE DEF CompleteMeansAll, ledger
<1>1. ASSUME NEW c \in Calls, Picks(c) \/ Drops(c) PROVE found' # "short"
  BY <1>1 DEF Picks, Takes, Drops
<1>2. CASE Returns
  BY <1>2, RepliesComplete DEF Returns, Hands
<1>3. ASSUME NEW c \in Calls, Asks(c) \/ Reads(c) \/ GivesUp(c) PROVE found' # "short"
  BY <1>3 DEF Asks, Reads, GivesUp
<1>4. CASE Looks \/ Lists \/ Begins \/ Notes \/ Responds \/ StopsBridge \/ Closes
  BY <1>4 DEF Looks, Lists, Begins, Hands, Notes, Responds, StopsBridge, Closes
<1>5. ASSUME NEW a \in Args, Forgets(a) PROVE found' # "short"
  BY <1>5 DEF Forgets
<1>6. CASE Within(Next) \/ UNCHANGED allvars
  BY <1>6 DEF Within, allvars, channel
<1>7. QED
  BY <1>1, <1>2, <1>3, <1>4, <1>5, <1>6, Zenon DEF BridgeNext, Serves

(* What a call is answered with as complete is all that can be drawn in the  *)
(* region, unless an answer of the service's withheld some.                  *)
THEOREM SearchesComplete == BridgeSpec => []CompleteMeansAll
<1>1. BridgeInit => CompleteMeansAll
  BY DEF BridgeInit, CompleteMeansAll
<1>2. QED
  BY <1>1, WholeStep, PTL DEF BridgeSpec

-----------------------------------------------------------------------------
(* The calls as the bridge promises them. *)

(* What is taken to a capability, or is to be granted, was within the run's   *)
(* caps, and stays so: nothing is put on record while a call is served.       *)
GrantInv ==
    /\ stage = "handling" => Allowed(What[serving])
    /\ stage = "handled" /\ found # "refused" => Allowed(What[serving])

LEMMA GrantInit == BridgeInit => GrantInv
  BY DEF BridgeInit, GrantInv

LEMMA GrantStep == CallInv /\ GrantInv /\ [BridgeNext]_allvars => GrantInv'
<1> SUFFICES ASSUME CallInv, GrantInv, [BridgeNext]_allvars PROVE GrantInv'
  OBVIOUS
<1>0. ASSUME noted' = noted, NEW a PROVE Allowed(a)' <=> Allowed(a)
  BY <1>0 DEF Allowed, Served, Earlier
<1>1. ASSUME NEW c \in Calls, Picks(c) PROVE GrantInv'
  BY <1>1 DEF Picks, Takes, GrantInv
<1>2. CASE Returns
  BY <1>0, <1>2 DEF Returns, GrantInv, files
<1>3. CASE Notes \/ Responds
  BY <1>3 DEF Notes, Responds, GrantInv
<1>4. ASSUME UNCHANGED <<stage, serving, found, noted>> PROVE GrantInv'
  BY <1>0, <1>4 DEF GrantInv
<1>5. ASSUME NEW c \in Calls, Asks(c) \/ Reads(c) \/ GivesUp(c) \/ Drops(c) PROVE GrantInv'
  BY <1>4, <1>5 DEF Asks, Reads, GivesUp, Drops, thread, ledger
<1>6. ASSUME NEW a \in Args, Forgets(a) PROVE GrantInv'
  BY <1>4, <1>6 DEF Forgets, thread
<1>7. CASE StopsBridge \/ Closes
  BY <1>4, <1>7 DEF StopsBridge, Closes, thread, ledger
<1>8. CASE Looks \/ Lists
  BY <1>8 DEF Looks, Lists, GrantInv
<1>11. CASE Begins
  <2>1. noted' = noted /\ serving' = serving
    BY <1>11 DEF Begins
  <2>2. stage' = "handling" \/ (stage' = "handled" /\ found' # "refused") => Allowed(What[serving])
    BY <1>11 DEF Begins
  <2>3. QED
    BY <1>0, <2>1, <2>2 DEF GrantInv
<1>9. CASE Within(Next) \/ UNCHANGED allvars
  BY <1>4, <1>9 DEF Within, allvars, channel, thread, ledger
<1>10. QED
  BY <1>1, <1>2, <1>3, <1>5, <1>6, <1>7, <1>8, <1>9, <1>11, Zenon DEF BridgeNext, Serves

LEMMA ContractInit == BridgeInit => Contract!Init
  BY DEF BridgeInit, Init, Contract!Init, NoAnswers, Heard

(* Calls answered and caps, by either name. *)
LEMMA SameCaps ==
    ASSUME NEW a, Allowed(a)
    PROVE  Contract!WithinCaps(a)
<1>1. \A S : Contract!Cardinality(S) = Cardinality(S)
  BY DEF Cardinality, Contract!Cardinality
<1>2. QED
  BY <1>1 DEF Allowed, Served, Earlier, Contract!WithinCaps, Contract!Answered, Contract!Before

(* A step of neither the code's calls, the record nor the run is none. *)
LEMMA ContractIdle ==
    ASSUME noted' = noted, pc' = pc, client' = client
    PROVE  [Contract!Next]_(Contract!vars)
  BY DEF Contract!vars, Heard

(* Nor is giving up. *)
LEMMA ContractGivesUp ==
    ASSUME CallInv, NEW c \in Calls, GivesUp(c), UNCHANGED vars
    PROVE  [Contract!Next]_(Contract!vars)
<1>1. noted' = noted /\ pc' = pc
  BY DEF GivesUp, vars, loop, ledger
<1>2. \A d \in Calls : client'[d] = client[d] \/ (client[d] = "waiting" /\ client'[d] = "gave_up")
  BY DEF GivesUp, CallInv, CallTypes
<1>3. Heard' = Heard /\ {d \in Calls : client'[d] # "none"} = {d \in Calls : client[d] # "none"}
  BY <1>2 DEF Heard
<1>4. QED
  BY <1>1, <1>3 DEF Contract!vars

(* The code asks and hears only while its run has not returned. *)
LEMMA ContractCode ==
    ASSUME CallInv, ClosedInv, NEW c \in Calls, Asks(c) \/ Reads(c), UNCHANGED vars
    PROVE  Contract!Next
<1>1. pc' = pc /\ pc # "returned" /\ noted' = noted
  BY DEF Asks, Reads, Mounted, ClosedInv, vars, loop, ledger
<1>2. client \in [Calls -> {"none", "waiting", "gave_up", "ok", "refused"}]
  BY DEF CallInv, CallTypes
<1>3. CASE Asks(c)
  <2>1. client[c] = "none" /\ client' = [client EXCEPT ![c] = "waiting"]
    BY <1>3 DEF Asks
  <2>2. Heard' = Heard
    BY <1>2, <2>1 DEF Heard
  <2>3. Contract!Ask(c)
    BY <1>1, <1>2, <2>1, <2>2 DEF Contract!Ask
  <2>4. QED
    BY <2>3 DEF Contract!Next
<1>4. CASE Reads(c)
  <2>1. client[c] = "waiting" /\ client' = [client EXCEPT ![c] = noted[c]]
        /\ noted[c] \in {"ok", "refused"}
    BY <1>4 DEF Reads, CallInv, CallTypes
  <2>2. Heard[c] = "none" /\ Heard' = [Heard EXCEPT ![c] = noted[c]]
    BY <1>2, <2>1 DEF Heard
  <2>3. {d \in Calls : client'[d] # "none"} = {d \in Calls : client[d] # "none"}
    BY <1>2, <2>1
  <2>4. Contract!Hear(c)
    BY <1>1, <2>1, <2>2, <2>3 DEF Contract!Hear, Contract!Answered
  <2>5. QED
    BY <2>4 DEF Contract!Next
<1>5. QED
  BY <1>3, <1>4

(* What is put on record is one answer of a call that was made and has none. *)
LEMMA ContractNotes ==
    ASSUME CallInv, GrantInv, Notes, UNCHANGED vars
    PROVE  Contract!Next
<1>1. /\ serving \in Calls /\ noted[serving] = "none" /\ client[serving] # "none"
      /\ noted' = [noted EXCEPT ![serving] = Told] /\ client' = client /\ pc' = pc
  BY DEF CallInv, CallTypes, Open, InHand, Notes, vars, loop
<1>2. serving \in {c \in Calls : client[c] # "none"} \ Contract!Answered /\ Heard' = Heard
  BY <1>1 DEF Contract!Answered, Heard
<1>3. CASE Told = "refused"
  BY <1>1, <1>2, <1>3 DEF Contract!Next, Contract!Refuse
<1>4. CASE Told = "ok"
  <2>1. Contract!WithinCaps(What[serving])
    BY <1>4, SameCaps DEF Told, GrantInv, Notes
  <2>2. Contract!Grant(serving)
    BY <1>1, <1>2, <1>4, <2>1 DEF Contract!Grant
  <2>3. QED
    BY <1>1, <2>2 DEF Contract!Next
<1>5. QED
  BY <1>3, <1>4 DEF Told

(* Every step of the bridge is one of the calls it promises, or none. *)
LEMMA ContractStep ==
    ASSUME CallInv, ClosedInv, GrantInv, [BridgeNext]_allvars
    PROVE  [Contract!Next]_(Contract!vars)
<1>1. CASE Within(Next)
  <2>1. noted' = noted /\ client' = client
    BY <1>1 DEF Within, channel, ledger
  <2>2. CASE pc' = "returned" /\ pc # "returned"
    BY <2>1, <2>2 DEF Contract!Next, Contract!Return, Heard
  <2>3. CASE (pc' = "returned") = (pc = "returned")
    BY <2>1, <2>3 DEF Contract!vars, Heard
  <2>4. pc = "returned" => pc' = "returned"
    BY <1>1, ReturnedStays DEF Within
  <2>5. QED
    BY <2>2, <2>3, <2>4
<1>2. ASSUME NEW c \in Calls, Asks(c) \/ Reads(c), UNCHANGED vars
      PROVE  [Contract!Next]_(Contract!vars)
  BY <1>2, ContractCode
<1>3. CASE Notes /\ UNCHANGED vars
  BY <1>3, ContractNotes
<1>4. ASSUME NEW c \in Calls, GivesUp(c), UNCHANGED vars PROVE [Contract!Next]_(Contract!vars)
  BY <1>4, ContractGivesUp
<1>5. ASSUME UNCHANGED vars,
             \/ UNCHANGED channel \/ (\E c \in Calls : Picks(c) \/ Drops(c))
             \/ (\E a \in Args : Forgets(a))
             \/ Looks \/ Lists \/ Begins \/ Returns \/ Responds \/ StopsBridge \/ Closes
      PROVE  [Contract!Next]_(Contract!vars)
  <2>1. pc' = pc
    BY <1>5 DEF vars, loop
  <2>2. noted' = noted /\ client' = client
    BY <1>5 DEF Picks, Takes, Drops, Begins, Forgets, Looks, Lists, Returns, Responds, StopsBridge,
                Closes, channel, ledger
  <2>3. QED
    BY <2>1, <2>2, ContractIdle
<1>6. QED
  BY <1>1, <1>2, <1>3, <1>4, <1>5, Zenon DEF BridgeNext, Serves, allvars

(* Whatever the code, the thread and the run's end do between one another,  *)
(* the calls are answered once, within the caps, and on record before they  *)
(* are heard.                                                               *)
THEOREM CallsKept == BridgeSpec => KeepsCalls
<1>1. BridgeInit => ClosedInv
  BY DEF BridgeInit, Init, ClosedInv
<1>2. CallInv /\ ClosedInv /\ GrantInv /\ [BridgeNext]_allvars => [Contract!Next]_(Contract!vars)
  BY ContractStep
<1>3. BridgeSpec => Contract!Init /\ [][Contract!Next]_(Contract!vars)
  BY <1>1, <1>2, InitCalls, CallStep, ClosedStep, GrantInit, GrantStep, ContractInit, PTL
     DEF BridgeSpec
<1>4. QED
  BY <1>3 DEF KeepsCalls, Contract!Spec
==============================================================================
