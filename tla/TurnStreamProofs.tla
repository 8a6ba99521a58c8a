--------------------------- MODULE TurnStreamProofs ---------------------------
(***************************************************************************)
(* What TLAPS proves of TurnStream, for any turns, callers and owners: the *)
(* types; that the worker's one outcome reaches a reader that stays; that  *)
(* no handle outlives its reading; and that the threads, the queue and the *)
(* stores implement TurnContract.                                          *)
(*                                                                         *)
(* The invariant follows the two threads of one turn.  Course says what    *)
(* has been put and what of it is still queued, by where the worker        *)
(* stands; Place what the reader's place means; Paid what the two stores   *)
(* hold by then.                                                           *)
(***************************************************************************)
EXTENDS TurnStream, SequenceTheorems, TLAPS

Early    == {"between", "calling", "composed"}
Silent   == Early \cup {"none"}
Late     == {"closed", "exited"}
Booking  == {"traced", "settling", "unsaved", "session"}
Relaying == {"absent", "opening", "waiting", "timed_out", "sent", "draining",
             "drain_sent"}

(* Nothing has been put; the outcome has; the outcome and the sentinel. *)
Untold(t) == outbox[t] = <<>> /\ got[t] = {} /\ t \notin failed

(* The worker was never started, and the reader knows. *)
Unopened(t) == worker[t] = "none" /\ outbox[t] = <<>> /\ got[t] = {"raised"} /\ t \notin failed

Told(t, o) ==
    \/ outbox[t] = <<o>> /\ got[t] = {}
    \/ outbox[t] = <<>> /\ got[t] = {o}

Ended(t, o) ==
    \/ outbox[t] = <<o, "done">> /\ got[t] = {}
    \/ outbox[t] = <<"done">> /\ got[t] = {o}
    \/ outbox[t] = <<>> /\ got[t] \in {{o}, {o, "raised"}}

Course(t) ==
    /\ worker[t] = "none" => Untold(t) \/ Unopened(t)
    /\ worker[t] \in Early => Untold(t)
    /\ worker[t] = "failing" => Told(t, "error") /\ t \notin failed
    /\ worker[t] = "closing" =>
          \E o \in Outcomes : Told(t, o) /\ (t \in failed <=> o = "error")
    /\ worker[t] \in Late =>
          \E o \in Outcomes : Ended(t, o) /\ (t \in failed <=> o = "error")

Place(t) ==
    /\ reader[t] \in {"absent", "opening"} => worker[t] = "none" /\ Untold(t)
    /\ worker[t] = "none" => reader[t] \in {"absent", "opening", "left"} \cup Past
    /\ reader[t] \in {"draining", "drain_sent"} => worker[t] \in Late
    /\ reader[t] \in Past =>
          \/ Unopened(t)
          \/ /\ outbox[t] = <<>> /\ worker[t] \in Late
             /\ "error" \in got[t] <=> "raised" \in got[t]
    /\ "raised" \in got[t] => reader[t] \in Past \cup {"left"}

Paid(t) ==
    /\ reader[t] \in Relaying \cup {"finished"} => account[t] = "open"
    /\ reader[t] \in Relaying \cup {"finished"} \cup Booking => kept[t] = "nothing"
    /\ reader[t] \in Booking /\ "completed" \in got[t] /\ t \in Metered =>
          account[t] # "open"

Released(t) ==
    t \in table /\ worker[t] # "none" => reader[t] \notin Past \cup {"left"}

TurnInv(t) == Course(t) /\ Place(t) /\ Paid(t) /\ Released(t)

StreamInv == TypeOK /\ \A t \in Turns : TurnInv(t)

-----------------------------------------------------------------------------
(* What the invariant says of the properties *)

LEMMA InvMeansOutcome == StreamInv => OutcomeReachesReader
<1> SUFFICES ASSUME StreamInv, NEW t \in Turns, reader[t] \in Past
             PROVE  \/ worker[t] = "none" /\ got[t] = {"raised"}
                    \/ /\ \E o \in Outcomes : got[t] \cap Outcomes = {o}
                       /\ "error" \in got[t] <=> "raised" \in got[t]
                       /\ outbox[t] = <<>> /\ worker[t] \in Late
  BY DEF OutcomeReachesReader, Late
<1>0. CASE Unopened(t)
  BY <1>0 DEF Unopened
<1> SUFFICES ASSUME ~Unopened(t)
             PROVE  /\ \E o \in Outcomes : got[t] \cap Outcomes = {o}
                    /\ "error" \in got[t] <=> "raised" \in got[t]
                    /\ outbox[t] = <<>> /\ worker[t] \in Late
  BY <1>0
<1>1. /\ outbox[t] = <<>> /\ worker[t] \in Late
      /\ "error" \in got[t] <=> "raised" \in got[t]
  BY DEF StreamInv, TurnInv, Place, Untold, Unopened
<1>2. PICK o \in Outcomes : Ended(t, o)
  BY <1>1 DEF StreamInv, TurnInv, Course, Untold, Unopened
<1>3. got[t] \in {{o}, {o, "raised"}}
  BY <1>1, <1>2 DEF Ended
<1>4. got[t] \cap Outcomes = {o}
  BY <1>3 DEF Outcomes
<1>5. QED
  BY <1>1, <1>4

LEMMA InvMeansReleased == StreamInv => HandleReleased
  BY DEF StreamInv, TypeOK, TurnInv, Released, HandleReleased

-----------------------------------------------------------------------------
(* Initially *)

LEMMA InitInv == Init => StreamInv
<1> SUFFICES ASSUME Init PROVE StreamInv
  OBVIOUS
<1>1. TypeOK
  BY DEF Init, TypeOK, Alive, Past
<1>2. ASSUME NEW t \in Turns PROVE TurnInv(t)
  <2>1. /\ worker[t] = "none" /\ outbox[t] = <<>> /\ t \notin failed
        /\ reader[t] = "absent" /\ got[t] = {} /\ account[t] = "open"
        /\ kept[t] = "nothing" /\ t \notin table
    BY DEF Init
  <2>2. Course(t)
    BY <2>1 DEF Course, Untold, Unopened, Late
  <2>3. Place(t) /\ Paid(t) /\ Released(t)
    BY <2>1 DEF Place, Untold, Unopened, Paid, Released, Past, Booking
  <2>4. QED
    BY <2>2, <2>3 DEF TurnInv
<1>3. QED
  BY <1>1, <1>2 DEF StreamInv

-----------------------------------------------------------------------------
(* Steps *)

(* A step leaves a turn as it is; at most its handle goes. *)
Same(s) ==
    /\ worker'[s] = worker[s] /\ outbox'[s] = outbox[s]
    /\ reader'[s] = reader[s] /\ got'[s] = got[s]
    /\ account'[s] = account[s] /\ kept'[s] = kept[s]
    /\ s \in failed' <=> s \in failed
    /\ s \in table' => s \in table

LEMMA SameKeeps == ASSUME NEW s \in Turns, TurnInv(s), Same(s) PROVE TurnInv(s)'
<1>1. Course(s)'
  BY DEF TurnInv, Course, Untold, Unopened, Told, Ended, Same
<1>2. Place(s)' /\ Paid(s)' /\ Released(s)'
  BY DEF TurnInv, Place, Untold, Unopened, Paid, Released, Same
<1>3. QED
  BY <1>1, <1>2 DEF TurnInv

(* A step of one turn: what is left to show of it. *)
LEMMA OneTurn ==
  ASSUME StreamInv, NEW t \in Turns, TypeOK', TurnInv(t)',
         \A s \in Turns \ {t} : Same(s)
  PROVE  StreamInv'
  BY SameKeeps DEF StreamInv

(* The queue, which never holds more than two items. *)
LEMMA SecondItem ==
  ASSUME NEW a \in Items, NEW b \in Items PROVE Append(<<a>>, b) = <<a, b>>
<1> DEFINE p == Append(<<a>>, b)
           q == <<a, b>>
<1>1. <<a>> \in Seq(Items) /\ Len(<<a>>) = 1 /\ <<a>>[1] = a
  OBVIOUS
<1>2. p \in Seq(Items) /\ Len(p) = 2 /\ p[1] = a /\ p[2] = b
  BY <1>1, AppendProperties
<1>3. q \in Seq(Items) /\ Len(q) = 2 /\ q[1] = a /\ q[2] = b
  OBVIOUS
<1> HIDE DEF p, q
<1>4. p = q
  BY <1>2, <1>3, SeqEqual
<1>5. QED
  BY <1>4 DEF p, q

LEMMA QueueFacts ==
  ASSUME NEW a \in Items, NEW b \in Items
  PROVE  /\ Append(<<>>, a) = <<a>> /\ Append(<<a>>, b) = <<a, b>>
         /\ <<a>> # <<>> /\ <<a, b>> # <<>>
         /\ Head(<<a>>) = a /\ Tail(<<a>>) = <<>>
         /\ Head(<<a, b>>) = a /\ Tail(<<a, b>>) = <<b>>
<1>1. Append(<<>>, a) = <<a>> /\ <<a>> # <<>> /\ <<a, b>> # <<>>
  OBVIOUS
<1>2. Head(<<a>>) = a /\ Head(<<a, b>>) = a
  OBVIOUS
<1>3. Tail(<<a>>) = <<>> /\ Tail(<<a, b>>) = <<b>>
  OBVIOUS
<1>4. QED
  BY <1>1, <1>2, <1>3, SecondItem

LEMMA PutType ==
  ASSUME TypeOK, NEW t \in Turns, NEW i \in Items, Put(t, i)
  PROVE  outbox' \in [Turns -> Seq(Items)]
  BY DEF TypeOK, Put

LEMMA PopType ==
  ASSUME TypeOK, NEW t \in Turns, outbox[t] # <<>>, Pop(t)
  PROVE  /\ outbox' \in [Turns -> Seq(Items)]
         /\ got' \in [Turns -> SUBSET (Outcomes \cup {"raised"})]
<1>1. outbox[t] \in Seq(Items) /\ Tail(outbox[t]) \in Seq(Items)
  BY DEF TypeOK
<1>2. outbox' \in [Turns -> Seq(Items)]
  BY <1>1 DEF TypeOK, Pop
<1>3. QED
  BY <1>2 DEF TypeOK, Pop

LEMMA BeginStep == ASSUME StreamInv, NEW t \in Turns, Begin(t) PROVE StreamInv'
<1>1. TypeOK'
  BY DEF StreamInv, TypeOK, Begin, To, work, books
<1>2. \A s \in Turns \ {t} : Same(s)
  BY DEF StreamInv, TypeOK, Begin, To, work, books, Same
<1>3. TurnInv(t)'
  <2>1. /\ reader[t] = "absent" /\ reader'[t] = "opening"
        /\ worker[t] = "none" /\ UNCHANGED <<work, got, books>>
    BY DEF StreamInv, TypeOK, TurnInv, Place, Untold, Unopened, Begin, To
  <2>2. Course(t)'
    BY <2>1 DEF StreamInv, TurnInv, Course, Untold, Unopened, Told, Ended, work
  <2>3. Place(t)' /\ Paid(t)' /\ Released(t)'
    BY <2>1 DEF StreamInv, TurnInv, Place, Untold, Unopened, Paid, Released, Past, Relaying, Booking, work, books
  <2>4. QED
    BY <2>2, <2>3 DEF TurnInv
<1>4. QED
  BY <1>1, <1>2, <1>3, OneTurn

(* The steps that touch no turn. *)
LEMMA QuietStep ==
  ASSUME StreamInv,
         \/ \E t \in Turns : GrowOld(t)
         \/ \E u \in Users : SetEvent(u) \/ \E t \in Turns : LookUp(u, t)
         \/ UNCHANGED vars
  PROVE  StreamInv'
<1>1. TypeOK'
  BY DEF StreamInv, TypeOK, GrowOld, SetEvent, LookUp, vars, stops, work, books
<1>2. UNCHANGED <<table, work, reader, got, books>>
  BY DEF GrowOld, SetEvent, LookUp, vars, stops
<1>3. \A s \in Turns : Same(s)
  BY <1>2 DEF Same, work, books
<1>4. QED
  BY <1>1, <1>3, SameKeeps DEF StreamInv

-----------------------------------------------------------------------------
(* The worker's steps *)

(* Nothing is put. *)
LEMMA WorkerMoves ==
  ASSUME StreamInv, NEW t \in Turns, BeginCall(t) \/ CallReturns(t) \/ Compose(t)
  PROVE  StreamInv'
<1>1. /\ worker[t] \in Early /\ UNCHANGED <<stops, outbox, failed, reader, got, books>>
      /\ \E w \in Early : worker' = [worker EXCEPT ![t] = w]
  BY DEF BeginCall, CallReturns, Compose, Work, Early
<1>2. TypeOK'
  BY <1>1 DEF StreamInv, TypeOK, Early, Alive, stops, books
<1>3. \A s \in Turns \ {t} : Same(s)
  BY <1>1 DEF StreamInv, TypeOK, Same, stops, books
<1>4. worker'[t] \in Early
  BY <1>1 DEF StreamInv, TypeOK
<1>5. Untold(t)'
  BY <1>1 DEF StreamInv, TurnInv, Course, Untold, Unopened
<1>6. Course(t)'
  BY <1>4, <1>5 DEF Course, Untold, Unopened, Early, Late
<1>7. Place(t)' /\ Paid(t)' /\ Released(t)'
  BY <1>1, <1>4 DEF StreamInv, TurnInv, Place, Untold, Unopened, Paid, Released, Early, Late, stops, books
<1>8. QED
  BY <1>2, <1>3, <1>6, <1>7, OneTurn DEF TurnInv

(* The outcome is put. *)
LEMMA WorkerConcludes ==
  ASSUME StreamInv, NEW t \in Turns, NoticeStop(t) \/ Complete(t) \/ Fail(t)
  PROVE  StreamInv'
<1>1. PICK o \in Outcomes, w \in {"closing", "failing"} :
          /\ Put(t, o) /\ Work(t, w) /\ worker[t] \in Early
          /\ w = "failing" <=> o = "error"
          /\ UNCHANGED <<stops, failed, reader, got, books>>
  BY DEF NoticeStop, Complete, Fail, Outcomes, Early
<1>2. TypeOK'
  <2>1. outbox' \in [Turns -> Seq(Items)]
    BY <1>1, PutType DEF StreamInv, Items
  <2>2. QED
    BY <1>1, <2>1 DEF StreamInv, TypeOK, Work, Alive, stops, books
<1>3. \A s \in Turns \ {t} : Same(s)
  BY <1>1 DEF StreamInv, TypeOK, Put, Work, Same, stops, books
<1>4. worker'[t] = w
  BY <1>1 DEF StreamInv, TypeOK, Work
<1>5. outbox[t] = <<>> /\ got[t] = {} /\ t \notin failed
  BY <1>1 DEF StreamInv, TurnInv, Course, Untold, Unopened
<1>6. outbox'[t] = <<o>> /\ got'[t] = {} /\ t \notin failed'
  BY <1>1, <1>5, QueueFacts DEF StreamInv, TypeOK, Put, Items
<1>7. Course(t)'
  BY <1>1, <1>4, <1>6 DEF Course, Untold, Unopened, Told, Early, Late
<1>8. Place(t)' /\ Paid(t)' /\ Released(t)'
  BY <1>1, <1>4 DEF StreamInv, TurnInv, Place, Untold, Unopened, Paid, Released, Early, Late, stops, books
<1>9. QED
  BY <1>2, <1>3, <1>7, <1>8, OneTurn DEF TurnInv

LEMMA WorkerNotes == ASSUME StreamInv, NEW t \in Turns, NoteError(t) PROVE StreamInv'
<1>1. TypeOK'
  BY DEF StreamInv, TypeOK, NoteError, Work, Alive, stops, books
<1>2. \A s \in Turns \ {t} : Same(s)
  BY DEF StreamInv, TypeOK, NoteError, Work, Same, stops, books
<1>3. /\ worker[t] = "failing" /\ worker'[t] = "closing" /\ t \in failed'
      /\ UNCHANGED <<stops, outbox, reader, got, books>>
  BY DEF StreamInv, TypeOK, NoteError, Work
<1>4. Told(t, "error")'
  BY <1>3 DEF StreamInv, TurnInv, Course, Untold, Unopened, Told
<1>5. Course(t)'
  BY <1>3, <1>4 DEF Course, Untold, Unopened, Outcomes, Early, Late
<1>6. Place(t)' /\ Paid(t)' /\ Released(t)'
  BY <1>3 DEF StreamInv, TurnInv, Place, Untold, Unopened, Paid, Released, Late, stops, books
<1>7. QED
  BY <1>1, <1>2, <1>5, <1>6, OneTurn DEF TurnInv

LEMMA WorkerSaysDone == ASSUME StreamInv, NEW t \in Turns, SayDone(t) PROVE StreamInv'
<1>1. TypeOK'
  <2>1. outbox' \in [Turns -> Seq(Items)]
    BY PutType DEF StreamInv, SayDone, Items
  <2>2. QED
    BY <2>1 DEF StreamInv, TypeOK, SayDone, Work, Alive, stops, books
<1>2. \A s \in Turns \ {t} : Same(s)
  BY DEF StreamInv, TypeOK, SayDone, Put, Work, Same, stops, books
<1>3. /\ worker[t] = "closing" /\ worker'[t] = "closed"
      /\ outbox'[t] = Append(outbox[t], "done")
      /\ UNCHANGED <<stops, failed, reader, got, books>>
  BY DEF StreamInv, TypeOK, SayDone, Put, Work
<1>4. PICK o \in Outcomes : Told(t, o) /\ (t \in failed <=> o = "error")
  BY <1>3 DEF StreamInv, TurnInv, Course, Untold, Unopened
<1>5. Ended(t, o)'
  <2>1. Append(<<o>>, "done") = <<o, "done">> /\ Append(<<>>, "done") = <<"done">>
    BY QueueFacts DEF Items
  <2>2. QED
    BY <1>3, <1>4, <2>1 DEF Told, Ended
<1>6. Course(t)'
  BY <1>3, <1>4, <1>5 DEF Course, Untold, Unopened, Early, Late
<1>7. Place(t)' /\ Paid(t)' /\ Released(t)'
  BY <1>3 DEF StreamInv, TurnInv, Place, Untold, Unopened, Paid, Released, Late, stops, books
<1>8. QED
  BY <1>1, <1>2, <1>6, <1>7, OneTurn DEF TurnInv

LEMMA WorkerExits == ASSUME StreamInv, NEW t \in Turns, Exit(t) PROVE StreamInv'
<1>1. TypeOK'
  BY DEF StreamInv, TypeOK, Exit, Work, Alive, stops, books
<1>2. \A s \in Turns \ {t} : Same(s)
  BY DEF StreamInv, TypeOK, Exit, Work, Same, stops, books
<1>3. /\ worker[t] = "closed" /\ worker'[t] = "exited"
      /\ UNCHANGED <<stops, outbox, failed, reader, got, books>>
  BY DEF StreamInv, TypeOK, Exit, Work
<1>4. Course(t)'
  BY <1>3 DEF StreamInv, TurnInv, Course, Untold, Unopened, Ended, Early, Late
<1>5. Place(t)' /\ Paid(t)' /\ Released(t)'
  BY <1>3 DEF StreamInv, TurnInv, Place, Untold, Unopened, Paid, Released, Late, stops, books
<1>6. QED
  BY <1>1, <1>2, <1>4, <1>5, OneTurn DEF TurnInv

LEMMA WorkerStep == ASSUME StreamInv, NEW t \in Turns, Worker(t) PROVE StreamInv'
  BY WorkerMoves, WorkerConcludes, WorkerNotes, WorkerSaysDone, WorkerExits DEF Worker

-----------------------------------------------------------------------------
(* The reader's steps *)

LEMMA WorkerBegins == ASSUME StreamInv, NEW t \in Turns, StartWorker(t) PROVE StreamInv'
<1>1. TypeOK'
  BY DEF StreamInv, TypeOK, StartWorker, Work, To, Alive, stops, books
<1>2. \A s \in Turns \ {t} : Same(s)
  BY DEF StreamInv, TypeOK, StartWorker, Work, To, Same, stops, books
<1>3. /\ reader[t] = "opening" /\ reader'[t] = "waiting"
      /\ worker[t] = "none" /\ worker'[t] = "between"
      /\ UNCHANGED <<stops, outbox, failed, got, books>>
  BY DEF StreamInv, TypeOK, TurnInv, Place, Untold, Unopened, StartWorker, Work, To
<1>4. Untold(t)'
  BY <1>3 DEF StreamInv, TurnInv, Place, Untold
<1>5. Course(t)'
  BY <1>3, <1>4 DEF Course, Untold, Unopened, Early, Late
<1>6. Place(t)' /\ Paid(t)' /\ Released(t)'
  BY <1>3 DEF StreamInv, TurnInv, Place, Untold, Unopened, Paid, Released, Past, Relaying, Booking, stops, books
<1>7. QED
  BY <1>1, <1>2, <1>5, <1>6, OneTurn DEF TurnInv

(* What the head of the queue can be, and what is left behind it. *)
LEMMA Popped ==
  ASSUME StreamInv, NEW t \in Turns, outbox[t] # <<>>, Pop(t), UNCHANGED <<worker, failed>>
  PROVE  /\ Course(t)' /\ "raised" \notin got[t] /\ "raised" \notin got'[t]
         /\ Head(outbox[t]) = "done" => worker[t] \in Late
         /\ worker[t] \notin Silent
<1>1. /\ outbox'[t] = Tail(outbox[t])
      /\ got'[t] = got[t] \cup ({Head(outbox[t])} \cap Outcomes)
  BY DEF StreamInv, TypeOK, Pop
<1>2. worker[t] \notin Silent
  BY DEF StreamInv, TurnInv, Course, Untold, Unopened, Silent
<1>3. ASSUME NEW o \in Outcomes, Told(t, o)
      PROVE  Told(t, o)' /\ Head(outbox[t]) # "done"
             /\ "raised" \notin got[t] /\ "raised" \notin got'[t]
  <2>1. outbox[t] = <<o>> /\ got[t] = {}
    BY <1>3 DEF Told
  <2>2. Head(outbox[t]) = o /\ Tail(outbox[t]) = <<>>
    BY <2>1, QueueFacts DEF Items
  <2>3. outbox'[t] = <<>> /\ got'[t] = {o}
    BY <1>1, <2>1, <2>2
  <2>4. QED
    BY <2>1, <2>2, <2>3 DEF Told, Outcomes
<1>4. ASSUME NEW o \in Outcomes, Ended(t, o)
      PROVE  Ended(t, o)' /\ "raised" \notin got[t] /\ "raised" \notin got'[t]
  <2>1. CASE outbox[t] = <<o, "done">> /\ got[t] = {}
    <3>1. Head(outbox[t]) = o /\ Tail(outbox[t]) = <<"done">>
      BY <2>1, QueueFacts DEF Items
    <3>2. outbox'[t] = <<"done">> /\ got'[t] = {o}
      BY <1>1, <2>1, <3>1
    <3>3. QED
      BY <2>1, <3>2 DEF Ended, Outcomes
  <2>2. CASE outbox[t] = <<"done">> /\ got[t] = {o}
    <3>1. Head(outbox[t]) = "done" /\ Tail(outbox[t]) = <<>>
      BY <2>2, QueueFacts DEF Items
    <3>2. outbox'[t] = <<>> /\ got'[t] = {o}
      BY <1>1, <2>2, <3>1 DEF Outcomes
    <3>3. QED
      BY <2>2, <3>2 DEF Ended, Outcomes
  <2>3. QED
    BY <1>4, <2>1, <2>2 DEF Ended
<1>5. CASE worker[t] = "failing"
  <2>1. Told(t, "error") /\ t \notin failed
    BY <1>5 DEF StreamInv, TurnInv, Course, Untold, Unopened
  <2>2. Told(t, "error")' /\ Head(outbox[t]) # "done"
        /\ "raised" \notin got[t] /\ "raised" \notin got'[t]
    BY <1>3, <2>1 DEF Outcomes
  <2>3. QED
    BY <1>2, <1>5, <2>1, <2>2 DEF Course, Untold, Unopened, Late, Early, Silent
<1>6. CASE worker[t] = "closing"
  <2>1. PICK o \in Outcomes : Told(t, o) /\ (t \in failed <=> o = "error")
    BY <1>6 DEF StreamInv, TurnInv, Course, Untold, Unopened
  <2>2. Told(t, o)' /\ Head(outbox[t]) # "done"
        /\ "raised" \notin got[t] /\ "raised" \notin got'[t]
    BY <1>3, <2>1
  <2>3. QED
    BY <1>2, <1>6, <2>1, <2>2 DEF Course, Untold, Unopened, Late, Early, Silent
<1>7. CASE worker[t] \in Late
  <2>1. PICK o \in Outcomes : Ended(t, o) /\ (t \in failed <=> o = "error")
    BY <1>7 DEF StreamInv, TurnInv, Course, Untold, Unopened
  <2>2. Ended(t, o)' /\ "raised" \notin got[t] /\ "raised" \notin got'[t]
    BY <1>4, <2>1
  <2>3. QED
    BY <1>2, <1>7, <2>1, <2>2 DEF Course, Untold, Unopened, Late, Early, Silent
<1>8. QED
  BY <1>2, <1>5, <1>6, <1>7 DEF StreamInv, TypeOK, Alive, Early, Silent, Late

(* An item is taken, before the sentinel or after. *)
LEMMA ReaderTakes ==
  ASSUME StreamInv, NEW t \in Turns, Take(t) \/ Drain(t) PROVE StreamInv'
<1>1. /\ outbox[t] # <<>> /\ Pop(t) /\ UNCHANGED <<stops, worker, failed, books>>
      /\ \E p \in {"sent", "draining", "drain_sent"} : To(t, p)
  BY DEF Take, Drain
<1>2. reader'[t] \in {"draining", "drain_sent"} => worker[t] \in Late
  <2>1. CASE Take(t)
    BY <1>1, <2>1, Popped DEF StreamInv, TypeOK, Take, To
  <2>2. CASE Drain(t)
    BY <2>2 DEF StreamInv, TurnInv, Place, Untold, Unopened, Drain
  <2>3. QED
    BY <2>1, <2>2
<1>3. reader[t] \in {"waiting", "draining"}
      /\ reader'[t] \in {"sent", "draining", "drain_sent"}
  BY <1>1 DEF StreamInv, TypeOK, Take, Drain, To
<1>4. TypeOK'
  <2>1. /\ outbox' \in [Turns -> Seq(Items)]
        /\ got' \in [Turns -> SUBSET (Outcomes \cup {"raised"})]
    BY <1>1, PopType DEF StreamInv
  <2>2. reader' \in [Turns -> {"absent", "opening", "waiting", "timed_out", "sent",
                            "draining", "drain_sent", "left"} \cup Past]
    BY <1>1 DEF StreamInv, TypeOK, To
  <2>3. QED
    BY <1>1, <2>1, <2>2 DEF StreamInv, TypeOK, stops, books
<1>5. \A s \in Turns \ {t} : Same(s)
  BY <1>1 DEF StreamInv, TypeOK, Pop, To, Same, stops, books
<1>6. Course(t)' /\ "raised" \notin got'[t] /\ worker[t] \notin Silent
  BY <1>1, Popped
<1>7. Place(t)' /\ Paid(t)' /\ Released(t)'
  BY <1>1, <1>2, <1>3, <1>6
  DEF StreamInv, TurnInv, Place, Untold, Unopened, Paid, Released, Past, Relaying, Booking, Early, Silent, stops, books
<1>8. QED
  BY <1>4, <1>5, <1>6, <1>7, OneTurn DEF TurnInv

(* The reader moves on and hands out nothing. *)
LEMMA ReaderMoves ==
  ASSUME StreamInv, NEW t \in Turns, TimeOut(t) \/ AskWorker(t) \/ Resume(t)
  PROVE  StreamInv'
<1>1. UNCHANGED <<stops, work, got, books>>
  BY DEF TimeOut, AskWorker, Resume
<1>2. \E p \in {"timed_out", "waiting", "sent", "draining", "settling", "session"} : To(t, p)
  BY DEF TimeOut, AskWorker, Resume
<1>3. \/ /\ reader[t] \in {"waiting", "timed_out", "sent"}
         /\ reader'[t] \in {"timed_out", "waiting", "sent"}
      \/ /\ reader[t] = "timed_out" /\ reader'[t] = "draining" /\ worker[t] = "exited"
      \/ /\ reader[t] = "drain_sent" /\ reader'[t] = "draining"
      \/ /\ reader[t] \in Booking /\ reader'[t] \in Booking
  BY DEF StreamInv, TypeOK, TimeOut, AskWorker, Resume, To, Booking
<1>4. TypeOK'
  BY <1>1, <1>2 DEF StreamInv, TypeOK, To, Past, stops, work, books
<1>5. \A s \in Turns \ {t} : Same(s)
  BY <1>1, <1>2 DEF StreamInv, TypeOK, To, Same, stops, work, books
<1>6. Course(t)'
  BY <1>1 DEF StreamInv, TurnInv, Course, Untold, Unopened, Told, Ended, work
<1>7. Place(t)' /\ Paid(t)' /\ Released(t)'
  BY <1>1, <1>3
  DEF StreamInv, TurnInv, Place, Untold, Unopened, Paid, Released, Past, Relaying, Booking, Late, stops, work, books
<1>8. QED
  BY <1>4, <1>5, <1>6, <1>7, OneTurn DEF TurnInv

(* The events are over: the exception joins what was handed out. *)
LEMMA ReaderFinishes == ASSUME StreamInv, NEW t \in Turns, Finish(t) PROVE StreamInv'
<1>1. TypeOK'
  BY DEF StreamInv, TypeOK, Finish, To, Past, work, books
<1>2. \A s \in Turns \ {t} : Same(s)
  BY DEF StreamInv, TypeOK, Finish, To, Same, work, books
<1>3. /\ reader[t] = "draining" /\ reader'[t] = "finished" /\ outbox[t] = <<>>
      /\ got'[t] = got[t] \cup IF t \in failed THEN {"raised"} ELSE {}
      /\ t \notin table' /\ UNCHANGED <<work, books>>
  BY DEF StreamInv, TypeOK, Finish, To
<1>4. worker[t] \in Late /\ "raised" \notin got[t]
  BY <1>3 DEF StreamInv, TurnInv, Place, Untold, Unopened, Past
<1>5. PICK o \in Outcomes : Ended(t, o) /\ (t \in failed <=> o = "error")
  BY <1>4 DEF StreamInv, TurnInv, Course, Untold, Unopened
<1>6. got[t] = {o}
  BY <1>3, <1>4, <1>5 DEF Ended
<1>7. got'[t] \in {{o}, {o, "raised"}} /\ ("error" \in got'[t] <=> "raised" \in got'[t])
  BY <1>3, <1>5, <1>6 DEF Outcomes
<1>8. Ended(t, o)'
  BY <1>3, <1>7 DEF Ended, work
<1>9. Course(t)'
  BY <1>3, <1>4, <1>5, <1>8 DEF Course, Untold, Unopened, Early, Late, work
<1>10. Place(t)' /\ Paid(t)' /\ Released(t)'
  BY <1>3, <1>4, <1>7
  DEF StreamInv, TurnInv, Place, Untold, Unopened, Paid, Released, Past, Relaying, Booking, Late, work, books
<1>11. QED
  BY <1>1, <1>2, <1>9, <1>10, OneTurn DEF TurnInv

(* The turn is charged, recorded and answered: only the stores change. *)
LEMMA ReaderBooks ==
  ASSUME StreamInv, NEW t \in Turns,
         Charge(t) \/ UpdateMemory(t) \/ AppendSessionTurn(t) \/ Respond(t)
  PROVE  StreamInv'
<1>1. UNCHANGED <<stops, work, got>> /\ \E p \in Past : To(t, p)
  BY DEF Charge, UpdateMemory, AppendSessionTurn, Respond, Past, books
<1>2. reader[t] \in Past /\ reader'[t] \in Past
  BY <1>1 DEF StreamInv, TypeOK, Charge, UpdateMemory, AppendSessionTurn, Respond, To, Past
<1>3. \/ \E a \in {"charged", "lost"} : account' = [account EXCEPT ![t] = a]
      \/ UNCHANGED account
  BY DEF Charge, UpdateMemory, AppendSessionTurn, Respond, books
<1>4. got[t] \cap {"completed", "cancelled", "raised"} # {}
  BY <1>2, InvMeansOutcome DEF OutcomeReachesReader, Outcomes
<1>5. Entry(t) \in {"answered", "stopped", "failed"}
  BY <1>4 DEF Entry, Outcomes
<1>6. \/ \E k \in {"answered", "stopped", "failed"} : kept' = [kept EXCEPT ![t] = k]
      \/ UNCHANGED kept
  BY <1>5 DEF Charge, UpdateMemory, AppendSessionTurn, Respond, books
<1>7. TypeOK'
  <2>1. account' \in [Turns -> {"open", "charged", "lost"}]
    BY <1>3 DEF StreamInv, TypeOK
  <2>2. kept' \in [Turns -> {"nothing", "answered", "stopped", "failed"}]
    BY <1>6 DEF StreamInv, TypeOK
  <2>3. reader' \in [Turns -> {"absent", "opening", "waiting", "timed_out", "sent",
                            "draining", "drain_sent", "left"} \cup Past]
    BY <1>1 DEF StreamInv, TypeOK, To
  <2>4. QED
    BY <1>1, <2>1, <2>2, <2>3 DEF StreamInv, TypeOK, stops, work
<1>8. \A s \in Turns \ {t} : Same(s)
  BY <1>1, <1>3, <1>6 DEF StreamInv, TypeOK, To, Same, stops, work
<1>9. Course(t)'
  BY <1>1 DEF StreamInv, TurnInv, Course, Untold, Unopened, Told, Ended, work
<1>10. Place(t)' /\ Released(t)'
  BY <1>1, <1>2 DEF StreamInv, TurnInv, Place, Untold, Unopened, Released, Past, stops, work
<1>11. Paid(t)'
  <2>1. CASE Charge(t)
    <3>1. reader[t] = "finished" /\ reader'[t] \in Booking /\ kept'[t] = "nothing"
      BY <2>1 DEF StreamInv, TypeOK, TurnInv, Paid, Charge, To, Booking
    <3>2. "completed" \in got[t] /\ t \in Metered => account'[t] # "open"
      BY <2>1 DEF StreamInv, TypeOK, Charge
    <3>3. QED
      BY <1>1, <3>1, <3>2 DEF Paid, Relaying, Booking
  <2>2. CASE UpdateMemory(t) /\ To(t, "unsaved") /\ UNCHANGED kept
    BY <2>2 DEF StreamInv, TypeOK, TurnInv, Paid, UpdateMemory, To, Relaying, Booking, stops, work
  <2>3. CASE To(t, "recorded") \/ Respond(t)
    <3>1. reader'[t] \in {"recorded", "raised", "responded"}
      BY <2>3 DEF StreamInv, TypeOK, Respond, To
    <3>2. QED
      BY <3>1 DEF Paid, Relaying, Booking
  <2>4. QED
    BY <2>1, <2>2, <2>3 DEF UpdateMemory, AppendSessionTurn
<1>12. QED
  BY <1>7, <1>8, <1>9, <1>10, <1>11, OneTurn DEF TurnInv

(* The worker is not started: the exception is all there is. *)
LEMMA ReaderUnopened == ASSUME StreamInv, NEW t \in Turns, OpenFails(t) PROVE StreamInv'
<1>1. TypeOK'
  BY DEF StreamInv, TypeOK, OpenFails, To, Past, stops, work, books
<1>2. \A s \in Turns \ {t} : Same(s)
  BY DEF StreamInv, TypeOK, OpenFails, To, Same, stops, work, books
<1>3. /\ reader[t] = "opening" /\ reader'[t] = "finished"
      /\ got'[t] = {"raised"} /\ UNCHANGED <<stops, work, books>>
  BY DEF StreamInv, TypeOK, OpenFails, To
<1>4. worker[t] = "none" /\ Unopened(t)'
  BY <1>3 DEF StreamInv, TurnInv, Place, Untold, Unopened, work
<1>5. Course(t)'
  BY <1>3, <1>4 DEF Course, Early, Late, work
<1>6. Place(t)' /\ Paid(t)' /\ Released(t)'
  BY <1>3, <1>4
  DEF StreamInv, TurnInv, Place, Paid, Released, Past, Relaying, Booking, work, books
<1>7. QED
  BY <1>1, <1>2, <1>5, <1>6, OneTurn DEF TurnInv

LEMMA ReaderStep == ASSUME StreamInv, NEW t \in Turns, Reader(t) PROVE StreamInv'
  BY WorkerBegins, ReaderUnopened, ReaderTakes, ReaderMoves, ReaderFinishes, ReaderBooks
  DEF Reader

LEMMA LeaveStep == ASSUME StreamInv, NEW t \in Turns, Leave(t) PROVE StreamInv'
<1>1. /\ To(t, "left") /\ UNCHANGED <<held, work, got, books>>
      /\ table' \in {table, table \ {t}} /\ old' \in {old, old \ {t}}
      /\ stopped' \in {stopped, stopped \cup {t}}
  BY DEF Leave, LeaveOpening, LeaveStream, LeaveLate, stops
<1>2. TypeOK'
  <2>1. table' \subseteq Turns /\ old' \subseteq table' /\ stopped' \subseteq Turns
    BY DEF StreamInv, TypeOK, Leave, LeaveOpening, LeaveStream, LeaveLate, stops
  <2>2. QED
    BY <1>1, <2>1 DEF StreamInv, TypeOK, To, work, books
<1>3. \A s \in Turns \ {t} : Same(s)
  BY <1>1 DEF StreamInv, TypeOK, To, Same, work, books
<1>4. reader'[t] = "left"
  BY <1>1 DEF StreamInv, TypeOK, To
<1>5. t \in table' => worker[t] = "none"
  <2>1. CASE LeaveOpening(t)
    BY <2>1 DEF StreamInv, TurnInv, Place, Untold, Unopened, LeaveOpening
  <2>2. CASE LeaveStream(t)
    BY <2>2 DEF LeaveStream
  <2>3. CASE LeaveLate(t)
    BY <2>3 DEF StreamInv, TurnInv, Released, LeaveLate, Past, stops
  <2>4. QED
    BY <2>1, <2>2, <2>3 DEF Leave
<1>6. Course(t)'
  BY <1>1 DEF StreamInv, TurnInv, Course, Untold, Unopened, Told, Ended, work
<1>7. Place(t)' /\ Paid(t)' /\ Released(t)'
  BY <1>1, <1>4, <1>5 DEF Place, Untold, Unopened, Paid, Released, Past, Relaying, Booking, work
<1>8. QED
  BY <1>2, <1>3, <1>6, <1>7, OneTurn DEF TurnInv

LEMMA InvStep == StreamInv /\ [Next]_vars => StreamInv'
  BY BeginStep, QuietStep, WorkerStep, ReaderStep, LeaveStep DEF Next

LEMMA InvAlways == Spec => []StreamInv
  BY InitInv, InvStep, PTL DEF Spec

(* Every variable keeps its type, and the conversation never holds a blank  *)
(* in place of a turn, whatever the turns, their owners and their readers.  *)
THEOREM TypeCorrect == Spec => []TypeOK
<1>1. StreamInv => TypeOK
  BY DEF StreamInv
<1>2. QED
  BY <1>1, InvAlways, PTL

(* A reader that stays to the end of the events has the worker's one        *)
(* outcome, by the sentinel or by an empty queue and a dead worker.         *)
THEOREM OutcomesReach == Spec => []OutcomeReachesReader
  BY InvMeansOutcome, InvAlways, PTL

(* No handle outlives the reading of its turn.                              *)
THEOREM HandlesReleased == Spec => []HandleReleased
  BY InvMeansReleased, InvAlways, PTL

-----------------------------------------------------------------------------
(* The refinement of TurnContract *)

Fate == [t \in Turns |-> FateOf(t)]

(* A turn's fate is the outcome its worker has put, read or not. *)
LEMMA FateUntold == ASSUME NEW t \in Turns, Untold(t) PROVE FateOf(t) = "pending"
<1>1. ToSet(outbox[t]) = {}
  BY DEF Untold, ToSet
<1>2. QED
  BY <1>1 DEF FateOf, Produced, Untold

EndOf(o) == CASE o = "completed" -> "answered" [] o = "cancelled" -> "stopped"
               [] o = "error" -> "failed"

LEMMA FateTold ==
  ASSUME NEW t \in Turns, NEW o \in Outcomes, Told(t, o) \/ Ended(t, o)
  PROVE  FateOf(t) = EndOf(o) /\ Produced(t) \cap Outcomes = {o}
<1>1. /\ ToSet(<<>>) = {} /\ ToSet(<<o>>) = {o}
      /\ ToSet(<<"done">>) = {"done"} /\ ToSet(<<o, "done">>) = {o, "done"}
  BY DEF ToSet
<1>2. Produced(t) \cap Outcomes = {o}
  BY <1>1 DEF Told, Ended, Produced, Outcomes
<1>3. \A x \in Outcomes : x \in Produced(t) <=> x = o
  BY <1>2
<1>4. CASE o = "error"
  <2>1. "completed" \notin Produced(t) /\ "cancelled" \notin Produced(t)
    BY <1>3, <1>4 DEF Outcomes
  <2>2. "error" \in Produced(t)
    BY <1>3, <1>4 DEF Outcomes
  <2>3. QED
    BY <1>2, <1>4, <2>1, <2>2 DEF FateOf, EndOf
<1>5. CASE o = "cancelled"
  <2>1. Produced(t) \cap Outcomes = {"cancelled"} /\ Produced(t) # {"raised"}
        /\ "completed" \notin Produced(t) /\ "cancelled" \in Produced(t)
        /\ "error" \notin Produced(t)
    BY <1>2, <1>3, <1>5 DEF Outcomes
  <2>2. QED
    BY <1>2, <1>5, <2>1 DEF FateOf, EndOf
<1>6. CASE o = "completed"
  <2>1. Produced(t) \cap Outcomes = {"completed"} /\ Produced(t) # {"raised"}
        /\ "completed" \in Produced(t) /\ "cancelled" \notin Produced(t)
        /\ "error" \notin Produced(t)
    BY <1>2, <1>3, <1>6 DEF Outcomes
  <2>2. QED
    BY <1>2, <1>6, <2>1 DEF FateOf, EndOf
<1>7. QED
  BY <1>4, <1>5, <1>6 DEF Outcomes

(* The same of the state a step leads to. *)
LEMMA FateUntoldNext == ASSUME NEW t \in Turns, Untold(t)' PROVE FateOf(t)' = "pending"
<1>1. ToSet(outbox[t])' = {}
  BY DEF Untold, ToSet
<1>2. QED
  BY <1>1 DEF FateOf, Produced, Untold

LEMMA FateToldNext ==
  ASSUME NEW t \in Turns, NEW o \in Outcomes, Told(t, o)' \/ Ended(t, o)'
  PROVE  FateOf(t)' = EndOf(o) /\ Produced(t)' \cap Outcomes = {o}
<1>1. /\ ToSet(<<>>) = {} /\ ToSet(<<o>>) = {o}
      /\ ToSet(<<"done">>) = {"done"} /\ ToSet(<<o, "done">>) = {o, "done"}
  BY DEF ToSet
<1>2. Produced(t)' \cap Outcomes = {o}
  BY <1>1 DEF Told, Ended, Produced, Outcomes
<1>3. \A x \in Outcomes : x \in Produced(t)' <=> x = o
  BY <1>2
<1>4. CASE o = "error"
  <2>1. "completed" \notin Produced(t)' /\ "cancelled" \notin Produced(t)'
    BY <1>3, <1>4 DEF Outcomes
  <2>2. "error" \in Produced(t)'
    BY <1>3, <1>4 DEF Outcomes
  <2>3. QED
    BY <1>2, <1>4, <2>1, <2>2 DEF FateOf, EndOf
<1>5. CASE o = "cancelled"
  <2>1. Produced(t)' \cap Outcomes = {"cancelled"} /\ Produced(t)' # {"raised"}
        /\ "completed" \notin Produced(t)' /\ "cancelled" \in Produced(t)'
        /\ "error" \notin Produced(t)'
    BY <1>2, <1>3, <1>5 DEF Outcomes
  <2>2. QED
    BY <1>2, <1>5, <2>1 DEF FateOf, EndOf
<1>6. CASE o = "completed"
  <2>1. Produced(t)' \cap Outcomes = {"completed"} /\ Produced(t)' # {"raised"}
        /\ "completed" \in Produced(t)' /\ "cancelled" \notin Produced(t)'
        /\ "error" \notin Produced(t)'
    BY <1>2, <1>3, <1>6 DEF Outcomes
  <2>2. QED
    BY <1>2, <1>6, <2>1 DEF FateOf, EndOf
<1>7. QED
  BY <1>4, <1>5, <1>6 DEF Outcomes

(* By where the worker stands. *)
LEMMA Standing ==
  ASSUME StreamInv, NEW t \in Turns
  PROVE  /\ worker[t] \in Early => Untold(t)
         /\ worker[t] \notin Silent =>
               \E o \in Outcomes : Told(t, o) \/ Ended(t, o)
  BY DEF StreamInv, TypeOK, TurnInv, Course, Early, Silent, Late, Alive, Outcomes

LEMMA StandingNext ==
  ASSUME StreamInv', NEW t \in Turns
  PROVE  /\ worker'[t] \in Early => Untold(t)'
         /\ worker'[t] \notin Silent =>
               \E o \in Outcomes : Told(t, o)' \/ Ended(t, o)'
  BY DEF StreamInv, TypeOK, TurnInv, Course, Early, Silent, Late, Alive, Outcomes

(* What was put stays put: the fate of a turn is decided once. *)
LEMMA FateKept ==
  ASSUME StreamInv, StreamInv', NEW t \in Turns,
         worker[t] \notin Silent, worker'[t] \notin Silent,
         Produced(t) \cap Outcomes \subseteq Produced(t)'
  PROVE  FateOf(t)' = FateOf(t)
<1>1. PICK o \in Outcomes : Told(t, o) \/ Ended(t, o)
  BY Standing
<1>2. PICK p \in Outcomes : Told(t, p)' \/ Ended(t, p)'
  BY StandingNext
<1>3. FateOf(t) = EndOf(o) /\ Produced(t) \cap Outcomes = {o}
  BY <1>1, FateTold
<1>4. FateOf(t)' = EndOf(p) /\ Produced(t)' \cap Outcomes = {p}
  BY <1>2, FateToldNext
<1>5. o = p
  BY <1>3, <1>4
<1>6. QED
  BY <1>3, <1>4, <1>5

LEMMA FateSame ==
  ASSUME NEW s \in Turns, outbox'[s] = outbox[s], got'[s] = got[s]
  PROVE  FateOf(s)' = FateOf(s)
  BY DEF FateOf, Produced

-----------------------------------------------------------------------------
(* Each step of the threads is one of the contract, or none *)

LEMMA StepConcludes ==
  ASSUME StreamInv, StreamInv', NEW t \in Turns, NoticeStop(t) \/ Complete(t) \/ Fail(t)
  PROVE  Contract!Conclude(t)
<1>1. /\ worker[t] \in Early /\ worker'[t] \notin Silent
      /\ UNCHANGED <<got, account, kept>>
      /\ \A s \in Turns \ {t} : outbox'[s] = outbox[s]
  BY DEF StreamInv, TypeOK, NoticeStop, Complete, Fail, Put, Work, Early, Silent, books
<1>2. FateOf(t) = "pending"
  BY <1>1, Standing, FateUntold
<1>3. PICK o \in Outcomes : FateOf(t)' = EndOf(o)
  BY <1>1, StandingNext, FateToldNext
<1>4. EndOf(o) \in Contract!Fates
  BY DEF EndOf, Outcomes, Contract!Fates
<1>5. \A s \in Turns \ {t} : FateOf(s)' = FateOf(s)
  BY <1>1, FateSame
<1>6. Fate' = [Fate EXCEPT ![t] = EndOf(o)]
  BY <1>3, <1>5 DEF Fate
<1>7. QED
  BY <1>1, <1>2, <1>4, <1>6 DEF Fate, Contract!Conclude

(* A turn whose worker was never started has failed. *)
LEMMA StepUnopened ==
  ASSUME StreamInv, NEW t \in Turns, OpenFails(t)
  PROVE  Contract!Conclude(t)
<1>1. /\ got'[t] = {"raised"} /\ Untold(t) /\ UNCHANGED <<outbox, account, kept>>
      /\ \A s \in Turns \ {t} : got'[s] = got[s]
  BY DEF StreamInv, TypeOK, TurnInv, Place, OpenFails, work, books
<1>2. FateOf(t) = "pending"
  BY <1>1, FateUntold
<1>3. Produced(t)' = {"raised"}
  BY <1>1 DEF Produced, Untold, ToSet
<1>4. FateOf(t)' = "failed" /\ "failed" \in Contract!Fates
  BY <1>3 DEF FateOf, Contract!Fates
<1>5. \A s \in Turns \ {t} : FateOf(s)' = FateOf(s)
  BY <1>1, FateSame
<1>6. Fate' = [Fate EXCEPT ![t] = "failed"]
  BY <1>4, <1>5 DEF Fate
<1>7. QED
  BY <1>1, <1>2, <1>4, <1>6 DEF Fate, Contract!Conclude

(* The stores take what the worker did. *)
LEMMA EntryIsFate ==
  ASSUME StreamInv, NEW t \in Turns, reader[t] \in Past
  PROVE  /\ Entry(t) = FateOf(t) /\ FateOf(t) # "pending"
         /\ FateOf(t) = "answered" <=> "completed" \in got[t]
<1>1. /\ ToSet(outbox[t]) = {} 
      /\ \/ got[t] = {"raised"}
         \/ /\ \E o \in Outcomes : got[t] \cap Outcomes = {o}
            /\ "error" \in got[t] <=> "raised" \in got[t]
  <2>1. OutcomeReachesReader
    BY InvMeansOutcome
  <2>2. outbox[t] = <<>>
    BY DEF StreamInv, TurnInv, Place, Unopened
  <2>3. QED
    BY <2>1, <2>2 DEF OutcomeReachesReader, ToSet
<1>2. Produced(t) = got[t]
  BY <1>1 DEF Produced
<1>3. CASE got[t] = {"raised"}
  BY <1>2, <1>3 DEF Entry, FateOf
<1>4. CASE /\ \E o \in Outcomes : got[t] \cap Outcomes = {o}
           /\ "error" \in got[t] <=> "raised" \in got[t]
  BY <1>2, <1>4 DEF Entry, FateOf, Outcomes
<1>5. QED
  BY <1>1, <1>3, <1>4

LEMMA StepBooks ==
  ASSUME StreamInv, NEW t \in Turns,
         Charge(t) \/ UpdateMemory(t) \/ AppendSessionTurn(t) \/ Respond(t)
  PROVE  Contract!Settle(t) \/ Contract!Keep(t) \/ UNCHANGED Contract!vars
<1>1. UNCHANGED <<outbox, got>> /\ reader[t] \in Past
  BY DEF Charge, UpdateMemory, AppendSessionTurn, Respond, work, Past
<1>2. Fate' = Fate
  BY <1>1, FateSame DEF Fate
<1>3. /\ Entry(t) = FateOf(t) /\ FateOf(t) # "pending" /\ Fate[t] = FateOf(t)
      /\ FateOf(t) = "answered" <=> "completed" \in got[t]
  BY <1>1, EntryIsFate DEF Fate
<1>4. CASE Charge(t)
  <2>1. account[t] = "open" /\ kept[t] = "nothing" /\ UNCHANGED kept
    BY <1>4 DEF StreamInv, TurnInv, Paid, Charge
  <2>2. CASE "completed" \in got[t] /\ t \in Metered
    BY <1>2, <1>3, <1>4, <2>1, <2>2 DEF Charge, Fate, Contract!Settle
  <2>3. CASE ~("completed" \in got[t] /\ t \in Metered)
    BY <1>2, <1>4, <2>1, <2>3 DEF Charge, Fate, Contract!vars
  <2>4. QED
    BY <2>2, <2>3
<1>5. CASE reader[t] \in Booking /\ UNCHANGED account
           /\ kept' = [kept EXCEPT ![t] = Entry(t)]
  <2>1. kept[t] = "nothing" /\ ("completed" \in got[t] /\ t \in Metered => account[t] # "open")
    BY <1>5 DEF StreamInv, TurnInv, Paid
  <2>2. QED
    BY <1>2, <1>3, <1>5, <2>1 DEF Fate, Contract!Keep
<1>6. CASE UNCHANGED <<account, kept>>
  BY <1>2, <1>6 DEF Fate, Contract!vars
<1>7. QED
  BY <1>4, <1>5, <1>6 DEF UpdateMemory, AppendSessionTurn, Respond, Booking, books

(* An item handed on, the sentinel put and an exception noted leave the     *)
(* fate as it is.                                                           *)
LEMMA StepRelays ==
  ASSUME StreamInv, StreamInv', NEW t \in Turns,
         SayDone(t) \/ Take(t) \/ Drain(t) \/ Finish(t)
  PROVE  UNCHANGED Contract!vars
<1>1. UNCHANGED <<account, kept>>
  BY DEF SayDone, Take, Drain, Finish, books
<1>2. \A s \in Turns \ {t} : outbox'[s] = outbox[s] /\ got'[s] = got[s]
  BY DEF StreamInv, TypeOK, SayDone, Take, Drain, Finish, Put, Pop, work
<1>3. outbox[t] \in Seq(Items)
  BY DEF StreamInv, TypeOK
<1>4. ASSUME SayDone(t) PROVE FateOf(t)' = FateOf(t)
  <2>1. /\ outbox'[t] = Append(outbox[t], "done") /\ got'[t] = got[t]
        /\ worker[t] \notin Silent /\ worker'[t] \notin Silent
    BY <1>4 DEF StreamInv, TypeOK, SayDone, Put, Work, Early, Silent
  <2>2. ToSet(outbox[t]) \subseteq ToSet(outbox'[t])
    BY <1>3, <2>1, AppendProperties DEF ToSet, Items
  <2>3. QED
    BY <2>1, <2>2, FateKept DEF Produced
<1>5. ASSUME Take(t) \/ Drain(t) PROVE FateOf(t)' = FateOf(t)
  <2>1. /\ outbox[t] # <<>> /\ Pop(t) /\ UNCHANGED <<worker, failed>>
    BY <1>5 DEF Take, Drain
  <2>2. /\ outbox'[t] = Tail(outbox[t])
        /\ got'[t] = got[t] \cup ({Head(outbox[t])} \cap Outcomes)
    BY <2>1 DEF StreamInv, TypeOK, Pop
  <2>3. ToSet(outbox[t]) \subseteq {Head(outbox[t])} \cup ToSet(outbox'[t])
    <3>1. ASSUME NEW i \in DOMAIN outbox[t], i # 1
          PROVE  \E j \in DOMAIN Tail(outbox[t]) : Tail(outbox[t])[j] = outbox[t][i]
      <4>1. i - 1 \in DOMAIN Tail(outbox[t]) /\ Tail(outbox[t])[i - 1] = outbox[t][i]
        BY <1>3, <2>1, <3>1, HeadTailProperties
      <4>2. QED
        BY <4>1
    <3>2. Head(outbox[t]) = outbox[t][1]
      BY <1>3, <2>1
    <3>3. QED
      BY <2>2, <3>1, <3>2 DEF ToSet
  <2>4. Produced(t) \cap Outcomes \subseteq Produced(t)'
    BY <2>2, <2>3 DEF Produced
  <2>5. worker[t] \notin Silent /\ worker'[t] \notin Silent
    BY <2>1, Popped
  <2>6. QED
    BY <2>4, <2>5, FateKept
<1>6. ASSUME Finish(t) PROVE FateOf(t)' = FateOf(t)
  <2>1. /\ outbox'[t] = outbox[t] /\ got[t] \subseteq got'[t] /\ worker'[t] = worker[t]
    BY <1>6 DEF StreamInv, TypeOK, Finish, work
  <2>2. worker[t] \notin Silent
    BY <1>6 DEF StreamInv, TurnInv, Place, Finish, Late, Early, Silent
  <2>3. QED
    BY <2>1, <2>2, FateKept DEF Produced
<1>7. FateOf(t)' = FateOf(t)
  BY <1>4, <1>5, <1>6
<1>8. \A s \in Turns : FateOf(s)' = FateOf(s)
  BY <1>2, <1>7, FateSame
<1>9. QED
  BY <1>1, <1>8 DEF Contract!vars

LEMMA StepElsewhere ==
  ASSUME UNCHANGED <<outbox, got, account, kept>> PROVE UNCHANGED Contract!vars
  BY FateSame DEF Contract!vars

LEMMA StepMaps == StreamInv /\ StreamInv' /\ [Next]_vars => [Contract!Next]_(Contract!vars)
<1> SUFFICES ASSUME StreamInv, StreamInv', [Next]_vars
             PROVE  Contract!Next \/ UNCHANGED Contract!vars
  OBVIOUS
<1>1. ASSUME NEW t \in Turns, Worker(t) PROVE Contract!Next \/ UNCHANGED Contract!vars
  <2>1. CASE NoticeStop(t) \/ Complete(t) \/ Fail(t)
    BY <2>1, StepConcludes DEF Contract!Next
  <2>2. CASE SayDone(t)
    BY <2>2, StepRelays
  <2>3. CASE BeginCall(t) \/ CallReturns(t) \/ Compose(t) \/ NoteError(t) \/ Exit(t)
    <3>1. UNCHANGED <<outbox, got, account, kept>>
      BY <2>3 DEF BeginCall, CallReturns, Compose, NoteError, Exit, books
    <3>2. QED
      BY <3>1, StepElsewhere
  <2>4. QED
    BY <1>1, <2>1, <2>2, <2>3 DEF Worker
<1>2. ASSUME NEW t \in Turns, Reader(t) PROVE Contract!Next \/ UNCHANGED Contract!vars
  <2>1. CASE Charge(t) \/ UpdateMemory(t) \/ AppendSessionTurn(t) \/ Respond(t)
    BY <2>1, StepBooks DEF Contract!Next
  <2>2. CASE Take(t) \/ Drain(t) \/ Finish(t)
    BY <2>2, StepRelays
  <2>3. CASE StartWorker(t) \/ TimeOut(t) \/ AskWorker(t) \/ Resume(t)
    <3>1. UNCHANGED <<outbox, got, account, kept>>
      BY <2>3 DEF StartWorker, TimeOut, AskWorker, Resume, work, books
    <3>2. QED
      BY <3>1, StepElsewhere
  <2>4. CASE OpenFails(t)
    BY <2>4, StepUnopened DEF Contract!Next
  <2>5. QED
    BY <1>2, <2>1, <2>2, <2>3, <2>4 DEF Reader
<1>3. CASE \/ \E t \in Turns : Begin(t) \/ GrowOld(t) \/ Leave(t)
           \/ \E u \in Users : SetEvent(u) \/ \E t \in Turns : LookUp(u, t)
           \/ UNCHANGED vars
  <2>1. UNCHANGED <<outbox, got, account, kept>>
    BY <1>3 DEF Begin, GrowOld, Leave, LeaveOpening, LeaveStream, LeaveLate,
                SetEvent, LookUp, vars, work, books
  <2>2. QED
    BY <2>1, StepElsewhere
<1>4. QED
  BY <1>1, <1>2, <1>3 DEF Next

LEMMA InitMaps == Init => Contract!Init
<1> SUFFICES ASSUME Init PROVE Contract!Init
  OBVIOUS
<1>1. \A t \in Turns : Untold(t)
  BY DEF Init, Untold
<1>2. \A t \in Turns : FateOf(t) = "pending"
  BY <1>1, FateUntold
<1>3. QED
  BY <1>2 DEF Init, Contract!Init

(* The threads, the queue and the stores implement the contract: one        *)
(* outcome, charged before it is recorded and only if it is an answer, and  *)
(* recorded as what the worker did.                                         *)
THEOREM ContractKept == Spec => KeepsContract
<1>1. Spec => Contract!Init /\ [][Contract!Next]_(Contract!vars)
  BY InitMaps, StepMaps, InvAlways, PTL DEF Spec
<1>2. QED
  BY <1>1 DEF KeepsContract, Contract!Spec
=============================================================================
