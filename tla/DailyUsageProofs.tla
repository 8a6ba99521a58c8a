-------------------------- MODULE DailyUsageProofs --------------------------
(***************************************************************************)
(* Theorems of DailyUsage, for any users, threads, costs, limits and days: *)
(* how far past the limit a day can go, and what the books say of it.      *)
(***************************************************************************)
EXTENDS DailyUsage, FiniteSetTheorems, TLAPS

-----------------------------------------------------------------------------
(* Types *)

(* The records of requests as sets of their fields' values, spelled out once. *)
LEMMA NoRecords == NoRequest \in Request /\ NoReset \in Reset
<1>1. (CHOOSE u \in Users : TRUE) \in Users /\ 0 \in Days /\ 0 \in 0 .. MaxCost
  BY UsageConstants DEF Days
<1> QED BY <1>1 DEF NoRequest, NoReset, Request, Reset

(* What a fault-prone read answers is a file of the same type. *)
LEMMA EmptyRows == Empty \in Rows
BY DEF Empty, Rows

(* Pruning keeps the day files typed. *)
LEMMA PrunedType ==
  ASSUME NEW book \in [Days -> Rows], NEW d
  PROVE  Pruned(book, d) \in [Days -> Rows]
BY EmptyRows DEF Pruned

(* A new process is well typed. *)
LEMMA TypeInit == Init => TypeOK
<1> SUFFICES ASSUME Init PROVE TypeOK
  OBVIOUS
<1>1. day \in Days /\ faults \in 0 .. MaxFaults
  BY UsageConstants DEF Init, Days
<1>2. ledger \in [Days -> Rows] /\ charged \in [Days -> Rows] /\ data \in [Holders -> Rows]
  BY EmptyRows DEF Init
<1>3. slots \in [Slots -> Request] /\ admin \in Reset
  BY NoRecords DEF Init
<1>4. /\ lock \in Holders \cup {Free}
      /\ \A s \in Slots : slots[s].pc = "locked" <=> lock = s
      /\ admin.pc = "locked" <=> lock = Admin
  BY UsageConstants DEF Init, NoRequest, NoReset, Holders
<1>5. /\ overrides \in [Users -> Nat \cup {Unlimited, NoOverride}]
      /\ \A u \in Users : overrides[u] \in Grants[u] \cup {NoOverride}
  BY DEF Init
<1> QED BY <1>1, <1>2, <1>3, <1>4, <1>5 DEF TypeOK

(* Reading and deciding keep the types: the thread's own record changes. *)
LEMMA TypeAdmit ==
  ASSUME TypeOK, NEW s \in Slots, ReadSpent(s) \/ Decide(s) \/ EndUncharged(s) \/ Cost(s)
  PROVE  TypeOK'
<1>1. /\ slots'[s] \in Request /\ slots'[s].pc # "locked" /\ slots[s].pc # "locked"
      /\ slots' = [slots EXCEPT ![s] = slots'[s]]
  <2> slots[s] \in Request /\ ledger[day] \in Rows /\ day \in Days
    BY DEF TypeOK
  <2>1. CASE ReadSpent(s)
    <3>1. PICK u \in Users, rows \in {ledger[day], Empty} :
            slots' = [slots EXCEPT ![s] = [@ EXCEPT !.pc = "seen", !.user = u,
                                                    !.saw = rows[u]]]
      BY <2>1 DEF ReadSpent
    <3>2. rows[u] \in Nat
      BY EmptyRows DEF Rows
    <3> QED BY <2>1, <3>1, <3>2 DEF TypeOK, Request, ReadSpent
  <2>2. CASE Decide(s)
    <3>1. slots' = [slots EXCEPT ![s] = [@ EXCEPT !.pc = "running"]]
          \/ slots' = [slots EXCEPT ![s] = NoRequest]
      BY <2>2 DEF Decide
    <3> QED BY <2>2, <3>1, NoRecords DEF TypeOK, Request, NoRequest, Decide
  <2>3. CASE EndUncharged(s)
    BY <2>3, NoRecords DEF EndUncharged, TypeOK, NoRequest
  <2>4. CASE Cost(s)
    <3>1. PICK c \in Costs :
            slots' = [slots EXCEPT ![s] = [@ EXCEPT !.pc = "costed", !.cost = c, !.day = day]]
      BY <2>4 DEF Cost
    <3> QED BY <2>4, <3>1, UsageConstants DEF TypeOK, Request, Cost
  <2> QED BY <2>1, <2>2, <2>3, <2>4
<1>2. slots' \in [Slots -> Request] /\ \A t \in Slots : slots'[t].pc = "locked" <=> lock = t
  BY <1>1 DEF TypeOK
<1>3. faults' \in 0 .. MaxFaults
  <2>1. faults' = faults \/ (faults < MaxFaults /\ faults' = faults + 1)
    BY DEF ReadSpent, Decide, EndUncharged, Cost, ReadAs
  <2> QED BY <2>1, UsageConstants DEF TypeOK
<1>4. UNCHANGED <<day, files, admin, lock, data, charged>>
  BY DEF ReadSpent, Decide, EndUncharged, Cost
<1> QED BY <1>2, <1>3, <1>4 DEF TypeOK, files

(* Taking the lock and writing keep the types, and the lock its holder. *)
LEMMA TypeCharge ==
  ASSUME TypeOK, NEW s \in Slots, LockLedger(s) \/ WriteCharge(s)
  PROVE  TypeOK'
<1> slots[s] \in Request /\ s \in Holders /\ data[s] \in Rows
  BY DEF TypeOK, Holders
<1> DEFINE r == slots[s]
<1>0. r.day \in Days /\ r.user \in Users /\ r.cost \in Nat /\ ledger[r.day] \in Rows
  BY UsageConstants DEF Request, TypeOK
<1>1. CASE LockLedger(s)
  <2>1. PICK rows \in {ledger[r.day], Empty} :
          ReadAs(ledger[r.day], Empty, rows) /\ data' = [data EXCEPT ![s] = rows]
    BY <1>1 DEF LockLedger
  <2>2. data' \in [Holders -> Rows] /\ faults' \in 0 .. MaxFaults
    BY <1>0, <2>1, EmptyRows, UsageConstants DEF TypeOK, ReadAs
  <2>3. slots' \in [Slots -> Request]
    BY <1>1 DEF LockLedger, TypeOK, Request
  <2>4. /\ lock' \in Holders \cup {Free}
        /\ \A t \in Slots : slots'[t].pc = "locked" <=> lock' = t
        /\ admin.pc = "locked" <=> lock' = Admin
    BY <1>1, UsageConstants DEF LockLedger, TypeOK, Request, Holders
  <2> QED BY <1>1, <2>2, <2>3, <2>4 DEF LockLedger, TypeOK, files
<1>2. CASE WriteCharge(s)
  <2>1. [data[s] EXCEPT ![r.user] = @ + r.cost] \in Rows
    BY <1>0 DEF Rows
  <2>2. [ledger EXCEPT ![r.day] = [data[s] EXCEPT ![r.user] = @ + r.cost]] \in [Days -> Rows]
    BY <2>1, <1>0 DEF TypeOK
  <2>3. [charged EXCEPT ![r.day][r.user] = @ + r.cost] \in [Days -> Rows]
    <3>1. charged[r.day] \in Rows /\ charged \in [Days -> Rows]
      BY <1>0 DEF TypeOK
    <3>2. [charged[r.day] EXCEPT ![r.user] = @ + r.cost] \in Rows
      BY <1>0, <3>1 DEF Rows
    <3> QED BY <3>1, <3>2
  <2>4. ledger' \in [Days -> Rows] /\ charged' \in [Days -> Rows] /\ faults' \in 0 .. MaxFaults
    <3> DEFINE book == [ledger EXCEPT ![r.day] = [data[s] EXCEPT ![r.user] = @ + r.cost]]
    <3>1. \/ /\ ledger' = Pruned(book, r.day) /\ faults' = faults
             /\ charged' = [charged EXCEPT ![r.day][r.user] = @ + r.cost]
          \/ /\ ledger' = ledger /\ charged' = charged
             /\ faults < MaxFaults /\ faults' = faults + 1
      BY <1>2 DEF WriteCharge
    <3>2. Pruned(book, r.day) \in [Days -> Rows]
      BY <2>2, PrunedType
    <3>3. faults \in 0 .. MaxFaults /\ MaxFaults \in Nat
      BY UsageConstants DEF TypeOK
    <3>4. faults' \in 0 .. MaxFaults
      BY <3>1, <3>3
    <3> HIDE DEF book
    <3> QED BY <3>1, <3>2, <3>4, <2>3 DEF TypeOK
  <2>5. slots' \in [Slots -> Request] /\ data' \in [Holders -> Rows]
    BY <1>2, NoRecords, EmptyRows DEF WriteCharge, TypeOK
  <2>6. /\ lock' = Free /\ lock = s
        /\ \A t \in Slots : slots'[t].pc # "locked"
        /\ admin.pc # "locked"
    BY <1>2, UsageConstants DEF WriteCharge, TypeOK, NoRequest
  <2> QED BY <1>2, <2>4, <2>5, <2>6, UsageConstants DEF WriteCharge, TypeOK, Holders
<1> QED BY <1>1, <1>2

(* The admin's requests and midnight keep the types. *)
LEMMA TypeAdmin ==
  ASSUME TypeOK, AskReset \/ LockReset \/ WriteReset \/ SetOverride \/ Midnight
  PROVE  TypeOK'
<1> admin \in Reset /\ Admin \in Holders /\ data[Admin] \in Rows
  BY DEF TypeOK, Holders
<1>0. admin.day \in Days /\ admin.user \in Users /\ ledger[admin.day] \in Rows
  BY DEF Reset, TypeOK
<1>1. CASE AskReset
  BY <1>1, UsageConstants DEF AskReset, TypeOK, Reset, files
<1>2. CASE LockReset
  <2>1. PICK rows \in {ledger[admin.day], Empty} :
          ReadAs(ledger[admin.day], Empty, rows) /\ data' = [data EXCEPT ![Admin] = rows]
    BY <1>2 DEF LockReset
  <2>2. data' \in [Holders -> Rows] /\ faults' \in 0 .. MaxFaults
    BY <1>0, <2>1, EmptyRows, UsageConstants DEF TypeOK, ReadAs
  <2>3. admin' \in Reset /\ admin'.pc = "locked" /\ lock' = Admin
    BY <1>2 DEF LockReset, TypeOK, Reset
  <2>4. \A t \in Slots : slots[t].pc # "locked" /\ lock' # t
    BY <1>2, UsageConstants DEF LockReset, TypeOK
  <2> QED BY <1>2, <2>2, <2>3, <2>4 DEF LockReset, TypeOK, files, Holders
<1>3. CASE WriteReset
  <2>1. [data[Admin] EXCEPT ![admin.user] = 0] \in Rows
    BY DEF Rows
  <2>2. [ledger EXCEPT ![admin.day] = [data[Admin] EXCEPT ![admin.user] = 0]] \in [Days -> Rows]
    BY <2>1, <1>0 DEF TypeOK
  <2>3. [charged EXCEPT ![admin.day][admin.user] = 0] \in [Days -> Rows]
    BY <1>0 DEF TypeOK, Rows
  <2>4. ledger' \in [Days -> Rows] /\ charged' \in [Days -> Rows] /\ faults' \in 0 .. MaxFaults
    BY <1>3, <2>2, <2>3, UsageConstants DEF WriteReset, TypeOK
  <2>5. admin' \in Reset /\ admin'.pc = "idle" /\ data' \in [Holders -> Rows]
    BY <1>3, NoRecords, EmptyRows DEF WriteReset, TypeOK, NoReset
  <2>6. /\ lock' = Free /\ lock = Admin
        /\ \A t \in Slots : slots[t].pc # "locked"
    BY <1>3, UsageConstants DEF WriteReset, TypeOK
  <2> QED BY <1>3, <2>4, <2>5, <2>6, UsageConstants DEF WriteReset, TypeOK, Holders
<1>4. CASE SetOverride
  <2>1. PICK u \in Users, rows \in {overrides, [v \in Users |-> NoOverride]} :
          /\ ReadAs(overrides, [v \in Users |-> NoOverride], rows)
          /\ \E limit \in Grants[u] : overrides' = [rows EXCEPT ![u] = limit]
    BY <1>4 DEF SetOverride
  <2>2. PICK limit \in Grants[u] : overrides' = [rows EXCEPT ![u] = limit]
    BY <2>1
  <2>3. limit \in Nat \cup {Unlimited, NoOverride}
    BY UsageConstants
  <2>4. /\ overrides' \in [Users -> Nat \cup {Unlimited, NoOverride}]
        /\ \A v \in Users : overrides'[v] \in Grants[v] \cup {NoOverride}
    BY <2>1, <2>2, <2>3 DEF TypeOK
  <2>5. faults' \in 0 .. MaxFaults
    BY <2>1, UsageConstants DEF TypeOK, ReadAs
  <2> QED BY <1>4, <2>4, <2>5 DEF SetOverride, TypeOK
<1>5. CASE Midnight
  BY <1>5, UsageConstants DEF Midnight, TypeOK, Days, files
<1> QED BY <1>1, <1>2, <1>3, <1>4, <1>5

(* Every step keeps the types. *)
LEMMA TypeStep == TypeOK /\ [Next]_vars => TypeOK'
<1> SUFFICES ASSUME TypeOK, [Next]_vars PROVE TypeOK'
  OBVIOUS
<1>1. CASE UNCHANGED vars
  BY <1>1 DEF vars, files, TypeOK
<1>2. ASSUME NEW s \in Slots, Turn(s) PROVE TypeOK'
  BY <1>2, TypeAdmit, TypeCharge DEF Turn
<1>3. CASE AskReset \/ LockReset \/ WriteReset \/ SetOverride \/ Midnight
  BY <1>3, TypeAdmin
<1> QED BY <1>1, <1>2, <1>3 DEF Next

(* Every variable keeps its type, and the lock is held by exactly the request  *)
(* that is between its read and its write, whatever fails.                    *)
THEOREM TypeCorrect == Spec => []TypeOK
BY TypeInit, TypeStep, PTL DEF Spec

-----------------------------------------------------------------------------
(* The books *)

(* The day whose file the holder of the lock has read. *)
DayOf(h) == IF h = Admin THEN admin.day ELSE slots[h].day

(* What the holder has read is no more than what the file still holds, and the *)
(* same while nothing has failed: nobody else writes that file meanwhile.      *)
DataInv ==
  lock # Free =>
    \A u \in Users :
      /\ data[lock][u] <= ledger[DayOf(lock)][u]
      /\ faults = 0 => data[lock][u] = ledger[DayOf(lock)][u]

(* No request is of a day to come. *)
DaysInv == (\A s \in Slots : slots[s].day <= day) /\ admin.day <= day

BooksInv == DaysInv /\ DataInv /\ NeverOvercharged /\ ChargesAdd

(* Failures are only ever counted up. *)
LEMMA FaultsGrow ==
  ASSUME TypeOK, Next
  PROVE  faults' = 0 => faults = 0
<1>1. faults \in Nat
  BY UsageConstants DEF TypeOK
<1>2. faults' = faults \/ faults' = faults + 1
  BY DEF Next, Turn, ReadSpent, Decide, EndUncharged, Cost, LockLedger, WriteCharge,
         AskReset, LockReset, WriteReset, SetOverride, Midnight, ReadAs
<1> QED BY <1>1, <1>2

(* Empty books balance. *)
LEMMA BooksInit == Init => BooksInv
<1> SUFFICES ASSUME Init PROVE BooksInv
  OBVIOUS
<1>1. DaysInv
  BY DEF Init, DaysInv, NoRequest, NoReset
<1>2. DataInv
  BY DEF Init, DataInv
<1>3. \A u \in Users : \A d \in Days : ledger[d][u] = 0 /\ charged[d][u] = 0
  BY DEF Init, Empty
<1>4. NeverOvercharged /\ ChargesAdd
  BY <1>3 DEF NeverOvercharged, ChargesAdd, BooksBalance
<1> QED BY <1>1, <1>2, <1>4 DEF BooksInv

(* The days of requests only ever follow the day. *)
LEMMA DaysStep ==
  ASSUME TypeOK, DaysInv, Next
  PROVE  DaysInv' /\ day <= day' /\ day \in Int /\ day' \in Int
<1>0. day \in Nat /\ slots \in [Slots -> Request] /\ admin \in Reset
  BY DEF TypeOK, Days
<1>1. NoRequest.day = 0 /\ NoReset.day = 0
  BY DEF NoRequest, NoReset
<1>2. CASE \E s \in Slots : Turn(s)
  <2>1. PICK s \in Slots : Turn(s)
    BY <1>2
  <2>2. day' = day /\ admin' = admin
    BY <2>1 DEF Turn, ReadSpent, Decide, EndUncharged, Cost, LockLedger, WriteCharge
  <2>3. \A t \in Slots : slots'[t].day \in {slots[t].day, 0, day}
    <3>0. slots[s] \in Request
      BY <1>0
    <3>1. CASE ReadSpent(s)
      BY <1>0, <3>0, <3>1 DEF ReadSpent, Request
    <3>2. CASE Decide(s)
      BY <1>0, <1>1, <3>0, <3>2 DEF Decide, Request
    <3>3. CASE EndUncharged(s)
      BY <1>0, <1>1, <3>3 DEF EndUncharged
    <3>4. CASE Cost(s)
      BY <1>0, <3>0, <3>4 DEF Cost, Request
    <3>5. CASE LockLedger(s)
      BY <1>0, <3>0, <3>5 DEF LockLedger, Request
    <3>6. CASE WriteCharge(s)
      BY <1>0, <1>1, <3>6 DEF WriteCharge
    <3> QED BY <2>1, <3>1, <3>2, <3>3, <3>4, <3>5, <3>6 DEF Turn
  <2> QED BY <1>0, <2>2, <2>3 DEF DaysInv
<1>3. CASE AskReset \/ LockReset \/ WriteReset \/ SetOverride \/ Midnight
  <2>1. slots' = slots /\ day' \in {day, day + 1}
    BY <1>3 DEF AskReset, LockReset, WriteReset, SetOverride, Midnight, files
  <2>2. admin'.day \in {admin.day, 0, day}
    BY <1>0, <1>1, <1>3 DEF AskReset, LockReset, WriteReset, SetOverride, Midnight, files, Reset
  <2>3. (\A s \in Slots : slots[s].day \in Nat) /\ admin.day \in Nat
    BY <1>0 DEF Request, Reset, Days
  <2> QED BY <1>0, <2>1, <2>2, <2>3 DEF DaysInv
<1> QED BY <1>2, <1>3 DEF Next

(* Whoever does not hold the lock leaves the files and the holder alone. *)
LEMMA BooksIdle ==
  ASSUME TypeOK, BooksInv, Next,
         UNCHANGED <<ledger, charged, lock, data>>,
         lock # Free => DayOf(lock)' = DayOf(lock)
  PROVE  BooksInv'
<1>1. DaysInv' /\ day <= day' /\ day \in Int /\ day' \in Int
  BY DaysStep DEF BooksInv
<1>2. faults' = 0 => faults = 0
  BY FaultsGrow
<1>3. DataInv' /\ NeverOvercharged'
  BY <1>2 DEF BooksInv, DataInv, NeverOvercharged
<1>4. KEEP_DAYS \in Int /\ \A d \in Days : d \in Int
  BY UsageConstants DEF Days
<1>5. ASSUME NEW u \in Users, NEW d \in Days, d >= day' - KEEP_DAYS, faults' = 0
      PROVE  ledger'[d][u] = charged'[d][u]
  <2>1. d >= day - KEEP_DAYS
    BY <1>1, <1>4, <1>5
  <2> QED BY <1>2, <1>5, <2>1 DEF BooksInv, ChargesAdd, BooksBalance
<1>6. ChargesAdd'
  BY <1>5 DEF ChargesAdd, BooksBalance
<1> QED BY <1>1, <1>3, <1>6 DEF BooksInv

(* What a holder of the lock reads is the file, or nothing of it after a fault. *)
LEMMA BooksLock ==
  ASSUME TypeOK, BooksInv, Next,
         NEW h \in Holders, NEW d \in Days, NEW rows \in {ledger[d], Empty},
         ReadAs(ledger[d], Empty, rows), data' = [data EXCEPT ![h] = rows],
         lock' = h, DayOf(h)' = d, UNCHANGED <<ledger, charged, day>>
  PROVE  BooksInv'
<1>0. DaysInv' /\ (faults' = 0 => faults = 0)
  BY DaysStep, FaultsGrow DEF BooksInv
<1>1. ledger[d] \in Rows /\ data'[h] = rows
  BY DEF TypeOK
<1>2. \A u \in Users : rows[u] <= ledger[d][u]
  BY <1>1 DEF Rows, Empty
<1>3. faults' = 0 => rows = ledger[d]
  <2>1. faults \in Nat
    BY UsageConstants DEF TypeOK
  <2> QED BY <2>1 DEF ReadAs
<1>4. DataInv'
  BY <1>1, <1>2, <1>3 DEF DataInv
<1>5. NeverOvercharged' /\ ChargesAdd'
  BY <1>0 DEF BooksInv, NeverOvercharged, ChargesAdd, BooksBalance
<1> QED BY <1>0, <1>4, <1>5 DEF BooksInv

(* A write that failed frees the lock and touches no file. *)
LEMMA BooksFree ==
  ASSUME TypeOK, BooksInv, Next, lock' = Free, UNCHANGED <<ledger, charged, day>>
  PROVE  BooksInv'
<1>1. DaysInv' /\ (faults' = 0 => faults = 0)
  BY DaysStep, FaultsGrow DEF BooksInv
<1>2. DataInv' /\ NeverOvercharged' /\ ChargesAdd'
  BY <1>1 DEF BooksInv, DataInv, NeverOvercharged, ChargesAdd, BooksBalance
<1> QED BY <1>1, <1>2 DEF BooksInv

(* The writes that succeed. *)
ChargeWritten(s) ==
  /\ ledger' = Pruned([ledger EXCEPT ![slots[s].day] =
                          [data[s] EXCEPT ![slots[s].user] = @ + slots[s].cost]],
                       slots[s].day)
  /\ charged' = [charged EXCEPT ![slots[s].day][slots[s].user] = @ + slots[s].cost]

ResetWritten ==
  /\ ledger' = [ledger EXCEPT ![admin.day] = [data[Admin] EXCEPT ![admin.user] = 0]]
  /\ charged' = [charged EXCEPT ![admin.day][admin.user] = 0]

(* What a charge writes, row by row. *)
LEMMA ChargeRows ==
  ASSUME TypeOK, NEW s \in Slots, ChargeWritten(s),
         NEW u \in Users, NEW d \in Days
  PROVE  /\ ledger[d][u] \in Nat /\ charged[d][u] \in Nat /\ data[s][u] \in Nat
         /\ charged'[d][u] = charged[d][u]
              + (IF d = slots[s].day /\ u = slots[s].user THEN slots[s].cost ELSE 0)
         /\ ledger'[d][u] =
              IF d < slots[s].day - KEEP_DAYS THEN 0
              ELSE (IF d = slots[s].day THEN data[s][u] ELSE ledger[d][u])
                   + (IF d = slots[s].day /\ u = slots[s].user THEN slots[s].cost ELSE 0)
<1> DEFINE r    == slots[s]
           row  == [data[s] EXCEPT ![r.user] = @ + r.cost]
           book == [ledger EXCEPT ![r.day] = row]
<1>0. /\ slots[s] \in Request /\ data[s] \in Rows
      /\ ledger \in [Days -> Rows] /\ charged \in [Days -> Rows]
  BY DEF TypeOK, Holders
<1>1. r.day \in Days /\ r.user \in Users /\ r.cost \in Nat
  BY <1>0, UsageConstants DEF Request
<1>2. ledger[d][u] \in Nat /\ charged[d][u] \in Nat /\ data[s][u] \in Nat
  BY <1>0 DEF Rows
<1>3. charged'[d][u] = charged[d][u] + (IF d = r.day /\ u = r.user THEN r.cost ELSE 0)
  <2>1. DOMAIN charged[d] = Users
    BY <1>0 DEF Rows
  <2> QED BY <1>0, <1>1, <1>2, <2>1 DEF Rows, ChargeWritten
<1>4. row[u] = data[s][u] + (IF u = r.user THEN r.cost ELSE 0)
  BY <1>0, <1>1, <1>2 DEF Rows
<1>5. book[d] = IF d = r.day THEN row ELSE ledger[d]
  BY <1>0
<1>6. ledger'[d] = IF d < r.day - KEEP_DAYS THEN Empty ELSE book[d]
  BY DEF Pruned, ChargeWritten
<1> HIDE DEF row, book
<1>7. ledger'[d][u] = IF d < r.day - KEEP_DAYS THEN 0 ELSE book[d][u]
  BY <1>6 DEF Empty
<1> QED BY <1>2, <1>3, <1>4, <1>5, <1>7

(* What a reset writes, row by row. *)
LEMMA ResetRows ==
  ASSUME TypeOK, ResetWritten,
         NEW u \in Users, NEW d \in Days
  PROVE  /\ ledger[d][u] \in Nat /\ charged[d][u] \in Nat /\ data[Admin][u] \in Nat
         /\ charged'[d][u] = IF d = admin.day /\ u = admin.user THEN 0 ELSE charged[d][u]
         /\ ledger'[d][u] = IF d # admin.day THEN ledger[d][u]
                            ELSE IF u = admin.user THEN 0 ELSE data[Admin][u]
<1>1. /\ admin \in Reset /\ data[Admin] \in Rows
      /\ ledger \in [Days -> Rows] /\ charged \in [Days -> Rows]
  BY DEF TypeOK, Holders
<1>2. admin.user \in Users /\ admin.day \in Days /\ ledger[d] \in Rows /\ charged[d] \in Rows
  BY <1>1 DEF Reset
<1>3. /\ ledger[d][u] \in Nat /\ charged[d][u] \in Nat /\ data[Admin][u] \in Nat
      /\ DOMAIN charged[d] = Users /\ DOMAIN data[Admin] = Users
  BY <1>1, <1>2 DEF Rows
<1> QED BY <1>1, <1>2, <1>3 DEF ResetWritten

(* A charge raises one row of a file and of the history alike; the days pruned *)
(* after it are none that is still kept.                                       *)
LEMMA BooksCharge ==
  ASSUME TypeOK, BooksInv, NEW s \in Slots, WriteCharge(s), Next
  PROVE  BooksInv'
<1> DEFINE r == slots[s]
<1>0. /\ slots[s] \in Request /\ s \in Holders /\ data[s] \in Rows
      /\ ledger \in [Days -> Rows] /\ charged \in [Days -> Rows] /\ day \in Nat
  BY DEF TypeOK, Holders, Days
<1>1. r.day \in Days /\ r.day \in Int /\ r.user \in Users /\ r.cost \in Nat /\ r.day <= day
  BY <1>0, UsageConstants DEF Request, BooksInv, DaysInv, Days
<1>2. lock = s /\ lock # Free /\ DayOf(lock) = r.day
  BY UsageConstants DEF WriteCharge, TypeOK, DayOf
<1>3. CASE UNCHANGED <<ledger, charged>>
  <2>1. lock' = Free /\ day' = day
    BY DEF WriteCharge
  <2> QED BY <1>3, <2>1, BooksFree
<1>4. CASE ChargeWritten(s)
  <2>1. \A u \in Users : /\ data[s][u] <= ledger[r.day][u]
                         /\ faults = 0 => data[s][u] = ledger[r.day][u]
    BY <1>2 DEF BooksInv, DataInv
  <2>2. ASSUME NEW u \in Users, NEW d \in Days
        PROVE  /\ ledger[d][u] \in Nat /\ charged[d][u] \in Nat /\ data[s][u] \in Nat
               /\ charged'[d][u] = charged[d][u]
                                   + (IF d = r.day /\ u = r.user THEN r.cost ELSE 0)
               /\ ledger'[d][u] =
                    IF d < r.day - KEEP_DAYS THEN 0
                    ELSE (IF d = r.day THEN data[s][u] ELSE ledger[d][u])
                         + (IF d = r.day /\ u = r.user THEN r.cost ELSE 0)
    BY <1>4, ChargeRows
  <2>3. NeverOvercharged'
    <3> SUFFICES ASSUME NEW u \in Users, NEW d \in Days
                 PROVE  ledger'[d][u] <= charged'[d][u]
      BY DEF NeverOvercharged
    <3>1. ledger[d][u] <= charged[d][u] /\ data[s][u] <= ledger[r.day][u]
      BY <2>1 DEF BooksInv, NeverOvercharged
    <3> QED BY <1>1, <2>2, <3>1
  <2>4. ChargesAdd'
    <3>0. day' = day /\ (faults' = 0 => faults = 0)
      BY FaultsGrow DEF WriteCharge
    <3> SUFFICES ASSUME faults' = 0, NEW u \in Users, NEW d \in Days, d >= day - KEEP_DAYS
                 PROVE  ledger'[d][u] = charged'[d][u]
      BY <3>0 DEF ChargesAdd, BooksBalance
    <3>1. ledger[d][u] = charged[d][u] /\ data[s][u] = ledger[r.day][u]
      BY <2>1, <3>0 DEF BooksInv, ChargesAdd, BooksBalance
    <3>2. d \in Int /\ KEEP_DAYS \in Int
      BY UsageConstants DEF Days
    <3>3. ~(d < r.day - KEEP_DAYS)
      BY <1>0, <1>1, <3>2
    <3> QED BY <1>1, <2>2, <3>1, <3>3
  <2>5. DaysInv' /\ DataInv'
    BY DaysStep DEF BooksInv, WriteCharge, DataInv
  <2> QED BY <2>3, <2>4, <2>5 DEF BooksInv
<1>5. UNCHANGED <<ledger, charged>> \/ ChargeWritten(s)
  BY DEF WriteCharge, ChargeWritten
<1> QED BY <1>3, <1>4, <1>5

(* A reset clears one row of a file and of the history alike. *)
LEMMA BooksReset ==
  ASSUME TypeOK, BooksInv, WriteReset, Next
  PROVE  BooksInv'
<1> DEFINE u0 == admin.user  d0 == admin.day  rows == data[Admin]
<1>0. /\ admin \in Reset /\ Admin \in Holders /\ rows \in Rows
      /\ ledger \in [Days -> Rows] /\ charged \in [Days -> Rows]
  BY DEF TypeOK, Holders
<1>1. u0 \in Users /\ d0 \in Days
  BY <1>0 DEF Reset
<1>2. lock = Admin /\ lock # Free /\ DayOf(lock) = d0
  BY UsageConstants DEF WriteReset, TypeOK, DayOf
<1>3. CASE UNCHANGED <<ledger, charged>>
  <2>1. lock' = Free /\ day' = day
    BY DEF WriteReset
  <2> QED BY <1>3, <2>1, BooksFree
<1>4. CASE ResetWritten
  <2>1. \A u \in Users : /\ rows[u] <= ledger[d0][u]
                         /\ faults = 0 => rows[u] = ledger[d0][u]
    BY <1>2 DEF BooksInv, DataInv
  <2>2. ASSUME NEW u \in Users, NEW d \in Days
        PROVE  /\ ledger[d][u] \in Nat /\ charged[d][u] \in Nat /\ rows[u] \in Nat
               /\ charged'[d][u] = IF d = d0 /\ u = u0 THEN 0 ELSE charged[d][u]
               /\ ledger'[d][u] = IF d # d0 THEN ledger[d][u]
                                  ELSE IF u = u0 THEN 0 ELSE rows[u]
    BY <1>4, ResetRows
  <2>3. NeverOvercharged'
    BY <2>1, <2>2 DEF BooksInv, NeverOvercharged
  <2>4. ChargesAdd'
    <3>1. day' = day /\ (faults' = 0 => faults = 0)
      BY FaultsGrow DEF WriteReset
    <3> SUFFICES ASSUME faults' = 0, NEW u \in Users, NEW d \in Days, d >= day - KEEP_DAYS
                 PROVE  ledger'[d][u] = charged'[d][u]
      BY <3>1 DEF ChargesAdd, BooksBalance
    <3>2. ledger[d][u] = charged[d][u] /\ rows[u] = ledger[d0][u]
      BY <2>1, <3>1 DEF BooksInv, ChargesAdd, BooksBalance
    <3> QED BY <2>2, <3>2
  <2>5. DaysInv' /\ DataInv'
    BY DaysStep DEF BooksInv, WriteReset, DataInv
  <2> QED BY <2>3, <2>4, <2>5 DEF BooksInv
<1>5. UNCHANGED <<ledger, charged>> \/ ResetWritten
  BY DEF WriteReset, ResetWritten
<1> QED BY <1>3, <1>4, <1>5

(* Every step keeps the books. *)
LEMMA BooksStep == TypeOK /\ BooksInv /\ [Next]_vars => BooksInv'
<1> SUFFICES ASSUME TypeOK, BooksInv, [Next]_vars PROVE BooksInv'
  OBVIOUS
<1>1. CASE UNCHANGED vars
  BY <1>1 DEF vars, files, BooksInv, DaysInv, DataInv, DayOf, NeverOvercharged, ChargesAdd,
              BooksBalance
<1>2. CASE Next
  <2>1. ASSUME NEW s \in Slots, ReadSpent(s) \/ Decide(s) \/ EndUncharged(s) \/ Cost(s)
        PROVE  BooksInv'
    <3>1. UNCHANGED <<ledger, charged, lock, data, admin>>
      BY <2>1 DEF ReadSpent, Decide, EndUncharged, Cost, files
    <3>2. slots[s].pc # "locked" /\ lock # s
      BY <2>1 DEF ReadSpent, Decide, EndUncharged, Cost, TypeOK
    <3>3. \A t \in Slots \ {s} : slots'[t] = slots[t]
      BY <2>1 DEF ReadSpent, Decide, EndUncharged, Cost, TypeOK
    <3>4. lock # Free => DayOf(lock)' = DayOf(lock)
      BY <3>1, <3>2, <3>3 DEF DayOf, TypeOK, Holders
    <3> QED BY <1>2, <3>1, <3>4, BooksIdle
  <2>2. ASSUME NEW s \in Slots, LockLedger(s) PROVE BooksInv'
    <3>0. slots[s] \in Request /\ s \in Holders /\ slots[s].day \in Days /\ s # Admin
      BY UsageConstants DEF TypeOK, Request, Holders
    <3>1. PICK rows \in {ledger[slots[s].day], Empty} :
            /\ ReadAs(ledger[slots[s].day], Empty, rows)
            /\ data' = [data EXCEPT ![s] = rows]
      BY <2>2 DEF LockLedger
    <3>2. DayOf(s)' = slots[s].day
      BY <2>2, <3>0 DEF LockLedger, DayOf, TypeOK, Request
    <3>3. lock' = s /\ UNCHANGED <<ledger, charged, day>>
      BY <2>2 DEF LockLedger, files
    <3> QED BY <1>2, <3>0, <3>1, <3>2, <3>3, BooksLock
  <2>3. ASSUME NEW s \in Slots, WriteCharge(s) PROVE BooksInv'
    BY <1>2, <2>3, BooksCharge
  <2>4. CASE AskReset \/ SetOverride \/ Midnight
    <3>1. UNCHANGED <<ledger, charged, lock, data, slots>>
      BY <2>4 DEF AskReset, SetOverride, Midnight, files
    <3>2. lock = Admin => admin' = admin
      BY <2>4 DEF AskReset, SetOverride, Midnight, TypeOK
    <3>3. lock # Free => DayOf(lock)' = DayOf(lock)
      BY <3>1, <3>2 DEF DayOf
    <3> QED BY <1>2, <3>1, <3>3, BooksIdle
  <2>5. CASE LockReset
    <3>0. admin \in Reset /\ Admin \in Holders /\ admin.day \in Days
      BY DEF TypeOK, Reset, Holders
    <3>1. PICK rows \in {ledger[admin.day], Empty} :
            ReadAs(ledger[admin.day], Empty, rows) /\ data' = [data EXCEPT ![Admin] = rows]
      BY <2>5 DEF LockReset
    <3>2. DayOf(Admin)' = admin.day
      BY <2>5, <3>0 DEF LockReset, DayOf, Reset
    <3>3. lock' = Admin /\ UNCHANGED <<ledger, charged, day>>
      BY <2>5 DEF LockReset, files
    <3> QED BY <1>2, <3>0, <3>1, <3>2, <3>3, BooksLock
  <2>6. CASE WriteReset
    BY <1>2, <2>6, BooksReset
  <2> QED BY <1>2, <2>1, <2>2, <2>3, <2>4, <2>5, <2>6 DEF Next, Turn
<1> QED BY <1>1, <1>2

LEMMA BooksAlways == Spec => []BooksInv
BY TypeInit, TypeStep, BooksInit, BooksStep, PTL DEF Spec

(* Whatever files cannot be read or written, nobody is held to have spent more *)
(* in a day than his turns were charged since his last reset.                  *)
THEOREM NothingOvercharged == Spec => []NeverOvercharged
<1>1. BooksInv => NeverOvercharged
  BY DEF BooksInv
<1> QED BY <1>1, BooksAlways, PTL

(* While every file can be read and written, charges and resets never undo one *)
(* another: a day that is kept holds what its turns were charged.              *)
THEOREM BooksAdd == Spec => []ChargesAdd
<1>1. BooksInv => ChargesAdd
  BY DEF BooksInv
<1> QED BY <1>1, BooksAlways, PTL

-----------------------------------------------------------------------------
(* How far past the limit *)

(* The turns that may still be charged to the user's day: admitted and not yet *)
(* charged, or about to be admitted.                                           *)
Open(u, d) ==
  {s \in Slots :
     /\ slots[s].user = u
     /\ \/ slots[s].pc \in {"costed", "locked"} /\ slots[s].day = d
        \/ slots[s].pc = "running" /\ d = day
        \/ slots[s].pc = "seen" /\ d = day /\ \E limit \in LimitsOf(u) : slots[s].saw < limit}

(* The bound, with what the open turns can still add already counted. *)
SpendAt(u, d) ==
  \E limit \in LimitsOf(u) :
    ledger[d][u] + Cardinality(Open(u, d)) * MaxCost < limit + Cardinality(Slots) * MaxCost

(* Nothing is charged to a day before it comes. *)
FutureInv == \A d \in Days : d > day => \A u \in Users : ledger[d][u] = 0

SpendInv ==
  faults = 0 =>
    \A u \in Users : Unlimited \notin Grants[u] =>
      \A d \in Days : d <= day => SpendAt(u, d)

(* Multiplying by a cost keeps the order. *)
LEMMA TimesCost ==
  ASSUME NEW a \in Nat, NEW b \in Nat, NEW m \in Nat, a <= b
  PROVE  a * m \in Nat /\ b * m \in Nat /\ a * m <= b * m
<1>1. (b - a) * m >= 0 /\ b * m = a * m + (b - a) * m
  OBVIOUS
<1> QED BY <1>1

(* The limits of a user who is never unlimited are numbers. *)
LEMMA LimitsNat ==
  ASSUME NEW u \in Users, Unlimited \notin Grants[u]
  PROVE  LimitsOf(u) \subseteq Nat /\ DefaultLimit \in LimitsOf(u) /\ DefaultLimit > 0
BY UsageConstants DEF LimitsOf

(* There are as many threads as the bound counts, and no more turns are open. *)
LEMMA OpenCount ==
  ASSUME NEW S \in SUBSET Slots
  PROVE  /\ Cardinality(Slots) \in Nat /\ IsFiniteSet(S)
         /\ Cardinality(S) \in Nat /\ Cardinality(S) <= Cardinality(Slots)
BY UsageConstants, FS_Subset, FS_CardinalityType

LEMMA OpenSlots ==
  ASSUME NEW u, NEW d
  PROVE  Open(u, d) \in SUBSET Slots /\ Open(u, d)' \in SUBSET Slots
BY DEF Open

(* After a step that neither charges the day nor opens a turn of it, the bound *)
(* still holds.                                                                *)
LEMMA SpendKeep ==
  ASSUME NEW u \in Users, Unlimited \notin Grants[u], NEW d \in Days, SpendAt(u, d),
         ledger[d][u] \in Nat, ledger'[d][u] \in Nat,
         ledger'[d][u] <= ledger[d][u], Open(u, d)' \subseteq Open(u, d)
  PROVE  SpendAt(u, d)'
<1> DEFINE n == Cardinality(Open(u, d))  m == Cardinality(Open(u, d)')
           k == Cardinality(Slots)
<1>1. m \in Nat /\ n \in Nat /\ m <= n /\ k \in Nat
  BY OpenSlots, OpenCount, FS_Subset
<1>2. m * MaxCost \in Nat /\ n * MaxCost \in Nat /\ m * MaxCost <= n * MaxCost /\ k * MaxCost \in Nat
  BY <1>1, TimesCost, UsageConstants
<1>3. PICK limit \in LimitsOf(u) : ledger[d][u] + n * MaxCost < limit + k * MaxCost
  BY DEF SpendAt
<1>4. limit \in Nat
  BY LimitsNat
<1> HIDE DEF n, m, k
<1>5. ledger'[d][u] + m * MaxCost < limit + k * MaxCost
  BY <1>2, <1>3, <1>4
<1> QED BY <1>5 DEF SpendAt, m, k, LimitsOf

(* A user who has spent less than a limit is within the bound, however many of *)
(* his turns are open.                                                         *)
LEMMA SpendLow ==
  ASSUME NEW u \in Users, Unlimited \notin Grants[u], NEW S \in SUBSET Slots,
         NEW spent \in Nat, NEW limit \in LimitsOf(u), spent < limit
  PROVE  \E max \in LimitsOf(u) :
           spent + Cardinality(S) * MaxCost < max + Cardinality(Slots) * MaxCost
<1> DEFINE n == Cardinality(S)  k == Cardinality(Slots)
<1>1. n \in Nat /\ n <= k /\ k \in Nat
  BY OpenCount
<1>2. n * MaxCost \in Nat /\ k * MaxCost \in Nat /\ n * MaxCost <= k * MaxCost
  BY <1>1, TimesCost, UsageConstants
<1>3. limit \in Nat
  BY LimitsNat
<1> HIDE DEF n, k
<1>4. spent + n * MaxCost < limit + k * MaxCost
  BY <1>2, <1>3
<1> QED BY <1>4 DEF n, k

(* A charge closes one turn and adds no more than the dearest turn costs. *)
LEMMA SpendMore ==
  ASSUME NEW u \in Users, Unlimited \notin Grants[u], NEW d \in Days, SpendAt(u, d),
         ledger[d][u] \in Nat, NEW c \in 0 .. MaxCost, ledger'[d][u] = ledger[d][u] + c,
         NEW s \in Open(u, d), Open(u, d)' \subseteq Open(u, d) \ {s}
  PROVE  SpendAt(u, d)'
<1> DEFINE n == Cardinality(Open(u, d))  m == Cardinality(Open(u, d)')
           k == Cardinality(Slots)
<1>0. MaxCost \in Nat
  BY UsageConstants
<1>1. m \in Nat /\ n \in Nat /\ m <= n - 1 /\ n - 1 \in Nat /\ k \in Nat
  <2>1. IsFiniteSet(Open(u, d)) /\ n \in Nat /\ k \in Nat
    BY OpenSlots, OpenCount
  <2>2. IsFiniteSet(Open(u, d) \ {s}) /\ Cardinality(Open(u, d) \ {s}) = n - 1
    BY <2>1, FS_RemoveElement
  <2>3. m <= n - 1 /\ m \in Nat /\ n - 1 \in Nat
    BY <2>2, FS_Subset, FS_CardinalityType
  <2> QED BY <2>1, <2>3
<1>2. m * MaxCost \in Nat /\ (n - 1) * MaxCost \in Nat /\ m * MaxCost <= (n - 1) * MaxCost
      /\ k * MaxCost \in Nat
  BY <1>0, <1>1, TimesCost
<1>3. PICK limit \in LimitsOf(u) : ledger[d][u] + n * MaxCost < limit + k * MaxCost
  BY DEF SpendAt
<1>4. limit \in Nat
  BY LimitsNat
<1> HIDE DEF n, m, k
<1>5. n * MaxCost = (n - 1) * MaxCost + MaxCost
  BY <1>0, <1>1
<1>6. ledger'[d][u] + m * MaxCost < limit + k * MaxCost
  BY <1>0, <1>2, <1>3, <1>4, <1>5
<1> QED BY <1>6 DEF SpendAt, m, k, LimitsOf


(* A new process has spent nothing. *)
LEMMA SpendInit == Init => FutureInv /\ SpendInv
<1> SUFFICES ASSUME Init PROVE FutureInv /\ SpendInv
  OBVIOUS
<1>1. \A u \in Users : \A d \in Days : ledger[d][u] = 0
  BY DEF Init, Empty
<1>2. ASSUME NEW u \in Users, Unlimited \notin Grants[u], NEW d \in Days
      PROVE  SpendAt(u, d)
  BY <1>1, <1>2, SpendLow, LimitsNat, OpenSlots DEF SpendAt
<1> QED BY <1>1, <1>2 DEF FutureInv, SpendInv

(* A step that leaves the files and the day alone opens no turn of a user who *)
(* has not spent less than a limit.                                           *)
LEMMA SpendIdle ==
  ASSUME TypeOK, FutureInv, SpendInv, Next, UNCHANGED <<ledger, day>>,
         faults' = 0 => \A u \in Users : Unlimited \notin Grants[u] => \A d \in Days :
           Open(u, d)' \subseteq Open(u, d) \/ \E limit \in LimitsOf(u) : ledger[d][u] < limit
  PROVE  FutureInv' /\ SpendInv'
<1>1. FutureInv'
  BY DEF FutureInv
<1> SUFFICES ASSUME faults' = 0, NEW u \in Users, Unlimited \notin Grants[u],
                    NEW d \in Days, d <= day
             PROVE  SpendAt(u, d)'
  BY <1>1 DEF SpendInv
<1>3. ledger[d][u] \in Nat /\ ledger'[d][u] = ledger[d][u]
  BY DEF TypeOK, Rows
<1>4. SpendAt(u, d)
  BY FaultsGrow DEF SpendInv
<1>5. CASE Open(u, d)' \subseteq Open(u, d)
  BY <1>3, <1>4, <1>5, SpendKeep
<1>6. CASE \E limit \in LimitsOf(u) : ledger[d][u] < limit
  BY <1>3, <1>6, SpendLow, OpenSlots DEF SpendAt
<1> QED BY <1>5, <1>6

(* A charge closes the turn it is for; pruning clears days only of the past. *)
LEMMA SpendCharge ==
  ASSUME TypeOK, BooksInv, FutureInv, SpendInv, NEW s \in Slots, WriteCharge(s), Next
  PROVE  FutureInv' /\ SpendInv'
<1> DEFINE r == slots[s]
<1>0. /\ r \in Request /\ slots \in [Slots -> Request] /\ day \in Int /\ r.pc = "locked"
      /\ \A d \in Days : d \in Int
  BY DEF TypeOK, Days, WriteCharge
<1>1. /\ r.day \in Days /\ r.user \in Users /\ r.cost \in 0 .. MaxCost /\ r.cost \in Nat
      /\ r.day <= day /\ KEEP_DAYS \in Nat
  BY <1>0, UsageConstants DEF Request, BooksInv, DaysInv
<1>2. /\ slots'[s].pc = "idle" /\ (\A t \in Slots \ {s} : slots'[t] = slots[t]) /\ day' = day
      /\ UNCHANGED <<ledger, charged>> \/ ChargeWritten(s)
  BY <1>0 DEF WriteCharge, ChargeWritten, NoRequest
<1>3. \A u, d : Open(u, d)' \subseteq Open(u, d) \ {s}
  BY <1>2 DEF Open
<1>4. CASE UNCHANGED <<ledger, charged>>
  BY <1>2, <1>3, <1>4, SpendIdle
<1>5. CASE ChargeWritten(s)
  <2>1. ASSUME NEW u \in Users, NEW d \in Days
        PROVE  /\ ledger[d][u] \in Nat /\ data[s][u] \in Nat
               /\ ledger'[d][u] =
                    IF d < r.day - KEEP_DAYS THEN 0
                    ELSE (IF d = r.day THEN data[s][u] ELSE ledger[d][u])
                         + (IF d = r.day /\ u = r.user THEN r.cost ELSE 0)
    BY <1>5, ChargeRows
  <2>2. FutureInv'
    BY <1>0, <1>1, <1>2, <2>1 DEF FutureInv
  <2> SUFFICES ASSUME faults' = 0, NEW u \in Users, Unlimited \notin Grants[u],
                      NEW d \in Days, d <= day
               PROVE  SpendAt(u, d)'
    BY <1>2, <2>2 DEF SpendInv
  <2>3. SpendAt(u, d) /\ data[s][u] = ledger[r.day][u]
    <3>1. faults = 0
      BY FaultsGrow
    <3>2. lock = s /\ lock # Free /\ DayOf(lock) = r.day
      BY <1>0, UsageConstants DEF TypeOK, DayOf
    <3> QED BY <3>1, <3>2 DEF SpendInv, BooksInv, DataInv
  <2>4. CASE d = r.day /\ u = r.user
    <3>1. ledger'[d][u] = ledger[d][u] + r.cost /\ ledger[d][u] \in Nat
      BY <1>0, <1>1, <2>1, <2>3, <2>4
    <3>2. s \in Open(u, d)
      BY <1>0, <2>4 DEF Open
    <3> QED BY <1>1, <1>3, <2>3, <3>1, <3>2, SpendMore
  <2>5. CASE ~(d = r.day /\ u = r.user)
    <3>1. ledger'[d][u] \in Nat /\ ledger[d][u] \in Nat /\ ledger'[d][u] <= ledger[d][u]
      BY <1>0, <1>1, <2>1, <2>3, <2>5
    <3>2. Open(u, d)' \subseteq Open(u, d)
      BY <1>3
    <3> QED BY <2>3, <3>1, <3>2, SpendKeep
  <2> QED BY <2>4, <2>5
<1> QED BY <1>2, <1>4, <1>5

(* A reset only lowers what was spent. *)
LEMMA SpendReset ==
  ASSUME TypeOK, BooksInv, FutureInv, SpendInv, WriteReset, Next
  PROVE  FutureInv' /\ SpendInv'
<1>0. /\ admin.day <= day /\ slots' = slots /\ day' = day /\ admin \in Reset
      /\ \A u, d : Open(u, d)' = Open(u, d)
  BY DEF BooksInv, DaysInv, WriteReset, Open, TypeOK
<1>1. admin.day \in Int /\ day \in Int /\ \A d \in Days : d \in Int
  BY <1>0 DEF Reset, TypeOK, Days
<1>2. CASE UNCHANGED <<ledger, charged>>
  BY <1>0, <1>2, SpendIdle
<1>3. CASE ResetWritten
  <2>1. ASSUME NEW u \in Users, NEW d \in Days
        PROVE  /\ ledger[d][u] \in Nat /\ data[Admin][u] \in Nat
               /\ ledger'[d][u] = IF d # admin.day THEN ledger[d][u]
                                  ELSE IF u = admin.user THEN 0 ELSE data[Admin][u]
    BY <1>3, ResetRows
  <2>2. FutureInv'
    BY <1>0, <1>1, <2>1 DEF FutureInv
  <2> SUFFICES ASSUME faults' = 0, NEW u \in Users, Unlimited \notin Grants[u],
                      NEW d \in Days, d <= day
               PROVE  SpendAt(u, d)'
    BY <1>0, <2>2 DEF SpendInv
  <2>3. SpendAt(u, d)
    BY FaultsGrow DEF SpendInv
  <2>4. data[Admin][u] <= ledger[admin.day][u]
    <3>1. lock = Admin /\ lock # Free /\ DayOf(lock) = admin.day
      BY UsageConstants DEF WriteReset, TypeOK, DayOf
    <3> QED BY <3>1 DEF BooksInv, DataInv
  <2>5. ledger'[d][u] \in Nat /\ ledger[d][u] \in Nat /\ ledger'[d][u] <= ledger[d][u]
    BY <2>1, <2>4
  <2> QED BY <1>0, <2>3, <2>5, SpendKeep
<1> QED BY <1>2, <1>3 DEF WriteReset, ResetWritten

(* A new day begins with nothing spent; a turn still running is open there and *)
(* no longer in the day before.                                                *)
LEMMA SpendMidnight ==
  ASSUME TypeOK, FutureInv, SpendInv, Midnight, Next
  PROVE  FutureInv' /\ SpendInv'
<1>0. /\ UNCHANGED <<ledger, slots, faults>> /\ day' = day + 1
      /\ day \in Int /\ \A d \in Days : d \in Int
  BY DEF Midnight, files, TypeOK, Days
<1>1. FutureInv'
  BY <1>0 DEF FutureInv
<1> SUFFICES ASSUME faults' = 0, NEW u \in Users, Unlimited \notin Grants[u],
                    NEW d \in Days, d <= day'
             PROVE  SpendAt(u, d)'
  BY <1>1 DEF SpendInv
<1>2. ledger[d][u] \in Nat /\ ledger'[d][u] = ledger[d][u]
  BY <1>0 DEF TypeOK, Rows
<1>3. CASE d <= day
  <2>1. Open(u, d)' \subseteq Open(u, d)
    BY <1>0, <1>3 DEF Open
  <2>2. SpendAt(u, d)
    BY <1>0, <1>3 DEF SpendInv
  <2> QED BY <1>2, <2>1, <2>2, SpendKeep
<1>4. CASE d > day
  <2>1. ledger'[d][u] = 0
    BY <1>2, <1>4 DEF FutureInv
  <2> QED BY <2>1, SpendLow, LimitsNat, OpenSlots DEF SpendAt
<1> QED BY <1>0, <1>3, <1>4

(* A request opens only if the user had spent less than a limit when it read, *)
(* and the turn it starts is open already.                                    *)
LEMMA SpendAdmit ==
  ASSUME TypeOK, FutureInv, SpendInv, Next, NEW s \in Slots,
         ReadSpent(s) \/ Decide(s) \/ EndUncharged(s) \/ Cost(s) \/ LockLedger(s)
  PROVE  FutureInv' /\ SpendInv'
<1>0. /\ slots \in [Slots -> Request] /\ slots[s] \in Request
      /\ UNCHANGED <<ledger, day>> /\ (\A t \in Slots \ {s} : slots'[t] = slots[t])
  BY DEF TypeOK, ReadSpent, Decide, EndUncharged, Cost, LockLedger, files
<1>1. ASSUME NEW u \in Users, NEW d \in Days, s \in Open(u, d)' => s \in Open(u, d)
      PROVE  Open(u, d)' \subseteq Open(u, d)
  BY <1>0, <1>1 DEF Open
<1> SUFFICES ASSUME faults' = 0, NEW u \in Users, Unlimited \notin Grants[u],
                    NEW d \in Days, s \in Open(u, d)', s \notin Open(u, d)
             PROVE  \E limit \in LimitsOf(u) : ledger[d][u] < limit
  BY <1>0, <1>1, SpendIdle
<1>2. /\ slots'[s].user = u
      /\ \/ slots'[s].pc \in {"costed", "locked"} /\ slots'[s].day = d
         \/ slots'[s].pc = "running" /\ d = day
         \/ /\ slots'[s].pc = "seen" /\ d = day
            /\ \E limit \in LimitsOf(u) : slots'[s].saw < limit
  BY <1>0 DEF Open
<1>3. CASE ReadSpent(s)
  <2>1. PICK v \in Users, rows \in {ledger[day], Empty} :
          /\ ReadAs(ledger[day], Empty, rows)
          /\ slots' = [slots EXCEPT ![s] = [@ EXCEPT !.pc = "seen", !.user = v,
                                                     !.saw = rows[v]]]
    BY <1>3 DEF ReadSpent
  <2>2. slots'[s].pc = "seen" /\ slots'[s].user = v /\ slots'[s].saw = rows[v]
    BY <1>0, <2>1 DEF Request
  <2>3. rows = ledger[day]
    BY <2>1, UsageConstants DEF ReadAs, TypeOK
  <2> QED BY <1>2, <2>2, <2>3
<1>4. CASE Decide(s)
  <2>1. PICK rows \in {overrides, [v \in Users |-> NoOverride]} :
          LET limit == LimitFor(slots[s].user, rows)
              may   == limit = Unlimited \/ slots[s].saw < limit
          IN  slots' = [slots EXCEPT ![s] =
                          IF may THEN [@ EXCEPT !.pc = "running"] ELSE NoRequest]
    BY <1>4 DEF Decide
  <2> DEFINE limit == LimitFor(slots[s].user, rows)
  <2>2. limit = Unlimited \/ slots[s].saw < limit
    BY <1>0, <1>2, <2>1 DEF NoRequest
  <2>3. slots'[s].pc = "running" /\ slots[s].user = u
    BY <1>0, <1>2, <2>1, <2>2 DEF Request
  <2>4. limit \in LimitsOf(u) /\ limit # Unlimited
    BY <2>3, UsageConstants DEF LimitFor, LimitsOf, TypeOK
  <2> QED BY <1>0, <1>2, <1>4, <2>2, <2>3, <2>4 DEF Open, Decide
<1>5. CASE EndUncharged(s)
  BY <1>0, <1>2, <1>5 DEF EndUncharged, NoRequest
<1>6. CASE Cost(s)
  <2>1. /\ slots[s].pc = "running" /\ slots'[s].pc = "costed"
        /\ slots'[s].user = slots[s].user /\ slots'[s].day = day
    <3>1. PICK c \in Costs :
            slots' = [slots EXCEPT ![s] = [@ EXCEPT !.pc = "costed", !.cost = c, !.day = day]]
      BY <1>6 DEF Cost
    <3> QED BY <1>0, <1>6, <3>1 DEF Cost, Request
  <2> QED BY <1>2, <2>1 DEF Open
<1>7. CASE LockLedger(s)
  <2>1. /\ slots[s].pc = "costed" /\ slots'[s].pc = "locked"
        /\ slots'[s].user = slots[s].user /\ slots'[s].day = slots[s].day
    BY <1>0, <1>7 DEF LockLedger, Request
  <2> QED BY <1>2, <2>1 DEF Open
<1> QED BY <1>3, <1>4, <1>5, <1>6, <1>7

(* Every step keeps the bound. *)
LEMMA SpendStep == TypeOK /\ BooksInv /\ FutureInv /\ SpendInv /\ [Next]_vars
                     => FutureInv' /\ SpendInv'
<1> SUFFICES ASSUME TypeOK, BooksInv, FutureInv, SpendInv, [Next]_vars
             PROVE  FutureInv' /\ SpendInv'
  OBVIOUS
<1>1. CASE UNCHANGED vars
  BY <1>1 DEF vars, files, FutureInv, SpendInv, SpendAt, Open, LimitsOf
<1>2. ASSUME NEW s \in Slots, Turn(s), Next PROVE FutureInv' /\ SpendInv'
  BY <1>2, SpendAdmit, SpendCharge DEF Turn
<1>3. ASSUME AskReset \/ LockReset \/ SetOverride, Next PROVE FutureInv' /\ SpendInv'
  <2>1. UNCHANGED <<ledger, slots, day>>
    BY <1>3 DEF AskReset, LockReset, SetOverride, files
  <2>2. \A u, d : Open(u, d)' = Open(u, d)
    BY <2>1 DEF Open
  <2> QED BY <1>3, <2>1, <2>2, SpendIdle
<1>4. ASSUME WriteReset \/ Midnight, Next PROVE FutureInv' /\ SpendInv'
  BY <1>4, SpendReset, SpendMidnight
<1> QED BY <1>1, <1>2, <1>3, <1>4 DEF Next

(* Every turn admitted below the limit is counted with what it can still cost, *)
(* so what a user has spent is always within the bound.                        *)
LEMMA SpendWithin == TypeOK /\ FutureInv /\ SpendInv => SpendBounded
<1> SUFFICES ASSUME TypeOK, FutureInv, SpendInv, faults = 0, NEW u \in Users,
                    Unlimited \notin Grants[u], NEW d \in Days
             PROVE  \E limit \in LimitsOf(u) :
                      ledger[d][u] < limit + Cardinality(Slots) * MaxCost
  BY DEF SpendBounded
<1>1. ledger[d][u] \in Nat /\ d \in Int /\ day \in Int
  <2>1. ledger \in [Days -> Rows] /\ day \in Days
    BY DEF TypeOK
  <2>2. ledger[d] \in Rows
    BY <2>1
  <2> QED BY <2>1, <2>2 DEF Rows, Days
<1>2. /\ Cardinality(Slots) * MaxCost \in Nat /\ Cardinality(Open(u, d)) * MaxCost \in Nat
      /\ LimitsOf(u) \subseteq Nat /\ DefaultLimit \in LimitsOf(u) /\ DefaultLimit > 0
  BY OpenCount, OpenSlots, TimesCost, LimitsNat, UsageConstants
<1>3. CASE d <= day
  <2>1. PICK limit \in LimitsOf(u) :
          ledger[d][u] + Cardinality(Open(u, d)) * MaxCost < limit + Cardinality(Slots) * MaxCost
    BY <1>3 DEF SpendInv, SpendAt
  <2> QED BY <1>1, <1>2, <2>1
<1>4. CASE d > day
  BY <1>1, <1>2, <1>4 DEF FutureInv
<1> QED BY <1>1, <1>3, <1>4

(* While every file can be read and written, a user who is never unlimited *)
(* passes his limit of a day by less than one turn of each request thread. *)
THEOREM SpendIsBounded == Spec => []SpendBounded
BY TypeInit, TypeStep, BooksInit, BooksStep, SpendInit, SpendStep, SpendWithin, PTL DEF Spec

-----------------------------------------------------------------------------
(* The books that are promised *)

(* What the holder of the lock has read is the day's file as it still is, or   *)
(* nothing of it once a file could not be read.                                *)
FoundInv ==
  lock # Free =>
    /\ data[lock] \in {ledger[DayOf(lock)], Empty}
    /\ faults = 0 => data[lock] = ledger[DayOf(lock)]

(* A turn whose cost is known costs what a turn can cost. *)
CostInv == \A s \in Slots : slots[s].pc \in {"costed", "locked"} => slots[s].cost \in Costs

(* The first books are empty ones, of no request and no holder. *)
LEMMA FoundInit == Init => FoundInv /\ CostInv
BY DEF Init, FoundInv, CostInv, NoRequest

(* A step of a request that does not hold the lock leaves the holder's read. *)
LEMMA FoundIdle ==
  ASSUME TypeOK, FoundInv, Next, UNCHANGED <<ledger, lock, data>>,
         lock # Free => DayOf(lock)' = DayOf(lock)
  PROVE  FoundInv'
<1>1. faults' = 0 => faults = 0
  BY FaultsGrow
<1> QED BY <1>1 DEF FoundInv

(* The holder's read is the file, or nothing of it after a fault. *)
LEMMA FoundLock ==
  ASSUME TypeOK, NEW h \in Holders, NEW d \in Days, NEW rows \in {ledger[d], Empty},
         ReadAs(ledger[d], Empty, rows), data' = [data EXCEPT ![h] = rows],
         lock' = h, DayOf(h)' = d, ledger' = ledger
  PROVE  FoundInv'
<1>1. data'[h] = rows /\ faults \in Nat
  BY UsageConstants DEF TypeOK
<1>2. faults' = 0 => rows = ledger[d]
  BY <1>1 DEF ReadAs
<1> QED BY <1>1, <1>2 DEF FoundInv

(* Every step keeps what the holder has read. *)
LEMMA FoundStep == TypeOK /\ FoundInv /\ [Next]_vars => FoundInv'
<1> SUFFICES ASSUME TypeOK, FoundInv, [Next]_vars PROVE FoundInv'
  OBVIOUS
<1>1. CASE UNCHANGED vars
  BY <1>1 DEF vars, files, FoundInv, DayOf
<1>2. CASE Next
  <2>1. ASSUME NEW s \in Slots, ReadSpent(s) \/ Decide(s) \/ EndUncharged(s) \/ Cost(s)
        PROVE  FoundInv'
    <3>1. UNCHANGED <<ledger, lock, data, admin>>
      BY <2>1 DEF ReadSpent, Decide, EndUncharged, Cost, files
    <3>2. lock # s /\ \A t \in Slots \ {s} : slots'[t] = slots[t]
      BY <2>1 DEF ReadSpent, Decide, EndUncharged, Cost, TypeOK
    <3>3. lock # Free => DayOf(lock)' = DayOf(lock)
      BY <3>1, <3>2 DEF DayOf, TypeOK, Holders
    <3> QED BY <1>2, <3>1, <3>3, FoundIdle
  <2>2. ASSUME NEW s \in Slots, LockLedger(s) PROVE FoundInv'
    <3>0. slots[s] \in Request /\ s \in Holders /\ slots[s].day \in Days /\ s # Admin
      BY UsageConstants DEF TypeOK, Request, Holders
    <3>1. PICK rows \in {ledger[slots[s].day], Empty} :
            /\ ReadAs(ledger[slots[s].day], Empty, rows)
            /\ data' = [data EXCEPT ![s] = rows]
      BY <2>2 DEF LockLedger
    <3>2. DayOf(s)' = slots[s].day
      BY <2>2, <3>0 DEF LockLedger, DayOf, TypeOK, Request
    <3>3. lock' = s /\ ledger' = ledger
      BY <2>2 DEF LockLedger, files
    <3> QED BY <3>0, <3>1, <3>2, <3>3, FoundLock
  <2>3. CASE LockReset
    <3>0. admin \in Reset /\ Admin \in Holders /\ admin.day \in Days
      BY DEF TypeOK, Reset, Holders
    <3>1. PICK rows \in {ledger[admin.day], Empty} :
            ReadAs(ledger[admin.day], Empty, rows) /\ data' = [data EXCEPT ![Admin] = rows]
      BY <2>3 DEF LockReset
    <3>2. DayOf(Admin)' = admin.day
      BY <2>3, <3>0 DEF LockReset, DayOf, Reset
    <3>3. lock' = Admin /\ ledger' = ledger
      BY <2>3 DEF LockReset, files
    <3> QED BY <3>0, <3>1, <3>2, <3>3, FoundLock
  <2>4. ASSUME NEW s \in Slots, WriteCharge(s) PROVE FoundInv'
    BY <2>4 DEF WriteCharge, FoundInv
  <2>5. CASE WriteReset
    BY <2>5 DEF WriteReset, FoundInv
  <2>6. CASE AskReset \/ SetOverride \/ Midnight
    <3>1. UNCHANGED <<ledger, lock, data, slots>>
      BY <2>6 DEF AskReset, SetOverride, Midnight, files
    <3>2. lock = Admin => admin' = admin
      BY <2>6 DEF AskReset, SetOverride, Midnight, TypeOK
    <3>3. lock # Free => DayOf(lock)' = DayOf(lock)
      BY <3>1, <3>2 DEF DayOf
    <3> QED BY <1>2, <3>1, <3>3, FoundIdle
  <2> QED BY <1>2, <2>1, <2>2, <2>3, <2>4, <2>5, <2>6 DEF Next, Turn
<1> QED BY <1>1, <1>2

(* A cost is fixed once and kept until it is charged. *)
LEMMA CostStep == TypeOK /\ CostInv /\ [Next]_vars => CostInv'
<1> SUFFICES ASSUME TypeOK, CostInv, [Next]_vars, NEW t \in Slots,
                    slots'[t].pc \in {"costed", "locked"}
             PROVE  slots'[t].cost \in Costs
  BY DEF CostInv
<1>0. slots \in [Slots -> Request] /\ NoRequest.pc = "idle"
  BY DEF TypeOK, NoRequest
<1>1. ASSUME slots' = slots PROVE slots'[t].cost \in Costs
  BY <1>1 DEF CostInv
<1>2. ASSUME NEW s \in Slots, Turn(s) PROVE slots'[t].cost \in Costs
  <2>0. slots[s] \in Request
    BY <1>0
  <2>1. CASE ReadSpent(s)
    BY <1>0, <2>0, <2>1 DEF ReadSpent, CostInv, Request
  <2>2. CASE Decide(s)
    BY <1>0, <2>0, <2>2 DEF Decide, CostInv, Request
  <2>3. CASE EndUncharged(s)
    BY <1>0, <2>3 DEF EndUncharged, CostInv
  <2>4. CASE Cost(s)
    BY <1>0, <2>0, <2>4 DEF Cost, CostInv, Request
  <2>5. CASE LockLedger(s)
    BY <1>0, <2>0, <2>5 DEF LockLedger, CostInv, Request
  <2>6. CASE WriteCharge(s)
    BY <1>0, <2>6 DEF WriteCharge, CostInv
  <2> QED BY <1>2, <2>1, <2>2, <2>3, <2>4, <2>5, <2>6 DEF Turn
<1>3. ASSUME AskReset \/ LockReset \/ WriteReset \/ SetOverride \/ Midnight
      PROVE  slots'[t].cost \in Costs
  BY <1>1, <1>3 DEF AskReset, LockReset, WriteReset, SetOverride, Midnight
<1> QED BY <1>1, <1>2, <1>3 DEF Next, vars

(* The first day's empty files are the books a new process promises. *)
LEMMA InitMaps == Init => Books!Init
BY DEF Init, Books!Init, Empty, Books!Blank

(* A write starts from what the holder of the lock has found. *)
LEMMA WriteFound ==
  ASSUME FoundInv, lock # Free
  PROVE  data[lock] \in Books!Found(DayOf(lock))
BY DEF FoundInv, Books!Found, Empty, Books!Blank

(* A step that writes no day file and is no midnight is nothing, or a failure. *)
LEMMA QuietMaps ==
  ASSUME TypeOK, Next, UNCHANGED <<ledger, day>>
  PROVE  [Books!Next]_(Books!vars)
<1>1. faults \in Nat
  BY UsageConstants DEF TypeOK
<1>2. faults' = faults \/ faults' = faults + 1
  BY DEF Next, Turn, ReadSpent, Decide, EndUncharged, Cost, LockLedger, WriteCharge,
         AskReset, LockReset, WriteReset, SetOverride, Midnight, ReadAs
<1>3. (faults' = 0) = (faults = 0) \/ ((faults = 0) = TRUE /\ (faults' = 0) = FALSE)
  BY <1>1, <1>2
<1>4. CASE (faults' = 0) = (faults = 0)
  BY <1>4 DEF Books!vars
<1>5. CASE (faults = 0) = TRUE /\ (faults' = 0) = FALSE
  BY <1>5 DEF Books!Next, Books!Damage
<1> QED BY <1>3, <1>4, <1>5

(* The charge that is written is a charge of the books. *)
LEMMA ChargeMaps ==
  ASSUME TypeOK, DaysInv, FoundInv, CostInv, NEW s \in Slots, WriteCharge(s), Next
  PROVE  [Books!Next]_(Books!vars)
<1> DEFINE r == slots[s]
<1>1. r \in Request /\ r.day \in Days /\ r.user \in Users /\ r.cost \in Costs /\ r.day <= day
  BY DEF TypeOK, Request, CostInv, DaysInv, WriteCharge
<1>2. lock = s /\ lock # Free /\ DayOf(lock) = r.day
  BY UsageConstants DEF WriteCharge, TypeOK, DayOf
<1>3. CASE ChargeWritten(s) /\ faults' = faults /\ ledger' # ledger
  <2>1. data[s] \in Books!Found(r.day)
    BY <1>2, WriteFound
  <2>2. ledger' = [e \in Days |->
           IF e < r.day - KEEP_DAYS THEN Books!Blank
           ELSE IF e = r.day THEN [data[s] EXCEPT ![r.user] = @ + r.cost] ELSE ledger[e]]
    BY <1>1, <1>3 DEF ChargeWritten, Pruned, Empty, Books!Blank, TypeOK
  <2>3. day' = day /\ (faults' = 0) = (faults = 0)
    BY <1>3 DEF WriteCharge
  <2>4. Books!Charge(r.user, r.day, r.cost)
    BY <1>1, <2>1, <2>2, <2>3 DEF Books!Charge
  <2> QED BY <1>1, <1>3, <2>4 DEF Books!Next, Books!Write
<1>4. CASE ledger' = ledger
  BY <1>4, QuietMaps DEF WriteCharge
<1>5. (ChargeWritten(s) /\ faults' = faults) \/ ledger' = ledger
  BY DEF WriteCharge, ChargeWritten
<1> QED BY <1>3, <1>4, <1>5

(* The reset that is written is a reset of the books. *)
LEMMA ResetMaps ==
  ASSUME TypeOK, DaysInv, FoundInv, WriteReset, Next
  PROVE  [Books!Next]_(Books!vars)
<1>1. admin \in Reset /\ admin.day \in Days /\ admin.user \in Users /\ admin.day <= day
  BY DEF TypeOK, Reset, DaysInv
<1>2. lock = Admin /\ lock # Free /\ DayOf(lock) = admin.day
  BY UsageConstants DEF WriteReset, TypeOK, DayOf
<1>3. CASE ResetWritten /\ faults' = faults /\ ledger' # ledger
  <2>1. data[Admin] \in Books!Found(admin.day)
    BY <1>2, WriteFound
  <2>2. day' = day /\ (faults' = 0) = (faults = 0)
    BY <1>3 DEF WriteReset
  <2>3. Books!Reset(admin.user, admin.day)
    BY <1>1, <1>3, <2>1, <2>2 DEF Books!Reset, ResetWritten
  <2> QED BY <1>1, <1>3, <2>3 DEF Books!Next, Books!Write
<1>4. CASE ledger' = ledger
  BY <1>4, QuietMaps DEF WriteReset
<1>5. (ResetWritten /\ faults' = faults) \/ ledger' = ledger
  BY DEF WriteReset, ResetWritten
<1> QED BY <1>3, <1>4, <1>5

(* Every step of the limit is one of the books, or leaves them as they are. *)
LEMMA StepMaps ==
  ASSUME TypeOK, DaysInv, FoundInv, CostInv, [Next]_vars
  PROVE  [Books!Next]_(Books!vars)
<1>1. CASE UNCHANGED vars
  BY <1>1 DEF vars, files, Books!vars
<1>2. CASE Next
  <2>1. ASSUME NEW s \in Slots, WriteCharge(s) PROVE [Books!Next]_(Books!vars)
    BY <1>2, <2>1, ChargeMaps
  <2>2. CASE WriteReset
    BY <1>2, <2>2, ResetMaps
  <2>3. CASE Midnight
    <3>1. UNCHANGED <<ledger, faults>> /\ day' = day + 1 /\ day' \in Days
      BY <2>3, UsageConstants DEF Midnight, files, TypeOK, Days
    <3> QED BY <3>1 DEF Books!Next, Books!Midnight
  <2>4. ASSUME NEW s \in Slots,
               ReadSpent(s) \/ Decide(s) \/ EndUncharged(s) \/ Cost(s) \/ LockLedger(s)
        PROVE  UNCHANGED <<ledger, day>>
    BY <2>4 DEF ReadSpent, Decide, EndUncharged, Cost, LockLedger, files
  <2>5. ASSUME AskReset \/ LockReset \/ SetOverride
        PROVE  UNCHANGED <<ledger, day>>
    BY <2>5 DEF AskReset, LockReset, SetOverride, files
  <2> QED BY <1>2, <2>1, <2>2, <2>3, <2>4, <2>5, QuietMaps DEF Next, Turn
<1> QED BY <1>1, <1>2

(* The limit's day files, written in several steps that other threads, the     *)
(* admin and midnight come between, are books that each charge and each reset  *)
(* changes at once.                                                            *)
THEOREM BooksKept == Spec => KeepsBooks
<1>1. BooksInv => DaysInv
  BY DEF BooksInv
<1>2. TypeOK /\ DaysInv /\ FoundInv /\ CostInv /\ [Next]_vars => [Books!Next]_(Books!vars)
  BY StepMaps
<1>3. Spec => Books!Init /\ [][Books!Next]_(Books!vars)
  BY <1>1, <1>2, TypeInit, TypeStep, BooksInit, BooksStep, FoundInit, FoundStep, CostStep,
     InitMaps, PTL DEF Spec
<1> QED BY <1>3 DEF KeepsBooks, Books!Spec
=============================================================================
