----------------------------- MODULE DailyUsage -----------------------------
(***************************************************************************)
(* The daily credit limit (agent_runtime/usage_limit.py) and the turns it  *)
(* admits and charges (api/server.py: _daily_limit_refusal;                *)
(* agent_chat_service.py: _charge_turn).                                   *)
(*                                                                         *)
(* A request thread reads what its user has spent, then the user's limit,  *)
(* and starts the turn or refuses it; nothing is reserved.  The cost is    *)
(* known when the turn ends and is added to the day then current, under a  *)
(* lock that an admin's reset takes too.  Credits are counted in units.    *)
(***************************************************************************)
EXTENDS Integers, FiniteSets

CONSTANTS
    Users,          \* signed-in users (no one else is limited)
    Slots,          \* the request threads of the one server process
    Admin,          \* the admin's request, when it holds the lock
    Free,           \* nobody holds the lock
    Costs,          \* what a turn can cost
    MaxCost,        \* the dearest turn
    DefaultLimit,   \* AGENT_DAILY_CREDIT_LIMIT
    NoOverride,     \* the user has no override
    Unlimited,      \* the override that lifts the limit
    Grants,         \* the limits the admin may give each user
    KEEP_DAYS,      \* days a ledger file is kept
    LastDay,        \* bound: days of a run
    MaxSpent,       \* bound: what each user is charged in a day before his
                    \*        turns go uncharged
    MaxFaults       \* bound: reads or writes of a file that fail

ASSUME UsageConstants ==
    /\ Users # {} /\ IsFiniteSet(Slots)
    /\ Costs \subseteq 0 .. MaxCost /\ MaxCost \in Nat
    /\ DefaultLimit \in Nat \ {0}
    /\ Unlimited \notin Nat /\ NoOverride \notin Nat \cup {Unlimited}
    /\ Grants \in [Users -> SUBSET (Nat \cup {Unlimited, NoOverride})]
    /\ Admin \notin Slots /\ Free \notin Slots \cup {Admin}
    /\ KEEP_DAYS \in Nat /\ LastDay \in Nat /\ MaxSpent \in [Users -> Nat]
    /\ MaxFaults \in Nat

VARIABLES
    day,        \* today
    ledger,     \* the day files: what each user has spent
    overrides,  \* the override file
    slots,      \* the request of each thread
    admin,      \* the admin's request to reset a user's day
    lock,       \* who holds _lock
    data,       \* the day file as each holder of the lock has read it
    faults,     \* reads and writes that have failed
    charged     \* what turns were charged since the user's last reset (history)

files == <<ledger, overrides>>
vars  == <<day, files, slots, admin, lock, data, faults, charged>>

Days    == 0 .. LastDay
Holders == Slots \cup {Admin}
Rows    == [Users -> Nat]
Empty   == [u \in Users |-> 0]

Request == [pc : {"idle", "seen", "running", "costed", "locked"},
            user : Users, saw : Nat, cost : 0 .. MaxCost, day : Days]
Reset   == [pc : {"idle", "asked", "locked"}, user : Users, day : Days]

NoRequest == [pc |-> "idle", user |-> CHOOSE u \in Users : TRUE, saw |-> 0,
              cost |-> 0, day |-> 0]
NoReset   == [pc |-> "idle", user |-> CHOOSE u \in Users : TRUE, day |-> 0]

Init ==
    /\ day = 0
    /\ ledger = [d \in Days |-> Empty]
    /\ overrides = [u \in Users |-> NoOverride]
    /\ slots = [s \in Slots |-> NoRequest]
    /\ admin = NoReset
    /\ lock = Free
    /\ data = [h \in Holders |-> Empty]
    /\ faults = 0
    /\ charged = [d \in Days |-> Empty]

-----------------------------------------------------------------------------
(* Files *)

(* _read and _read_overrides: a file that cannot be read is an empty one. *)
ReadAs(file, nothing, value) ==
    \/ value = file /\ UNCHANGED faults
    \/ value = nothing /\ faults < MaxFaults /\ faults' = faults + 1

(* _prune, after the day file of `d` was written. *)
Pruned(book, d) ==
    [e \in Days |-> IF e < d - KEEP_DAYS THEN Empty ELSE book[e]]

LimitFor(u, rows) == IF rows[u] = NoOverride THEN DefaultLimit ELSE rows[u]

-----------------------------------------------------------------------------
(* A turn: admitted or refused, run, charged *)

(* refusal: what the user has spent is read first. *)
ReadSpent(s) ==
    /\ slots[s].pc = "idle"
    /\ \E u \in Users, rows \in {ledger[day], Empty} :
          /\ ReadAs(ledger[day], Empty, rows)
          /\ slots' = [slots EXCEPT ![s] = [@ EXCEPT !.pc = "seen", !.user = u,
                                                     !.saw = rows[u]]]
    /\ UNCHANGED <<day, files, admin, lock, data, charged>>

(* Faulty: a turn is refused only beyond the limit. *)
DecideAtLimit(s) ==
    /\ slots[s].pc = "seen"
    /\ \E rows \in {overrides, [u \in Users |-> NoOverride]} :
          LET limit == LimitFor(slots[s].user, rows)
              may   == limit = Unlimited \/ slots[s].saw <= limit
          IN  /\ ReadAs(overrides, [u \in Users |-> NoOverride], rows)
              /\ slots' = [slots EXCEPT ![s] =
                     IF may THEN [@ EXCEPT !.pc = "running"] ELSE NoRequest]
    /\ UNCHANGED <<day, files, admin, lock, data, charged>>

(* The limit is read next, and the turn starts or is refused. *)
Decide(s) ==
    /\ slots[s].pc = "seen"
    /\ \E rows \in {overrides, [u \in Users |-> NoOverride]} :
          LET limit == LimitFor(slots[s].user, rows)
              may   == limit = Unlimited \/ slots[s].saw < limit
          IN  /\ ReadAs(overrides, [u \in Users |-> NoOverride], rows)
              /\ slots' = [slots EXCEPT ![s] =
                     IF may THEN [@ EXCEPT !.pc = "running"] ELSE NoRequest]
    /\ UNCHANGED <<day, files, admin, lock, data, charged>>

(* Stopped, failed or left: nothing is charged. *)
EndUncharged(s) ==
    /\ slots[s].pc = "running"
    /\ slots' = [slots EXCEPT ![s] = NoRequest]
    /\ UNCHANGED <<day, files, admin, lock, data, faults, charged>>

(* record: the day is fixed before the lock is taken. *)
Cost(s) ==
    /\ slots[s].pc = "running"
    /\ charged[day][slots[s].user] < MaxSpent[slots[s].user]
    /\ \E c \in Costs :
          slots' = [slots EXCEPT ![s] = [@ EXCEPT !.pc = "costed", !.cost = c,
                                                  !.day = day]]
    /\ UNCHANGED <<day, files, admin, lock, data, faults, charged>>

(* Faulty: record does not wait for the lock. *)
LockLedgerAnyway(s) ==
    /\ slots[s].pc = "costed"
    /\ lock' = s
    /\ \E rows \in {ledger[slots[s].day], Empty} :
          ReadAs(ledger[slots[s].day], Empty, rows) /\ data' = [data EXCEPT ![s] = rows]
    /\ slots' = [slots EXCEPT ![s].pc = "locked"]
    /\ UNCHANGED <<day, files, admin, charged>>

LockLedger(s) ==
    /\ slots[s].pc = "costed"
    /\ lock = Free
    /\ lock' = s
    /\ \E rows \in {ledger[slots[s].day], Empty} :
          ReadAs(ledger[slots[s].day], Empty, rows) /\ data' = [data EXCEPT ![s] = rows]
    /\ slots' = [slots EXCEPT ![s].pc = "locked"]
    /\ UNCHANGED <<day, files, admin, charged>>

(* The row is raised, the file replaced as a whole, and old files pruned; or
   the write fails and the turn goes uncharged. *)
WriteCharge(s) ==
    /\ slots[s].pc = "locked"
    /\ LET r == slots[s]
       IN  \/ /\ ledger' = Pruned([ledger EXCEPT ![r.day] =
                                     [data[s] EXCEPT ![r.user] = @ + r.cost]], r.day)
              /\ charged' = [charged EXCEPT ![r.day][r.user] = @ + r.cost]
              /\ UNCHANGED faults
           \/ /\ faults < MaxFaults /\ faults' = faults + 1
              /\ UNCHANGED <<ledger, charged>>
    /\ slots' = [slots EXCEPT ![s] = NoRequest]
    /\ lock' = Free
    /\ data' = [data EXCEPT ![s] = Empty]
    /\ UNCHANGED <<day, overrides, admin>>

-----------------------------------------------------------------------------
(* The admin, and midnight *)

AskReset ==
    /\ admin.pc = "idle"
    /\ \E u \in Users : admin' = [pc |-> "asked", user |-> u, day |-> day]
    /\ UNCHANGED <<day, files, slots, lock, data, faults, charged>>

(* Faulty: a reset does not wait for the lock. *)
LockResetAnyway ==
    /\ admin.pc = "asked"
    /\ lock' = Admin
    /\ \E rows \in {ledger[admin.day], Empty} :
          ReadAs(ledger[admin.day], Empty, rows) /\ data' = [data EXCEPT ![Admin] = rows]
    /\ admin' = [admin EXCEPT !.pc = "locked"]
    /\ UNCHANGED <<day, files, slots, charged>>

LockReset ==
    /\ admin.pc = "asked"
    /\ lock = Free
    /\ lock' = Admin
    /\ \E rows \in {ledger[admin.day], Empty} :
          ReadAs(ledger[admin.day], Empty, rows) /\ data' = [data EXCEPT ![Admin] = rows]
    /\ admin' = [admin EXCEPT !.pc = "locked"]
    /\ UNCHANGED <<day, files, slots, charged>>

(* reset_today: written only when the user had a row. *)
WriteReset ==
    /\ admin.pc = "locked"
    /\ LET u    == admin.user
           rows == data[Admin]
       IN  \/ /\ rows[u] > 0
              /\ ledger' = [ledger EXCEPT ![admin.day] = [rows EXCEPT ![u] = 0]]
              /\ charged' = [charged EXCEPT ![admin.day][u] = 0]
              /\ UNCHANGED faults
           \/ rows[u] = 0 /\ UNCHANGED <<ledger, charged, faults>>
           \/ /\ rows[u] > 0 /\ faults < MaxFaults /\ faults' = faults + 1
              /\ UNCHANGED <<ledger, charged>>
    /\ admin' = NoReset
    /\ lock' = Free
    /\ data' = [data EXCEPT ![Admin] = Empty]
    /\ UNCHANGED <<day, overrides, slots>>

(* set_override holds the lock from its read to its write. *)
SetOverride ==
    /\ lock = Free
    /\ \E u \in Users, rows \in {overrides, [v \in Users |-> NoOverride]} :
          /\ ReadAs(overrides, [v \in Users |-> NoOverride], rows)
          /\ \E limit \in Grants[u] : overrides' = [rows EXCEPT ![u] = limit]
    /\ UNCHANGED <<day, ledger, slots, admin, lock, data, charged>>

Midnight ==
    /\ day < LastDay
    /\ day' = day + 1
    /\ UNCHANGED <<files, slots, admin, lock, data, faults, charged>>

Turn(s) ==
    \/ ReadSpent(s) \/ Decide(s) \/ EndUncharged(s) \/ Cost(s)
    \/ LockLedger(s) \/ WriteCharge(s)

Next ==
    \/ \E s \in Slots : Turn(s)
    \/ AskReset \/ LockReset \/ WriteReset \/ SetOverride \/ Midnight

Spec == Init /\ [][Next]_vars

-----------------------------------------------------------------------------
(* Properties *)

(* Every variable has its type, and the lock belongs to the one request that
   is between its read and its write. *)
TypeOK ==
    /\ day \in Days
    /\ ledger \in [Days -> Rows] /\ charged \in [Days -> Rows]
    /\ data \in [Holders -> Rows]
    /\ overrides \in [Users -> Nat \cup {Unlimited, NoOverride}]
    /\ \A u \in Users : overrides[u] \in Grants[u] \cup {NoOverride}
    /\ slots \in [Slots -> Request]
    /\ admin \in Reset
    /\ lock \in Holders \cup {Free}
    /\ \A s \in Slots : slots[s].pc = "locked" <=> lock = s
    /\ admin.pc = "locked" <=> lock = Admin
    /\ faults \in 0 .. MaxFaults

(* The limits that can apply to the user. *)
LimitsOf(u) == {DefaultLimit} \cup (Grants[u] \ {NoOverride})

(* Turns run before their cost is known and are charged to the day they end,
   so a user can pass the limit, but only by what the turns admitted below it
   can cost: at most one turn for each request thread of the server. *)
SpendBounded == faults = 0 =>
    \A u \in Users : Unlimited \notin Grants[u] =>
        \A d \in Days : \E limit \in LimitsOf(u) :
            ledger[d][u] < limit + Cardinality(Slots) * MaxCost

(* Charges and resets of one user or of several never undo one another: a day
   file that is still kept holds what its turns were charged since the user's
   last reset. *)
BooksBalance ==
    \A u \in Users : \A d \in Days :
        d >= day - KEEP_DAYS => ledger[d][u] = charged[d][u]

(* So it is as long as every file can be read and written. *)
ChargesAdd == faults = 0 => BooksBalance

(* Whatever fails, nobody is held to have spent more than his turns were
   charged. *)
NeverOvercharged == \A u \in Users : \A d \in Days : ledger[d][u] <= charged[d][u]

Books == INSTANCE UsageBooks WITH books <- ledger, whole <- (faults = 0)

(* The day files, read and written in steps that other requests, the admin
   and midnight come between, are books in which each charge and each reset
   happens at once; a file that could not be read costs its other rows at
   most. *)
KeepsBooks == Books!Spec
=============================================================================
