----------------------------- MODULE UsageBooks -----------------------------
(***************************************************************************)
(* What the day files promise the limit that reads them, although every    *)
(* write of one is a read, a change and a write of its own: a charge adds  *)
(* one turn's cost to one user's row and a reset clears one row, each at   *)
(* once and for a day that has begun; nothing else changes a day, until it *)
(* is older than any that is kept.  Once a file could not be read, a write *)
(* may drop the other rows of its day, and no more than that.              *)
(***************************************************************************)
EXTENDS Integers

CONSTANTS
    Users,
    Days,
    Costs,      \* what a turn can cost
    KEEP_DAYS   \* days a book is kept

VARIABLES
    day,        \* today
    books,      \* books[d][u]: what u is held to have spent on day d
    whole       \* every file could be read and written so far

vars == <<day, books, whole>>

Blank == [u \in Users |-> 0]

Init == day = 0 /\ books = [d \in Days |-> Blank] /\ whole = TRUE

(* What a write of the day starts from. *)
Found(d) == IF whole THEN {books[d]} ELSE {books[d], Blank}

Charge(u, d, cost) ==
    /\ d <= day
    /\ \E rows \in Found(d) :
          books' = [e \in Days |->
             IF e < d - KEEP_DAYS THEN Blank
             ELSE IF e = d THEN [rows EXCEPT ![u] = @ + cost] ELSE books[e]]
    /\ UNCHANGED <<day, whole>>

Reset(u, d) ==
    /\ d <= day
    /\ \E rows \in Found(d) : books' = [books EXCEPT ![d] = [rows EXCEPT ![u] = 0]]
    /\ UNCHANGED <<day, whole>>

Midnight ==
    /\ day' = day + 1 /\ day' \in Days
    /\ UNCHANGED <<books, whole>>

Damage ==
    /\ whole /\ whole' = FALSE
    /\ UNCHANGED <<day, books>>

(* A charge of nothing changes nothing. *)
Write ==
    /\ books' # books
    /\ \E u \in Users, d \in Days :
          (\E cost \in Costs : Charge(u, d, cost)) \/ Reset(u, d)

Next == Write \/ Midnight \/ Damage

Spec == Init /\ [][Next]_vars
=============================================================================
