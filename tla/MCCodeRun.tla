------------------------------ MODULE MCCodeRun ------------------------------
(* Constants for TLC. *)
EXTENDS ToolBridge

(* Reviewed runs without the bridge, and runs with it that nobody reviews. *)
MCSetups == {<<m, "off">> : m \in Modes} \cup {<<"off", "on">>}

(* Two equal searches and a download. *)
MCWhat == [c \in Calls |-> IF c = 3 THEN "page" ELSE "roads"]
MCKind == [a \in Args |-> IF a = "page" THEN "fetch" ELSE "search"]
MCSize == [a \in Args |-> IF a = "page" THEN 2 ELSE 1]

MCRegion == <<0, 0, 4, 4>>

(* Three elements: in a corner, beside it, in the opposite one, across a    *)
(* border, or outside; some two asks fail, or as many as a box is given.    *)
Places == [1 .. 3 -> {{<<0, 0>>}, {<<1, 0>>}, {<<3, 3>>}, {<<1, 1>>, <<2, 1>>}, {<<4, 4>>}}]
Outages == {{i, j} : i, j \in 0 .. 6} \cup {{1, 2, 3}, {2, 3, 4}}

(* A search by kind of features which can be drawn or not, and one by name. *)
ByKind == [at : Places, rel : {{}, {1}}, exact : {{}}, quick : {{}},
           drawn : {1 .. 3, {2, 3}, {1, 2}}, fails : Outages]
ByTheName == [at : Places, rel : {{1}, {1, 2}}, exact : {{}, {1}}, quick : {{1}, {2, 3}},
              drawn : {1 .. 3}, fails : {{}, {1}, {1, 2}}]
MCMaps == ByKind \cup ByTheName
==============================================================================
