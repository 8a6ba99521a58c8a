----------------------------- MODULE TileSearch -----------------------------
(***************************************************************************)
(* The paged search for map features: fetch_osm_features of                *)
(* src/agent_runtime/tool_bridge.py, and the overpass_search of             *)
(* src/rag_pipeline/search/overpass.py it asks.  The service has no offset: *)
(* a box whose answer counts a full page is split in four and asked again, *)
(* one that fails is asked once more, then split.  The search is one        *)
(* thread's loop, so it is a function of what the service holds and of      *)
(* which asks fail.                                                         *)
(*                                                                         *)
(* A box is <<w, s, e, n>>; it contains the points from w and s up to      *)
(* before e and n.  An element lies at one or more points: one that crosses *)
(* a border is in both boxes.  A way that belongs to a relation which is    *)
(* also asked for comes with it and is no element of its own.               *)
(***************************************************************************)
EXTENDS Integers, FiniteSets, Sequences

CONSTANTS
    Region,     \* the box asked for
    Page,       \* _OVERPASS_PAGE
    MaxTiles,   \* AGENT_CODE_BRIDGE_OSM_TILES
    FeatureCap  \* max_features

ASSUME SearchConstants ==
    /\ Region \in Int \X Int \X Int \X Int
    /\ Page \in Nat \ {0} /\ MaxTiles \in Nat \ {0} /\ FeatureCap \in Nat \ {0}

(* Of what the service holds, map.at[f] is where element f lies; map.rel    *)
(* are relations, map.exact those with just the name that is asked for, and *)
(* map.drawn the elements that can be drawn.  At the asks in map.quick      *)
(* relations alone are asked for first, and answered; at those in map.fails *)
(* every mirror fails what is asked for in full.                            *)
Inside(p, box) == box[1] <= p[1] /\ p[1] < box[3] /\ box[2] <= p[2] /\ p[2] < box[4]
In(map, box) == {f \in DOMAIN map.at : \E p \in map.at[f] : Inside(p, box)}

FirstPage(all) ==
    IF Cardinality(all) <= Page THEN all
    ELSE CHOOSE some \in SUBSET all : Cardinality(some) = Page

Relations(map, box) == FirstPage(In(map, box) \cap map.rel)
Others(map, box) == FirstPage(In(map, box) \ map.rel)

(* A relation with just that name is the answer, with the relations beside it. *)
ByName(map, ask, box) == ask \in map.quick /\ Relations(map, box) \cap map.exact # {}

Pages(map, ask, box) ==
    IF ByName(map, ask, box) THEN {Relations(map, box)}
    ELSE {Relations(map, box), Others(map, box)}

(* overpass_search: of the elements sent, those that can be drawn, up to a  *)
(* page of them.                                                            *)
Answer(map, ask, box) == FirstPage((UNION Pages(map, ask, box)) \cap map.drawn)

(* What the number of features does not show: that only relations were      *)
(* asked for, or that the service filled a page of elements some of which   *)
(* cannot be drawn.                                                         *)
Withheld(map, ask, box) ==
    \/ ByName(map, ask, box)
    \/ /\ Cardinality(Answer(map, ask, box)) < Page
       /\ \E page \in Pages(map, ask, box) : Cardinality(page) = Page

Quarters(box) ==
    LET mx == (box[1] + box[3]) \div 2
        my == (box[2] + box[4]) \div 2
    IN << <<box[1], box[2], mx, my>>, <<mx, box[2], box[3], my>>,
          <<box[1], my, mx, box[4]>>, <<mx, my, box[3], box[4]>> >>

(* The four quarters, each with the failures its box had. *)
Split(box, failures) == [i \in 1 .. 4 |-> [box |-> Quarters(box)[i], failures |-> failures]]

Start == [pending |-> << [box |-> Region, failures |-> 0] >>,
          seen |-> {}, tiles |-> 0, refused |-> FALSE, withheld |-> FALSE]

Unfinished(s) == ~s.refused /\ s.pending # <<>> /\ s.tiles < MaxTiles /\ Cardinality(s.seen) < FeatureCap

(* No answer: once more, then in four; a quarter that fails ends the call. *)
Failed(s) ==
    LET tile == Head(s.pending) IN
    CASE tile.failures >= 2 -> [s EXCEPT !.refused = TRUE]
      [] tile.failures = 0 -> [s EXCEPT !.pending = <<[tile EXCEPT !.failures = 1]>> \o Tail(@)]
      [] OTHER -> [s EXCEPT !.pending = Split(tile.box, 2) \o Tail(@)]

(* Faulty: a full page is taken for the last one. *)
AnsweredOnce(map, s) ==
    LET box == Head(s.pending).box IN
    [s EXCEPT !.seen = @ \cup Answer(map, s.tiles, box), !.pending = Tail(@),
              !.withheld = @ \/ Withheld(map, s.tiles, box)]

(* An answer, kept once by feature; a full page has its box split. *)
Answered(map, s) ==
    LET box == Head(s.pending).box
        got == Answer(map, s.tiles, box)
    IN [s EXCEPT !.seen = @ \cup got,
                 !.pending = IF Cardinality(got) >= Page THEN Tail(@) \o Split(box, 0) ELSE Tail(@),
                 !.withheld = @ \/ Withheld(map, s.tiles, box)]

(* A relation found by its name needs no request that could fail. *)
Ask(map, s) ==
    LET asked == [s EXCEPT !.tiles = @ + 1] IN
    IF asked.tiles \in map.fails /\ ~ByName(map, asked.tiles, Head(s.pending).box)
    THEN Failed(asked) ELSE Answered(map, asked)

Step(map, s) == IF Unfinished(s) THEN Ask(map, s) ELSE s

(* The loop, turn by turn; every turn counts a tile. *)
Trail(map) ==
    LET after[k \in 0 .. MaxTiles] == IF k = 0 THEN Start ELSE Step(map, after[k - 1])
    IN after

Search(map) == Trail(map)[MaxTiles]

Complete(s) == s.pending = <<>> /\ Cardinality(s.seen) < FeatureCap

(* What the call returns: a refusal, part of the region, or what it calls  *)
(* complete: all that can be drawn in the region, or less, with or without *)
(* an answer that withheld some.                                            *)
SearchOutcome(map) ==
    LET s == Search(map) IN
    CASE s.refused -> "refused"
      [] ~s.refused /\ ~Complete(s) -> "part"
      [] OTHER -> IF s.seen = In(map, Region) \cap map.drawn THEN "whole"
                  ELSE IF s.withheld THEN "withheld" ELSE "short"
=============================================================================
