------------------------------ MODULE Geocode ------------------------------
(***************************************************************************)
(* How MAS01 finds coordinates and a district for the names in an          *)
(* announcement (apps/mas01_incident/tools.py): in the table of road nodes *)
(* first, then with Kakao's search.  A lookup is the set of its possible   *)
(* outcomes; one without an outcome raises.  Coordinates are the set of    *)
(* places they are the middle of, none when there are none.                *)
(***************************************************************************)
EXTENDS Sequences

CONSTANTS
    Null,   \* None
    Words,  \* the words that cities and districts are written with
    Trim,   \* each name without the words for "around"
    Table,  \* the rows of the node table whose name contains a name
    Links,  \* the roads that have links
    Kakao   \* what Kakao knows of a name, or Null

(* The names in announcements; places and roads are strings, a city and a  *)
(* district are the words they are written with, or none.                  *)
Names   == DOMAIN Trim
Area    == {Null} \cup Seq(Words)
Located == [where : SUBSET STRING, si : Area, gu : Area]

ASSUME LookupAssumption ==
    /\ {"Seoul", "si", "gu", "unsorted"} \subseteq Words
    /\ Trim \in [Names -> Names] /\ Names \subseteq STRING
    /\ Table \in [Names -> Seq([place : STRING, gu : Area, ok : BOOLEAN])]
    /\ Links \subseteq STRING
    /\ Kakao \in [Names -> {Null} \cup Located]

Seoul    == <<"Seoul", "si">>
Unsorted == [where |-> {}, si |-> Seoul, gu |-> <<"unsorted">>]
Nothing  == [where |-> {}, si |-> Null, gu |-> Null]

(* A row: its district is none when its code is not in the map of          *)
(* districts, its coordinates are none when they cannot be converted.      *)
OfRow(row) == [where |-> IF row.ok THEN {row.place} ELSE {},
               si |-> IF row.gu = Null THEN Null ELSE Seoul, gu |-> row.gu]

(* The search over the network; whatever goes wrong is caught.             *)
AskKakao(name) == {Unsorted} \cup IF Kakao[name] = Null THEN {} ELSE {Kakao[name]}

(* The middle of two places.  The district is that of the start if both    *)
(* are in the table, or the start alone; otherwise that of the end.        *)
Between(start, end) ==
    IF start = Null \/ end = Null THEN {}
    ELSE LET s == Table[Trim[start]]
             e == Table[Trim[end]] IN
         CASE s # <<>> /\ e = <<>> -> {OfRow(Head(s))}
           [] s # <<>> /\ e # <<>> ->
                IF ~Head(s).ok \/ ~Head(e).ok THEN {}
                ELSE {[OfRow(Head(s)) EXCEPT !.where = {Head(s).place, Head(e).place}]}
           [] OTHER -> {IF from.where = {} THEN Nothing
                        ELSE [to EXCEPT !.where = @ \cup from.where] :
                            from \in AskKakao(Trim[start]),
                            to \in IF e = <<>> THEN AskKakao(Trim[end]) ELSE {OfRow(Head(e))}}

(* A place at some distance from an anchor along a road.                   *)
Linear(road, anchor) ==
    IF road = Null \/ anchor = Null THEN {}
    ELSE IF Table[anchor] = <<>> \/ road \notin Links THEN {Nothing}
         ELSE {[OfRow(Head(Table[anchor])) EXCEPT !.where = {road}]}

(* The middle of all rows with the name.  Without one the search runs a    *)
(* coroutine function in a thread, which gives no coordinates.             *)
Address(name) ==
    IF name = Null THEN {}
    ELSE LET rows == Table[name] IN
         IF rows = <<>> THEN {Nothing}
         ELSE {[OfRow(Head(rows)) EXCEPT !.where =
                   IF \A i \in DOMAIN rows : rows[i].ok THEN {rows[i].place : i \in DOMAIN rows} ELSE {}]}

(* What node_enrich_coordinates asks for an item without coordinates.      *)
Resolve(item) ==
    CASE item.type = "BETWEEN_NODES"    -> Between(item.start, item.end)
      [] item.type = "LINEAR_REFERENCE" -> Linear(item.road, item.start)
      [] item.type = "ADDRESS_POINT"    -> Address(item.start)
      [] OTHER                          -> {Nothing}
=============================================================================
