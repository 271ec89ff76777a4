---------------------------- MODULE MCIncidents ----------------------------
(***************************************************************************)
(* Two announcements for TLC.  One closes a place and a bus stop: the      *)
(* model gives the place with its coordinates swapped, or only a name that *)
(* is in the table, or one that is not.  The other closes a stretch of     *)
(* road between two names and a part of a line: the names may be missing,  *)
(* in the table or only with Kakao.  A third speaks of a distance along a  *)
(* road.                                                                   *)
(***************************************************************************)
EXTENDS Incidents

MCNames == {"plaza", "gate", "gate area", "bridge", "a", "c", ""}
MCTrim  == [n \in MCNames |-> IF n = "gate area" THEN "gate" ELSE n]
Row(place, gu, ok) == [place |-> place, gu |-> gu, ok |-> ok]
MCTable == [n \in MCNames |->
              CASE n = "plaza" -> <<Row("plaza", <<"Jung", "gu">>, TRUE), Row("plaza 2", Null, TRUE)>>
                [] n = "bridge" -> <<Row("bridge", Null, FALSE)>>
                [] n = "" -> <<Row("bridge", Null, FALSE), Row("plaza", <<"Jung", "gu">>, TRUE)>>
                [] OTHER -> <<>>]
MCKakao == [n \in MCNames |->
              IF n = "gate" THEN [where |-> {"gate"}, si |-> <<"Seoul">>, gu |-> <<"Mapo", "gu">>] ELSE Null]
MCNear  == [p \in {"plaza", "plaza 2", "gate", "bridge", "here", "way"} |-> IF p = "here" THEN {} ELSE {"B1"}]

MCStopOf == [n \in {"01234"} |-> {"B2"}]
MCTrack  == [l \in {"1"} |-> <<"S1", "S2", "S3">>]
MCCalled == [n \in {"", "a", "c"} |-> CASE n = "a" -> {"S1"} [] n = "c" -> {"S2"} [] OTHER -> {"S1", "S2", "S3"}]

Base == [type |-> "BUSSTOP", name |-> "01234", since |-> 1, start |-> Null, end |-> Null, road |-> Null,
         lat |-> "null", where |-> {}, si |-> Null, gu |-> Null]
Place(start, lat) == [Base EXCEPT !.type = "ADDRESS_POINT", !.start = start, !.lat = lat, !.si = <<"Seoul">>,
                                  !.where = IF lat = "swapped" THEN {"here"} ELSE {}]
Road(start, end)  == [Base EXCEPT !.type = "BETWEEN_NODES", !.start = start, !.end = end]
Line(start, end)  == [Base EXCEPT !.type = "SUBWAY", !.name = "1", !.road = "1", !.start = start, !.end = end,
                                  !.gu = <<"Mapo">>, !.si = <<"Seoul", "special", "si">>]

MCTexts ==
    [place |-> [ADDRESS_POINT |-> {<<[Place("gate", "swapped") EXCEPT !.gu = <<"Jung">>], Place("plaza", "null")>>,
                                   <<Place("bridge", "text"), Place("gate", "null")>>, <<Place("plaza", "absent")>>},
                BUSSTOP |-> {<<[Base EXCEPT !.lat = "swapped", !.gu = <<"Jung">>, !.si = <<"Seoul">>]>>}],
     road  |-> [BETWEEN_NODES |-> {<<Road("plaza", "gate area")>>, <<Road("gate area", "plaza")>>,
                                   <<Road("plaza", "bridge")>>},
                SUBWAY |-> {<<Line("", "c"), Line("a", "c")>>, <<Line("", ""), Line(Null, Null)>>}],
     along |-> [LINEAR_REFERENCE |-> {<<[Base EXCEPT !.type = "LINEAR_REFERENCE", !.start = "plaza"]>>,
                                      <<[Base EXCEPT !.type = "LINEAR_REFERENCE", !.start = "plaza", !.road = "way"]>>}]]
=============================================================================
