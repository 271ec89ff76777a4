----------------------------- MODULE MCService -----------------------------
(***************************************************************************)
(* A small network for TLC.  Lines 1 and 3 leave A for B, line 1 goes on   *)
(* to D; line 2, a village bus, goes from A by C and D to E, which is the  *)
(* other stop named A; the subway S goes from P, an exit of A, to a        *)
(* station that has D's name.  From B to C is a long walk and from C to D  *)
(* another, so long that it weighs more than two incidents, from the       *)
(* station D to the stop D one of no time.                                 *)
(***************************************************************************)
EXTENDS Service

MCMaster   == {"A", "B", "C", "D", "E", "P", "Q"}
MCPlatform == {"A1", "B1", "D1", "A2", "C2", "D2", "E2", "A3", "B3", "PS", "QS"}
MCSubway   == {"P", "Q", "PS", "QS"}
MCBarred   == {"P", "Q"}

MCName == [n \in MCMaster \cup MCPlatform |->
             CASE n \in {"A", "A1", "A2", "A3", "E", "E2"} -> "A" [] n \in {"B", "B1", "B3"} -> "B"
               [] n \in {"C", "C2"} -> "C" [] n \in {"P", "PS"} -> "A exit 1" [] OTHER -> "D"]
MCCore == [n \in {"A", "B", "C", "D", "A exit 1"} |-> IF n = "A exit 1" THEN "A" ELSE n]
MCLine == [n \in MCPlatform |-> CASE n \in {"A1", "B1", "D1"} -> "1" [] n \in {"A2", "C2", "D2", "E2"} -> "2"
                                  [] n \in {"A3", "B3"} -> "3" [] OTHER -> "S"]
MCFare == [l \in {"1", "2", "3", "S"} |-> CASE l = "2" -> 1200 [] l = "S" -> 1550 [] OTHER -> 1500]

L(src, dst, rel, sec, dist) == [src |-> src, dst |-> dst, rel |-> rel, sec |-> sec, dist |-> dist]

MCLinks ==
    {L("A", "A1", "BOARD", 180, 0), L("B", "B1", "BOARD", 180, 0), L("A", "A2", "BOARD", 240, 0),
     L("C", "C2", "BOARD", 240, 0), L("A", "A3", "BOARD", 180, 0), L("P", "PS", "BOARD", 120, 0),
     L("A1", "B1", "NEXT_STOP", 310, 3000), L("B1", "D1", "NEXT_STOP", 290, 7001),
     L("A2", "C2", "NEXT_STOP", 500, 9000), L("C2", "D2", "NEXT_STOP", 700, 6000),
     L("D2", "E2", "NEXT_STOP", 200, 1000), L("E2", "E", "ALIGHT", 0, 0), L("C", "D", "TRANSFER", 900, 1100),
     L("A3", "B3", "NEXT_STOP", 310, 3000), L("PS", "QS", "NEXT_STOP", 400, 16000),
     L("B1", "B", "ALIGHT", 0, 0), L("D1", "D", "ALIGHT", 0, 0), L("C2", "C", "ALIGHT", 0, 0),
     L("D2", "D", "ALIGHT", 0, 0), L("B3", "B", "ALIGHT", 0, 0), L("QS", "Q", "ALIGHT", 60, 0),
     L("A", "P", "TRANSFER", 120, 100), L("Q", "D", "TRANSFER", 0, 0), L("B", "C", "TRANSFER", 170, 450)}

MCFootprints == {{"B1", "B3"}, {"C2", "PS"}}

Stop(id, near, located) == [id |-> id, near |-> near, located |-> located]
MCTrips == {<<Stop("A", "A", TRUE), Stop("D", "D", TRUE), Stop("C", "C", FALSE)>>,
            <<Stop("B", "B", TRUE), Stop(NoNode, "D", TRUE)>>, <<Stop("A", "A", TRUE), Stop("E", "E", TRUE)>>,
            <<Stop("Q", "Q", TRUE), Stop("D", "D", TRUE)>>,
            <<Stop("A", "A", TRUE), Stop(NoNode, NoNode, TRUE)>>, <<Stop("A", "A", FALSE)>>}
=============================================================================
