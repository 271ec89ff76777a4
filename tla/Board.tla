------------------------------- MODULE Board -------------------------------
(***************************************************************************)
(* What MAS01 promises to MAS02: a board of incidents.  An incident is     *)
(* learnt, and it is posted on a stream only while it is known, so that    *)
(* whoever reads of it finds it in the graph; nothing is unposted, and     *)
(* what is known is forgotten only all at once.                            *)
(***************************************************************************)
EXTENDS FiniteSets

VARIABLES
    known, \* the incidents of the graph
    posted \* what is on the streams, with the incident it is about

Init == posted = {}

Learn == /\ \E id \in known' \ known : known' = known \cup {id}
         /\ UNCHANGED posted

Post == /\ \E p \in posted' \ posted : p.id \in known /\ posted' = posted \cup {p}
        /\ UNCHANGED known

Forget == known' = {} /\ UNCHANGED posted

Next == Learn \/ Post \/ Forget

Spec == Init /\ [][Next]_<<known, posted>>
=============================================================================
