------------------------------ MODULE Notices ------------------------------
(***************************************************************************)
(* What MAS02 promises to its users, pair by pair of a user and an         *)
(* incident: a user is found only near the incident, told of it only if it *)
(* was found, and led around it only once told; a user has one detour at a *)
(* time, and nothing is taken back that it was told.                       *)
(***************************************************************************)
VARIABLES
    near,   \* pairs of a user and an incident of the graph it passes
    found,  \* pairs the search has found
    told,   \* pairs with an alert
    detour  \* the incident each user is led around, if any, as pairs

Init == found = {} /\ told = {} /\ detour = {}

Find == /\ \E p \in near : found' = found \cup {p}
        /\ UNCHANGED <<near, told, detour>>

Tell == /\ \E p \in found : told' = told \cup {p}
        /\ UNCHANGED <<near, found, detour>>

Lead == /\ \E p \in told : detour' = {q \in detour : q[1] # p[1]} \cup {p}
        /\ UNCHANGED <<near, found, told>>

(* Users move, incidents are learnt and forgotten.                         *)
Turn == UNCHANGED <<found, told, detour>>

Next == Find \/ Tell \/ Lead \/ Turn

Spec == Init /\ [][Next]_<<near, found, told, detour>>
=============================================================================
