------------------------------ MODULE MCReroute ------------------------------
(***************************************************************************)
(* Reroute for TLC: users are interchangeable in the safety properties.    *)
(***************************************************************************)
EXTENDS Reroute, TLC

UserSymmetry == Permutations(User)
=============================================================================
