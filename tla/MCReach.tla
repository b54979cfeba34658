------------------------------ MODULE MCReach -------------------------------
(* Reach with a daemon that has the other's endpoint in its configuration. *)
EXTENDS Reach, TLC

MCSeen == Lower :> "reflexive" @@ Higher :> "endpoint"
MCListed == [n \in Node |-> None]
=============================================================================
