---------------------------- MODULE MCMembership ----------------------------
(* Membership with one member whose certificate is at its end. *)
EXTENDS Membership, TLC

CONSTANTS r, a, b

MCFirstCert == r :> MaxTime + Life @@ a :> MaxTime + Life @@ b :> 0
=============================================================================
