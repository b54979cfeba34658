------------------------------- MODULE MCParts -------------------------------
EXTENDS Parts

MCLadder == <<2, 4, 6>>

MCSealTime == <<3, 5>>

(* Of the three pairs, one may be coalesced, one is of the same FEC object *)
(* and one differs in length.                                              *)
MCShape == <<[fate |-> 1, dst |-> 1, len |-> 1],
             [fate |-> 2, dst |-> 1, len |-> 1],
             [fate |-> 1, dst |-> 1, len |-> 2]>>
=============================================================================
