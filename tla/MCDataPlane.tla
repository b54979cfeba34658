----------------------------- MODULE MCDataPlane -----------------------------
EXTENDS DataPlane

MCKinds ==
    {[class |-> "bulk", k |-> 2], [class |-> "realtime", k |-> 1],
     [class |-> "control", k |-> 0]}
=============================================================================
