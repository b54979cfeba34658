CONSTANTS
    r = r
    a = a
    b = b
    Nodes = {r, a, b}
    Roots = {r}
    Joined = {r, a}
    Life = 1
    FirstCert <- MCFirstCert
    Skew = 1
    MaxTime = 3
    MaxSeq = 1
    MaxNet = 1
    Restarting = {b}
    MaxRestarts = 1
SPECIFICATION Spec
INVARIANT RevokedDropped
PROPERTY NewestStays
CHECK_DEADLOCK FALSE
