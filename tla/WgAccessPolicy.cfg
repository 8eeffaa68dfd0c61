\* Two processes about two clients, one failure anywhere.
CONSTANTS
    Clients = {c1, c2}
    Procs = {p1, p2}
    MaxKeys = 2
    MaxOps = 2
    MaxFails = 1
SPECIFICATION FairSpec
INVARIANTS PolicyEnforced
PROPERTY Converges
