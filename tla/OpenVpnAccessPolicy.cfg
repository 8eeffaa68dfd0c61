\* Two threads about two clients, one failure anywhere.
CONSTANTS
    Clients = {c1, c2}
    Procs = {p1, p2}
    MaxOld = 1
    MaxOps = 2
    MaxFails = 1
SPECIFICATION FairSpec
INVARIANTS BanlistExact
PROPERTIES ManualBlockKept Converges
