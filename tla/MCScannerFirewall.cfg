CONSTANTS
    IPs = {b}
    V6 = {b}
    Net = net
    Office = office
    Panel = {t1, t2}
    Cli = c
    NoThread = nobody
    BanTime = 1
    YearBan = 2
    Grace = 2
    DwellTime = 1
    Window = 1
    TempTime = 1
    MaxAttempts = 2
    StrikesForYear = 2
    MaxTime = 3
    MaxOps = 2
    MaxRequests = 2
    MaxFails = 1
    MaxEvents = 4
SPECIFICATION Spec
INVARIANTS CopiesAgree NoOrphanBan WhitelistReleased GraceKept PortOpenToWhitelist
SYMMETRY Symmetry
CHECK_DEADLOCK FALSE
