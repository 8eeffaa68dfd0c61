CONSTANTS
    Bits = 3
    MinPunchSize = 1
    MaxFragments = 2
    MaxOverlaps = 3
    Described = 2
    g1 = g1
    g2 = g2
    Games = {g1, g2}
    Rank <- MCRank
    Static <- MCStatic
    Asn <- MCAsn
    Dns <- MCDns
    Lists <- MCLists
    UserLines <- MCUserLines
    Domains = TRUE
    RouteLimit = 4
    MaxGameOps = 4
SPECIFICATION GamesSpec
INVARIANTS TrimExact PunchExact ExclusionComplete
CHECK_DEADLOCK FALSE
