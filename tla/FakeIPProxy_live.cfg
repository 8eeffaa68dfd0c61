SPECIFICATION FairSpec
CONSTANTS
    a = a
    b = b
    c = c
    Thread = {t1}
    Real <- McReal
    FamilyOf <- McFamilyOf
    NetChoices <- WideNets
    UpstreamTtl = {0}
    MinTtl = 0
    MaxTtl = 1
    Expiry = 1
    MaxDelay = 0
INVARIANT PoolExact
PROPERTIES ExpiredReclaimed ServiceRecovers
