SPECIFICATION Spec
CONSTANTS
    a = a
    b = b
    c = c
    Thread = {t1, t2}
    Real <- McReal
    FamilyOf <- McFamilyOf
    NetChoices <- McNets
    UpstreamTtl = {0, 3}
    MinTtl = 1
    MaxTtl = 1
    Expiry = 3
    MaxDelay = 1
INVARIANTS MappingOneToOne FirewallMatchesTable CacheRouted
SYMMETRY ThreadSymmetry
