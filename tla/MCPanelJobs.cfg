CONSTANTS
    doall = doall
    refresh = refresh
    r1 = r1
    r2 = r2
    Task = {doall, refresh}
    Kinds <- MCKinds
    StaleAfter <- MCStaleAfter
    Workers = 1
    MaxAge = 2
    Request = {r1, r2}
    Times <- MCTimes
    DefaultTime <- MCDefaultTime
    Loads <- MCLoads
SPECIFICATION JobsSpec
PROPERTIES
    TaskEnds
    CacheRefreshes
    CronHeals
    ForeignKept
