CONSTANTS
    p1 = p1
    p2 = p2
    p3 = p3
    Provider = {p1, p2, p3}
    Order <- MCOrder
    Bits = 2
    Region <- MCRegion
    NoRegion <- MCNoRegion
    Ru <- MCRu
    StrictRegion <- MCStrictRegion
    Sources <- MCSources
    Hinted <- MCHinted
    Scanned <- MCScanned
    Blocked <- MCBlocked
    Shipped <- MCShipped
    Options <- MCOptions
    Published <- MCPublished
    Direct <- MCDirect
    Selections <- MCSelections
    Refresher = {r1, r2}
    MinCandidate = 3
    DropPercent = 45
    MaxOps = 3
SPECIFICATION Spec
INVARIANTS MetaHonest BudgetSound EstimateHonest
PROPERTIES PoolFloor ListKept
CHECK_DEADLOCK FALSE
SYMMETRY MCSymmetry
