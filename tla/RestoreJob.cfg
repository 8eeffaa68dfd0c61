CONSTANTS
    Jobs = {j1, j2}
    NoJob = nobody
    Old = old
    First = first
    Bad = bad
    None = none
    Retention = 2
    MaxFails = 2
    MaxOther = 1
SPECIFICATION Spec
INVARIANTS JournalFits
PROPERTIES RestoreAtomic JobEnds
CHECK_DEADLOCK FALSE
