SPECIFICATION Spec
CONSTANTS
    BatchRows = 2
    Threads = 3
    Tables <- SmallTables
    Plans <- AllPlans
    Limits = {3, 8}
    MaxFaults = 1
INVARIANTS BudgetKept StagesRight OrderedSlice
PROPERTY QueryEnds
CHECK_DEADLOCK FALSE
