SPECIFICATION Spec
CONSTANTS
    Names = {t}
    Rows <- TwoRows
    ColumnLists <- ColumnsAB
    Workers <- OneWorker
    Predicates <- DeleteAll
    AlterOps <- ReuseAlters
    Ops <- RevertOps
    CompactMinInputs = 2
    JobStepSegments = 1
    JobSwapGap = 0
    MaxVersion = 8
    MaxTombstones = 2
    MaxId = 2
    r1 = r1
    r2 = r2
    w1 = w1
    w2 = w2
SYMMETRY Symmetry
INVARIANTS
    GarbageUnreferenced SwapNeverWedged TombstoneFollowsColumn ColumnsNeverMix FlushAccepted
PROPERTIES
    RefinesContents
CHECK_DEADLOCK FALSE
