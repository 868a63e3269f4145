SPECIFICATION Spec
CONSTANTS
    Names = {t}
    Rows <- TwoRows
    ColumnLists <- ColumnsAB
    Workers <- OneWorker
    Predicates <- DeleteAll
    AlterOps <- NoAlters
    Ops <- LifecycleOps
    CompactMinInputs = 2
    JobStepSegments = 1
    JobSwapGap = 1
    MaxVersion = 9
    MaxTombstones = 1
    MaxId = 3
    r1 = r1
    r2 = r2
    w1 = w1
    w2 = w2
SYMMETRY Symmetry
INVARIANTS
    TypeOK FlushAccepted
PROPERTIES
    NoSegmentLeaks RefinesContents
CHECK_DEADLOCK FALSE
