SPECIFICATION Spec
CONSTANTS
    Names = {t}
    Rows <- TwoRows
    ColumnLists <- ColumnsAB
    Workers <- TwoWorkers
    Predicates <- DeleteAll
    AlterOps <- SortAlters
    Ops <- RewriteOps
    CompactMinInputs = 2
    JobStepSegments = 1
    JobSwapGap = 1
    MaxVersion = 8
    MaxTombstones = 1
    MaxId = 5
    r1 = r1
    r2 = r2
    w1 = w1
    w2 = w2
SYMMETRY Symmetry
INVARIANTS
    FreshIds RowsOnce JobCarriesHandled
PROPERTIES
    NoSegmentLeaks
CHECK_DEADLOCK FALSE
