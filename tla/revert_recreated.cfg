SPECIFICATION Spec
CONSTANTS
    Names = {t}
    Rows <- OneRow
    ColumnLists <- EitherOrder
    Workers <- OneWorker
    Predicates <- DeleteAll
    AlterOps <- ReuseAlters
    Ops <- RecreateOps
    CompactMinInputs = 2
    JobStepSegments = 1
    JobSwapGap = 1
    MaxVersion = 7
    MaxTombstones = 0
    MaxId = 1
    r1 = r1
    r2 = r2
    w1 = w1
    w2 = w2
INVARIANT
    ColumnsNeverMix
CHECK_DEADLOCK FALSE
