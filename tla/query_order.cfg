SPECIFICATION Spec
CONSTANTS
    BatchRows = 2
    Threads = 2
    Tables <- OneTable
    Plans <- OrderByPlan
    Limits = {8}
    MaxFaults = 0
INVARIANT AnswerInOrder
CHECK_DEADLOCK FALSE
