CONSTANTS
    IntBits = 11
    I128Max = 5000
    MaxDigits = 3
    MantissaBits = 4
    DateMax = 40
    DayHours = 2
    HourMinutes = 2
    MinuteSeconds = 2
    FracBase = 2
    LenWrap = 4
    WordBits = 2
    MaxOffset = 5
    ByteBits = 3
    LeadBits = 5
    SampleRows = 4
    MaxDecodeRows = 6
    MaxDecodeBytes = 12
    BloomK = 2
    BloomKMax = 3
    MinLog2 = 3
    MaxLog2 = 4
    BitsPerKey = 4
    GramLen = 2
    ValueSetMax = 2
    HeaderLen = 2
    StatsMaxBytes = 2
    FormatVersion = 1
    MaxRows = 3
    MaxBatches = 2
    MaxDepth = 3
    MaxRepeat = 2
    MaxProgram = 8
    MaxPattern = 4
    SparseLimit = 3
    HashBits = 6
    IndexBits = 2
    TopMin = 2
    TopFactor = 1
    BatchLimit = 2
    MaxClauses = 3
    MaxNesting = 6
    MaxChain = 4
    MaxJsonDepth = 3
    MaxSets = 2
    MaxLines = 2
    FileNumbers = {1, 2}
    MaxEdits = 4
    MaxStops = 1
SPECIFICATION Spec
CHECK_DEADLOCK FALSE
INVARIANT BloomKeepsEqual
