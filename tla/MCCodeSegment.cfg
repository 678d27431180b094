\* Three lines of input, a segment large enough for all of them.
SPECIFICATION Spec
CONSTANTS
    f1 = f1
    f2 = f2
    f3 = f3
    f4 = f4
    Functions = {f1, f2, f3}
    Size <- MCSize
    PageSize = 4
    MinSegment = 100
    MinCapacity = 2
    isREPL = TRUE
    UDF = UDF
    Zero = Zero
    Nowhere = Nowhere
    NULL = NULL
    Segment = Segment
    Garbage = {TRUE, FALSE}
    GrowthCollects = FALSE
    MaxBatch = 2
    MaxCompiles = 3
INVARIANTS
    TypeOK
    CodeIntact
    CodeExecutable
    FunctionsSorted
    AvailableExact
    PushesSucceed
    NoDanglingFunctions
    BlocksAccounted
