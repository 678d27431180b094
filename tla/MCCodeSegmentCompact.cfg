\* A compaction that has to move two functions.
SPECIFICATION Spec
CONSTANTS
    f1 = f1
    f2 = f2
    f3 = f3
    f4 = f4
    Functions = {f1, f2, f3, f4}
    Size <- MCSize
    PageSize = 4
    MinSegment = 60
    MinCapacity = 2
    isREPL = TRUE
    UDF = UDF
    Zero = Zero
    Nowhere = Nowhere
    NULL = NULL
    Segment = Segment
    Garbage = {FALSE}
    GrowthCollects = FALSE
    MaxBatch = 2
    MaxCompiles = 4
INVARIANTS
    CodeIntact
CHECK_DEADLOCK FALSE
