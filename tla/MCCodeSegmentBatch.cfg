\* More functions in one input than the list has room for at first.
SPECIFICATION Spec
CONSTANTS
    f1 = f1
    f2 = f2
    f3 = f3
    f4 = f4
    Functions = {f1, f2, f3, f4}
    Size <- MCSize
    PageSize = 4
    MinSegment = 80
    MinCapacity = 2
    isREPL = TRUE
    UDF = UDF
    Zero = Zero
    Nowhere = Nowhere
    NULL = NULL
    Segment = Segment
    Garbage = {FALSE}
    GrowthCollects = FALSE
    MaxBatch = 3
    MaxCompiles = 1
INVARIANTS
    PushesSucceed
CHECK_DEADLOCK FALSE
