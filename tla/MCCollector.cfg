SPECIFICATION ListSpec
CONSTANTS
    Addresses = {a1, a2, a3}
    MaxGCRoots = 1
    GCRootsAlone = FALSE
    NULL = NULL
INVARIANTS
    TypeOK
    NoDanglingPointers
    ListIsObjects
PROPERTIES
    ImplementsCollector
    ImplementsHeap
    CollectionEnds
