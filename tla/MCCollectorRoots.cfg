SPECIFICATION Spec
CONSTANTS
    Addresses = {a1, a2, a3}
    MaxGCRoots = 1
    GCRootsAlone = TRUE
INVARIANTS
    NoDanglingPointers
