\* Two strings of one chain die in the same collection.
SPECIFICATION StringsSpec
CONSTANTS
    init = init
    a = a
    b = b
    c = c
    NoKey = NoKey
    Nil = Nil
    True = True
    MinCapacity = 4
    Addresses = {p1, p2, p3, p4}
    Places <- MCPlaces
    Texts = {init, a, b, c}
    InitText = init
    Hash <- MCColliding
    Free = Free
    Kept <- MCKept
    GrowthCollects = FALSE
INVARIANTS
    NoDanglingKeys
