\* Strings and variables, in tables that start with four entries and grow to eight.
SPECIFICATION Spec
CONSTANTS
    init = init
    n1 = n1
    n2 = n2
    n3 = n3
    n4 = n4
    p1 = p1
    p2 = p2
    p3 = p3
    p4 = p4
    p5 = p5
    NoKey = NoKey
    Nil = Nil
    True = True
    MinCapacity = 4
    Addresses = {p1, p2, p3, p4, p5}
    Places <- MCPlaces
    Texts = {init, n1, n2, n3, n4}
    InitText = init
    Hash <- MCHash
    Free = Free
    Kept <- MCKept
    GrowthCollects = FALSE
    Values = {Nil, True}
    Undefined = Undefined
    Error = Error
INVARIANTS
    TypeOK
    NoDanglingKeys
    InternedOnce
    SearchesEnd
    NamesFound
PROPERTIES
    ImplementsGlobalVariables
