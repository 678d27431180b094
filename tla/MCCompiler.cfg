SPECIFICATION Spec
CONSTANTS
    Programs <- MCPrograms
    MaxEvents = 8
    MayHideParameter = TRUE
    MaxLexeme = 8
    UINT8_COUNT = 256
    InlineNumbers <- MCInline
INVARIANTS
    TypeOK
    TokensRight
    EventsAgree
    HeightsMatch
    Rejections
    Recovers
PROPERTIES
    Finishes
CHECK_DEADLOCK FALSE
