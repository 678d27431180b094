SPECIFICATION Spec
CONSTANTS
    Programs <- MC31Locals
    MaxEvents = 8
    MayHideParameter = TRUE
    MaxLexeme = 8
    UINT8_COUNT = 256
    InlineNumbers <- MCInline
INVARIANTS
    EventsAgree
CHECK_DEADLOCK FALSE
