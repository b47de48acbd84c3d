SPECIFICATION GenSpec
CONSTANTS
    Metadata <- MCMetadata
    Names <- MCNames
    NoName = "none"
    extraBaseFields <- MCExtra
INVARIANTS
    GenTypeOK
    GenClosed
    GenLeast
    BaseFirst
    NestedMessageSame
PROPERTIES
    GenEnds
CHECK_DEADLOCK FALSE
