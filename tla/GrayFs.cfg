SPECIFICATION Spec
CONSTANTS
    BlockSize = 2
    Page = 2
    Blocks <- MCBlocks
    Missing <- MCMissing
    Size0 = 3
    List0 <- MCList0
    Fields <- MCFields
    Kinds <- MCKinds
    MaxOffset = 3
    MaxSize = 3
    MaxChanges = 2
    MaxShort = 1
CHECK_DEADLOCK FALSE
INVARIANTS
    ReadServesTheFile
    FieldsAreTheirOwn
PROPERTIES
    CallsReturn
