SPECIFICATION CommandsSpec

CONSTANTS
    i1 = i1
    i2 = i2
    Space = space
    Owner = owner
    None = none
    Invocations = {i1, i2}
    InSpace = {}
    Requests <- TwoInvocations

INVARIANTS
    CommandsTypeOK
    OnceEach
    AnswersStand
    DenseSequences
    RowsFollowEvents
    FencedWrites

PROPERTIES
    NoReceiptForTheDead

CHECK_DEADLOCK FALSE
