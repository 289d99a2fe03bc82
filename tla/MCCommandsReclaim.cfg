SPECIFICATION CommandsSpec

CONSTANTS
    i1 = i1
    i2 = i2
    Space = space
    Owner = owner
    None = none
    Invocations = {i1, i2}
    InSpace = {}
    Requests <- TwoInvocations

PROPERTIES
    TerminatedClaimIsRefused

CHECK_DEADLOCK FALSE
