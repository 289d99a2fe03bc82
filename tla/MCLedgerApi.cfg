SPECIFICATION ApiSpec

CONSTANTS
    k1 = k1
    k2 = k2
    calls = calls
    tokens = tokens
    Realm = realm
    None = none
    Children = {x1}
    Dims = {calls}
    Keys = {k1, k2}
    Sagas = {s1}
    Ceilings = {2, 3}
    ParentItem <- ParentOfTwo

INVARIANTS
    LedgerTypeOK
    Conservation
    NeverOverdrawn
    HoldsExplainReserved
    ChildrenAreFunded
    NextEventIsTrue

PROPERTIES
    SpendingIsFinal
    FlowSpec

VIEW WithoutEvents

CHECK_DEADLOCK FALSE
