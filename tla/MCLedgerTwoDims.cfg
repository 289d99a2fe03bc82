SPECIFICATION OrderlySpec

CONSTANTS
    k1 = k1
    k2 = k2
    calls = calls
    tokens = tokens
    Realm = realm
    None = none
    Children = {}
    Dims = {calls, tokens}
    Keys = {k1}
    Sagas = {s1}
    Ceilings = {3}
    ParentItem <- ParentOfTwo

PROPERTIES
    ReleaseIsExact

VIEW WithoutEvents

CHECK_DEADLOCK FALSE
