SPECIFICATION SteadySpec

CONSTANTS
    e1 = e1
    e2 = e2
    unit = unit
    Unit = unit
    Realm = realm
    None = none
    Children = {}
    Dims = {unit}
    Keys = {e1, e2}
    Usages = {1, 2}
    Sagas <- OneModelSagas
    Ceilings = {1, 2}
    ParentItem <- ParentOfTwo

INVARIANTS
    OneLedger
    CapacityComesHome
    RecordMatchesLedger

PROPERTY
    ReleaseIsExact

VIEW WithoutEvents

CHECK_DEADLOCK FALSE
