SPECIFICATION EpisodeSpec

CONSTANTS
    e1 = e1
    e2 = e2
    unit = unit
    Unit = unit
    Realm = realm
    None = none
    Children = {}
    Dims = {unit}
    Keys = {e1}
    Usages = {1}
    Sagas <- AllSagas
    Ceilings = {3}
    ParentItem <- ParentOfFour

INVARIANTS
    OneLedger

VIEW WithoutEvents

CHECK_DEADLOCK FALSE
