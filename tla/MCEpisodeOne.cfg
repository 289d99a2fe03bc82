SPECIFICATION FairSpec

CONSTANTS
    e1 = e1
    e2 = e2
    unit = unit
    Unit = unit
    Realm = realm
    None = none
    Children = {}
    Dims = {unit}
    Keys = {e1}
    Usages = {1, 2}
    Sagas <- AllSagas
    Ceilings = {2}
    ParentItem <- ParentOfTwo

INVARIANTS
    EpisodeTypeOK
    MaxedIsHeld
    PeerChargeIsHeld
    ReleasedByTail
    SweptTailsFinish

PROPERTIES
    KeepsTheOrder
    SweepEnds

VIEW WithoutEvents

CHECK_DEADLOCK FALSE
