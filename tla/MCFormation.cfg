SPECIFICATION FormationSpec

CONSTANTS
    f1 = f1
    s1 = s1
    s2 = s2
    q1 = q1
    d1 = d1
    o1 = o1
    o2 = o2
    None = none
    Formations = {f1}
    Scope = realm
    Commands <- OneFormation
    MaxEpoch = 2

INVARIANTS
    SentIsRecorded

PROPERTIES
    FateSpec

CHECK_DEADLOCK FALSE
