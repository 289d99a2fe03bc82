SPECIFICATION FairSpec

CONSTANTS
    a1 = a1
    a2 = a2
    p1 = p1
    p2 = p2
    None = none
    Acts = {a1}
    Prompts = {p1, p2}
    Requests <- Calls
    Allowed <- AllP1
    OutputLimit = 2
    MaxFence = 1
    Usages = {2}

INVARIANTS
    EffectTypeOK
    SentOnce
    HonestOutcome
    SeenIsMetered

PROPERTIES
    SendsAreCovered
    Settles

CHECK_DEADLOCK FALSE
