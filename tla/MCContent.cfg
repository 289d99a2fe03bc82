SPECIFICATION ContentSpec

CONSTANTS
    a1 = a1
    good = good
    bad = bad
    huge = huge
    s1 = s1
    c1 = c1
    c2 = c2
    t1 = t1
    r1 = r1
    x1 = x1
    x2 = x2
    p1 = p1
    p2 = p2
    owner = owner
    guest = guest
    steward = steward
    reader = reader
    g1 = g1
    l1 = l1
    None = none
    Project = project
    Artifacts = {a1}
    Contents = {good, bad, huge}
    Oversized = {huge}
    Spaces = {s1}
    Contributions = {c1, c2}
    Texts = {t1}
    Relations = {r1}
    Changes = {x1, x2}
    Policies = {p1, p2}
    Subjects = {owner, guest}
    Owner = owner
    Roles = {steward, reader}
    Steward = steward
    Grants = {g1}
    Lenses = {l1}

INVARIANTS
    FilesFollowRows
    RedactionLeavesNothing

PROPERTY
    ConfirmedAsPrepared

CONSTRAINT InOnePart
SYMMETRY Twins
