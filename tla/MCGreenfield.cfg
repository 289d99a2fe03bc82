SPECIFICATION GreenfieldSpec

CONSTANTS
    project = project
    space = space
    soc1 = soc1
    soc2 = soc2
    k1 = k1
    k2 = k2
    k3 = k3
    None = none
    Scopes = {project, space}
    Overlap <- Nested
    Societies = {soc1, soc2}
    EndpointOf <- OwnEndpoints
    Requests <- ThreeKeys
    MaxEpoch = 3
    MaxEra = 1

INVARIANTS
    NoOverlappingActiveOwners
    SeamIsOwned

PROPERTIES
    AuthoritySpec
