SPECIFICATION Spec
CONSTANTS
    u1 = u1
    u2 = u2
    s0 = s0
    None = None
    Urls <- MCPodAndStatic
    StaticWorkers <- MCStatic
    SliceContents <- MCFlapping
    Slices = {sa}
    Slack = 16
    CountMod = 8
    Requests = {r1, r2}
    MaxChanges = 2
    MaxFailures = 0
    MaxCrashes = 1
SYMMETRY MCSymmetry
INVARIANTS
    TypeOK
    FreshIdentity
    CoveredExact
    CreditOfUnhealthy
PROPERTIES
    NeverReused
