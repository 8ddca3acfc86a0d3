SPECIFICATION FairSpec
CONSTANTS
    u1 = u1
    u2 = u2
    s0 = s0
    None = None
    Urls <- MCPods
    StaticWorkers <- MCNoStatic
    SliceContents <- MCHandOver
    Slices = {sa, sb}
    Slack = 16
    CountMod = 8
    Requests = {}
    MaxChanges = 2
    MaxFailures = 1
    MaxCrashes = 1
INVARIANTS
    RegistryMatchesDiscovery
    Synced
PROPERTIES
    DiscoveryConverges
    HealthConverges
