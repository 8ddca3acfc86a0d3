SPECIFICATION Spec
CONSTANTS
    u1 = u1
    u2 = u2
    s0 = s0
    None = None
    Urls <- MCPods
    StaticWorkers <- MCNoStatic
    SliceContents <- MCHandOver
    Slices = {sa}
    Slack = 16
    CountMod = 8
    Requests = {}
    MaxChanges = 0
    MaxFailures = 17
    MaxCrashes = 0
INVARIANTS
    CapacityCoversWorkers
