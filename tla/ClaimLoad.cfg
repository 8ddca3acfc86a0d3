SPECIFICATION Spec
CONSTANTS
    u1 = u1
    u2 = u2
    s0 = s0
    None = None
    Urls <- MCPodAndStatic
    StaticWorkers <- MCNoStatic
    SliceContents <- MCFlapping
    Slices = {sa}
    Slack = 16
    CountMod = 8
    Requests = {r1}
    MaxChanges = 0
    MaxFailures = 0
    MaxCrashes = 0
INVARIANTS
    NoPhantomLoad
