SPECIFICATION Spec
CONSTANTS
    None = None
    Requests = {r1, r2}
    NumWorkers = 3
    PoolOf <- MCPools
    Policies = {"round_robin", "cache_aware", "disaggregated"}
    ChainLen = 2
    CacheWeight = 1
    LoadWeight = 1
    MaxSelections <- MCSelections
    CountMod = 8
SYMMETRY MCSymmetry
INVARIANTS
    QuietChoice
    NeverWorseAllAlong
    EvenSpread
