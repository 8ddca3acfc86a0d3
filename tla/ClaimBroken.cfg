SPECIFICATION Spec
CONSTANTS
    None = None
    Requests = {r1}
    NumWorkers = 2
    PoolOf <- MCPools
    Bodies <- MCBodies
    CountMod = 8
    Unprintable = {}
INVARIANTS
    BrokenCounted
