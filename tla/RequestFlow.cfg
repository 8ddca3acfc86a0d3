SPECIFICATION FairSpec
CONSTANTS
    None = None
    Requests = {r1, r2}
    NumWorkers = 2
    PoolOf <- MCPools
    Bodies <- MCBodies
    CountMod = 8
    Unprintable = {0}
INVARIANTS
    TypeOK
    StreamTerminated
    TokensExact
    GuardsExact
    Accounted
PROPERTIES
    HandlerAnswers
