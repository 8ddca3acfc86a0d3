SPECIFICATION Spec
CONSTANTS
    b1 = b1
    b2 = b2
    b3 = b3
    NoWorker = NoWorker
    Blocks <- MCBlocks
    ShardOf <- MCShardOf
    NumShards = 2
    Callers = {c1}
    Purgers = {p1}
    Sweepers = {e1}
    Workers = {w1}
    Chains <- MCChains
    Ttl = 0
    MaxEntries = 1
    MaxNow = 1
INVARIANTS
    TypeOK
    NoEmptyEntry
    PurgeComplete
    SweepBound
    SweepKeepsCap
PROPERTIES
    ImplementsBelief
