SPECIFICATION Spec
CONSTANTS
    Inf = Inf
    NaN = NaN
    None = None
    Threads = {t1, t2}
    NumWorkers = 2
    Prompts <- MCPrompts
    Weights <- MCWeights
    MaxCalls = 5
SYMMETRY MCSymmetry
INVARIANTS
    BeliefExact
    SoundChoice
    LookupFaithful
CHECK_DEADLOCK FALSE
