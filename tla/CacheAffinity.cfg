SPECIFICATION Spec
CONSTANTS
    None = None
    MetricName = hit_rate
    Requests = {r1, r2}
    Workers = {0}
    Prompts <- MCPrompts
    Expositions <- MCExpositions
    PromptBlockChars = 2
    PrefixBlockChars = 2
    PrefixCacheCap = 2
    MaxRequests = 3
    MaxBackground = 2
SYMMETRY MCSymmetry
INVARIANTS
    CreditIsSharedPrefix
    UnderCreditExplained
    MirrorExact
    CountersAgree
    GaugesBelongTogether
