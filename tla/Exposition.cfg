SPECIFICATION Spec
CONSTANTS
    u1 = u1
    u2 = u2
    None = None
    Urls <- MCUrls
    StaticWorkers <- MCStatic
    Scrapes = {s1, s2}
    Probes = {h1}
    Requests = {r1}
    NumShards = 2
    Slack = 2
    MaxIds = 2
    MaxMoves = 4
    MaxEntries = 1
    CountMod = 8
SYMMETRY MCSymmetry
INVARIANTS
    GaugesFresh
    ReadyHonest
