\* Pollers may end, and so may the ids of a behaviour: no deadlock check.
SPECIFICATION FairSpec
CHECK_DEADLOCK FALSE
CONSTANTS
    c1 = c1
    c2 = c2
    r1 = r1
    Cameras = {c1, c2}
    RulesOf <- MCRulesOf
    UnknownRule = unknown
    ConnRefusedRetries = 1
    ResubAfter = 2
    Queue = 1
    Merges = TRUE
    MaxItems = 2
    MaxIds = 3
INVARIANTS
    SharedExact
PROPERTIES
    FeedSpec
    KeepsPolling
