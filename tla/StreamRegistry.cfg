\* Two connections over one stream; a task's identity is used again.
SPECIFICATION FairSpec
CONSTANTS
    Conns = {c1, c2}
    Streams = {s1}
    Pipes = {p1, p2}
    NoPipe = NoPipe
    Version = "v2"
    QueueCap = 1
    MaxFailures = 1
INVARIANTS
    HandleOwned
PROPERTIES
    ConnsKeepLive
    StaleHandleGoes
    OrphanEnds
