SPECIFICATION FairSpec
CONSTANTS
    RingSecs = 3
    Packets <- MCPackets
    MaxUnits = 3
    MaxClips = 2
INVARIANTS
    ClipContiguous
    ClipResyncs
PROPERTIES
    ClipEnds
