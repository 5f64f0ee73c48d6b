\* A media queue of two.
SPECIFICATION FairSpec
CONSTANTS
    MediaCap = 2
    BackoffMax = 3
    PingIntervals = {20}
    MaxMedia = 3
    MaxMotion = 2
INVARIANTS
    SentInOrder
    MotionAccounted
PROPERTIES
    Drains
    Stops
