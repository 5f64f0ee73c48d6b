\* One session, long enough for the window to slide twice.
SPECIFICATION FairSpec
CONSTANTS
    SegmentSecs = 2
    WindowSecs = 4
    KeepCount = 1
    Packets <- MixedCamera
    MaxSeq = 5
    MaxSessions = 1
INVARIANTS
    ManifestServable
    DiskBounded
    SegmentsDecodable
    DiscontinuityMarked
PROPERTIES
    ManifestContinues
    StopAnnounced
CHECK_DEADLOCK FALSE
