\* Two sessions that end in every way, follow or overlap each other and are
\* cleaned up.
SPECIFICATION Spec
CONSTANTS
    SegmentSecs = 2
    WindowSecs = 4
    KeepCount = 1
    Packets <- IntraCamera
    MaxSeq = 2
    MaxSessions = 2
INVARIANTS
    PointerSound
PROPERTIES
    PointerForward
CHECK_DEADLOCK FALSE
