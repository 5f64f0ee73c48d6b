\* The defaults, in seconds.
SPECIFICATION FairTaskSpec
CONSTANTS
    OfflineTimeout = 20
    StartupTimeout = 10
    BackoffMax = 30
INVARIANTS
    OfflineJustified
PROPERTIES
    FirstOutageReported
    Recovers
CHECK_DEADLOCK FALSE
