\* The recorder may end with an error: no deadlock check.
SPECIFICATION FairSpec
CHECK_DEADLOCK FALSE
CONSTANTS
    Rules = {1, 2}
    PostRoll = 1
    MinClip = 3
    MaxClip = 4
    ArmTimeout = 1
    MaxBytes = 5
    MaxFiles = 2
    MaxTotal = 8
    MaxAge = 1
    MetaCap = 1
    MaxIds = 2
INVARIANTS
    MinDuration
    Retention
PROPERTY
    EndsWhenQuiet
