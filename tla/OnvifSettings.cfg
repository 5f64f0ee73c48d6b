\* Two cameras of different makes, one call lost or broken off and one
\* change made by someone else.
SPECIFICATION SettingsSpec
CONSTANTS
  Cams <- MCCams
  Device <- MCDevice
  Text <- MCText
  Points = "p1"
  Mode = "day"
  MaxLost = 1
  MaxEdits = 1
CHECK_DEADLOCK FALSE
INVARIANT ProbeHonest
PROPERTIES SyncTruthful AllAttempted
