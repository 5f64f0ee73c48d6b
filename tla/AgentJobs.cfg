SPECIFICATION FairSpec
CONSTANTS
    Workloads = {{"probe"}, {"restart", "shutdown"}, {"firmware", "shutdown"}}
    ProbeJobs = {1, 2, 3}
    Cameras = {"c1", "c2"}
    Probeable = {"c1"}
    CamOf <- MCCamOf
    Firmware <- MCFirmware
    MaxRuns = 2
    MaxFaults = 2
INVARIANTS
    RestartOnce
    RestartTruthful
    UpdateOnce
PROPERTY
    JobsEnd
