\* Two outputs, one retry, one expiry, one fault of any kind.
CONSTANTS
    Outputs = 2
    Wanted = 1
    MaxRetries = 1
    MaxExpired = 1
    Faults = {"runner", "server", "disk", "transfer", "git"}
    MaxFaults = 1
SPECIFICATION FairSpec
CHECK_DEADLOCK FALSE
INVARIANTS ArtifactsTypeOK DirectoriesSound KeptUntilExpired SecondGetsRecorded
PROPERTIES ExpiredIsRemoved SecondStarts
