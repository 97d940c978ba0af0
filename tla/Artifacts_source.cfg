\* A git that fails for want of the commit, and one retry.
CONSTANTS
    Outputs = 1
    Wanted = 1
    MaxRetries = 1
    MaxExpired = 0
    Faults = {"git"}
    MaxFaults = 1
SPECIFICATION Spec
CHECK_DEADLOCK FALSE
INVARIANT SourceIsWhole
