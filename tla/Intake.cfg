\* One push, a build and a deployment, one request at a time, a fault.
CONSTANTS
    Pushes = {k1}
    Refs <- MCRefs
    Workflows = {1, 2}
    Definitions <- MCDefinitions
    First <- MCFirst
    Edits <- MCEdits
    Drifting = {1}
    Reports = {"current", "incompatible"}
    Callers = {c1}
    Loop = Loop
    NoPush = NoPush
    MaxVersions = 2
    MaxRequests = 1
    MaxChanges = 1
    MaxFaults = 1
SPECIFICATION FairSpec
CHECK_DEADLOCK FALSE
INVARIANTS IntakeTypeOK PushesDelivered InsertedInOrder
PROPERTIES PushesProcessed EnqueuedJobsEnd
