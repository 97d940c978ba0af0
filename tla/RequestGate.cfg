\* Four requests and an upload, one rotation of the key, one restart of the runner.
CONSTANTS
    Requests = {r1, r2, r3, r4, u}
    Upload = u
    Keys = {1, 2}
    Scopes = {"jobs_run", "artifacts_write"}
    ScopeOf <- MCScopeOf
    Permissions <- MCPermissions
    NameOf <- MCNameOf
    Second = 2
    Tolerance = 1
    Window = 2
    Limit = 2
    Ahead = {0}
    MaxTime = 5
    MaxBoots = 1
SYMMETRY Symmetry
SPECIFICATION GateSpec
INVARIANTS GateTypeOK AcceptedOnce LimiterCounts RotationIsSeamless
CHECK_DEADLOCK FALSE
