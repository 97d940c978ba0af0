\* Two jobs, the second with an artifact of the first as input; one cancel
\* request with one retry, and any two of eight kinds of faults.
CONSTANTS
    Jobs = {1, 2}
    Pipelines = {"p1"}
    PipelineOf <- MCPipelineOf
    CanFail <- MCRequired
    ArtifactInput = {2}
    Cancelers = {x1}
    MaxInfraRetries = 1
    MaxCancelRetries = 1
    Faults = {"crash", "reply", "cancel", "runner", "create", "get", "reject", "disabled"}
    MaxFaults = 2
    NoRun = NoRun
SPECIFICATION Spec
INVARIANTS TypeOK RetryBudgets SuccessIsReal NoOverlap PipelineSuccessIsReal
