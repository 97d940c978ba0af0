\* Two pipelines, nobody cancels, any two faults: everything ends.
CONSTANTS
    Jobs = {1, 2, 3}
    Pipelines = {"p1", "p2"}
    PipelineOf <- MCPipelineOf
    CanFail <- MCRequired
    ArtifactInput = {}
    Cancelers = {}
    MaxInfraRetries = 1
    MaxCancelRetries = 0
    Faults = {"crash", "runner", "disabled", "transfer", "create", "reject", "reply", "get", "outputs"}
    MaxFaults = 2
    NoRun = NoRun
SPECIFICATION FairSpec
PROPERTIES JobsEnd 
