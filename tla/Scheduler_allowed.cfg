\* One job that is allowed to fail.
CONSTANTS
    Jobs = {1}
    Pipelines = {"p1"}
    PipelineOf <- MCPipelineOf
    CanFail <- MCAllowed
    ArtifactInput = {}
    Cancelers = {}
    MaxInfraRetries = 0
    MaxCancelRetries = 0
    Faults = {}
    MaxFaults = 0
    NoRun = NoRun
SPECIFICATION FairSpec
PROPERTY PipelinesEnd
