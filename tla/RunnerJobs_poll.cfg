\* One job, one cancel request: the status a client polls for.
CONSTANTS
    Keys = {k1}
    Names = {"deploy"}
    Bodies = {"b1"}
    Creators = {c1}
    Cancelers = {x1}
    Concurrency <- MCConcurrency
    NoReq = NoReq
    Faults = {}
SPECIFICATION FairSpec
PROPERTY EventuallyTerminal
