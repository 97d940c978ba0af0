\* One key and two requests for it; a cancellation and a shutdown race with
\* its execution, with each other's writes of its record and with recovery,
\* beside crashes and a failing set-up, start, capture or collection of outputs.
CONSTANTS
    Keys = {k1}
    Names = {"build"}
    Bodies = {"b1", "b2"}
    Creators = {c1}
    Cancelers = {x1}
    Concurrency <- MCConcurrency
    NoReq = NoReq
    Faults = {"crash", "shutdown", "setup", "spawn", "capture", "outputs"}
SPECIFICATION FairSpec
INVARIANTS AcceptedIsDurable RegistryIsComplete
PROPERTIES TerminalChange ImplementsExecutor EventuallyReleased TerminalUnlessOverwritten
