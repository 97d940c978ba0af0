\* Two keys, one manifest of each mode, two concurrent create requests that
\* retry or contradict each other, crashes and a failing set-up, wait or last
\* write.
CONSTANTS
    Keys = {k1, k2}
    Names = {"deploy", "build", "test"}
    Bodies = {"b1"}
    Creators = {c1, c2}
    Cancelers = {}
    Concurrency <- MCConcurrency
    NoReq = NoReq
    Faults = {"crash", "setup", "wait", "persist"}
SPECIFICATION Spec
SYMMETRY Symmetry
INVARIANTS
    TypeOK AtMostOneExecution RegistryExclusive
