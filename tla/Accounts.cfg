\* Two of everything, two faults and a crash.
CONSTANTS
    Bootstraps = {b1, b2}
    Logins = {l1, l2}
    Creators = {q1, q2}
    Names = {n1, n2}
    MaxFaults = 2
    MaxCrashes = 1
SYMMETRY Symmetry
SPECIFICATION AccountsSpec
INVARIANTS AccountsTypeOK ProvisioningIsSound HooksRestored OnlyOverlapping
CHECK_DEADLOCK FALSE
