SPECIFICATION Spec
CONSTANTS
    Requests = {r1, r2}
    Instances = {i1, i2}
    Prefetch = 1
    MaxLength = 1
    MaxDeliveries = 3
    MaxFaults = 1
SYMMETRY Symmetry
INVARIANTS NotLost OncePerFault
PROPERTIES KeepsPromise
CHECK_DEADLOCK FALSE
