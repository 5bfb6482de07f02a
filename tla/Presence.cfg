SPECIFICATION Spec
CONSTANTS
    i1 = i1
    c1 = c1
    c2 = c2
    Instances = {i1}
    Clients = {c1, c2}
    Interval = 2
    MissedBeats = 3
    MinTtl = 5
    Grace = 10
    Delay = 2
    Gap = 4
    Stall = 3
    MaxRestarts = 1
INVARIANT
    TypeOK
    NoFalseDown
    NoticedInTime
    WaiterWoken
PROPERTY
    NoResurrection
SYMMETRY Symmetry
CHECK_DEADLOCK FALSE
