SPECIFICATION PipeFairSpec
CONSTANTS
    a = a
    b = b
    QueueSize = 1
    UpdateSize = 1
    MaxSpecials = 0
    Specials = {}
    ColdStart = FALSE
    Cmds = {a, b}
    Lossy = TRUE
    Unbounded = {a}
PROPERTY
    KeepsPromise
    CallReturns
CHECK_DEADLOCK FALSE
