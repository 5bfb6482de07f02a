SPECIFICATION FairSpec
CONSTANTS
    b = b
    a = a
    QueueSize = 1
    UpdateSize = 2
    MaxSpecials = 1
    Specials = {"stop"}
    ColdStart = FALSE
    Cmds = {a, b}
PROPERTY
    RegisterReturns
CHECK_DEADLOCK FALSE
