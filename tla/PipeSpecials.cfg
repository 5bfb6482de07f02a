SPECIFICATION PipeSpec
CONSTANTS
    a = a
    b = b
    QueueSize = 1
    UpdateSize = 1
    MaxSpecials = 1
    Specials = {"stop", "clean"}
    ColdStart = FALSE
    Cmds = {a, b}
    Lossy = FALSE
    Unbounded = {}
INVARIANT
    PipeTypeOK
    ResultMeansServed
    ResultIsOwn
SYMMETRY Symmetry
CONSTRAINT FewPending
CHECK_DEADLOCK FALSE
