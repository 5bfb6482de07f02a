SPECIFICATION FairSpec
CONSTANTS
    b = b
    a = a
    QueueSize = 1
    UpdateSize = 2
    MaxSpecials = 1
    Specials = {"stop", "clean"}
    ColdStart = FALSE
    Cmds = {a, b}
INVARIANT
    TypeOK
    HandOverSound
    NoPhantomCompletion
    StartedOnce
    ListedIsInLine
PROPERTY
    WorkerDeath
    NoOverwrite
    ScriptFinishes
CHECK_DEADLOCK FALSE
