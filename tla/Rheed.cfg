SPECIFICATION FairSpec
CONSTANTS
    b1 = b1
    b2 = b2
    Boxes = {b1, b2}
    BadBoxes = {b2}
    QueueSize = 1
    FragSize = 2
    OutSize = 1
    Cached = 2
    MaxFrames = 6
    Limits <- MostlyOne
    MaxFailures = 1
INVARIANTS InitCurrent NewestKept IntegratorLives
PROPERTIES StreamsForward EncoderRecovers
CHECK_DEADLOCK FALSE
