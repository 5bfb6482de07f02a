SPECIFICATION Spec
CONSTANTS
    w1 = w1
    w2 = w2
    f1 = f1
    f2 = f2
    s1 = s1
    s2 = s2
    s3 = s3
    s4 = s4
    Workers = {w1, w2}
    Frames = {f1, f2}
    Samples = {s1, s2, s3, s4}
    Boxes <- SomeBoxes
    BufferSize = 2
    MaxFailures = 1
    NoItem = NoItem
    NoWorker = NoWorker
SYMMETRY Symmetry
INVARIANTS FramesKept SamplesKept
CHECK_DEADLOCK FALSE
