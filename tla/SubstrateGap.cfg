SPECIFICATION Spec
CONSTANTS
    p1 = p1
    p2 = p2
    p3 = p3
    Places = {p1, p2, p3}
    Layouts <- TwoLayouts
    Longest = 3
    MaxRows = 3
    MaxCopies = 2
INVARIANTS NoSpentPixelReopened
CONSTRAINT FewSlips
