SPECIFICATION Spec
CONSTANTS
    r1 = r1  r2 = r2  r3 = r3  r4 = r4  w1 = w1  w2 = w2
    Request = {r1, r2, r3}
    Compressed = {r1, r2, r3}
    Writer = {w1, w2}
    Limits = {2}
    MaxChunks = 2
    None = None
SYMMETRY Symmetry
CHECK_DEADLOCK FALSE
INVARIANT EachResponseComplete
