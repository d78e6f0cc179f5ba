SPECIFICATION Spec
CONSTANTS
    Cycles = {c1}
    Milestones = {m1, m2}
    Batches = {b1}
    MaxOrder = 2
    Requests = {r1}
    None = None
SYMMETRY Symmetry
PROPERTY UnreachedGoes
CHECK_DEADLOCK FALSE
