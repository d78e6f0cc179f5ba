SPECIFICATION Spec
CONSTANTS
    Cycles = {c1}
    Milestones = {m1, m2}
    Batches = {b1, b2}
    MaxOrder = 2
    Requests = {r1, r2}
    None = None
SYMMETRY Symmetry
INVARIANT TypeOK
INVARIANT ReachedPrefix
INVARIANT GrownBeforeSold
INVARIANT TemplateKept
INVARIANT DescribedUnlessDied
PROPERTY PublishedStays
CHECK_DEADLOCK FALSE
