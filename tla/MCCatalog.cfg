SPECIFICATION Spec
CONSTANTS
    Growers = {g1, g2}
    Crops = {c1, c2}
    Varieties = {v1, v2}
    Uses = {u1, u2, u3}
    Orders = {o1}
    Reviews = {w1, w2}
    Names = {n1}
    Requests = {r1, r2}
    None = None
SYMMETRY Symmetry
INVARIANT TypeOK
INVARIANT NoOrphan
INVARIANT RowsAgree
INVARIANT ErrorOnlyIfOvertaken
INVARIANT OneReview
CHECK_DEADLOCK FALSE
