SPECIFICATION Spec
CONSTANTS
    Bookings = {b1}
    Requests = {r1, r2}
    Quantities = {1}
    Yields = {1}
    StockEdits = {}
    Cap = 1
    MaxDeliveries = 0
    MaxAborts = 0
SYMMETRY Symmetry
INVARIANT QueueEmptied
CHECK_DEADLOCK FALSE
