SPECIFICATION Spec
CONSTANTS
    Bookings = {b1, b2}
    Requests = {r1, r2}
    Quantities = {1}
    Yields = {1}
    StockEdits = {1}
    Cap = 1
    MaxDeliveries = 1
    MaxAborts = 0
SYMMETRY Symmetry
INVARIANT TypeOK
INVARIANT NoOversell
INVARIANT CapacityHeld
INVARIANT SideStoresAgree
