SPECIFICATION Spec
CONSTANTS
    OrderIds = {o1, o2}
    Intents = {i1}
    Requests = {r1, r2}
    Quantities = {1}
    StockEdits = {2}
    Methods = {"ONLINE"}
    Deliveries = {"PICKUP"}
    InitialStock = 2
    MaxDeliveries = 2
    MaxAborts = 0
    None = None
SYMMETRY Symmetry
INVARIANT RetriesAreSafe
