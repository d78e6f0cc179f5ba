SPECIFICATION Spec
CONSTANTS
    OrderIds = {o1, o2}
    Intents = {i1}
    Requests = {r1, r2}
    Quantities = {1}
    StockEdits = {}
    Methods = {"COD", "ONLINE"}
    Deliveries = {"PICKUP"}
    InitialStock = 2
    MaxDeliveries = 1
    MaxAborts = 0
    None = None
SYMMETRY Symmetry
PROPERTY NoStockLost
CHECK_DEADLOCK FALSE
