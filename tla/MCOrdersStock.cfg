SPECIFICATION Spec
CONSTANTS
    OrderIds = {o1, o2}
    Intents = {i1}
    Requests = {r1, r2}
    Quantities = {2}
    StockEdits = {1}
    Methods = {"COD", "ONLINE"}
    Deliveries = {"PICKUP"}
    InitialStock = 3
    MaxDeliveries = 2
    MaxAborts = 0
    None = None
SYMMETRY Symmetry
INVARIANT TypeOK
INVARIANT NoOversell
INVARIANT AuditComplete
INVARIANT OnlineOrdersPaid
PROPERTY StockFollowsOrders
PROPERTY LegalUnlessStale
PROPERTY ImplementsCheckout
