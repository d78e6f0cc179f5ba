SPECIFICATION FairSpec
CONSTANTS
    OrderIds = {o1}
    Intents = {i1}
    Requests = {r1, r2}
    Quantities = {2}
    StockEdits = {1, 2}
    Methods = {"ONLINE"}
    Deliveries = {"DELIVERY", "PICKUP"}
    InitialStock = 2
    MaxDeliveries = 2
    MaxAborts = 1
    None = None
INVARIANT FulfilmentPath
INVARIANT PaymentChain
PROPERTY CapturedIsRecorded
