SPECIFICATION Spec
CONSTANTS
    Pages = {"customerOrder", "vendorOrder", "adminOrder", "growerOrders", "orderList", "bookings", "users", "reviews", "crops", "varieties", "cycles", "cycle", "batches", "batch", "listings", "addresses", "vendorAddresses"}
    Lists = {"growerOrders", "bookings", "users", "reviews", "batches", "addresses", "vendorAddresses"}
    Rows = {k1, k2}
    NoRow = NoRow
    MaxCalls = 2
    MaxLoads = 2
INVARIANT TypeOK
INVARIANT ShownIsStored
INVARIANT NoDoubleSubmit
 
PROPERTY RelationsKept
INVARIANT NothingStuck
