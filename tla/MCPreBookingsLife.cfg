SPECIFICATION FairSpec
CONSTANTS
    Bookings = {b1}
    Requests = {r1, r2}
    Quantities = {1}
    Yields = {1}
    StockEdits = {1}
    Cap = 1
    MaxDeliveries = 2
    MaxAborts = 1
INVARIANT ConfirmedIsPaid
INVARIANT HarvestInFlight
PROPERTY BookingLifecycle
PROPERTY HoldsEnd
PROPERTY CaptureIsRecorded
