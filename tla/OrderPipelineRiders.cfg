\* The shard of a rider starts again once.
SPECIFICATION Spec
CONSTANTS
    Orders = {o1, o2}
    Riders = {r1}
    NoRider = NoRider
    Attempts = {1}
    MaxRiderOrders = 1
    MaxRestarts = 1
    MaxAborts = 0
INVARIANTS
    RiderCapacity
CHECK_DEADLOCK FALSE
