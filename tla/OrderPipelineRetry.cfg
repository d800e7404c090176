\* A retry that is overtaken by the cancellation of its order.
SPECIFICATION Spec
CONSTANTS
    Orders = {o1}
    Riders = {r1}
    NoRider = NoRider
    Attempts = {1}
    MaxRiderOrders = 1
    MaxRestarts = 0
    MaxAborts = 0
PROPERTIES
    OnlyMissedRetried
CHECK_DEADLOCK FALSE
