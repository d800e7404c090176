\* One order, two retries that may overlap, two riders.
SPECIFICATION FairSpec
CONSTANTS
    Orders = {o1}
    Riders = {r1, r2}
    NoRider = NoRider
    Attempts = {1, 2}
    MaxRiderOrders = 1
    MaxRestarts = 1
    MaxAborts = 1
PROPERTIES
    EventuallyDecided
CHECK_DEADLOCK FALSE
