\* Two orders compete for one rider of capacity one; one of them is missed
\* and may be retried.
SPECIFICATION Spec
CONSTANTS
    Orders = {o1, o2}
    Riders = {r1}
    NoRider = NoRider
    Attempts = {1}
    MaxRiderOrders = 1
    MaxRestarts = 1
    MaxAborts = 1
SYMMETRY Symmetry
INVARIANTS
    TypeOK
    NoStrandedOrder
    MatchedIsReserved
    ReservationsBounded
CHECK_DEADLOCK FALSE
