\* One request at a time, every endpoint that touches a reservation, two rooms, and an
\* administrator who sets rooms to any status at any moment.
SPECIFICATION Spec
CONSTANTS
    Users = {root}
    Admins = {root}
    Hotels = {h1}
    RoomTypes = {t1}
    Rooms = {m1, m2}
    Reservations = {r1, r2}
    Payments = {p1}
    Workers = {w1}
    Ops = {"create_reservation", "cancel_reservation", "update_reservation",
           "delete_reservation", "check_in", "check_out", "create_payment",
           "process_payment", "refund_payment", "update_room"}
    LastDay = 2
    MonthOf <- OneMonth
    Prices = {1}
    Capacities = {1}
    GuestCounts = {1}
    Amounts = {1}
    None = None
    Unused = Unused
    Deleted = Deleted
SYMMETRY Symmetry
INVARIANTS
    NoDoubleBooking
    AtLeastOneNight
    TotalIsPriced
PROPERTIES
    FollowsLifecycle
CHECK_DEADLOCK FALSE
