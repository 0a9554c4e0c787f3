\* payment_routes: re-processing returns 400.  A refund between the two.
SPECIFICATION Spec
CONSTANTS
    Users = {root}
    Admins = {root}
    Hotels = {h1}
    RoomTypes = {t1}
    Rooms = {m1}
    Reservations = {r1}
    Payments = {p1}
    Workers = {w1, w2}
    Ops = {"create_reservation", "cancel_reservation", "create_payment",
           "process_payment", "refund_payment"}
    LastDay = 1
    MonthOf <- OneMonth
    Prices = {1}
    Capacities = {1}
    GuestCounts = {1}
    Amounts = {1}
    None = None
    Unused = Unused
    Deleted = Deleted
SYMMETRY Symmetry
PROPERTIES
    RefundedStaysRefunded
CHECK_DEADLOCK FALSE
