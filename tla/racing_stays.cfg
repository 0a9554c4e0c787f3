\* Two requests at a time, every endpoint, on one reservation with one payment.
SPECIFICATION Spec
CONSTANTS
    Users = {root}
    Admins = {root}
    Hotels = {h1}
    RoomTypes = {t1}
    Rooms = {m1}
    Reservations = {r1}
    Payments = {p1}
    Workers = {w1, w2}
    Ops = {"create_reservation", "cancel_reservation", "update_reservation",
           "delete_reservation", "check_in", "check_out", "create_payment",
           "process_payment", "refund_payment", "update_room"}
    LastDay = 2
    MonthOf <- OneMonth
    Prices = {1}
    Capacities = {1}
    GuestCounts = {1}
    Amounts = {1}
    None = None
    Unused = Unused
    Deleted = Deleted
SYMMETRY Symmetry
INVARIANTS
    TypeOK
    UnitsOfWork
    LockedRowUnchanged
    StampsFollowLifecycle
PROPERTIES
    LockedTransitions
CHECK_DEADLOCK FALSE
