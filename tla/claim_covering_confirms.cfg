\* payment_routes: fully covering a pending reservation confirms it.
\* Two halves processed at the same time.
SPECIFICATION Spec
CONSTANTS
    Users = {root}
    Admins = {root}
    Hotels = {h1}
    RoomTypes = {t1}
    Rooms = {m1}
    Reservations = {r1}
    Payments = {p1, p2}
    Workers = {w1, w2}
    Ops = {"create_reservation", "create_payment", "process_payment"}
    LastDay = 1
    MonthOf <- OneMonth
    Prices = {2}
    Capacities = {1}
    GuestCounts = {1}
    Amounts = {1}
    None = None
    Unused = Unused
    Deleted = Deleted
SYMMETRY Symmetry
INVARIANTS
    CoveringConfirms
CHECK_DEADLOCK FALSE
