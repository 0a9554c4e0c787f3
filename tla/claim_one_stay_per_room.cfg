\* Step 9 comment: simultaneous admin requests cannot corrupt reservation/room state.
\* Two check-ins to one room.
SPECIFICATION Spec
CONSTANTS
    Users = {root}
    Admins = {root}
    Hotels = {h1}
    RoomTypes = {t1}
    Rooms = {m1}
    Reservations = {r1, r2}
    Payments = {p1, p2}
    Workers = {w1, w2}
    Ops = {"create_reservation", "cancel_reservation", "check_in", "check_out",
           "create_payment", "process_payment"}
    LastDay = 2
    MonthOf <- OneMonth
    Prices = {1}
    Capacities = {1}
    GuestCounts = {1}
    Amounts = {1}
    None = None
    Unused = Unused
    Deleted = Deleted
SYMMETRY Symmetry
INVARIANTS
    OneStayPerRoom
CHECK_DEADLOCK FALSE
