\* One request at a time, of an administrator and a guest, in two hotels: payments in part
\* and in full around the turn of a year, for rooms with and without a price, up to the
\* stay and its end, and the reports of it all.
SPECIFICATION Spec
CONSTANTS
    Users = {root, ann}
    Admins = {root}
    Hotels = {h1, h2}
    RoomTypes = {t1}
    Rooms = {m1, m2}
    Reservations = {r1, r2}
    Payments = {p1, p2}
    Workers = {w1}
    Ops = {"create_reservation", "cancel_reservation", "check_in", "check_out",
           "create_payment", "process_payment", "refund_payment"}
    LastDay = 1
    MonthOf <- NewYear
    Prices = {2, None}
    Capacities = {None}
    GuestCounts = {1}
    Amounts = {1, 2}
    None = None
    Unused = Unused
    Deleted = Deleted
SYMMETRY Symmetry
INVARIANTS
    ConfirmedIffCovered
    RoomMatchesStay
    RevenueAddsUp
    OccupancyAddsUp
    ReportsFit
CHECK_DEADLOCK FALSE
