\* _validate_dates: check_out must be strictly later than check_in.
\* Two updates, each of one date.
SPECIFICATION Spec
CONSTANTS
    Users = {root}
    Admins = {root}
    Hotels = {h1}
    RoomTypes = {t1}
    Rooms = {m1}
    Reservations = {r1}
    Payments = {}
    Workers = {w1, w2}
    Ops = {"create_reservation", "cancel_reservation", "update_reservation"}
    LastDay = 3
    MonthOf <- OneMonth
    Prices = {1}
    Capacities = {1}
    GuestCounts = {1}
    Amounts = {1}
    None = None
    Unused = Unused
    Deleted = Deleted
SYMMETRY Symmetry
INVARIANTS
    AtLeastOneNight
CHECK_DEADLOCK FALSE
