\* One request at a time, two hotels: rooms move between hotels and statuses, room
\* types get and lose their capacity, while guests search and book.
SPECIFICATION Spec
CONSTANTS
    Users = {root}
    Admins = {root}
    Hotels = {h1, h2}
    RoomTypes = {t1}
    Rooms = {m1, m2}
    Reservations = {r1, r2}
    Payments = {}
    Workers = {w1}
    Ops = {"create_reservation", "cancel_reservation", "update_room",
           "update_room_type"}
    LastDay = 2
    MonthOf <- OneMonth
    Prices = {1}
    Capacities = {1, None}
    GuestCounts = {1, 2}
    Amounts = {1}
    None = None
    Unused = Unused
    Deleted = Deleted
SYMMETRY Symmetry
INVARIANTS
    SearchMatchesBooking
CHECK_DEADLOCK FALSE
