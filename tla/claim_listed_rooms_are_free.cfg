\* get_available_rooms_for_dates: rooms with an overlapping active reservation are
\* excluded.  The room has moved to another hotel.
SPECIFICATION Spec
CONSTANTS
    Users = {root}
    Admins = {root}
    Hotels = {h1, h2}
    RoomTypes = {t1}
    Rooms = {m1}
    Reservations = {r1}
    Payments = {}
    Workers = {w1}
    Ops = {"create_reservation", "update_room"}
    LastDay = 1
    MonthOf <- OneMonth
    Prices = {1}
    Capacities = {1}
    GuestCounts = {1}
    Amounts = {1}
    None = None
    Unused = Unused
    Deleted = Deleted
SYMMETRY Symmetry
INVARIANTS
    ListedRoomsAreFree
CHECK_DEADLOCK FALSE
