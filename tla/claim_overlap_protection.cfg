\* README, reservation_controller: overlap protection, 409 on conflict.
\* Two bookings both find the room free.
SPECIFICATION Spec
CONSTANTS
    Users = {root}
    Admins = {root}
    Hotels = {h1}
    RoomTypes = {t1}
    Rooms = {m1}
    Reservations = {r1, r2}
    Payments = {}
    Workers = {w1, w2}
    Ops = {"create_reservation"}
    LastDay = 1
    MonthOf <- OneMonth
    Prices = {1}
    Capacities = {1}
    GuestCounts = {1}
    Amounts = {1}
    None = None
    Unused = Unused
    Deleted = Deleted
SYMMETRY Symmetry
INVARIANTS
    NoDoubleBooking
CHECK_DEADLOCK FALSE
