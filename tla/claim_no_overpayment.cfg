\* README: no-overpayment rule.  Two pending payments, both within the balance.
SPECIFICATION Spec
CONSTANTS
    Users = {root}
    Admins = {root}
    Hotels = {h1}
    RoomTypes = {t1}
    Rooms = {m1}
    Reservations = {r1}
    Payments = {p1, p2}
    Workers = {w1}
    Ops = {"create_reservation", "create_payment", "process_payment"}
    LastDay = 1
    MonthOf <- OneMonth
    Prices = {1}
    Capacities = {1}
    GuestCounts = {1}
    Amounts = {1}
    None = None
    Unused = Unused
    Deleted = Deleted
SYMMETRY Symmetry
INVARIANTS
    NoOverpayment
CHECK_DEADLOCK FALSE
