\* Two requests at a time, under fairness: a reservation paid in two parts,
\* cancelled, deleted or moved into while payments are made and refunded.
SPECIFICATION FairSpec
CONSTANTS
    Users = {root}
    Admins = {root}
    Hotels = {h1}
    RoomTypes = {t1}
    Rooms = {m1}
    Reservations = {r1}
    Payments = {p1, p2}
    Workers = {w1, w2}
    Ops = {"create_reservation", "cancel_reservation", "delete_reservation", "check_in",
           "check_out", "create_payment", "process_payment", "refund_payment"}
    LastDay = 1
    MonthOf <- OneMonth
    Prices = {2}
    Capacities = {1}
    GuestCounts = {1}
    Amounts = {1}
    None = None
    Unused = Unused
    Deleted = Deleted
INVARIANTS
    PaidAtMatchesStatus
    NoOrphanPayments
    OnlyDeletesDeadlock
PROPERTIES
    RequestsEnd
CHECK_DEADLOCK FALSE
