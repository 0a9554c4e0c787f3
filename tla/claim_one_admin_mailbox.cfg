\* auth_schema, create_admin: addresses that differ in case are one account.  The script
\* keeps the case it was given.
SPECIFICATION Spec
CONSTANTS
    Hotels = {h1}
    RoomTypes = {t1}
    Rooms = {m1}
    Users = {u1, u2}
    Guests = {g1, g2}
    Bookings = {b1}
    Numbers = {n1}
    Mailboxes = {x1}
    AdminForms = {"mixed"}
    Names = {c1}
    Phones = {f1}
    Workers = {w1}
    Ops = {"register", "create_admin"}
    Unused = Unused
    Deleted = Deleted
INVARIANTS
    OneAccountPerMailbox
CHECK_DEADLOCK FALSE
