\* Two requests at a time on the accounts, profiles and bookings of three users, among them
\* administrators whose addresses the script took in lower and in mixed case.
SPECIFICATION Spec
CONSTANTS
    Hotels = {h1}
    RoomTypes = {t1}
    Rooms = {m1}
    Users = {u1, u2, u3}
    Guests = {g1, g2, g3}
    Bookings = {b1}
    Numbers = {n1}
    Mailboxes = {x1, x2}
    AdminForms = {"lower", "mixed"}
    Names = {c1}
    Phones = {f1, f2}
    Workers = {w1, w2}
    Ops = {"create_hotel", "create_room_type", "create_room", "register",
           "create_admin", "create_guest", "get_own_guest", "update_guest",
           "delete_guest", "create_reservation", "delete_reservation"}
    Unused = Unused
    Deleted = Deleted
SYMMETRY Symmetry
INVARIANTS
    OneProfilePerUser
    MailboxSharedByFlagOnly
    BookingsKeepTheirOwner
CHECK_DEADLOCK FALSE
