\* Two administrators at a time: hotels, types and rooms created, moved, renumbered
\* and deleted, while a room is booked.
SPECIFICATION Spec
CONSTANTS
    Hotels = {h1, h2}
    RoomTypes = {t1, t2}
    Rooms = {m1, m2}
    Users = {u1}
    Guests = {g1}
    Bookings = {b1}
    Numbers = {n1, n2}
    Mailboxes = {x1}
    AdminForms = {"lower"}
    Names = {c1, c2}
    Phones = {f1}
    Workers = {w1, w2}
    Ops = {"create_hotel", "delete_hotel", "create_room_type", "delete_room_type",
           "create_room", "update_room", "delete_room", "update_hotel", "create_admin",
           "create_guest", "create_reservation", "delete_reservation"}
    Unused = Unused
    Deleted = Deleted
SYMMETRY Symmetry
INVARIANTS
    TypeOK
    RoomNumbersUnique
    RoomsHaveParents
    HistoryKept
PROPERTIES
    ImplementsRegistry
CHECK_DEADLOCK FALSE
