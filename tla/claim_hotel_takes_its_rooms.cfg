\* hotel_controller.py: "its rooms go with it".  A room moves to another hotel between
\* the loading of the rooms and the commit, and goes all the same.
SPECIFICATION Spec
CONSTANTS
    Hotels = {h1, h2}
    RoomTypes = {t1}
    Rooms = {m1}
    Users = {u1}
    Guests = {g1}
    Bookings = {b1}
    Numbers = {n1}
    Mailboxes = {x1}
    AdminForms = {"lower"}
    Names = {c1}
    Phones = {f1}
    Workers = {w1, w2}
    Ops = {"create_hotel", "delete_hotel", "create_room_type", "create_room",
           "update_room", "create_admin"}
    Unused = Unused
    Deleted = Deleted
PROPERTIES
    HotelTakesItsOwnRooms
CHECK_DEADLOCK FALSE
