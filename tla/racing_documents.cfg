\* Two requests at a time of a guest, another guest and an administrator on the
\* documents of a reservation that may be deleted.
SPECIFICATION Spec
CONSTANTS
    Users = {u1, u2, a1}
    Admins = {a1}
    Hotels = {h1}
    Reservations = {r1}
    Documents = {d1, d2}
    Ratings = {4}
    Workers = {w1, w2}
    Ops = {"create_review", "update_review", "delete_review", "mark_read",
           "delete_notification", "delete_entry", "create_notification", "create_entry",
           "create_log_entry", "login", "create_reservation", "cancel_reservation",
           "process_payment", "check_in", "check_out",
           "delete_reservation"}
    None = None
    Unused = Unused
    Deleted = Deleted
SYMMETRY Symmetry
INVARIANTS
    TypeOK
    RecordsAreTrue
    CommitsSucceed
    ReviewsAreOfOwnStays
    ListsMatchReads
PROPERTIES
    OwnersOnly
    DocumentsKeepTheirPast
CHECK_DEADLOCK FALSE
