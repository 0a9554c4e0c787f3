\* routes/review_routes.py, notification_routes.py: an update answers with the document.
\* It is deleted before it is read back.
SPECIFICATION Spec
CONSTANTS
    Users = {u1}
    Admins = {}
    Hotels = {h1}
    Reservations = {r1}
    Documents = {d1, d2}
    Ratings = {1, 5}
    Workers = {w1, w2}
    Ops = {"create_reservation", "create_review", "update_review", "delete_review"}
    None = None
    Unused = Unused
    Deleted = Deleted
INVARIANT
    UpdatesAnswer
CHECK_DEADLOCK FALSE
