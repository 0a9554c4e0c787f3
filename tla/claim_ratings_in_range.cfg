\* models/mongo/review.py: "rating": int, 1..5.  An update that sends null.
SPECIFICATION Spec
CONSTANTS
    Users = {u1}
    Admins = {}
    Hotels = {h1}
    Reservations = {r1}
    Documents = {d1, d2}
    Ratings = {1, 5}
    Workers = {w1}
    Ops = {"create_reservation", "create_review", "update_review"}
    None = None
    Unused = Unused
    Deleted = Deleted
INVARIANT
    RatingsInRange
CHECK_DEADLOCK FALSE
