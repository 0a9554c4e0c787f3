\* review_controller.py: one review per stay.  Two reviews of one reservation at once.
SPECIFICATION Spec
CONSTANTS
    Users = {u1}
    Admins = {}
    Hotels = {h1}
    Reservations = {r1}
    Documents = {d1, d2}
    Ratings = {1, 5}
    Workers = {w1, w2}
    Ops = {"create_reservation", "create_review"}
    None = None
    Unused = Unused
    Deleted = Deleted
INVARIANT
    OneReviewPerStay
CHECK_DEADLOCK FALSE
