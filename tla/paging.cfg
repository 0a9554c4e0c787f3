\* A list oldest first, one newest first and the payments, of up to three rows: walks
\* by pages of one and two rows while rows come, change and go.
SPECIFICATION Spec
CONSTANTS
    Lists = {"get_room_types", "get_reservations", "get_payments"}
    Ids = {1, 2, 3}
    Keys = {1, 2}
    Froms = {None, 2}
    Tos = {None, 1}
    Pages = {0, 1, 2}
    PageSizes = {1, 2, 101}
    None = None
    Unused = Unused
    Deleted = Deleted
INVARIANTS
    NothingSkipped
    NothingRepeated
    MetadataFits
