\* README: "whitelisted sorting" on every list.  Two payments, sorted by their amount:
\* the order by id comes first.
SPECIFICATION Spec
CONSTANTS
    Lists = {"get_payments"}
    Ids = {1, 2}
    Keys = {1, 2}
    Froms = {None, 2}
    Tos = {None, 1}
    Pages = {1}
    PageSizes = {2}
    None = None
    Unused = Unused
    Deleted = Deleted
INVARIANT
    SortedAsAsked
