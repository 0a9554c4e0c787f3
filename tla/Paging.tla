--------------------------------- MODULE Paging ---------------------------------
(****************************************************************************)
(* A client walks through the pages of a list endpoint while others insert, *)
(* update and delete rows (app/utils/query_helpers.py, pagination_schema.py *)
(* and the list functions of the controllers).                              *)
(*                                                                          *)
(* Every page is a request of its own, and within the request the COUNT and *)
(* the SELECT are statements of their own: other commits fall between.  A   *)
(* page is an OFFSET into whatever the list is at that moment.              *)
(*                                                                          *)
(* One table stands for the table of whichever list is read.  Its `key`     *)
(* stands for the columns one can sort and filter by, which are not unique; *)
(* that guests see only rows of their own is one more filter.               *)
(****************************************************************************)
EXTENDS Integers, SequencesExt

CONSTANTS
    Lists,              \* list functions that this workload reads
    Ids,                \* ids the sequence can hand out
    Keys,
    Froms, Tos,         \* the bounds that clients filter by
    Pages, PageSizes,   \* what clients ask for
    None, Unused, Deleted

VARIABLES table, walk

vars == <<table, walk>>

MAX_PAGE_SIZE == 100

(****************************************************************************)
(* The list functions: what is ordered by before apply_sort, whether        *)
(* clients may choose the order, the direction of the default order, and    *)
(* whether a range that is upside down is an error.                         *)
(****************************************************************************)
ListFunction(leading, sortable, newest_first, checks_range) ==
    [leading |-> leading, sortable |-> sortable, newest_first |-> newest_first,
     checks_range |-> checks_range]

Clause(column, descending) == [column |-> column, descending |-> descending]

GetHotels == ListFunction(<<>>, TRUE, FALSE, FALSE)
GetRoomTypes == ListFunction(<<>>, TRUE, FALSE, TRUE)
GetRooms == ListFunction(<<>>, TRUE, FALSE, FALSE)
SearchAvailableRooms == ListFunction(<<>>, FALSE, FALSE, TRUE)
GetGuests == ListFunction(<<>>, TRUE, FALSE, FALSE)
GetReservations == ListFunction(<<>>, TRUE, TRUE, FALSE)
GetPayments == ListFunction(<<Clause("id", FALSE)>>, TRUE, TRUE, FALSE)

ListFunctions ==
    [get_hotels |-> GetHotels, get_room_types |-> GetRoomTypes, get_rooms |-> GetRooms,
     search_available_rooms |-> SearchAvailableRooms, get_guests |-> GetGuests,
     get_reservations |-> GetReservations, get_payments |-> GetPayments]

Row == [key : Keys]
Gone == {Unused, Deleted}

ASSUME PagingAssumption ==
    /\ Lists \subseteq DOMAIN ListFunctions
    /\ Ids \subseteq Nat /\ Keys \subseteq Int
    /\ Pages \subseteq Int /\ PageSizes \subseteq Int
    /\ None \notin Keys /\ Froms \cup Tos \subseteq Keys \cup {None}
    /\ Unused # Deleted /\ Gone \cap Row = {}

\* validate_page: 400 otherwise.
ValidPage(page, page_size) == page >= 1 /\ page_size \in 1 .. MAX_PAGE_SIZE

(****************************************************************************)
(* The query: which rows, in which order.                                   *)
(****************************************************************************)

\* What a client asks for.  An equality is a filter whose bounds are equal.
Query ==
    [list : Lists, from : Froms, to : Tos, sort_by : {"key", None}, descending : BOOLEAN,
     page_size : PageSizes]

ValidRange(q) ==
    ListFunctions[q.list].checks_range /\ q.from # None /\ q.to # None => q.from <= q.to

Selected(q) ==
    {i \in Ids : /\ table[i] \notin Gone
                 /\ q.from # None => table[i].key >= q.from
                 /\ q.to # None => table[i].key <= q.to}

\* Mutant of OrderBy: no default order.
UnorderedByDefault(q) ==
    ListFunctions[q.list].leading
        \o IF q.sort_by = None THEN <<>> ELSE <<Clause(q.sort_by, q.descending)>>

\* validate_sort, apply_sort: sort_order counts only with a sort_by, and adds to what
\* the list function ordered by before.
OrderBy(q) ==
    ListFunctions[q.list].leading
        \o IF q.sort_by = None THEN <<Clause("id", ListFunctions[q.list].newest_first)>>
           ELSE <<Clause(q.sort_by, q.descending)>>

Column(i, column) == IF column = "id" THEN i ELSE table[i].key

\* Row i comes before row j: the first clause that tells them apart decides.
Precedes(order, i, j) ==
    \E n \in DOMAIN order :
        LET a == Column(i, order[n].column)
            b == Column(j, order[n].column)
        IN  /\ \A k \in 1 .. n - 1 : Column(i, order[k].column) = Column(j, order[k].column)
            /\ IF order[n].descending THEN a > b ELSE a < b

\* The results PostgreSQL may give: rows that no clause tells apart come in any
\* order, and not always in the same.
Results(q) ==
    {s \in SetToSeqs(Selected(q)) :
        \A m, n \in DOMAIN s : m < n => ~Precedes(OrderBy(q), s[n], s[m])}

Smaller(m, n) == IF m < n THEN m ELSE n

\* Mutant of Offset: pages counted from 0.
OffsetFromZero(page, page_size) == page * page_size

Offset(page, page_size) == (page - 1) * page_size

\* OFFSET ... LIMIT ...
Slice(s, page, page_size) ==
    LET offset == Offset(page, page_size)
    IN  [n \in 1 .. Smaller(page_size, Len(s) - offset) |-> s[offset + n]]

\* Mutant of TotalPages: the last page, when it is not full, is not counted.
FullPages(page_size, total_items) == total_items \div page_size

TotalPages(page_size, total_items) ==
    IF total_items = 0 THEN 0 ELSE (total_items + page_size - 1) \div page_size

BuildMetadata(page, page_size, total_items) ==
    LET total_pages == TotalPages(page_size, total_items)
    IN  [page |-> page, total_items |-> total_items, total_pages |-> total_pages,
         has_next |-> page < total_pages, has_previous |-> page > 1]

(****************************************************************************)
(* The walk.  Beside what the client holds it records what happened on the  *)
(* way: the rows there were when it began, the kinds of writes since, and   *)
(* whether one of them fell between a COUNT and its SELECT.                 *)
(****************************************************************************)
NoWalk == [phase |-> "idle"]

\* The first request of a walk, for any page, or the next page of it: its COUNT.
Begin ==
    /\ walk.phase = "idle"
    /\ \E q \in Query, page \in Pages :
        /\ ValidPage(page, q.page_size)
        /\ q.sort_by # None => ListFunctions[q.list].sortable
        /\ ValidRange(q)
        /\ walk' = [phase |-> "counted", query |-> q, first |-> page, page |-> page,
                    total_items |-> Cardinality(Selected(q)), shown |-> <<>>, items |-> <<>>,
                    begun |-> Selected(q), writes |-> {}, torn |-> FALSE]
    /\ UNCHANGED table

Metadata(w) == BuildMetadata(w.page, w.query.page_size, w.total_items)

NextPage ==
    /\ walk.phase = "answered" /\ Metadata(walk).has_next
    /\ walk' = [walk EXCEPT !.phase = "counted", !.page = @ + 1,
                            !.total_items = Cardinality(Selected(walk.query))]
    /\ UNCHANGED table

Fetch ==
    /\ walk.phase = "counted"
    /\ \E s \in Results(walk.query) :
        LET items == Slice(s, walk.page, walk.query.page_size)
        IN  walk' = [walk EXCEPT !.phase = "answered", !.items = items, !.shown = @ \o items]
    /\ UNCHANGED table

Stop ==
    /\ walk.phase = "answered"
    /\ walk' = NoWalk
    /\ UNCHANGED table

(****************************************************************************)
(* What others commit.  Ids are handed out before the commit, so rows may   *)
(* appear in any order of their ids.                                        *)
(****************************************************************************)
Witness(kind) ==
    walk' = IF walk.phase = "idle" THEN walk
            ELSE [walk EXCEPT !.writes = @ \cup {kind},
                              !.torn = @ \/ walk.phase = "counted"]

Insert ==
    /\ \E i \in Ids, row \in Row : table[i] = Unused /\ table' = [table EXCEPT ![i] = row]
    /\ Witness("insert")

Update ==
    /\ \E i \in Ids, key \in Keys :
        /\ table[i] \notin Gone
        /\ table' = [table EXCEPT ![i].key = key]
    /\ Witness("update")

Delete ==
    /\ \E i \in Ids : table[i] \notin Gone /\ table' = [table EXCEPT ![i] = Deleted]
    /\ Witness("delete")

Next == Begin \/ Fetch \/ NextPage \/ Stop \/ Insert \/ Update \/ Delete

Init ==
    /\ table \in [Ids -> Row \cup {Unused}]
    /\ walk = NoWalk

Spec == Init /\ [][Next]_vars

--------------------------------------------------------------------------------

\* A list without a sort_by is in a total order; so is every list of payments.
Settled(q) == q.sort_by = None \/ ListFunctions[q.list].leading # <<>>

\* get_hotels, get_reservations, ...: whoever follows has_next to the end is shown
\* every row there was when he began, while rows are only inserted, before or behind
\* his page, and none between a COUNT and its SELECT.
NothingSkipped ==
    (/\ walk.phase = "answered" /\ ~Metadata(walk).has_next
     /\ walk.first = 1 /\ Settled(walk.query)
     /\ walk.writes \subseteq {"insert"} /\ ~walk.torn) =>
        walk.begun \subseteq ToSet(walk.shown)

\* The same lists, while rows are only deleted: pages go on in the order of the
\* list, so no row is shown twice - however COUNT and SELECT disagree.
NothingRepeated ==
    walk.phase # "idle" /\ Settled(walk.query) /\ walk.writes \subseteq {"delete"} =>
        \A m, n \in DOMAIN walk.shown :
            m < n => Precedes(OrderBy(walk.query), walk.shown[m], walk.shown[n])

\* build_metadata is computed from the COUNT, the items from the SELECT: without a
\* commit between the two they tell of the same pages.
MetadataFits ==
    walk.phase = "answered" /\ ~walk.torn =>
        LET metadata == Metadata(walk)
            behind == walk.total_items - walk.page * walk.query.page_size
        IN  /\ walk.items = <<>> <=> metadata.page > metadata.total_pages
            /\ metadata.has_next <=> behind > 0
            /\ metadata.has_next => Len(walk.items) = walk.query.page_size

--------------------------------------------------------------------------------

\* README: "whitelisted sorting": the items come in the order the client asked for.
SortedAsAsked ==
    walk.phase = "answered" /\ walk.query.sort_by # None /\ walk.writes = {} =>
        \A m, n \in DOMAIN walk.items : m < n =>
            ~Precedes(<<Clause("key", walk.query.descending)>>, walk.items[n], walk.items[m])

================================================================================
