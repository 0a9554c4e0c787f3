# StayEase: TLA+ models and proofs

StayEase is a hotel reservation backend: FastAPI routes, controllers, a PostgreSQL
database through SQLAlchemy, and MongoDB collections beside it. These modules model
what its rules are about: reservations, stays, payments, rooms and hotels, accounts,
the documents, the reports and the lists, served by concurrent requests.

## The system

| component | state | operations that change it | what it must keep |
|---|---|---|---|
| reservations and stays (`reservation_controller.py`) | `reservations`, room status | create, update, cancel, delete, check-in, check-out | no room booked twice for a night; the status follows the state machine; room and stay agree; timestamps tell the truth |
| payments (`payment_controller.py`) | `payments`, reservation status | create, process, refund | confirmed exactly when paid; never more than the total; `paid_at` exactly on paid payments |
| hotels, rooms, room types | `hotels`, `rooms`, `room_types` | create, update, delete | unique room numbers; no row deleted while referred to; history is kept |
| accounts and guest profiles | `users`, `guests` | register, `create_admin.py`, create, update, delete, profile on first booking | one account per mailbox, one profile per user, bookings stay with their owner |
| availability searches | none | two queries | offer what a booking accepts |
| reviews, notifications, activity log, search history | MongoDB collections | insert, update, delete | one review per own stay; owners only; what the records tell is true; a failed write breaks nothing else |
| dashboard, today's view, payment history | none | aggregates | the same money and occupancy by every query |
| lists and pagination | none | COUNT, ORDER BY, OFFSET, LIMIT | a walk through the pages shows every row, once |
| relational store (`postgres.py`) | the tables, one session per request | commit, rollback | a request's changes appear together or not at all |

How they interact: a route opens a session (`get_db`) and calls one controller
function; controllers share nothing but the tables. Handlers are plain functions,
so FastAPI runs them in a pool of threads and requests interleave at the level of
SQL statements. PostgreSQL runs them at READ COMMITTED: each statement sees what is
committed when it starts. `check_in` and `check_out` lock their reservation row
(`SELECT ... FOR UPDATE`); the payment handlers lock their payment row from the flush
on; a delete locks what it deletes. Unique constraints stand behind room numbers, addresses
and profiles; none stands behind the calendar, the balance or the reviews. After the
commit, bookings, payments and stays write a notification and an activity record to
MongoDB and ignore failures. Every driver call to MongoDB is a transaction of its own.

What is hard here: a decision made on rows that change before the commit; UPDATEs
that write only the columns a session changed, so that two requests' changes
combine; row locks taken by some writers and not by others; cascades that take what
nobody loaded; long sequences of payments, refunds, cancellations and updates;
documents that go between a check and a write; pages of a list that changes; a
request that dies at any point.

## The modules

Four models, each with its properties beside it:

| module | models | extends |
|---|---|---|
| `StayStore` | tables, session (unit of work), row locks, commit, rollback, the calendar day | |
| `ReservationController` | `reservation_controller.py` | `StayStore` |
| `PaymentController` | `payment_controller.py` | `ReservationController` |
| `RoomController` | updates of rooms and room types among reservations | `StayStore` |
| `Availability` | the two searches, as operators | `ReservationController` |
| `StayEase` | **bookings**: all requests of all workers on the modules above | all of them |
| `Lifecycle` | abstract specification: the state machine written above `check_in` | |
| `Dashboard` | the reports, today's view, the payment history, and their response models, as operators | `StayEase` |
| `DocumentedClaims` | what comments and the README say and the code does not keep | `StayEase` |
| `Directory` | hotels, room types, rooms, users, guests, bookings: rows, constraints, sessions | |
| `Inventory` | `hotel_controller.py`, `room_type_controller.py`, `room_controller.py` | `Directory` |
| `Accounts` | `auth_controller.py`, `guest_controller.py`, `create_admin.py`, `get_own_guest` | `Directory` |
| `Registry` | abstract specification: changes of one row that look at the tables as they are | `Directory` |
| `BackOffice` | **back office**: all requests of all workers on these | `Inventory`, `Accounts`, `Registry` |
| `DocumentStore` | the collections, driver calls that may fail, requests between two calls | |
| `Reviews`, `Notices` | the four MongoDB controllers, and the records that stays and payments leave | `DocumentStore` |
| `Documents` | **documents**: all requests of all workers on these | `Reviews`, `Notices` |
| `Paging` | **lists**: `query_helpers.py`, `pagination_schema.py`, the list functions, a client and others' writes | |
| `MCStayEase`, `MCBackOffice`, `MCDocuments` | the instances for TLC (symmetry) | |
| `StayEase_proofs`, `SerialBookings_proofs`, `SerialMoney_proofs`, `Dashboard_proofs` | proofs about bookings, any number of requests at a time and one at a time, and the reports | |
| `BackOffice_proofs`, `Documents_proofs`, `Paging_proofs` | proofs about the back office, the documents and the lists | |
| `Sums_proofs` | lemmas about sums over finite sets, for the two proofs about money | |

Definitions named "Mutant of D" are what a plausible bug would make of D. No
specification uses them; a property is only kept when replacing D by its mutant makes
TLC find it violated.

### Bookings: state and code

`room`, `roomType`, `reservation` and `payment` are the tables; a reservation or
payment id is `Unused`, `Deleted` or maps to a row with the columns the code decides
on. `session[w]` is the unit of work of the request that worker `w` serves: at most
one reservation, one payment and one room, each as loaded (`old`) and as the handler
left it (`new`). `today` is the server's date.

A request is split where other requests can come in and be noticed:

* the handler up to its commit: the row lock if it takes one, the reads, every check
  in the code's order, and the changed objects (`CreateReservation`, `CheckIn`, ...);
* for payments, the flush with the sum that follows it (`FlushPayment`);
* the commit (`Commit`): one UPDATE or INSERT per changed object, all at once;
* for a delete, the load of the reservation with its payments (`DeleteReservation`), the
  DELETE of these payments (`EmptyReservation`), the DELETE of the reservation, which
  locks it (`LockReservation`), and its cascade, by the database, to the payments that
  were inserted since, with the end of the commit (`CommitDelete`);
* a rollback, at any moment (`Rollback`): exception, lost connection, killed process.

`Written` is the heart of it: an UPDATE names the row by id and sets the columns
whose new value differs from the loaded one, and leaves whatever another request put
into the other columns. `Doomed` is the row that is gone: `StaleDataError` or
`IntegrityError`.

Row locks are what a statement may have to wait for. `WantedReservations` and
`WantedPayments` are the rows that the next statement of a request must lock, `Granted`
says that nobody else holds one of them, `WaitsFor(w, v)` that `w` waits for a row of
`v`. Payments come before their reservation in every request, except in the cascade of
a delete: it holds the reservation and waits for payments, the opposite of what
processing and refunding do. So a delete and a payment can wait for each other
(`Deadlocked`) until PostgreSQL's deadlock detector ends one of them (`Refused`).
`EmptyReservation` takes all loaded payments in one step, where SQLAlchemy deletes them
one by one in the order of their ids: a delete that waits in the middle of its list
waits at its beginning in the model, and `WaitsFor` counts every row it still needs. In
the middle of a list a delete may hold a payment that another delete of the same
reservation, at its cascade, needs: one more circle with a delete at its cascade in it,
which the database ends like the others. Without such a delete lists in one order close
no circle.

`UpdateRoom` and `UpdateRoomType` are single steps. They write columns taken from the
request body, looking at nothing else in these tables; a step that rewrites any subset
of the columns has exactly their effects.

The reports of `Dashboard` are functions of these tables. `Report(u, path, year)` is what
the endpoint answers to `u`, `ResponseModel(path)` the shape its Pydantic model declares.
`year` is the query parameter of the monthly revenue, which adds up the paid payments
whose `paid_at` is in that year, month by month.

### Back office: state and code

The tables hold only the columns that keys, constraints and rights speak of. A handler
that decides on nothing it read, or whose decision the statement repeats, is one step.
The others are two: the look at the tables (`CreateRoom`), and the commit under the
database's constraints (`CommitCreateRoom`), after whatever happened meanwhile;
registration has a third, the commit of the profile. `Rollback` ends any of them.
`CommitDeleteHotel` takes the rooms that were loaded, wherever they are by now, and by
`ON DELETE CASCADE` those that came into the hotel since. A booking keeps the user it
was made for as an auxiliary column `owner`, which no action reads.

### Documents: state and code

A document is in one collection and has the fields that rights and texts speak of. A
handler is one step per driver call; `Found` holds what it carries from its check to
its write. A call may fail before it had its effect, or after (the answer is lost);
then the handler ends as its code says: best-effort writes go on, others answer an
error, and `Abandon` stands for the end of any request, by the error handlers or by
the death of the process. Of PostgreSQL the model keeps whose reservations there are
and the stamps of check-in and check-out. That these stamps are never lost is proved
of `StayEase` (`StampsSurvive`); which request may commit in which status is left
open here.

### Lists: state and code

`table` is the table of whichever list is read, `walk` the client: its query, the page
it is on, the items it holds, and, for the properties only, which rows there were when
it began, what was written since, and whether a commit fell between a COUNT and its
SELECT. `GetHotels` ... `GetPayments` say how the list functions differ: what they
order by, and whether they refuse a range that is upside down. `Results` are all orders
PostgreSQL may return: where ORDER BY does not decide, any.

### What is abstracted, and why it may be

* The reads of one handler before its first write happen at one moment. In the code
  they are several statements; the properties found violated need no more than the
  gap between these reads and the commit, and the proved ones hold by locks, by
  constraints and by `Written`, not by the reads being together. A violation that
  needs two reads of one handler to differ is outside the models of bookings and of
  the back office, and so are reports whose statements see different moments.
* The timestamps of a stay are Booleans: the code asks only whether they are set.
  `paid_at` keeps its year and month, which a report filters and groups by; `MonthOf`
  says in which month a day of the calendar is. Server, database and session share one
  clock and one time zone: that `datetime.now()` and UTC may differ for some hours at a
  month's or a day's end is outside the model.
* Amounts and prices are positive whole numbers: the code uses exact decimals
  throughout. A positive price or amount below half a cent, which the schemas accept and
  `Numeric(12, 2)` stores as 0.00, is outside the model and the theorems; a reservation
  of total 0.00 is covered from the start and becomes confirmed only by a payment. In
  `StayEase` and `Documents` a user's guest profile is the user. Rates are whole
  percentages.
* An insert draws its id when the request begins (bookings) or when it is committed
  (back office). Ids that a rollback burns are drawn again, which nothing in the code
  can observe.
* Requests that are refused (4xx) change nothing and are not steps.
* `update_reservation` draws its dates, headcount and "a date was sent" freely; so it
  also stands for requests that send the present values.
* Filters of a list are bounds on one column, `key`; that guests are shown their own
  rows only is one more such filter.

## The runs

`tlc -workers 2 -config <run>.cfg <module>`. With one worker the requests are serial;
with two or more they race. Where a cfg has `CHECK_DEADLOCK FALSE`, the ids of an
instance run out, and then no request need be possible; `paging` checks deadlock.

| run (module) | shows | bounds |
|---|---|---|
| `serial_stays` (`MCStayEase`) | `NoDoubleBooking`, `AtLeastOneNight`, `TotalIsPriced`, and `FollowsLifecycle`: the controllers implement `Lifecycle` | one worker; 2 rooms of one type, 2 reservations, 1 payment, every endpoint on reservations and payments, rooms set to any status |
| `serial_money` (`MCStayEase`) | `ConfirmedIffCovered`, `RoomMatchesStay`, `RevenueAddsUp`, `OccupancyAddsUp`, `ReportsFit` | one worker, an administrator and a guest; 2 hotels, 2 rooms, prices 2 and none, so that totals are known or not, 2 payments of 1 or 2, so that they cover in part, exactly or with another; 2 days, the last of a year and the first of the next; no update, no delete |
| `serial_search` (`MCStayEase`) | `SearchMatchesBooking` | 2 hotels, 2 rooms, 2 reservations, capacity 1 and none, parties of 1 and 2 |
| `racing_stays` (`MCStayEase`) | `LockedRowUnchanged`, `LockedTransitions`, `StampsFollowLifecycle`, `UnitsOfWork`, `TypeOK` | 2 workers on one reservation, one payment, one room, every endpoint: every pair of handlers on the same rows |
| `racing_payments` (`MCStayEase`) | `PaidAtMatchesStatus`, `NoOrphanPayments`, `OnlyDeletesDeadlock`, and `RequestsEnd` under `FairSpec` | 2 workers, one reservation of price 2, 2 payments of 1; no symmetry, as liveness is checked |
| `racing_inventory` (`MCBackOffice`) | `RoomNumbersUnique`, `RoomsHaveParents`, `HistoryKept`, `TypeOK`, and `ImplementsRegistry` | 2 workers; 2 hotels, 2 rooms, one booking: a room moves out of, or into, a hotel that is being deleted |
| `racing_accounts` (`MCBackOffice`) | `OneProfilePerUser`, `MailboxSharedByFlagOnly`, `BookingsKeepTheirOwner` | 2 workers; 3 users, 3 profiles, 2 mailboxes, addresses in both forms, typed at the prompt or given as a flag: two make one user's profile, and it is deleted and made again |
| `racing_documents` (`MCDocuments`) | `RecordsAreTrue`, `CommitsSucceed`, `ReviewsAreOfOwnStays`, `ListsMatchReads`, `TypeOK`, `OwnersOnly`, `DocumentsKeepTheirPast` | 2 workers, two guests and an administrator, one reservation, 2 documents: every pair of requests on the same document |
| `paging` (`Paging`) | `NothingSkipped`, `NothingRepeated`, `MetadataFits` | 3 rows with 2 keys; pages of 1 and 2, so that a walk has up to 3 pages and ends in full and in part; the invalid page 0 and page size 101 |

The bounds: every property speaks of one or two objects, and a violation needs two
requests on the same rows; the instances have one object more than that where an
earlier state matters. `LastDay` bounds the calendar, the sets of ids what sequences
hand out. The theorems below remove the bounds for most of them.

Workloads that leave endpoints out do so because the property is about the rest.
`TotalIsPriced` is about bookings at unchanged prices. `ConfirmedIffCovered` is not
kept by `update_reservation`, which changes the total of a confirmed reservation and
leaves the status, and `RoomMatchesStay` not by `delete_reservation`, which leaves the
room of a deleted stay occupied, nor by `update_room`, which sets any status; no
document says otherwise. The three properties of `paging` speak of lists in a
total order, and each of the writes under which it can hold: rows that are deleted
before a client's page shift the rest out of his sight, rows inserted before it show
him one twice, and no offset into a changing list could do better.

### Disagreements

Each `claim_*.cfg` checks one sentence of the repository's own documentation and ends
in a counterexample. The first three are runs of `PROJECT.json` with a finding each;
the others are cited by the hazards and are run by hand the same way.

| run (module) | sentence | what happens |
|---|---|---|
| `claim_overlap_protection` (`MCStayEase`) | overlap protection, 409 on conflict | two bookings find the room free, both commit |
| `claim_no_overpayment` (`MCStayEase`) | no-overpayment rule | two pending payments of the whole total are both processed, no race needed |
| `claim_ratings_in_range` (`MCDocuments`) | ratings 1-5 | an update with `"rating": null` passes the schema and is stored |
| `claim_cancel_before_check_in` (`MCStayEase`) | cancellation only before check-in | a cancellation that waits for a check-in's lock overwrites it |
| `claim_one_stay_per_room` (`MCStayEase`) | simultaneous admin requests cannot corrupt state | two check-ins read the room as available |
| `claim_dates_in_order` (`MCStayEase`) | check-out strictly after check-in | two updates of one date each combine |
| `claim_listed_rooms_are_free` (`MCStayEase`) | rooms with an overlapping reservation are excluded | the room moved to another hotel, the reservation's `hotel_id` did not |
| `claim_refund_leaves_stays` (`MCStayEase`) | checked-in reservations are untouched | a refund that loaded a confirmed reservation sets it to pending after the check-in |
| `claim_covering_confirms` (`MCStayEase`) | fully covering confirms | two halves, each summed without the other |
| `claim_maintenance_preserved` (`MCStayEase`) | maintenance is preserved | the room was occupied when check-out read it |
| `claim_reprocessing_refused` (`MCStayEase`) | atomic; re-processing returns 400 | process, process and refund of one payment, the second process deciding on an old read |
| `claim_total_recalculated` (`MCStayEase`) | the total is recalculated | two updates of one date each, with dates in order |
| `claim_hotel_takes_its_rooms` (`MCBackOffice`) | a hotel's rooms go with it | a room that moved to another hotel after it was loaded goes too |
| `claim_one_admin_mailbox` (`MCBackOffice`) | addresses are lower-cased, duplicates refused | `create_admin.py --email` takes the address as typed; that administrator cannot log in either |
| `claim_one_review_per_stay` (`MCDocuments`) | one review per stay | two requests find none and both insert; the index is not unique |
| `claim_updates_answer` (`MCDocuments`) | marking a notification answers with it | it was deleted between the update and the second read |
| `claim_payments_sorted` (`Paging`) | whitelisted sorting on every list, newest first | `get_payments` orders by id before it sorts |

### Fairness

`StayEase!FairSpec` is the only fair specification. It assumes that the next statement
of a request is run, if need be after a wait for its row locks that keep coming free
(strong fairness of `Advance`: threads of a pool that are not starved, and PostgreSQL,
which queues the waiters of a row), and that a unit of work which the database refuses is
rolled back (weak fairness of `Refused`: its row is gone, or the deadlock detector found
it waiting for a request that waits for it). Requests need not arrive, and no fairness
is put on rollbacks of healthy requests. `racing_payments` is the run under it; two
workers are enough for a circle of two waits, and by `DeadlockFree` below longer circles
always contain one, which the detector ends.

## The proofs

`tlapm <module>_proofs.tla` checks every step. The proofs rest on the named assumptions
about the constants, as weak as the schemas and the database justify:
`StoreAssumption` (amounts, headcounts, prices and capacities are positive, admins are
users), `SentinelAssumption`, `DirectoryAssumption` and `DocumentAssumption` (`None`,
`Unused` and `Deleted` are no ids and no rows, the workload is one of the endpoints).

**Bookings, any number of workers** (`StayEase_proofs`). None of the safety properties
is inductive: a commit writes what its handler decided several steps earlier. The
invariant `IInv` adds `UnitsOfWork`, which says for each kind of request what it still
knows: an insert, that its id is unused and nobody else's; an update or cancellation,
only that its row's id was used; a check-in or check-out, that it is the only holder of
the lock and that the row is exactly the one it read; a payment being processed or
refunded, which change of status it makes, and after the flush that nobody else can
write that payment; a delete, that the payments it loaded are the reservation's or gone,
and that nobody else holds what it has deleted so far. One lemma per action shows `IInv`
preserved; the commit has one per conjunct. From `IInv` follow, for every value of the
constants and every workload:

* `TypeCorrect`, `WorkIsSound`, `RowLocks`, `PaidAtIsTrue`, `LedgerIntegrity`,
  `StampsSurvive`: the invariants of the racing runs;
* `TransitionsUnderLock`: the action property `LockedTransitions`, from `CommitMoves`,
  which lists everything a commit can do to a reservation;
* `DeadlockFree`: what a request waits for. `check_in` and `check_out` hold the
  reservation and want nothing more; a request that holds a payment wants only its
  reservation. So a circle of waits has in it a request that holds a reservation and
  waits, which only a delete at its cascade does; it waits for the holder of a payment
  of that reservation, and that holder, if it waits, waits for this delete.

**Bookings, one request at a time** (`SerialBookings_proofs`, assumption `Serial`).
`FreshUnits`, defined with the proofs, strengthens the invariant: the session's copy is
the current row, its dates are in order, and the place it is about to take in the
calendar is free. It holds because nothing happens between the handler's checks and its
commit, and `Written` is then the handler's copy itself (`SerialWrite`). It gives
`SerialNights`, `SerialCalendar` (no double booking, whatever administrators do to rooms
and types) and `SerialRefinement`: each commit is a step of `Lifecycle` or a stutter.
Without `Serial` these are false, as the `claim_*` runs show.

**Stays and totals, one request at a time** (`SerialBookings_proofs`, second half). A
check-in or check-out in flight holds its room as it is in the table (`HeldRoom`),
provided that no administrator writes rooms. So check-in fills an available room and
check-out empties the occupied one (`Agree`), which gives `SerialOccupancy` when no
reservation is deleted either; and the row a session will store is priced
(`PricedUnit`), which gives `SerialTotals` when no price is written. Deleting a
checked-in reservation, or an administrator's write of the room, ends the agreement.

**Back office** (`BackOffice_proofs`). The invariant says what the tables owe each other
(`Places`, `People`, `History`) and what a request in flight may still rely on: that
the ids it read were handed out, and little else, for the rows may be gone. Each commit
is then right by the constraints it meets, not by what its handler saw. From it follow
`TypeCorrect`, `NumbersAreUnique`, `RoomsKeepTheirParents`, `HistoryIsKept`,
`OwnersKeepBookings`, `ProfilesAreUnique`; `Refinement`, that every step is a change of
`Registry` or a stutter; and `MailboxesAreUnique`: registration and the prompt
lower-case addresses, so that the unique column tells mailboxes apart, and only what the
script's flag brought in mixed case can be a second address of one.

**Documents** (`Documents_proofs`). There are no locks and no constraints here: a handler
looks once and writes later. The argument is that what it looked at does not change, it
only goes: a reservation keeps its guest and its stamps until it is deleted (`Onward`), a
document its collection and its owner (`DocStep`). So what a request in flight `Knows` -
that the document is its caller's, whose the stay was, what was committed - stays true
whatever others do, and what it then writes is true and its own to write. From the
invariant follow `TypeCorrect`, `RecordsTellTheTruth`, `CommitsAreAnswered`,
`ReviewsAreOwn`, `OwnersOnlyWrite` and `DocumentsKeepTheirPastAlways`.

**Sums** (`Sums_proofs`). The code adds amounts up in SQL, the models with
`MapThenSumSet`, which takes the elements out of a set one by one. What such a sum does
when an element comes in, when the set is split or grouped, needs induction over finite
sets, and the provers cannot instantiate an induction rule. The lemmas do it by a
smallest counterexample: a set of finite sets that is not empty has a member of which no
proper subset is in it (`SmallestSet`). `SumsExist` and `SumsUnique` then say that there
is exactly one way to give sums to the subsets of a finite set, whatever the order, and
the others follow from that.

**Money, one request at a time** (`SerialMoney_proofs`). `FinitelyUsed`: the ids that
have been handed out are finitely many, so there is something to add up, although the
ids that can be handed out may be infinitely many. `MoneyUnit` says what a payment in
flight has to bring to its commit: that the payment it read is the stored one, and that
after the flush the status is the one that the stored payments, with this one, call for.
Processing makes the sum larger and refunding makes it smaller, so the status can only
be wrong in the direction that the handler looks at. This gives `SerialCoverage`, when no
`PUT /reservations/{id}` changes a total after the booking (`NoRebookings`): such an
update leaves the status alone, and the code does not claim more.

**Reports** (`Dashboard_proofs`). `Revenue` needs of the tables only that `paid_at`
follows the status and that every payment has its reservation (both proved for any
number of workers), and of sums that adding up group by group gives the sum of all: by
month and then by year (`MonthIsTotal`, `YearIsTotal`), and by reservation.
`Occupancy` needs `Agree`, and that a stay's copy of the hotel is its room's hotel
(`HousedInv`, no room changes its hotel); it holds with one request at a time, no write
of rooms and no delete, as `SerialOccupancy`, over finitely many hotels. `ReportShapes`
says that no report can fail its response model, for finite tables (`FiniteTables`).

**Search and lists.** `SearchIsBooking` (in `StayEase_proofs`): the search's SQL and the
booking's checks select the same rooms, in every state of well-typed tables.
`ListsAreReads` (in `Documents_proofs`) is the same for two lists and the reads of their
documents.

**Paging** (`Paging_proofs`, any walk through any list of finitely many ids, any page and
page size). A page is an offset, so the argument counts the rows ahead of a row
(`Ahead`). Results may come in any order that ORDER BY allows, but when the id decides,
the place of a row is the number of rows ahead of it (`PlaceIsRank`); that number only
shrinks while rows are deleted and only grows while rows are inserted. So the invariant
says: while rows are only deleted, a row which the offset does not skip comes behind
all that was shown (`BehindTheShown`); while rows are only inserted, a row from the
beginning of the walk which the offset skips was shown (`ShownSoFar`). With the
arithmetic of pages (`PageCount`, `Slices`) that gives `PagesFit`, `PagesDoNotRepeat` and
`PagesDoNotSkip`.

The workloads of the runs satisfy the hypotheses of the serial theorems about the same
properties: `serial_money` has one worker, no update and no delete, `serial_stays` one
worker and no write of prices. `serial_stays` also writes rooms, all of one
type, which `SerialTotals` excludes because in general a room can get a new type with
another price. `SerialCoverage` allows for deletes and for writes of rooms and prices, and
`Revenue` and `ReportShapes` for any workload of any number of workers: there the
theorems say more than the runs.

Model-checked only: `RequestsEnd`, since fairness is out of the prover's reach. Every
other property that a passing run checks is stated by a theorem.

## Not modelled, and what is left to do

* Settings, error envelopes, password hashing, tokens, health probes, connecting to
  MongoDB, index creation and the formats of answers: input and output, no decisions.
* The connection pool: its limit and its timeout are SQLAlchemy's, the threads
  FastAPI's.
* The dashboard's lists of the newest reservations, payments and log entries, which copy
  up to `limit` rows; the availability search without dates.
* The reads of one handler, or of one report, as separate statements.
* Abstract specifications of the calendar of a room and of the folio of a reservation.
