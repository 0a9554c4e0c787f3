------------------------------- MODULE StayStore -------------------------------
(****************************************************************************)
(* The PostgreSQL side of StayEase: the tables the reservation and payment  *)
(* controllers share, and the SQLAlchemy session each request works in.     *)
(*                                                                          *)
(* Handlers are plain `def` functions, so FastAPI runs them in a thread     *)
(* pool: several requests are in flight at once, each with a session of its *)
(* own (get_db).  A handler reads rows, decides, changes its private        *)
(* copies, and commits.  Between the reads and the commit other requests    *)
(* commit too: under READ COMMITTED nothing but an explicit row lock keeps  *)
(* what was read from becoming stale.                                       *)
(*                                                                          *)
(* A commit sends one UPDATE per changed object, and the UPDATE sets only   *)
(* the columns whose new value differs from the value the session loaded.   *)
(* It names the row by id alone: whatever another request wrote meanwhile   *)
(* is neither noticed nor, unless the column is its own, disturbed.         *)
(****************************************************************************)
EXTENDS Integers, FiniteSets, FiniteSetsExt

CONSTANTS
    Users,          \* user accounts; each owns one guest profile
    Admins,         \* the users whose role is "admin"
    Hotels, RoomTypes, Rooms,
    Reservations,   \* ids the reservation sequence can hand out
    Payments,       \* ids the payment sequence can hand out
    Workers,        \* request threads
    Ops,            \* the endpoints this workload calls
    LastDay,        \* days of the calendar are 0 .. LastDay
    MonthOf,        \* the year and the month that each of these days is in
    Prices,         \* price_per_night values (None: no price set)
    Capacities,     \* capacity values (None: no limit)
    GuestCounts, Amounts,
    None, Unused, Deleted

Endpoints ==
    {"create_reservation", "update_reservation", "cancel_reservation",
     "delete_reservation", "check_in", "check_out", "create_payment",
     "process_payment", "refund_payment", "update_room", "update_room_type"}

ASSUME StoreAssumption ==
    /\ Ops \subseteq Endpoints
    /\ Admins \subseteq Users
    /\ LastDay \in Nat
    /\ MonthOf \in [0 .. LastDay -> [year : 2000 .. 2100, month : 1 .. 12]]
    /\ Prices \subseteq (Nat \ {0}) \cup {None}
    /\ Capacities \subseteq (Nat \ {0}) \cup {None}
    /\ GuestCounts \subseteq Nat \ {0}
    /\ Amounts \subseteq Nat \ {0}

VARIABLES
    room,           \* Rooms -> row
    roomType,       \* RoomTypes -> row
    reservation,    \* Reservations -> row, Unused or Deleted
    payment,        \* Payments -> row, Unused or Deleted
    session,        \* Workers -> the unit of work of the request it serves
    today           \* the server's calendar day

tables == <<room, roomType, reservation, payment>>
vars == <<tables, session, today>>

Days == 0 .. LastDay

\* What the server's clock can stamp a payment with: all but year and month of it
\* is dropped.
Stamps == {MonthOf[d] : d \in Days}

RESERVATION_STATUSES ==
    {"pending", "confirmed", "checked_in", "checked_out", "cancelled"}

IGNORED_STATUSES == {"cancelled"}

PAYMENT_STATUSES == {"pending", "paid", "failed", "refunded"}

ROOM_STATUSES == {"available", "occupied", "maintenance", "reserved"}

RoomRow == [hotel : Hotels, type : RoomTypes, status : ROOM_STATUSES]

RoomTypeRow == [price : Prices, capacity : Capacities]

\* The two timestamps of a stay are kept as "has it been stamped": only that is
\* decided on.
ReservationRow ==
    [guest : Users, hotel : Hotels, room : Rooms,
     check_in : Days, check_out : Days, guests_count : GuestCounts,
     total_amount : Nat \cup {None}, status : RESERVATION_STATUSES,
     checked_in_at : BOOLEAN, checked_out_at : BOOLEAN]

PaymentRow ==
    [reservation : Reservations, amount : Amounts,
     status : PAYMENT_STATUSES, paid_at : Stamps \cup {None}]

ASSUME SentinelAssumption ==
    /\ None \notin Nat
    /\ None \notin Reservations \cup Payments \cup Rooms \cup Stamps
    /\ {Unused, Deleted} \cap (ReservationRow \cup PaymentRow) = {}
    /\ Unused # Deleted

Stored(table, id) == table[id] \notin {Unused, Deleted}

(****************************************************************************)
(* A session holds at most one object of each table: `old` is the row as it *)
(* was loaded (Unused for an object to be inserted), `new` the row as the   *)
(* handler left it.  A delete also has the payments it loaded, `own`.       *)
(****************************************************************************)
NoObject == [id |-> None, old |-> None, new |-> None]

Object(Ids, Row) == [id : Ids, old : Row \cup {Unused}, new : Row] \cup {NoObject}

Insert(id, row) == [id |-> id, old |-> Unused, new |-> row]

Loaded(table, id) == [id |-> id, old |-> table[id], new |-> table[id]]

Changed(table, id, row) == [id |-> id, old |-> table[id], new |-> row]

Assigned(obj, row) == [id |-> obj.id, old |-> obj.old, new |-> row]

Session ==
    [op : Ops \cup {"none"},
     phase : {"idle", "loaded", "ready", "found", "emptied", "locked"},
     res : Object(Reservations, ReservationRow),
     pay : Object(Payments, PaymentRow),
     rm  : Object(Rooms, RoomRow),
     own : SUBSET Payments]

Work(op, phase, res, pay, rm) ==
    [op |-> op, phase |-> phase, res |-> res, pay |-> pay, rm |-> rm, own |-> {}]

NoSession == Work("none", "idle", NoObject, NoObject, NoObject)

Idle(w) == session[w].phase = "idle"

Dirty(obj) == obj.new # obj.old

\* What the row becomes: only the columns this session changed are written.
Written(row, obj) ==
    IF obj.old = Unused
    THEN obj.new
    ELSE [c \in DOMAIN row |-> IF obj.new[c] # obj.old[c] THEN obj.new[c] ELSE row[c]]

Saved(table, obj) ==
    IF Dirty(obj) THEN [table EXCEPT ![obj.id] = Written(@, obj)] ELSE table

\* Mutant of FreshReservations: the id is computed as max(id) + 1.
UnusedReservations == {r \in Reservations : reservation[r] = Unused}

\* The next id of a sequence: not used and not already drawn by an open session.
FreshReservations ==
    {r \in Reservations : reservation[r] = Unused
                            /\ \A w \in Workers : session[w].res.id # r}

FreshPayments ==
    {p \in Payments : payment[p] = Unused
                        /\ \A w \in Workers : session[w].pay.id # p}

(****************************************************************************)
(* Row locks that last longer than one statement.  _locked_reservation      *)
(* reads with FOR UPDATE and keeps the row until the commit; the flush in   *)
(* the payment handlers sends the UPDATE of the payment and keeps that row; *)
(* a delete keeps the payments it loaded from their DELETEs on, and the     *)
(* reservation from its own.                                                *)
(****************************************************************************)
\* Mutant of LocksReservation: the payment handlers lock the reservation first, too.
LocksReservationFirst(w, r) ==
    /\ session[w].res.id = r
    /\ \/ session[w].op \in {"check_in", "check_out", "process_payment", "refund_payment"}
       \/ session[w].phase = "locked"

LocksReservation(w, r) ==
    /\ session[w].res.id = r
    /\ \/ session[w].op \in {"check_in", "check_out"}
       \/ session[w].phase = "locked"

LocksPayment(w, p) ==
    \/ /\ session[w].op \in {"process_payment", "refund_payment"}
       /\ session[w].phase = "ready"
       /\ session[w].pay.id = p
    \/ /\ session[w].phase \in {"emptied", "locked"}
       /\ p \in session[w].own

\* Mutant of ReservationFree: the reservation is read without FOR UPDATE.
ReservationNeverLocked(w, r) == TRUE

ReservationFree(w, r) == \A v \in Workers \ {w} : ~LocksReservation(v, r)

PaymentFree(w, p) == \A v \in Workers \ {w} : ~LocksPayment(v, p)

\* Mutant of Touches: payments without a foreign key.
TouchesOwnRow(w) ==
    IF session[w].phase = "ready" /\ session[w].res.old # Unused /\ Dirty(session[w].res)
    THEN {session[w].res.id} ELSE {}

\* The reservation rows a commit must lock: the one it updates, and the parent
\* of a payment it inserts (the foreign key takes a share lock on it).
Touches(w) ==
    (IF session[w].phase = "ready" /\ session[w].res.old # Unused /\ Dirty(session[w].res)
     THEN {session[w].res.id} ELSE {})
    \cup
    (IF session[w].op = "create_payment" THEN {session[w].pay.new.reservation} ELSE {})

\* The row is gone: StaleDataError on UPDATE, IntegrityError on INSERT.
Doomed(w) ==
    \/ \E r \in Touches(w) : reservation[r] = Deleted
    \/ session[w].phase = "loaded" /\ payment[session[w].pay.id] = Deleted

PaymentsOf(r) == {p \in Payments : Stored(payment, p) /\ payment[p].reservation = r}

(****************************************************************************)
(* The rows that the next statement of a request must lock.  A delete first *)
(* deletes the payments it loaded, in the order of their ids, so that a     *)
(* wait for one of them is the same as a wait for all; then the reservation *)
(* and, by ON DELETE CASCADE, the payments that are there by then.          *)
(****************************************************************************)
WantedReservations(w) ==
    Touches(w) \cup (IF session[w].phase = "emptied" THEN {session[w].res.id} ELSE {})

WantedPayments(w) ==
    CASE session[w].phase = "loaded" -> {session[w].pay.id}
      [] session[w].phase = "found"  -> session[w].own
      [] session[w].phase = "locked" -> PaymentsOf(session[w].res.id)
      [] OTHER -> {}

Granted(w) ==
    /\ \A r \in WantedReservations(w) : ReservationFree(w, r)
    /\ \A p \in WantedPayments(w) : PaymentFree(w, p)

WaitsFor(w, v) ==
    /\ v # w
    /\ \/ \E r \in WantedReservations(w) : LocksReservation(v, r)
       \/ \E p \in WantedPayments(w) : LocksPayment(v, p)

SetSession(w, work) ==
    /\ session' = [session EXCEPT ![w] = work]
    /\ UNCHANGED <<tables, today>>

Commit(w) ==
    /\ session[w].phase = "ready"
    /\ ~Doomed(w)
    /\ Granted(w)
    /\ reservation' = Saved(reservation, session[w].res)
    /\ payment' = Saved(payment, session[w].pay)
    /\ room' = Saved(room, session[w].rm)
    /\ session' = [session EXCEPT ![w] = NoSession]
    /\ UNCHANGED <<roomType, today>>

\* get_db: an exception, a lost connection or a killed process ends the request
\* at any point; nothing of the unit of work survives and its locks are dropped.
Rollback(w) ==
    /\ ~Idle(w)
    /\ session' = [session EXCEPT ![w] = NoSession]
    /\ UNCHANGED <<tables, today>>

\* The business date moves on its own (datetime.now().date()).
Tick ==
    /\ today < LastDay
    /\ today' = today + 1
    /\ UNCHANGED <<tables, session>>

StoreInit ==
    /\ room \in [Rooms -> [hotel : Hotels, type : RoomTypes, status : {"available"}]]
    /\ roomType \in [RoomTypes -> RoomTypeRow]
    /\ reservation = [r \in Reservations |-> Unused]
    /\ payment = [p \in Payments |-> Unused]
    /\ session = [w \in Workers |-> NoSession]
    /\ today = 0

StoreTypeOK ==
    /\ room \in [Rooms -> RoomRow]
    /\ roomType \in [RoomTypes -> RoomTypeRow]
    /\ reservation \in [Reservations -> ReservationRow \cup {Unused, Deleted}]
    /\ payment \in [Payments -> PaymentRow \cup {Unused, Deleted}]
    /\ session \in [Workers -> Session]
    /\ today \in Days

================================================================================
