----------------------------- MODULE StayEase_proofs -----------------------------
(****************************************************************************)
(* What holds for any number of workers, reservations, payments and rooms,  *)
(* and for any workload.                                                    *)
(*                                                                          *)
(* None of the safety properties is inductive by itself: a commit writes    *)
(* what a handler decided several steps ago.  IInv adds UnitsOfWork: what   *)
(* each kind of request in flight still knows of the rows it will write.    *)
(* One lemma per action shows that IInv is preserved; the commit, the only  *)
(* step that writes rows from a session, has one lemma per conjunct.        *)
(****************************************************************************)
EXTENDS StayEase, TLAPS

\* The inductive invariant: the tables and what every open session knows of them.
IInv ==
    /\ TypeOK
    /\ UnitsOfWork
    /\ NoOrphanPayments
    /\ PaidAtMatchesStatus
    /\ StampsFollowLifecycle

\* An UPDATE of a reservation sets only the columns its session changed.
LEMMA WrittenReservation ==
    ASSUME NEW row \in ReservationRow, NEW obj,
           obj.old \in ReservationRow, obj.new \in ReservationRow
    PROVE  /\ Written(row, obj) \in ReservationRow
           /\ Written(row, obj).status =
                IF obj.new.status # obj.old.status THEN obj.new.status ELSE row.status
           /\ Written(row, obj).checked_in_at =
                IF obj.new.checked_in_at # obj.old.checked_in_at
                THEN obj.new.checked_in_at ELSE row.checked_in_at
           /\ Written(row, obj).checked_out_at =
                IF obj.new.checked_out_at # obj.old.checked_out_at
                THEN obj.new.checked_out_at ELSE row.checked_out_at
<1>1. obj.old # Unused
  BY SentinelAssumption
<1> QED
  BY <1>1 DEF Written, ReservationRow

\* The same for a payment.
LEMMA WrittenPayment ==
    ASSUME NEW row \in PaymentRow, NEW obj,
           obj.old \in PaymentRow, obj.new \in PaymentRow
    PROVE  /\ Written(row, obj) \in PaymentRow
           /\ Written(row, obj).reservation =
                IF obj.new.reservation # obj.old.reservation
                THEN obj.new.reservation ELSE row.reservation
           /\ Written(row, obj).status =
                IF obj.new.status # obj.old.status THEN obj.new.status ELSE row.status
           /\ Written(row, obj).paid_at =
                IF obj.new.paid_at # obj.old.paid_at THEN obj.new.paid_at ELSE row.paid_at
<1>1. obj.old # Unused
  BY SentinelAssumption
<1> QED
  BY <1>1 DEF Written, PaymentRow

\* The same for a room: the row keeps its shape.
LEMMA WrittenRoom ==
    ASSUME NEW row \in RoomRow, NEW obj,
           obj.old \in RoomRow, obj.new \in RoomRow
    PROVE  Written(row, obj) \in RoomRow
BY DEF Written, RoomRow

\* _calculate_total yields an amount or None.
LEMMA TotalIsMoney ==
    ASSUME TypeOK, NEW m \in Rooms, NEW in \in Days, NEW out \in Days, in < out
    PROVE  CalculateTotal(m, in, out) \in Nat \cup {None}
<1>1. roomType[room[m].type].price \in (Nat \ {0}) \cup {None}
  <2>1. Prices \subseteq (Nat \ {0}) \cup {None}
    BY StoreAssumption
  <2> QED
    BY <2>1 DEF TypeOK, StoreTypeOK, RoomRow, RoomTypeRow
<1>2. out - in \in Nat
  BY StoreAssumption DEF Days
<1>3. \A x, y \in Nat : x * y \in Nat
  OBVIOUS
<1> QED
  BY <1>1, <1>2, <1>3 DEF CalculateTotal

\* The empty database satisfies the invariant.
LEMMA InitIInv == Init => IInv
<1> SUFFICES ASSUME Init PROVE IInv
  OBVIOUS
<1> USE DEF Init, StoreInit
<1>1. TypeOK
  BY StoreAssumption DEF TypeOK, StoreTypeOK, Session, NoSession, Work, Object, Days, RoomRow,
     ROOM_STATUSES, NoObject
<1>2. UnitsOfWork
  BY DEF UnitsOfWork, UnitOfWork, NoSession, Work
<1>3. NoOrphanPayments /\ PaidAtMatchesStatus /\ StampsFollowLifecycle
  BY DEF NoOrphanPayments, PaidAtMatchesStatus, StampsFollowLifecycle, Stored
<1> QED
  BY <1>1, <1>2, <1>3 DEF IInv

\* A step that only changes its worker's session preserves the invariant if the
\* new unit of work is as its endpoint makes it and takes no id or lock of another.
LEMMA SetSessionStep ==
    ASSUME IInv, NEW w \in Workers, NEW work \in Session, SetSession(w, work),
           \A v \in Workers \ {w} : session[v].op = "create_reservation"
               => work.res.id # session[v].res.id,
           \A v \in Workers \ {w} : session[v].op = "create_payment"
               => work.pay.id # session[v].pay.id,
           work.op \in {"check_in", "check_out"} \/ work.phase = "locked"
               => \A v \in Workers \ {w} : ~LocksReservation(v, work.res.id),
           work.op \in {"process_payment", "refund_payment"} /\ work.phase = "ready"
               => \A v \in Workers \ {w} : ~LocksPayment(v, work.pay.id),
           work.phase \in {"emptied", "locked"}
               => \A v \in Workers \ {w}, p \in work.own : ~LocksPayment(v, p),
           UnitOfWork(w)'
    PROVE  IInv'
<1>1. /\ session' = [session EXCEPT ![w] = work]
      /\ UNCHANGED <<room, roomType, reservation, payment, today>>
  BY DEF SetSession, tables
<1>2. TypeOK /\ UnitsOfWork
  BY DEF IInv
<1>3. session'[w] = work /\ \A v \in Workers \ {w} : session'[v] = session[v]
  BY <1>1, <1>2 DEF TypeOK, StoreTypeOK
<1>4. TypeOK'
  BY <1>1, <1>2 DEF TypeOK, StoreTypeOK
<1>5. ASSUME NEW v \in Workers \ {w} PROVE UnitOfWork(v)'
  <2>1. UnitOfWork(v)
    BY <1>2 DEF UnitsOfWork
  <2>2. Inserting(v) /\ session[v].op = "create_reservation" => Inserting(v)'
    BY <1>1, <1>3 DEF Inserting
  <2>3. Rewriting(v) => Rewriting(v)'
    BY <1>1, <1>3 DEF Rewriting
  <2>4. Moving(v) /\ session[v].op \in {"check_in", "check_out"} => Moving(v)'
    BY <1>1, <1>3 DEF Moving, LocksReservation
  <2>5. Paying(v) /\ session[v].op = "create_payment" => Paying(v)'
    BY <1>1, <1>3 DEF Paying
  <2>6. Settling(v) /\ session[v].op \in {"process_payment", "refund_payment"} => Settling(v)'
    BY <1>1, <1>3 DEF Settling, LocksPayment, Stored
  <2>7. Removing(v) => Removing(v)'
    BY <1>1, <1>3 DEF Removing, LocksPayment, LocksReservation, Stored
  <2> QED
    BY <1>3, <2>1, <2>2, <2>3, <2>4, <2>5, <2>6, <2>7 DEF UnitOfWork
<1>6. UnitsOfWork'
  BY <1>5 DEF UnitsOfWork
<1>7. (NoOrphanPayments /\ PaidAtMatchesStatus /\ StampsFollowLifecycle)'
  BY <1>1 DEF IInv, NoOrphanPayments, PaidAtMatchesStatus, StampsFollowLifecycle, Stored
<1> QED
  BY <1>4, <1>6, <1>7 DEF IInv

\* An id drawn by an open insert is still unused in its table.
LEMMA UsedIsNotDrawn ==
    ASSUME IInv, NEW v \in Workers
    PROVE  /\ session[v].op = "create_reservation" => reservation[session[v].res.id] = Unused
           /\ session[v].op = "create_payment" => payment[session[v].pay.id] = Unused
BY DEF IInv, UnitsOfWork, UnitOfWork, Inserting, Paying

\* Work builds a session with the fields it is given.
LEMMA WorkIsSession ==
    ASSUME NEW op \in Ops, NEW phase \in {"loaded", "ready", "found"},
           NEW res \in Object(Reservations, ReservationRow),
           NEW pay \in Object(Payments, PaymentRow),
           NEW rm \in Object(Rooms, RoomRow)
    PROVE  /\ Work(op, phase, res, pay, rm) \in Session
           /\ Work(op, phase, res, pay, rm).op = op
           /\ Work(op, phase, res, pay, rm).phase = phase
           /\ Work(op, phase, res, pay, rm).res = res
           /\ Work(op, phase, res, pay, rm).pay = pay
           /\ Work(op, phase, res, pay, rm).rm = rm
           /\ Work(op, phase, res, pay, rm).own = {}
BY DEF Work, Session

\* The objects a session can hold.
LEMMA ObjectTypes ==
    ASSUME NEW Ids, NEW Row
    PROVE  /\ NoObject \in Object(Ids, Row)
           /\ \A id \in Ids, old \in Row \cup {Unused}, new \in Row :
                [id |-> id, old |-> old, new |-> new] \in Object(Ids, Row)
BY DEF Object

\* What a worker's own step does to its session.
LEMMA OwnSession ==
    ASSUME TypeOK, NEW w \in Workers, NEW work, SetSession(w, work)
    PROVE  /\ session'[w] = work
           /\ \A v \in Workers \ {w} : session'[v] = session[v]
           /\ UNCHANGED <<room, roomType, reservation, payment, today>>
BY DEF SetSession, tables, TypeOK, StoreTypeOK

\* create_reservation up to its commit.
LEMMA CreateReservationStep ==
    ASSUME IInv, NEW w \in Workers, CreateReservation(w)
    PROVE  IInv'
<1>1. PICK hotel \in Hotels, m \in Rooms, in \in Days, out \in Days, count \in GuestCounts,
           guest \in Users, r \in FreshReservations :
        /\ ValidDates(in, out)
        /\ SetSession(w, Work("create_reservation", "ready",
                Insert(r, NewReservation(guest, hotel, m, in, out, count)),
                NoObject, NoObject))
  BY StoreAssumption DEF CreateReservation, BookingGuests
<1> DEFINE row == NewReservation(guest, hotel, m, in, out, count)
           work == Work("create_reservation", "ready", Insert(r, row), NoObject, NoObject)
<1>2. CalculateTotal(m, in, out) \in Nat \cup {None}
  BY <1>1, TotalIsMoney DEF IInv, ValidDates
<1>3. row \in ReservationRow /\ row.status = "pending"
      /\ ~row.checked_in_at /\ ~row.checked_out_at
  BY <1>2 DEF NewReservation, ReservationRow, RESERVATION_STATUSES
<1> HIDE DEF row
<1>4. r \in Reservations /\ reservation[r] = Unused
      /\ \A v \in Workers : session[v].res.id # r
  BY DEF FreshReservations
<1>5. "create_reservation" \in Ops
  BY DEF CreateReservation
<1>6. Insert(r, row) \in Object(Reservations, ReservationRow)
  BY <1>3, <1>4, ObjectTypes DEF Insert
<1>7. /\ work \in Session
      /\ work.op = "create_reservation" /\ work.phase = "ready"
      /\ work.res = Insert(r, row) /\ work.pay = NoObject /\ work.rm = NoObject
  BY <1>5, <1>6, ObjectTypes, WorkIsSession
<1> HIDE DEF work
<1>8. SetSession(w, work)
  BY <1>1 DEF work, row
<1>9. /\ session'[w] = work
      /\ \A v \in Workers \ {w} : session'[v] = session[v]
      /\ UNCHANGED <<room, roomType, reservation, payment, today>>
  BY <1>8, OwnSession DEF IInv
<1>10. Inserting(w)'
  BY <1>3, <1>4, <1>7, <1>9 DEF Inserting, Insert
<1>11. UnitOfWork(w)'
  BY <1>7, <1>9, <1>10 DEF UnitOfWork
<1>12. \A v \in Workers \ {w} : session[v].op = "create_payment"
               => work.pay.id # session[v].pay.id
  BY <1>7, SentinelAssumption DEF NoObject, IInv, UnitsOfWork, UnitOfWork, Paying
<1> QED
  BY <1>4, <1>7, <1>8, <1>11, <1>12, SetSessionStep DEF Insert

\* A stored id has a row.
LEMMA StoredReservation ==
    ASSUME IInv, NEW r \in Reservations, Stored(reservation, r)
    PROVE  reservation[r] \in ReservationRow
BY DEF IInv, TypeOK, StoreTypeOK, Stored

\* A stored payment has a row, and its reservation's id has been used.
LEMMA StoredPayment ==
    ASSUME IInv, NEW p \in Payments, Stored(payment, p)
    PROVE  /\ payment[p] \in PaymentRow
           /\ payment[p].reservation \in Reservations
           /\ reservation[payment[p].reservation] \in ReservationRow
           /\ Stored(reservation, payment[p].reservation)
           /\ payment[p].status = "paid" <=> payment[p].paid_at # None
<1>1. payment[p] \in PaymentRow
  BY DEF IInv, TypeOK, StoreTypeOK, Stored
<1>2. Stored(reservation, payment[p].reservation)
  BY DEF IInv, NoOrphanPayments
<1>3. payment[p].reservation \in Reservations
  BY <1>1 DEF PaymentRow
<1>4. payment[p].status = "paid" <=> payment[p].paid_at # None
  BY DEF IInv, PaidAtMatchesStatus
<1> QED
  BY <1>1, <1>2, <1>3, <1>4, StoredReservation

\* update_reservation and cancel_reservation: a changed copy of a stored row.
LEMMA RewriteStep ==
    ASSUME IInv, NEW w \in Workers, NEW r \in Reservations, Stored(reservation, r),
           NEW op \in Ops \cap {"update_reservation", "cancel_reservation"},
           NEW new \in ReservationRow,
           new.status = IF op = "cancel_reservation" THEN "cancelled"
                                                     ELSE reservation[r].status,
           new.checked_in_at = reservation[r].checked_in_at,
           new.checked_out_at = reservation[r].checked_out_at,
           SetSession(w, Work(op, "ready", Changed(reservation, r, new), NoObject, NoObject))
    PROVE  IInv'
<1> DEFINE work == Work(op, "ready", Changed(reservation, r, new), NoObject, NoObject)
<1>1. reservation[r] \in ReservationRow /\ reservation[r] # Unused
  BY StoredReservation DEF Stored
<1>2. Changed(reservation, r, new) \in Object(Reservations, ReservationRow)
  BY <1>1, ObjectTypes DEF Changed
<1>3. /\ work \in Session /\ work.op = op /\ work.phase = "ready"
      /\ work.res = Changed(reservation, r, new)
      /\ work.pay = NoObject /\ work.rm = NoObject
  BY <1>2, ObjectTypes, WorkIsSession
<1> HIDE DEF work
<1>4. SetSession(w, work)
  BY DEF work
<1>5. /\ session'[w] = work
      /\ \A v \in Workers \ {w} : session'[v] = session[v]
      /\ UNCHANGED <<room, roomType, reservation, payment, today>>
  BY <1>4, OwnSession DEF IInv
<1>6. UnitOfWork(w)'
  BY <1>1, <1>3, <1>5 DEF UnitOfWork, Rewriting, Changed
<1>7. \A v \in Workers \ {w} : session[v].op = "create_reservation"
               => work.res.id # session[v].res.id
  BY <1>1, <1>3, UsedIsNotDrawn DEF Changed
<1>8. \A v \in Workers \ {w} : session[v].op = "create_payment"
               => work.pay.id # session[v].pay.id
  BY <1>3, SentinelAssumption DEF IInv, UnitsOfWork, UnitOfWork, Paying, NoObject
<1>9. work.op \notin {"check_in", "check_out", "process_payment", "refund_payment"}
  BY <1>3
<1> QED
  BY <1>3, <1>4, <1>6, <1>7, <1>8, <1>9, SetSessionStep

\* update_reservation up to its commit.
LEMMA UpdateReservationStep ==
    ASSUME IInv, NEW w \in Workers, UpdateReservation(w)
    PROVE  IInv'
<1>1. PICK r \in Reservations, in \in Days, out \in Days, count \in GuestCounts,
           datesSent \in BOOLEAN :
        /\ Stored(reservation, r)
        /\ ValidDates(in, out)
        /\ SetSession(w, Work("update_reservation", "ready",
                Changed(reservation, r, Rebooked(r, in, out, count, datesSent)),
                NoObject, NoObject))
  BY DEF UpdateReservation
<1>2. reservation[r] \in ReservationRow
  BY <1>1, StoredReservation
<1>3. reservation[r].room \in Rooms /\ reservation[r].total_amount \in Nat \cup {None}
  BY <1>2 DEF ReservationRow
<1>4. CalculateTotal(reservation[r].room, in, out) \in Nat \cup {None}
  BY <1>1, <1>3, TotalIsMoney DEF IInv, ValidDates
<1>5. Rebooked(r, in, out, count, datesSent) \in ReservationRow
  BY <1>2, <1>3, <1>4 DEF Rebooked, ReservationRow
<1>6. LET new == Rebooked(r, in, out, count, datesSent)
      IN  /\ new.status = reservation[r].status
          /\ new.checked_in_at = reservation[r].checked_in_at
          /\ new.checked_out_at = reservation[r].checked_out_at
  BY <1>2 DEF Rebooked, ReservationRow
<1>7. "update_reservation" \in Ops
  BY DEF UpdateReservation
<1> QED
  BY <1>1, <1>5, <1>6, <1>7, RewriteStep

\* cancel_reservation up to its commit.
LEMMA CancelReservationStep ==
    ASSUME IInv, NEW w \in Workers, CancelReservation(w)
    PROVE  IInv'
<1>1. PICK r \in Reservations :
        /\ Stored(reservation, r)
        /\ SetSession(w, Work("cancel_reservation", "ready",
                Changed(reservation, r, [reservation[r] EXCEPT !.status = "cancelled"]),
                NoObject, NoObject))
  BY DEF CancelReservation
<1>2. reservation[r] \in ReservationRow
  BY <1>1, StoredReservation
<1> DEFINE new == [reservation[r] EXCEPT !.status = "cancelled"]
<1>3. /\ new \in ReservationRow /\ new.status = "cancelled"
      /\ new.checked_in_at = reservation[r].checked_in_at
      /\ new.checked_out_at = reservation[r].checked_out_at
  BY <1>2 DEF ReservationRow, RESERVATION_STATUSES
<1>4. "cancel_reservation" \in Ops
  BY DEF CancelReservation
<1> QED
  BY <1>1, <1>3, <1>4, RewriteStep

\* check_in and check_out: the row lock was free and is now the worker's.
LEMMA MoveStep ==
    ASSUME IInv, NEW w \in Workers, NEW r \in Reservations, Stored(reservation, r),
           ReservationFree(w, r),
           NEW op \in Ops \cap {"check_in", "check_out"},
           NEW new \in ReservationRow,
           NEW m \in Rooms, NEW vacancy \in RoomRow,
           IF op = "check_in"
           THEN /\ reservation[r].status = "confirmed" /\ reservation[r].check_in <= today
                /\ new = Arrived(reservation[r])
           ELSE /\ reservation[r].status = "checked_in"
                /\ new = Departed(reservation[r]),
           SetSession(w, Work(op, "ready", Changed(reservation, r, new), NoObject,
                              Changed(room, m, vacancy)))
    PROVE  IInv'
<1> DEFINE work == Work(op, "ready", Changed(reservation, r, new), NoObject,
                        Changed(room, m, vacancy))
<1>1. reservation[r] \in ReservationRow /\ reservation[r] # Unused /\ room[m] \in RoomRow
  BY StoredReservation DEF Stored, IInv, TypeOK, StoreTypeOK
<1>2. /\ Changed(reservation, r, new) \in Object(Reservations, ReservationRow)
      /\ Changed(room, m, vacancy) \in Object(Rooms, RoomRow)
  BY <1>1, ObjectTypes DEF Changed
<1>3. /\ work \in Session /\ work.op = op /\ work.phase = "ready"
      /\ work.res = Changed(reservation, r, new)
      /\ work.pay = NoObject /\ work.rm = Changed(room, m, vacancy)
  BY <1>2, ObjectTypes, WorkIsSession
<1> HIDE DEF work
<1>4. SetSession(w, work)
  BY DEF work
<1>5. /\ session'[w] = work
      /\ \A v \in Workers \ {w} : session'[v] = session[v]
      /\ UNCHANGED <<room, roomType, reservation, payment, today>>
  BY <1>4, OwnSession DEF IInv
<1>6. \A v \in Workers \ {w} : ~LocksReservation(v, r) /\ ~LocksReservation(v, r)'
  BY <1>5 DEF ReservationFree, LocksReservation
<1>7. Moving(w)'
  BY <1>1, <1>3, <1>5, <1>6 DEF Moving, Changed
<1>8. UnitOfWork(w)'
  BY <1>3, <1>5, <1>7 DEF UnitOfWork
<1>9. \A v \in Workers \ {w} : session[v].op = "create_reservation"
               => work.res.id # session[v].res.id
  BY <1>1, <1>3, UsedIsNotDrawn DEF Changed
<1>10. \A v \in Workers \ {w} : session[v].op = "create_payment"
               => work.pay.id # session[v].pay.id
  BY <1>3, SentinelAssumption DEF IInv, UnitsOfWork, UnitOfWork, Paying, NoObject
<1>11. /\ \A v \in Workers \ {w} : ~LocksReservation(v, work.res.id)
       /\ work.op \notin {"process_payment", "refund_payment"}
  BY <1>3, <1>6 DEF Changed
<1> QED
  BY <1>3, <1>4, <1>8, <1>9, <1>10, <1>11, SetSessionStep

\* check_in up to its commit.
LEMMA CheckInStep ==
    ASSUME IInv, NEW w \in Workers, CheckIn(w)
    PROVE  IInv'
<1>1. PICK r \in Reservations :
        /\ Stored(reservation, r)
        /\ ReservationFree(w, r)
        /\ reservation[r].status = "confirmed"
        /\ today >= reservation[r].check_in
        /\ SetSession(w, Work("check_in", "ready",
              Changed(reservation, r, Arrived(reservation[r])), NoObject,
              Changed(room, reservation[r].room,
                      [room[reservation[r].room] EXCEPT !.status = "occupied"])))
  BY DEF CheckIn
<1> DEFINE new == Arrived(reservation[r])
           m == reservation[r].room
           vacancy == [room[m] EXCEPT !.status = "occupied"]
<1>2. reservation[r] \in ReservationRow /\ reservation[r].check_in <= today
  BY <1>1, StoredReservation DEF ReservationRow, IInv, TypeOK, StoreTypeOK, Days
<1>3. new \in ReservationRow /\ m \in Rooms
  BY <1>2 DEF Arrived, Departed, ReservationRow, RESERVATION_STATUSES
<1>4. vacancy \in RoomRow
  BY <1>3 DEF IInv, TypeOK, StoreTypeOK, RoomRow, ROOM_STATUSES
<1>5. "check_in" \in Ops
  BY DEF CheckIn
<1> HIDE DEF m, vacancy
<1> QED
  BY <1>1, <1>2, <1>3, <1>4, <1>5, MoveStep DEF m, vacancy

\* check_out up to its commit.
LEMMA CheckOutStep ==
    ASSUME IInv, NEW w \in Workers, CheckOut(w)
    PROVE  IInv'
<1>1. PICK r \in Reservations :
        /\ Stored(reservation, r)
        /\ ReservationFree(w, r)
        /\ reservation[r].status = "checked_in"
        /\ SetSession(w, Work("check_out", "ready",
              Changed(reservation, r, Departed(reservation[r])), NoObject,
              Changed(room, reservation[r].room,
                      [room[reservation[r].room] EXCEPT !.status = VacatedStatus(@)])))
  BY DEF CheckOut
<1> DEFINE new == Departed(reservation[r])
           m == reservation[r].room
           vacancy == [room[m] EXCEPT !.status = VacatedStatus(@)]
<1>2. reservation[r] \in ReservationRow
  BY <1>1, StoredReservation
<1>3. new \in ReservationRow /\ m \in Rooms
  BY <1>2 DEF Arrived, Departed, ReservationRow, RESERVATION_STATUSES
<1>4. vacancy \in RoomRow
  BY <1>3 DEF IInv, TypeOK, StoreTypeOK, RoomRow, ROOM_STATUSES, VacatedStatus
<1>5. "check_out" \in Ops
  BY DEF CheckOut
<1> HIDE DEF m, vacancy
<1> QED
  BY <1>1, <1>2, <1>3, <1>4, <1>5, MoveStep DEF m, vacancy

\* create_payment up to its commit.
LEMMA CreatePaymentStep ==
    ASSUME IInv, NEW w \in Workers, CreatePayment(w)
    PROVE  IInv'
<1>1. PICK r \in Reservations, amount \in Amounts, p \in FreshPayments :
        /\ Stored(reservation, r)
        /\ SetSession(w, Work("create_payment", "ready", NoObject,
                Insert(p, [reservation |-> r, amount |-> amount,
                           status |-> "pending", paid_at |-> None]),
                NoObject))
  BY DEF CreatePayment
<1> DEFINE row == [reservation |-> r, amount |-> amount,
                   status |-> "pending", paid_at |-> None]
           work == Work("create_payment", "ready", NoObject, Insert(p, row), NoObject)
<1>2. /\ row \in PaymentRow /\ row.status = "pending" /\ row.paid_at = None
      /\ row.reservation = r
  BY DEF PaymentRow, PAYMENT_STATUSES
<1> HIDE DEF row
<1>3. p \in Payments /\ payment[p] = Unused
      /\ \A v \in Workers : session[v].pay.id # p
  BY DEF FreshPayments
<1>4. "create_payment" \in Ops
  BY DEF CreatePayment
<1>5. Insert(p, row) \in Object(Payments, PaymentRow)
  BY <1>2, <1>3, ObjectTypes DEF Insert
<1>6. /\ work \in Session
      /\ work.op = "create_payment" /\ work.phase = "ready"
      /\ work.res = NoObject /\ work.pay = Insert(p, row) /\ work.rm = NoObject
  BY <1>4, <1>5, ObjectTypes, WorkIsSession
<1> HIDE DEF work
<1>7. SetSession(w, work)
  BY <1>1 DEF work, row
<1>8. /\ session'[w] = work
      /\ \A v \in Workers \ {w} : session'[v] = session[v]
      /\ UNCHANGED <<room, roomType, reservation, payment, today>>
  BY <1>7, OwnSession DEF IInv
<1>9. reservation[r] # Unused
  BY <1>1 DEF Stored
<1>10. Paying(w)'
  BY <1>2, <1>3, <1>6, <1>8, <1>9 DEF Paying, Insert
<1>11. UnitOfWork(w)'
  BY <1>6, <1>8, <1>10 DEF UnitOfWork
<1>12. \A v \in Workers \ {w} : session[v].op = "create_reservation"
               => work.res.id # session[v].res.id
  BY <1>6, SentinelAssumption DEF NoObject, IInv, UnitsOfWork, UnitOfWork, Inserting
<1>13. \A v \in Workers \ {w} : session[v].op = "create_payment"
               => work.pay.id # session[v].pay.id
  BY <1>3, <1>6 DEF Insert
<1>14. work.op \notin {"check_in", "check_out", "process_payment", "refund_payment"}
  BY <1>6
<1> QED
  BY <1>6, <1>7, <1>11, <1>12, <1>13, <1>14, SetSessionStep

\* The common part of the two payment handlers, before and after their flush.
LEMMA SettleStep ==
    ASSUME IInv, NEW w \in Workers, NEW r \in Reservations, NEW p \in Payments,
           NEW op \in Ops \cap {"process_payment", "refund_payment"},
           NEW phase \in {"loaded", "ready"},
           NEW res, res \in Object(Reservations, ReservationRow),
           NEW pay, pay \in Object(Payments, PaymentRow),
           res.id = r, res.old \in ReservationRow, reservation[r] # Unused,
           pay.id = p, pay.old \in PaymentRow, payment[p] # Unused,
           pay.old.reservation = r, Stored(payment, p) => payment[p].reservation = r,
           PaymentMove(Work(op, phase, res, pay, NoObject)),
           ReservationMove(Work(op, phase, res, pay, NoObject)),
           phase = "ready" => payment[p] # Deleted /\ PaymentFree(w, p),
           SetSession(w, Work(op, phase, res, pay, NoObject))
    PROVE  IInv'
<1> DEFINE work == Work(op, phase, res, pay, NoObject)
<1>1. /\ work \in Session /\ work.op = op /\ work.phase = phase
      /\ work.res = res /\ work.pay = pay /\ work.rm = NoObject
  BY ObjectTypes, WorkIsSession
<1>2. SetSession(w, work) /\ PaymentMove(work) /\ ReservationMove(work)
  OBVIOUS
<1> HIDE DEF work
<1>3. /\ session'[w] = work
      /\ \A v \in Workers \ {w} : session'[v] = session[v]
      /\ UNCHANGED <<room, roomType, reservation, payment, today>>
  BY <1>2, OwnSession DEF IInv
<1>4. phase = "ready" =>
        \A v \in Workers \ {w} : ~LocksPayment(v, p) /\ ~LocksPayment(v, p)'
  BY <1>3 DEF PaymentFree, LocksPayment
<1>5. Settling(w)'
  BY <1>1, <1>2, <1>3, <1>4 DEF Settling, Stored
<1>6. UnitOfWork(w)'
  BY <1>1, <1>3, <1>5 DEF UnitOfWork
<1>7. \A v \in Workers \ {w} : session[v].op = "create_reservation"
               => work.res.id # session[v].res.id
  BY <1>1, UsedIsNotDrawn
<1>8. \A v \in Workers \ {w} : session[v].op = "create_payment"
               => work.pay.id # session[v].pay.id
  BY <1>1, UsedIsNotDrawn
<1>9. /\ work.op \notin {"check_in", "check_out"}
      /\ work.phase = "ready" => \A v \in Workers \ {w} : ~LocksPayment(v, work.pay.id)
  BY <1>1, <1>4
<1> QED
  BY <1>1, <1>2, <1>6, <1>7, <1>8, <1>9, SetSessionStep

\* Processing and refunding give a payment row again.
LEMMA PaymentRowMoves ==
    ASSUME NEW row \in PaymentRow, NEW now \in Stamps
    PROVE  Processed(row, now) \in PaymentRow /\ Refunded(row) \in PaymentRow
BY DEF Processed, Refunded, PaymentRow, PAYMENT_STATUSES

\* The server's clock.
LEMMA NowIsStamp == ASSUME IInv PROVE MonthOf[today] \in Stamps
BY DEF IInv, TypeOK, StoreTypeOK, Stamps

\* process_payment up to its flush.
LEMMA ProcessPaymentStep ==
    ASSUME IInv, NEW w \in Workers, ProcessPayment(w)
    PROVE  IInv'
<1>1. PICK p \in Payments :
        /\ Stored(payment, p)
        /\ payment[p].status = "pending"
        /\ SetSession(w, Work("process_payment", "loaded",
                Loaded(reservation, payment[p].reservation),
                Changed(payment, p, Processed(payment[p], MonthOf[today])), NoObject))
  BY DEF ProcessPayment
<1> DEFINE r == payment[p].reservation
           res == Loaded(reservation, r)
           now == MonthOf[today]
           pay == Changed(payment, p, Processed(payment[p], now))
<1>2. /\ payment[p] \in PaymentRow /\ r \in Reservations
      /\ reservation[r] \in ReservationRow /\ Stored(reservation, r)
      /\ payment[p].paid_at = None
  BY <1>1, StoredPayment
<1>now. now \in Stamps
  BY NowIsStamp
<1> HIDE DEF now
<1>3. /\ res \in Object(Reservations, ReservationRow)
      /\ pay \in Object(Payments, PaymentRow)
  BY <1>2, <1>now, ObjectTypes, PaymentRowMoves DEF Loaded, Changed
<1>4. /\ res.id = r /\ res.old \in ReservationRow /\ reservation[r] # Unused
      /\ pay.id = p /\ pay.old \in PaymentRow /\ payment[p] # Unused
      /\ pay.old.reservation = r /\ payment[p].reservation = r
  BY <1>1, <1>2 DEF Loaded, Changed, Stored
<1>5. PaymentMove(Work("process_payment", "loaded", res, pay, NoObject))
  <2>1. Processed(payment[p], now).paid_at = now
    BY <1>2 DEF Processed, PaymentRow
  <2> QED
    BY <1>1, <1>2, <1>now, <2>1 DEF PaymentMove, Work, Changed
<1>6. ReservationMove(Work("process_payment", "loaded", res, pay, NoObject))
  BY DEF ReservationMove, Work, Loaded
<1>7. "process_payment" \in Ops
  BY DEF ProcessPayment
<1>8. SetSession(w, Work("process_payment", "loaded", res, pay, NoObject))
  BY <1>1 DEF now
<1> HIDE DEF res, pay, r
<1> QED
  BY <1>2, <1>3, <1>4, <1>5, <1>6, <1>7, <1>8, SettleStep

\* refund_payment up to its flush.
LEMMA RefundPaymentStep ==
    ASSUME IInv, NEW w \in Workers, RefundPayment(w)
    PROVE  IInv'
<1>1. PICK p \in Payments :
        /\ Stored(payment, p)
        /\ payment[p].status = "paid"
        /\ SetSession(w, Work("refund_payment", "loaded",
                Loaded(reservation, payment[p].reservation),
                Changed(payment, p, Refunded(payment[p])), NoObject))
  BY DEF RefundPayment
<1> DEFINE r == payment[p].reservation
           res == Loaded(reservation, r)
           pay == Changed(payment, p, Refunded(payment[p]))
<1>2. /\ payment[p] \in PaymentRow /\ r \in Reservations
      /\ reservation[r] \in ReservationRow /\ Stored(reservation, r)
      /\ payment[p].paid_at # None
  BY <1>1, StoredPayment
<1>3. /\ res \in Object(Reservations, ReservationRow)
      /\ pay \in Object(Payments, PaymentRow)
  BY <1>2, NowIsStamp, ObjectTypes, PaymentRowMoves DEF Loaded, Changed
<1>4. /\ res.id = r /\ res.old \in ReservationRow /\ reservation[r] # Unused
      /\ pay.id = p /\ pay.old \in PaymentRow /\ payment[p] # Unused
      /\ pay.old.reservation = r /\ payment[p].reservation = r
  BY <1>1, <1>2 DEF Loaded, Changed, Stored
<1>5. PaymentMove(Work("refund_payment", "loaded", res, pay, NoObject))
  BY <1>1, <1>2 DEF PaymentMove, Work, Changed
<1>6. ReservationMove(Work("refund_payment", "loaded", res, pay, NoObject))
  BY DEF ReservationMove, Work, Loaded
<1>7. "refund_payment" \in Ops
  BY DEF RefundPayment
<1>8. SetSession(w, Work("refund_payment", "loaded", res, pay, NoObject))
  BY <1>1
<1> HIDE DEF res, pay, r
<1> QED
  BY <1>2, <1>3, <1>4, <1>5, <1>6, <1>7, <1>8, SettleStep

\* The flush: the worker now holds the payment's row lock.
LEMMA FlushPaymentStep ==
    ASSUME IInv, NEW w \in Workers, FlushPayment(w)
    PROVE  IInv'
<1> DEFINE s == session[w]
           settled == Settled(s.op, Saved(payment, s.pay), s.res.old, s.res.id)
           row == [s.res.old EXCEPT !.status = settled]
           res == Assigned(s.res, row)
<1>1. /\ s.phase = "loaded" /\ ~Doomed(w) /\ PaymentFree(w, s.pay.id)
      /\ SetSession(w, Work(s.op, "ready", res, s.pay, NoObject))
  BY DEF FlushPayment, Granted, WantedPayments
<1>2. s \in Session /\ UnitOfWork(w)
  BY DEF IInv, TypeOK, StoreTypeOK, UnitsOfWork
<1>3. s.op \in Ops \cap {"process_payment", "refund_payment"}
  BY <1>1, <1>2, StoreAssumption DEF Session, UnitOfWork, Endpoints, NoSession, Work,
     Inserting, Rewriting, Moving, Paying, Removing
<1>4. Settling(w)
  BY <1>2, <1>3 DEF UnitOfWork
<1>5. /\ s.res.id \in Reservations /\ s.res.old \in ReservationRow
      /\ s.pay.id \in Payments /\ s.pay.old \in PaymentRow
      /\ s.pay.old.reservation = s.res.id
      /\ reservation[s.res.id] # Unused /\ payment[s.pay.id] # Unused
      /\ Stored(payment, s.pay.id) => payment[s.pay.id].reservation = s.res.id
      /\ PaymentMove(s)
  BY <1>4 DEF Settling
<1>6. payment[s.pay.id] # Deleted
  BY <1>1 DEF Doomed
<1>7. \/ settled = s.res.old.status
      \/ s.op = "process_payment" /\ s.res.old.status = "pending" /\ settled = "confirmed"
      \/ s.op = "refund_payment" /\ s.res.old.status = "confirmed" /\ settled = "pending"
  BY <1>3 DEF Settled
<1> HIDE DEF settled
<1>8. row \in ReservationRow
  BY <1>5, <1>7 DEF ReservationRow, RESERVATION_STATUSES
<1>9. settled = s.res.old.status => row = s.res.old
  BY <1>5 DEF ReservationRow
<1>10. /\ res \in Object(Reservations, ReservationRow)
       /\ res.id = s.res.id /\ res.old = s.res.old /\ res.new = row
  BY <1>5, <1>8, ObjectTypes DEF Assigned
<1>11. s.pay \in Object(Payments, PaymentRow)
  BY <1>2 DEF Session
<1>12. PaymentMove(Work(s.op, "ready", res, s.pay, NoObject))
  BY <1>5 DEF PaymentMove, Work
<1>13. ReservationMove(Work(s.op, "ready", res, s.pay, NoObject))
  BY <1>7, <1>9, <1>10 DEF ReservationMove, Work
<1> HIDE DEF res
<1> QED
  BY <1>1, <1>3, <1>5, <1>6, <1>10, <1>11, <1>12, <1>13, SettleStep

\* delete_reservation up to its commit: it knows the reservation's payments.
LEMMA DeleteReservationStep ==
    ASSUME IInv, NEW w \in Workers, DeleteReservation(w)
    PROVE  IInv'
<1>1. PICK r \in Reservations :
        /\ Stored(reservation, r)
        /\ SetSession(w, Removal(r, PaymentsOf(r)))
  BY DEF DeleteReservation
<1> DEFINE plain == Work("delete_reservation", "found", Loaded(reservation, r),
                         NoObject, NoObject)
           work == [plain EXCEPT !.own = PaymentsOf(r)]
<1>2. /\ reservation[r] \in ReservationRow /\ reservation[r] # Unused
      /\ PaymentsOf(r) \subseteq Payments
      /\ "delete_reservation" \in Ops
  BY <1>1, StoredReservation DEF Stored, PaymentsOf, DeleteReservation
<1>3. Loaded(reservation, r) \in Object(Reservations, ReservationRow)
  BY <1>2, ObjectTypes DEF Loaded
<1>4. /\ plain \in Session
      /\ plain.op = "delete_reservation" /\ plain.phase = "found"
      /\ plain.res = Loaded(reservation, r) /\ plain.pay = NoObject /\ plain.rm = NoObject
  BY <1>2, <1>3, ObjectTypes, WorkIsSession
<1>5. SetSession(w, work)
  BY <1>1 DEF Removal
<1> HIDE DEF plain
<1>6. /\ work \in Session
      /\ work.op = "delete_reservation" /\ work.phase = "found"
      /\ work.res = Loaded(reservation, r) /\ work.pay = NoObject /\ work.rm = NoObject
      /\ work.own = PaymentsOf(r)
  BY <1>2, <1>4 DEF Session
<1> HIDE DEF work
<1>7. /\ session'[w] = work
      /\ \A v \in Workers \ {w} : session'[v] = session[v]
      /\ UNCHANGED <<room, roomType, reservation, payment, today>>
  BY <1>5, OwnSession DEF IInv
<1>8. Removing(w)'
  BY <1>2, <1>6, <1>7 DEF Removing, Loaded, PaymentsOf, Stored
<1>9. UnitOfWork(w)'
  BY <1>6, <1>7, <1>8 DEF UnitOfWork
<1>10. \A v \in Workers \ {w} :
          /\ session[v].op = "create_reservation" => work.res.id # session[v].res.id
          /\ session[v].op = "create_payment" => work.pay.id # session[v].pay.id
  BY <1>2, <1>6, UsedIsNotDrawn, SentinelAssumption
     DEF Loaded, NoObject, IInv, UnitsOfWork, UnitOfWork, Paying
<1> QED
  BY <1>5, <1>6, <1>9, <1>10, SetSessionStep

\* The next statement of a delete: it takes locks that nobody else holds.
LEMMA RemoveStep ==
    ASSUME IInv, NEW w \in Workers, Removing(w), session[w].op = "delete_reservation",
           NEW phase \in {"emptied", "locked"},
           SetSession(w, [session[w] EXCEPT !.phase = phase]),
           \A p \in session[w].own : PaymentFree(w, p),
           phase = "locked" => ReservationFree(w, session[w].res.id)
    PROVE  IInv'
<1> DEFINE work == [session[w] EXCEPT !.phase = phase]
<1>1. session[w] \in Session
  BY DEF IInv, TypeOK, StoreTypeOK
<1>2. /\ work \in Session
      /\ work.op = "delete_reservation" /\ work.phase = phase
      /\ work.res = session[w].res /\ work.pay = session[w].pay /\ work.rm = session[w].rm
      /\ work.own = session[w].own
  BY <1>1 DEF Session
<1>3. SetSession(w, work)
  OBVIOUS
<1> HIDE DEF work
<1>4. /\ session'[w] = work
      /\ \A v \in Workers \ {w} : session'[v] = session[v]
      /\ UNCHANGED <<room, roomType, reservation, payment, today>>
  BY <1>3, OwnSession DEF IInv
<1>5. /\ \A v \in Workers \ {w}, p \in work.own : ~LocksPayment(v, p)
      /\ phase = "locked" => \A v \in Workers \ {w} : ~LocksReservation(v, work.res.id)
  BY <1>2 DEF PaymentFree, ReservationFree
<1>6. Removing(w)'
  BY <1>2, <1>4, <1>5 DEF Removing, Stored, LocksPayment, LocksReservation
<1>7. UnitOfWork(w)'
  BY <1>2, <1>4, <1>6 DEF UnitOfWork
<1>8. \A v \in Workers \ {w} :
          /\ session[v].op = "create_reservation" => work.res.id # session[v].res.id
          /\ session[v].op = "create_payment" => work.pay.id # session[v].pay.id
  BY <1>2, UsedIsNotDrawn, SentinelAssumption
     DEF Removing, NoObject, IInv, UnitsOfWork, UnitOfWork, Paying
<1> QED
  BY <1>2, <1>3, <1>5, <1>7, <1>8, SetSessionStep

\* What a request is that has come to one of these phases.
LEMMA PhaseTellsOp ==
    ASSUME IInv, NEW w \in Workers
    PROVE  /\ session[w].phase \in {"found", "emptied", "locked"} =>
                session[w].op = "delete_reservation" /\ Removing(w)
           /\ session[w].phase = "loaded" =>
                session[w].op \in {"process_payment", "refund_payment"} /\ Settling(w)
<1>1. session[w] \in Session /\ UnitOfWork(w)
  BY DEF IInv, TypeOK, StoreTypeOK, UnitsOfWork
<1>2. session[w].op \in Endpoints \cup {"none"}
  BY <1>1, StoreAssumption DEF Session
<1> QED
  BY <1>1, <1>2 DEF UnitOfWork, Endpoints, Inserting, Rewriting, Moving, Paying, Settling,
     Removing, NoSession, Work

\* The DELETE of the loaded payments.
LEMMA EmptyReservationStep ==
    ASSUME IInv, NEW w \in Workers, EmptyReservation(w)
    PROVE  IInv'
<1>1. Removing(w) /\ session[w].op = "delete_reservation"
  BY PhaseTellsOp DEF EmptyReservation
<1>2. \A p \in session[w].own : PaymentFree(w, p)
  BY DEF EmptyReservation, Granted, WantedPayments
<1> QED
  BY <1>1, <1>2, RemoveStep DEF EmptyReservation

\* The DELETE of the reservation.
LEMMA LockReservationStep ==
    ASSUME IInv, NEW w \in Workers, LockReservation(w)
    PROVE  IInv'
<1>1. Removing(w) /\ session[w].op = "delete_reservation" /\ session[w].phase = "emptied"
  BY PhaseTellsOp DEF LockReservation
<1>2. ReservationFree(w, session[w].res.id)
  BY <1>1 DEF LockReservation, Granted, WantedReservations
<1>3. \A p \in session[w].own : PaymentFree(w, p)
  BY <1>1 DEF Removing, PaymentFree
<1> QED
  BY <1>1, <1>2, <1>3, RemoveStep DEF LockReservation

\* The cascade: the row and its payments go, and nobody else had them locked.
LEMMA CommitDeleteStep ==
    ASSUME IInv, NEW w \in Workers, CommitDelete(w)
    PROVE  IInv'
<1> DEFINE r == session[w].res.id
           gone == PaymentsOf(r)
<1>1. /\ session[w].phase = "locked"
      /\ \A p \in gone : PaymentFree(w, p)
      /\ reservation' = [reservation EXCEPT ![r] = Deleted]
      /\ payment' = [p \in Payments |-> IF p \in gone THEN Deleted ELSE payment[p]]
      /\ session' = [session EXCEPT ![w] = NoSession]
      /\ UNCHANGED <<room, roomType, today>>
  BY DEF CommitDelete, Granted, WantedPayments
<1>2. /\ r \in Reservations /\ reservation[r] # Unused
      /\ \A v \in Workers \ {w} : ~LocksReservation(v, r)
  BY <1>1, PhaseTellsOp DEF Removing
<1>3. /\ gone \subseteq Payments
      /\ \A p \in Payments : p \in gone <=> Stored(payment, p) /\ payment[p].reservation = r
  BY DEF PaymentsOf
<1> HIDE DEF r, gone
<1>4. /\ reservation'[r] = Deleted
      /\ \A q \in Reservations \ {r} : reservation'[q] = reservation[q]
      /\ \A p \in gone : payment'[p] = Deleted
      /\ \A p \in Payments \ gone : payment'[p] = payment[p]
      /\ \A p \in gone : payment[p] # Unused
  BY <1>1, <1>2, <1>3 DEF IInv, TypeOK, StoreTypeOK, Stored
<1>5. /\ session'[w] = NoSession
      /\ \A v \in Workers \ {w} : session'[v] = session[v]
      /\ session' \in [Workers -> Session]
  <2>1. NoSession \in Session
    BY DEF Session, NoSession, Work, Object
  <2> QED
    BY <1>1, <2>1 DEF IInv, TypeOK, StoreTypeOK
<1>6. TypeOK'
  BY <1>1, <1>5 DEF IInv, TypeOK, StoreTypeOK
<1>7. \A v \in Workers \ {w} : \A p \in gone : ~LocksPayment(v, p)
  BY <1>1 DEF PaymentFree
<1>8. UnitOfWork(w)'
  BY <1>5 DEF UnitOfWork, NoSession, Work
<1>9. ASSUME NEW v \in Workers \ {w} PROVE UnitOfWork(v)'
  <2>1. UnitOfWork(v) /\ session'[v] = session[v] /\ today' = today
    BY <1>1, <1>5 DEF IInv, UnitsOfWork
  <2>2. \A q \in Reservations : reservation[q] # Unused => reservation'[q] # Unused
    BY <1>4, SentinelAssumption
  <2>3. \A p \in Payments :
            /\ payment[p] # Unused => payment'[p] # Unused
            /\ Stored(payment', p) => payment'[p] = payment[p] /\ p \notin gone
    BY <1>4, SentinelAssumption DEF Stored
  <2>4. /\ \A u, q : LocksReservation(u, q)' /\ u \in Workers => LocksReservation(u, q)
        /\ \A u, p : LocksPayment(u, p)' /\ u \in Workers => LocksPayment(u, p)
    BY <1>5 DEF LocksReservation, LocksPayment, NoSession, Work
  <2>5. Inserting(v) => Inserting(v)'
    BY <1>2, <1>4, <1>5, <2>1, SentinelAssumption DEF Inserting, NoSession, NoObject, Work
  <2>6. Rewriting(v) => Rewriting(v)'
    BY <2>1, <2>2 DEF Rewriting
  <2>7. Moving(v) /\ session[v].op \in {"check_in", "check_out"} => Moving(v)'
    <3>1. ASSUME Moving(v), session[v].op \in {"check_in", "check_out"}
          PROVE  session[v].res.id # r /\ session[v].res.id \in Reservations
      BY <1>2, <3>1 DEF Moving, LocksReservation
    <3> QED
      BY <1>4, <2>1, <2>4, <3>1 DEF Moving
  <2>8. Paying(v) => Paying(v)'
    BY <1>4, <1>5, <2>1, <2>2, SentinelAssumption
       DEF Paying, PaymentRow, NoSession, NoObject, Work
  <2>9. Settling(v) /\ session[v].op \in {"process_payment", "refund_payment"} => Settling(v)'
    <3>1. ASSUME Settling(v), session[v].op \in {"process_payment", "refund_payment"},
                 session[v].phase = "ready"
          PROVE  payment'[session[v].pay.id] # Deleted
      <4>1. session[v].pay.id \in Payments /\ session[v].pay.id \notin gone
        BY <1>7, <3>1 DEF Settling, LocksPayment
      <4> QED
        BY <1>4, <3>1, <4>1 DEF Settling
    <3> QED
      BY <2>1, <2>2, <2>3, <2>4, <3>1 DEF Settling, Stored
  <2>10. Removing(v) => Removing(v)'
    <3>1. session[v].own \subseteq Payments
      BY DEF IInv, TypeOK, StoreTypeOK, Session
    <3> QED
      BY <2>1, <2>2, <2>3, <2>4, <3>1 DEF Removing, Stored
  <2> QED
    BY <2>1, <2>5, <2>6, <2>7, <2>8, <2>9, <2>10 DEF UnitOfWork
<1>10. NoOrphanPayments'
  <2>1. ASSUME NEW p \in Payments, Stored(payment', p)
        PROVE  Stored(reservation', payment'[p].reservation)
    <3>1. payment'[p] = payment[p] /\ Stored(payment, p) /\ payment[p].reservation # r
      BY <1>3, <1>4, <2>1 DEF Stored
    <3>2. payment[p].reservation \in Reservations /\ Stored(reservation, payment[p].reservation)
      BY <3>1, StoredPayment
    <3> QED
      BY <1>4, <3>1, <3>2 DEF Stored
  <2> QED
    BY <2>1 DEF NoOrphanPayments, Stored
<1>11. PaidAtMatchesStatus'
  BY <1>4 DEF IInv, PaidAtMatchesStatus, Stored
<1>12. StampsFollowLifecycle'
  BY <1>4 DEF IInv, StampsFollowLifecycle, Stored
<1> QED
  BY <1>6, <1>8, <1>9, <1>10, <1>11, <1>12 DEF IInv, UnitsOfWork

\* Steps that touch neither reservations nor payments nor sessions.
LEMMA ElsewhereStep ==
    ASSUME IInv, TypeOK', UNCHANGED <<reservation, payment, session>>, today' >= today
    PROVE  IInv'
<1>1. ASSUME NEW v \in Workers PROVE UnitOfWork(v)'
  <2>1. UnitOfWork(v) /\ session[v] \in Session
    BY DEF IInv, UnitsOfWork, TypeOK, StoreTypeOK
  <2>2. Moving(v) => Moving(v)'
    <3>1. ASSUME Moving(v), session[v].res.old.check_in <= today
          PROVE  session[v].res.old.check_in <= today'
      BY <3>1 DEF Moving, ReservationRow, Days, IInv, TypeOK, StoreTypeOK
    <3> QED
      BY <3>1 DEF Moving, LocksReservation
  <2> QED
    BY <2>1, <2>2 DEF UnitOfWork, Inserting, Rewriting, Paying, Settling, Removing,
       LocksPayment, LocksReservation, Stored
<1> QED
  BY <1>1 DEF IInv, UnitsOfWork, NoOrphanPayments, PaidAtMatchesStatus,
     StampsFollowLifecycle, Stored

\* update_room.
LEMMA UpdateRoomStep ==
    ASSUME IInv, NEW w \in Workers, UpdateRoom(w)
    PROVE  IInv'
<1>1. TypeOK'
  BY DEF IInv, TypeOK, StoreTypeOK, UpdateRoom
<1>2. today' >= today
  BY DEF IInv, TypeOK, StoreTypeOK, UpdateRoom, Days
<1> QED
  BY <1>1, <1>2, ElsewhereStep DEF UpdateRoom

\* update_room_type.
LEMMA UpdateRoomTypeStep ==
    ASSUME IInv, NEW w \in Workers, UpdateRoomType(w)
    PROVE  IInv'
<1>1. TypeOK'
  BY DEF IInv, TypeOK, StoreTypeOK, UpdateRoomType
<1>2. today' >= today
  BY DEF IInv, TypeOK, StoreTypeOK, UpdateRoomType, Days
<1> QED
  BY <1>1, <1>2, ElsewhereStep DEF UpdateRoomType

\* The passing of a day.
LEMMA TickStep ==
    ASSUME IInv, Tick
    PROVE  IInv'
<1>1. TypeOK'
  BY StoreAssumption DEF IInv, TypeOK, StoreTypeOK, Tick, tables, Days
<1>2. today' >= today
  BY DEF IInv, TypeOK, StoreTypeOK, Tick, Days
<1> QED
  BY <1>1, <1>2, ElsewhereStep DEF Tick, tables

\* An exception or a crash drops the unit of work.
LEMMA RollbackStep ==
    ASSUME IInv, NEW w \in Workers, Rollback(w)
    PROVE  IInv'
<1>1. /\ session'[w] = NoSession
      /\ \A v \in Workers \ {w} : session'[v] = session[v]
      /\ UNCHANGED <<room, roomType, reservation, payment, today>>
      /\ session' \in [Workers -> Session]
  <2>1. NoSession \in Session
    BY DEF Session, NoSession, Work, Object
  <2> QED
    BY <2>1 DEF Rollback, tables, IInv, TypeOK, StoreTypeOK
<1>2. TypeOK'
  BY <1>1 DEF IInv, TypeOK, StoreTypeOK
<1>3. UnitOfWork(w)'
  BY <1>1 DEF UnitOfWork, NoSession, Work
<1>4. ASSUME NEW v \in Workers \ {w} PROVE UnitOfWork(v)'
  <2>1. UnitOfWork(v)
    BY DEF IInv, UnitsOfWork
  <2>2. Inserting(v) => Inserting(v)'
    BY <1>1, SentinelAssumption DEF Inserting, NoSession, NoObject, Work
  <2>3. Rewriting(v) => Rewriting(v)'
    BY <1>1 DEF Rewriting
  <2>4. Moving(v) => Moving(v)'
    BY <1>1 DEF Moving, LocksReservation, NoSession, Work
  <2>5. Paying(v) => Paying(v)'
    BY <1>1, SentinelAssumption DEF Paying, NoSession, NoObject, Work
  <2>6. Settling(v) => Settling(v)'
    BY <1>1 DEF Settling, LocksPayment, NoSession, Work, Stored
  <2>7. Removing(v) => Removing(v)'
    BY <1>1 DEF Removing, LocksReservation, LocksPayment, NoSession, Work, Stored
  <2> QED
    BY <1>1, <2>1, <2>2, <2>3, <2>4, <2>5, <2>6, <2>7 DEF UnitOfWork
<1> QED
  BY <1>1, <1>2, <1>3, <1>4 DEF IInv, UnitsOfWork, NoOrphanPayments, PaidAtMatchesStatus,
     StampsFollowLifecycle, Stored

\* A request that commits is one of the eight that keep a unit of work.
LEMMA Committing ==
    ASSUME IInv, NEW w \in Workers, Commit(w)
    PROVE  /\ session[w] \in Session /\ session[w].phase = "ready"
           /\ session[w].op = "create_reservation" => Inserting(w)
           /\ session[w].op \in {"update_reservation", "cancel_reservation"} => Rewriting(w)
           /\ session[w].op \in {"check_in", "check_out"} => Moving(w)
           /\ session[w].op = "create_payment" => Paying(w)
           /\ session[w].op \in {"process_payment", "refund_payment"} => Settling(w)
           /\ session[w].op \in {"create_reservation", "update_reservation",
                 "cancel_reservation", "check_in", "check_out", "create_payment",
                 "process_payment", "refund_payment"}
<1>1. session[w] \in Session /\ UnitOfWork(w) /\ session[w].phase = "ready"
  BY DEF IInv, TypeOK, StoreTypeOK, UnitsOfWork, Commit
<1>2. session[w].op \in Endpoints
  BY <1>1, StoreAssumption DEF Session, UnitOfWork, NoSession, Work
<1>3. session[w].op # "delete_reservation"
  BY <1>1 DEF UnitOfWork, Removing
<1> QED
  BY <1>1, <1>2, <1>3 DEF UnitOfWork, Endpoints

\* What a commit does to the reservations: nothing, an insert, or an update of a
\* row that is still there and that nobody else has locked.
LEMMA CommitReservations ==
    ASSUME IInv, NEW w \in Workers, Commit(w)
    PROVE  \/ reservation' = reservation
           \/ /\ session[w].op = "create_reservation"
              /\ session[w].res.id \in Reservations
              /\ reservation' = [reservation EXCEPT ![session[w].res.id] = session[w].res.new]
           \/ /\ session[w].op \in {"update_reservation", "cancel_reservation", "check_in",
                                    "check_out", "process_payment", "refund_payment"}
              /\ session[w].res.id \in Reservations
              /\ session[w].res.old \in ReservationRow /\ session[w].res.new \in ReservationRow
              /\ reservation[session[w].res.id] \in ReservationRow
              /\ ReservationFree(w, session[w].res.id)
              /\ reservation' = [reservation EXCEPT ![session[w].res.id] =
                                    Written(reservation[session[w].res.id], session[w].res)]
<1> DEFINE s == session[w]
<1>1. reservation' = Saved(reservation, s.res)
  BY DEF Commit
<1>2. CASE ~Dirty(s.res)
  BY <1>1, <1>2 DEF Saved
<1>3. CASE Dirty(s.res) /\ s.op = "create_reservation"
  <2>1. Inserting(w)
    BY <1>3, Committing
  <2> QED
    BY <1>1, <1>3, <2>1 DEF Inserting, Saved, Written
<1>4. CASE Dirty(s.res) /\ s.op = "create_payment"
  BY <1>4, Committing DEF Paying, Dirty, NoObject
<1>5. CASE Dirty(s.res) /\ s.op \in {"update_reservation", "cancel_reservation", "check_in",
                                    "check_out", "process_payment", "refund_payment"}
  <2>1. /\ s.res.id \in Reservations /\ s.res.old \in ReservationRow
        /\ reservation[s.res.id] # Unused
    BY <1>5, Committing, SentinelAssumption DEF Rewriting, Moving, Settling
  <2>2. s.res \in Object(Reservations, ReservationRow)
    BY Committing DEF Session
  <2>3. s.res.new \in ReservationRow
    BY <2>1, <2>2, SentinelAssumption DEF Object, NoObject
  <2>4. s.res.id \in Touches(w)
    BY <1>5, <2>1, Committing, SentinelAssumption DEF Touches
  <2>5. reservation[s.res.id] # Deleted /\ ReservationFree(w, s.res.id)
    BY <2>4 DEF Commit, Doomed, Granted, WantedReservations
  <2>6. reservation[s.res.id] \in ReservationRow
    BY <2>1, <2>5 DEF IInv, TypeOK, StoreTypeOK
  <2> QED
    BY <1>1, <1>5, <2>1, <2>3, <2>5, <2>6 DEF Saved
<1> QED
  BY <1>2, <1>3, <1>4, <1>5, Committing

\* What a commit does to the payments: nothing, an insert for a reservation that
\* exists, or an update of a payment it has locked.
LEMMA CommitPayments ==
    ASSUME IInv, NEW w \in Workers, Commit(w)
    PROVE  \/ payment' = payment
           \/ /\ session[w].op = "create_payment"
              /\ session[w].pay.id \in Payments /\ session[w].pay.new \in PaymentRow
              /\ Stored(reservation, session[w].pay.new.reservation)
              /\ payment' = [payment EXCEPT ![session[w].pay.id] = session[w].pay.new]
           \/ /\ session[w].op \in {"process_payment", "refund_payment"}
              /\ session[w].pay.id \in Payments
              /\ session[w].pay.old \in PaymentRow /\ session[w].pay.new \in PaymentRow
              /\ payment[session[w].pay.id] \in PaymentRow
              /\ payment' = [payment EXCEPT ![session[w].pay.id] =
                                Written(payment[session[w].pay.id], session[w].pay)]
<1> DEFINE s == session[w]
<1>1. payment' = Saved(payment, s.pay)
  BY DEF Commit
<1>2. CASE ~Dirty(s.pay)
  BY <1>1, <1>2 DEF Saved
<1>3. CASE Dirty(s.pay) /\ s.op = "create_payment"
  <2>1. Paying(w)
    BY <1>3, Committing
  <2>2. s.pay.new.reservation \in Touches(w)
    BY <1>3 DEF Touches
  <2>3. reservation[s.pay.new.reservation] # Deleted
    BY <2>2 DEF Commit, Doomed
  <2> QED
    BY <1>1, <1>3, <2>1, <2>3 DEF Paying, Saved, Written, Stored
<1>4. CASE Dirty(s.pay) /\ s.op \in {"process_payment", "refund_payment"}
  <2>1. /\ s.pay.id \in Payments /\ s.pay.old \in PaymentRow /\ PaymentMove(s)
        /\ payment[s.pay.id] \notin {Unused, Deleted}
    BY <1>4, Committing DEF Settling
  <2>2. s.pay.new \in PaymentRow
    BY <2>1, NowIsStamp, PaymentRowMoves DEF PaymentMove
  <2>3. payment[s.pay.id] \in PaymentRow
    BY <2>1 DEF IInv, TypeOK, StoreTypeOK
  <2> QED
    BY <1>1, <1>4, <2>1, <2>2, <2>3 DEF Saved
<1>5. CASE Dirty(s.pay) /\ s.op \in {"create_reservation", "update_reservation",
                                    "cancel_reservation", "check_in", "check_out"}
  BY <1>5, Committing DEF Inserting, Rewriting, Moving, Dirty, NoObject
<1> QED
  BY <1>2, <1>3, <1>4, <1>5, Committing

\* A commit writes rows of the declared shape.
LEMMA CommitTypes ==
    ASSUME IInv, NEW w \in Workers, Commit(w)
    PROVE  TypeOK'
<1> USE DEF IInv, TypeOK, StoreTypeOK
<1>1. reservation' \in [Reservations -> ReservationRow \cup {Unused, Deleted}]
  <2>1. session[w].op = "create_reservation" => session[w].res.new \in ReservationRow
    BY Committing DEF Inserting
  <2> QED
    BY <2>1, CommitReservations, WrittenReservation
<1>2. payment' \in [Payments -> PaymentRow \cup {Unused, Deleted}]
  BY CommitPayments, WrittenPayment
<1>3. room' \in [Rooms -> RoomRow]
  <2>1. CASE session[w].op \in {"check_in", "check_out"}
    <3>1. Moving(w)
      BY <2>1, Committing
    <3>2. /\ session[w].rm.id \in Rooms /\ session[w].rm.old \in RoomRow
          /\ session[w].rm.new \in RoomRow /\ room[session[w].rm.id] \in RoomRow
      BY <3>1 DEF Moving
    <3>3. Written(room[session[w].rm.id], session[w].rm) \in RoomRow
      BY <3>2, WrittenRoom
    <3> QED
      BY <3>2, <3>3 DEF Commit, Saved
  <2>2. CASE session[w].op \notin {"check_in", "check_out"}
    <3>1. session[w].rm = NoObject
      BY <2>2, Committing DEF Inserting, Rewriting, Paying, Settling
    <3> QED
      BY <3>1 DEF Commit, Saved, Dirty, NoObject
  <2> QED
    BY <2>1, <2>2
<1>4. session' \in [Workers -> Session]
  <2>1. NoSession \in Session
    BY DEF Session, NoSession, Work, Object
  <2> QED
    BY <2>1 DEF Commit
<1> QED
  BY <1>1, <1>2, <1>3, <1>4 DEF Commit

\* A commit neither removes a payment nor gives it to another reservation.
LEMMA CommitChangesNoParent ==
    ASSUME IInv, NEW w \in Workers, Commit(w), NEW p \in Payments
    PROVE  /\ payment[p] # Unused => payment'[p] # Unused
           /\ payment[p] \notin {Unused, Deleted} => payment'[p] # Deleted
           /\ payment[p] # Unused /\ Stored(payment', p) =>
                 Stored(payment, p) /\ payment'[p].reservation = payment[p].reservation
<1> DEFINE s == session[w]
<1>1. CASE payment'[p] = payment[p]
  BY <1>1 DEF Stored
<1>2. CASE s.op = "create_payment" /\ s.pay.id = p
  <2>1. payment[p] = Unused
    BY <1>2, UsedIsNotDrawn
  <2>2. payment'[p] = payment[p] \/ payment'[p] \in PaymentRow
    BY <1>2, CommitPayments DEF IInv, TypeOK, StoreTypeOK
  <2> QED
    BY <2>1, <2>2, SentinelAssumption
<1>3. CASE /\ s.op \in {"process_payment", "refund_payment"}
           /\ s.pay.old \in PaymentRow /\ s.pay.new \in PaymentRow
           /\ payment[p] \in PaymentRow
           /\ payment'[p] = Written(payment[p], s.pay)
  <2>1. PaymentMove(s)
    BY <1>3, Committing DEF Settling
  <2>2. s.pay.new.reservation = s.pay.old.reservation
    BY <1>3, <2>1 DEF PaymentMove, Processed, Refunded, PaymentRow
  <2>3. payment'[p] \in PaymentRow /\ payment'[p].reservation = payment[p].reservation
    BY <1>3, <2>2, WrittenPayment
  <2> QED
    BY <1>3, <2>3, SentinelAssumption DEF Stored
<1> QED
  BY <1>1, <1>2, <1>3, CommitPayments DEF IInv, TypeOK, StoreTypeOK

\* A commit leaves what the other sessions know true.
LEMMA CommitUnits ==
    ASSUME IInv, NEW w \in Workers, Commit(w)
    PROVE  UnitsOfWork'
<1>1. /\ session'[w] = NoSession
      /\ \A v \in Workers \ {w} : session'[v] = session[v]
      /\ UNCHANGED today
  BY DEF Commit, IInv, TypeOK, StoreTypeOK
<1>2. UnitOfWork(w)'
  BY <1>1 DEF UnitOfWork, NoSession, Work
<1>3. ASSUME NEW v \in Workers \ {w} PROVE UnitOfWork(v)'
  <2>1. UnitOfWork(v) /\ UnitOfWork(w)
    BY DEF IInv, UnitsOfWork
  <2>2. \A q \in Reservations : reservation[q] # Unused => reservation'[q] # Unused
    <3>1. session[w].op = "create_reservation" => session[w].res.new # Unused
      BY Committing, SentinelAssumption DEF Inserting
    <3> QED
      BY <3>1, CommitReservations, WrittenReservation, SentinelAssumption
         DEF IInv, TypeOK, StoreTypeOK
  <2>3. \A p \in Payments :
            /\ payment[p] # Unused => payment'[p] # Unused
            /\ payment[p] \notin {Unused, Deleted} => payment'[p] # Deleted
            /\ payment[p] # Unused /\ Stored(payment', p) =>
                  Stored(payment, p) /\ payment'[p].reservation = payment[p].reservation
    BY CommitChangesNoParent
  <2>4. Inserting(v) /\ session[v].op = "create_reservation" => Inserting(v)'
    <3>1. ASSUME Inserting(v) PROVE reservation'[session[v].res.id] = Unused
      <4>1. session[w].res.id # session[v].res.id
        BY <3>1 DEF Inserting
      <4> QED
        BY <3>1, <4>1, CommitReservations DEF Inserting, IInv, TypeOK, StoreTypeOK
    <3> QED
      BY <1>1, <3>1, SentinelAssumption DEF Inserting, NoSession, NoObject, Work
  <2>5. Rewriting(v) => Rewriting(v)'
    BY <1>1, <2>2 DEF Rewriting
  <2>6. Moving(v) /\ session[v].op \in {"check_in", "check_out"} => Moving(v)'
    <3>1. ASSUME Moving(v), session[v].op \in {"check_in", "check_out"}
          PROVE  reservation'[session[v].res.id] = session[v].res.old
      <4>1. LocksReservation(v, session[v].res.id)
        BY <3>1 DEF LocksReservation
      <4>2. ~ReservationFree(w, session[v].res.id)
        BY <4>1 DEF ReservationFree
      <4>3. /\ session[v].res.id \in Reservations
            /\ reservation[session[v].res.id] = session[v].res.old
            /\ session[v].res.old # Unused
        BY <3>1, SentinelAssumption DEF Moving
      <4>4. session[w].op = "create_reservation" => session[w].res.id # session[v].res.id
        BY <4>3, UsedIsNotDrawn
      <4> QED
        BY <4>2, <4>3, <4>4, CommitReservations DEF IInv, TypeOK, StoreTypeOK
    <3> QED
      BY <1>1, <3>1 DEF Moving, LocksReservation, NoSession, Work
  <2>7. Paying(v) /\ session[v].op = "create_payment" => Paying(v)'
    <3>1. ASSUME Paying(v) PROVE payment'[session[v].pay.id] = Unused
      <4>1. session[w].pay.id # session[v].pay.id
        BY <3>1 DEF Paying
      <4> QED
        BY <3>1, <4>1, CommitPayments DEF Paying, IInv, TypeOK, StoreTypeOK
    <3>2. ASSUME Paying(v) PROVE reservation'[session[v].pay.new.reservation] # Unused
      BY <2>2, <3>2 DEF Paying, PaymentRow
    <3> QED
      BY <1>1, <3>1, <3>2, SentinelAssumption DEF Paying, NoSession, NoObject, Work
  <2>8. Settling(v) => Settling(v)'
    BY <1>1, <2>2, <2>3 DEF Settling, LocksPayment, NoSession, Work
  <2>9. Removing(v) => Removing(v)'
    <3>1. session[v].own \subseteq Payments
      BY DEF IInv, TypeOK, StoreTypeOK, Session
    <3> QED
      BY <1>1, <2>2, <2>3, <3>1 DEF Removing, LocksReservation, LocksPayment, NoSession, Work
  <2> QED
    BY <1>1, <2>1, <2>4, <2>5, <2>6, <2>7, <2>8, <2>9 DEF UnitOfWork
<1> QED
  BY <1>2, <1>3 DEF UnitsOfWork

\* A commit never leaves a payment without its reservation.
LEMMA CommitNoOrphans ==
    ASSUME IInv, NEW w \in Workers, Commit(w)
    PROVE  NoOrphanPayments'
<1>1. ASSUME NEW r \in Reservations, Stored(reservation, r) PROVE Stored(reservation', r)
  <2>1. reservation[r] \in ReservationRow
    BY <1>1, StoredReservation
  <2>2. session[w].op = "create_reservation" => session[w].res.new \in ReservationRow
    BY Committing DEF Inserting
  <2>3. reservation'[r] = reservation[r] \/ reservation'[r] \in ReservationRow
    BY <2>2, CommitReservations, WrittenReservation DEF IInv, TypeOK, StoreTypeOK
  <2> QED
    BY <2>1, <2>3, SentinelAssumption DEF Stored
<1>2. ASSUME NEW p \in Payments, Stored(payment', p)
      PROVE  Stored(reservation, payment'[p].reservation)
  <2>1. CASE payment'[p] = payment[p]
    BY <1>2, <2>1 DEF Stored, IInv, NoOrphanPayments
  <2>2. CASE session[w].op = "create_payment" /\ payment'[p] = session[w].pay.new
    <3>1. CASE payment' = payment
      BY <1>2, <3>1 DEF Stored, IInv, NoOrphanPayments
    <3>2. CASE Stored(reservation, session[w].pay.new.reservation)
      BY <2>2, <3>2
    <3> QED
      BY <2>2, <3>1, <3>2, CommitPayments
  <2>3. CASE /\ session[w].op \in {"process_payment", "refund_payment"}
             /\ session[w].pay.old \in PaymentRow /\ session[w].pay.new \in PaymentRow
             /\ payment[p] \in PaymentRow
             /\ payment'[p] = Written(payment[p], session[w].pay)
    <3>1. PaymentMove(session[w])
      BY <2>3, Committing DEF Settling
    <3>2. session[w].pay.new.reservation = session[w].pay.old.reservation
      BY <2>3, <3>1 DEF PaymentMove, Processed, Refunded, PaymentRow
    <3>3. payment'[p].reservation = payment[p].reservation
      BY <2>3, <3>2, WrittenPayment
    <3>4. Stored(payment, p)
      BY <2>3, SentinelAssumption DEF Stored
    <3> QED
      BY <3>3, <3>4 DEF IInv, NoOrphanPayments
  <2> QED
    BY <2>1, <2>2, <2>3, CommitPayments DEF IInv, TypeOK, StoreTypeOK
<1>3. ASSUME NEW p \in Payments, Stored(payment', p)
      PROVE  payment'[p].reservation \in Reservations
  BY <1>3, CommitTypes DEF TypeOK, StoreTypeOK, Stored, PaymentRow
<1> QED
  BY <1>1, <1>2, <1>3 DEF NoOrphanPayments, Stored

\* A commit keeps paid_at and the payment's status together.
LEMMA CommitPaidAt ==
    ASSUME IInv, NEW w \in Workers, Commit(w)
    PROVE  PaidAtMatchesStatus'
<1>1. ASSUME NEW p \in Payments, Stored(payment', p)
      PROVE  payment'[p].status = "paid" <=> payment'[p].paid_at # None
  <2>1. CASE payment'[p] = payment[p]
    BY <1>1, <2>1 DEF Stored, IInv, PaidAtMatchesStatus
  <2>2. CASE session[w].op = "create_payment" /\ payment'[p] = session[w].pay.new
    BY <2>2, Committing DEF Paying
  <2>3. CASE /\ session[w].op \in {"process_payment", "refund_payment"}
             /\ session[w].pay.old \in PaymentRow /\ session[w].pay.new \in PaymentRow
             /\ payment[p] \in PaymentRow
             /\ payment'[p] = Written(payment[p], session[w].pay)
    <3>1. PaymentMove(session[w])
      BY <2>3, Committing DEF Settling
    <3>2. \/ /\ session[w].pay.new.status = "paid" /\ session[w].pay.new.paid_at # None
             /\ session[w].pay.old.status = "pending" /\ session[w].pay.old.paid_at = None
          \/ /\ session[w].pay.new.status = "refunded" /\ session[w].pay.new.paid_at = None
             /\ session[w].pay.old.status = "paid" /\ session[w].pay.old.paid_at # None
      BY <2>3, <3>1, SentinelAssumption DEF PaymentMove, Processed, Refunded, PaymentRow
    <3>3. /\ session[w].pay.new.status # session[w].pay.old.status
          /\ session[w].pay.new.paid_at # session[w].pay.old.paid_at
      BY <3>2
    <3>4. Written(payment[p], session[w].pay).status = session[w].pay.new.status
      BY <2>3, <3>3, WrittenPayment
    <3>5. Written(payment[p], session[w].pay).paid_at = session[w].pay.new.paid_at
      BY <2>3, <3>3, WrittenPayment, Zenon
    <3> QED
      BY <2>3, <3>2, <3>4, <3>5
  <2> QED
    BY <2>1, <2>2, <2>3, CommitPayments DEF IInv, TypeOK, StoreTypeOK
<1> QED
  BY <1>1 DEF PaidAtMatchesStatus, Stored

\* The effect of a commit on the status and the timestamps of one reservation.
LEMMA CommitMoves ==
    ASSUME IInv, NEW w \in Workers, Commit(w), NEW r \in Reservations,
           reservation'[r] # reservation[r]
    PROVE  LET op == session[w].op
               old == reservation[r]
               new == reservation'[r]
           IN  \/ /\ op = "create_reservation" /\ new.status = "pending"
                  /\ ~new.checked_in_at /\ ~new.checked_out_at
               \/ /\ Stored(reservation, r) /\ old \in ReservationRow
                  /\ \/ /\ op = "check_in" /\ old.status = "confirmed"
                        /\ old.check_in <= today /\ new = Arrived(old)
                     \/ /\ op = "check_out" /\ old.status = "checked_in"
                        /\ new = Departed(old)
                     \/ /\ new.status \in {old.status, "cancelled", "pending", "confirmed"}
                        /\ new.checked_in_at = old.checked_in_at
                        /\ new.checked_out_at = old.checked_out_at
<1> DEFINE s == session[w]
<1>1. CASE s.op = "create_reservation"
  BY <1>1, CommitReservations, Committing DEF Inserting, IInv, TypeOK, StoreTypeOK
<1>2. CASE /\ s.op \in {"update_reservation", "cancel_reservation", "check_in",
                        "check_out", "process_payment", "refund_payment"}
           /\ s.res.id = r
           /\ s.res.old \in ReservationRow /\ s.res.new \in ReservationRow
           /\ reservation[r] \in ReservationRow
           /\ reservation'[r] = Written(reservation[r], s.res)
  <2>1. Stored(reservation, r)
    BY <1>2, SentinelAssumption DEF Stored
  <2>2. CASE s.op \in {"update_reservation", "cancel_reservation"}
    <3>1. Rewriting(w)
      BY <2>2, Committing
    <3> QED
      BY <1>2, <2>1, <2>2, <3>1, WrittenReservation DEF Rewriting
  <2>3. CASE s.op \in {"check_in", "check_out"}
    <3>1. Moving(w)
      BY <2>3, Committing
    <3>2. s.res.old = reservation[r]
      BY <1>2, <3>1 DEF Moving
    <3>3. Written(reservation[r], s.res) = s.res.new
      BY <1>2, <3>2, SentinelAssumption DEF Written, ReservationRow
    <3> QED
      BY <1>2, <2>1, <2>3, <3>1, <3>2, <3>3 DEF Moving
  <2>4. CASE s.op \in {"process_payment", "refund_payment"}
    <3>1. ReservationMove(s)
      BY <2>4, Committing DEF Settling
    <3>2. /\ s.res.new.status \in {s.res.old.status, "pending", "confirmed"}
          /\ s.res.new.checked_in_at = s.res.old.checked_in_at
          /\ s.res.new.checked_out_at = s.res.old.checked_out_at
      BY <1>2, <3>1 DEF ReservationMove, ReservationRow
    <3> QED
      BY <1>2, <2>1, <3>2, WrittenReservation
  <2> QED
    BY <1>2, <2>2, <2>3, <2>4
<1> QED
  BY <1>1, <1>2, CommitReservations DEF IInv, TypeOK, StoreTypeOK

\* A commit keeps the timestamps and the status of a stay together.
LEMMA CommitStamps ==
    ASSUME IInv, NEW w \in Workers, Commit(w)
    PROVE  StampsFollowLifecycle'
<1>1. ASSUME NEW r \in Reservations, Stored(reservation', r)
      PROVE  LET row == reservation'[r]
             IN  /\ row.status = "checked_in" => row.checked_in_at
                 /\ row.status = "checked_out" => row.checked_out_at
                 /\ row.checked_out_at => row.checked_in_at
  <2>1. CASE reservation'[r] = reservation[r]
    BY <1>1, <2>1 DEF Stored, IInv, StampsFollowLifecycle
  <2>2. CASE reservation'[r] # reservation[r]
    <3>1. Stored(reservation, r) =>
            LET row == reservation[r]
            IN  /\ row.status = "checked_in" => row.checked_in_at
                /\ row.status = "checked_out" => row.checked_out_at
                /\ row.checked_out_at => row.checked_in_at
      BY DEF IInv, StampsFollowLifecycle
    <3> DEFINE old == reservation[r]
               new == reservation'[r]
    <3>2. CASE /\ new.status = "pending" /\ ~new.checked_in_at /\ ~new.checked_out_at
      BY <3>2
    <3>3. CASE /\ Stored(reservation, r) /\ old \in ReservationRow
               /\ old.status = "confirmed" /\ new = Arrived(old)
      BY <3>1, <3>3 DEF Arrived, ReservationRow
    <3>4. CASE /\ Stored(reservation, r) /\ old \in ReservationRow
               /\ old.status = "checked_in" /\ new = Departed(old)
      BY <3>1, <3>4 DEF Departed, ReservationRow
    <3>5. CASE /\ Stored(reservation, r)
               /\ new.status \in {old.status, "cancelled", "pending", "confirmed"}
               /\ new.checked_in_at = old.checked_in_at
               /\ new.checked_out_at = old.checked_out_at
      BY <3>1, <3>5
    <3> QED
      BY <2>2, <3>2, <3>3, <3>4, <3>5, CommitMoves
  <2> QED
    BY <2>1, <2>2
<1> QED
  BY <1>1 DEF StampsFollowLifecycle, Stored

\* Every step preserves the invariant.
LEMMA NextIInv == IInv /\ [Next]_vars => IInv'
<1> SUFFICES ASSUME IInv, [Next]_vars PROVE IInv'
  OBVIOUS
<1>1. ASSUME NEW w \in Workers, Request(w) PROVE IInv'
  BY <1>1, CreateReservationStep, UpdateReservationStep, CancelReservationStep,
     DeleteReservationStep, CheckInStep, CheckOutStep, CreatePaymentStep,
     ProcessPaymentStep, RefundPaymentStep, UpdateRoomStep, UpdateRoomTypeStep DEF Request
<1>2. ASSUME NEW w \in Workers, Commit(w) PROVE IInv'
  BY <1>2, CommitTypes, CommitUnits, CommitNoOrphans, CommitPaidAt, CommitStamps DEF IInv
<1>3. ASSUME NEW w \in Workers, Advance(w) PROVE IInv'
  BY <1>2, <1>3, FlushPaymentStep, EmptyReservationStep, LockReservationStep, CommitDeleteStep
     DEF Advance
<1>4. ASSUME NEW w \in Workers, Rollback(w) PROVE IInv'
  BY <1>4, RollbackStep
<1>5. CASE Tick
  BY <1>5, TickStep
<1>6. CASE UNCHANGED vars
  <2>1. TypeOK' /\ today' >= today
    BY <1>6 DEF vars, tables, IInv, TypeOK, StoreTypeOK, Days
  <2> QED
    BY <1>6, <2>1, ElsewhereStep DEF vars, tables
<1> QED
  BY <1>1, <1>3, <1>4, <1>5, <1>6 DEF Next

\* The invariant holds in every reachable state of every workload.
THEOREM Invariance == Spec => []IInv
BY InitIInv, NextIInv, PTL DEF Spec

\* Every table and every session always holds rows of the declared shape.
THEOREM TypeCorrect == Spec => []TypeOK
<1>1. IInv => TypeOK
  BY DEF IInv
<1> QED
  BY <1>1, Invariance, PTL

\* Who holds a reservation's row lock is its only holder, and has its current row if it
\* is going to write it.
LEMMA LockHolders ==
    ASSUME IInv, NEW w \in Workers, NEW r \in Reservations, LocksReservation(w, r)
    PROVE  /\ session[w].res.id = r
           /\ \/ /\ session[w].op \in {"check_in", "check_out"} /\ Moving(w)
                 /\ reservation[r] = session[w].res.old
              \/ /\ session[w].op = "delete_reservation" /\ Removing(w)
                 /\ session[w].phase = "locked"
           /\ \A v \in Workers \ {w} : ~LocksReservation(v, r)
<1>1. session[w].res.id = r
  BY DEF LocksReservation
<1>2. CASE session[w].op \in {"check_in", "check_out"}
  BY <1>1, <1>2 DEF IInv, UnitsOfWork, UnitOfWork, Moving
<1>3. CASE session[w].phase = "locked"
  BY <1>1, <1>3, PhaseTellsOp DEF Removing
<1> QED
  BY <1>1, <1>2, <1>3 DEF LocksReservation

\* _locked_reservation: FOR UPDATE excludes a second holder, and the row check_in or
\* check_out decided on does not change before they commit.
THEOREM RowLocks == Spec => [](RowLockExclusive /\ LockedRowUnchanged)
<1>1. IInv => RowLockExclusive /\ LockedRowUnchanged
  BY LockHolders DEF RowLockExclusive, LockedRowUnchanged
<1> QED
  BY <1>1, Invariance, PTL

\* Every request in flight is what its endpoint made of it, and what it read under a
\* lock or drew from a sequence still holds.
THEOREM WorkIsSound == Spec => []UnitsOfWork
<1>1. IInv => UnitsOfWork
  BY DEF IInv
<1> QED
  BY <1>1, Invariance, PTL

\* process_payment, refund_payment: paid_at is set exactly on paid payments, however
\* repeated and concurrent requests meet.
THEOREM PaidAtIsTrue == Spec => []PaidAtMatchesStatus
<1>1. IInv => PaidAtMatchesStatus
  BY DEF IInv
<1> QED
  BY <1>1, Invariance, PTL

\* create_payment, delete_reservation: every payment has its reservation.
THEOREM LedgerIntegrity == Spec => []NoOrphanPayments
<1>1. IInv => NoOrphanPayments
  BY DEF IInv
<1> QED
  BY <1>1, Invariance, PTL

\* check_in, check_out: no racing write removes or misplaces the stay's timestamps.
THEOREM StampsSurvive == Spec => []StampsFollowLifecycle
<1>1. IInv => StampsFollowLifecycle
  BY DEF IInv
<1> QED
  BY <1>1, Invariance, PTL

\* Until its commit a request leaves the reservations alone.
LEMMA OnlyCommitsWrite ==
    ASSUME NEW w \in Workers
    PROVE  /\ Request(w) => reservation' = reservation
           /\ Advance(w) => Commit(w) \/ CommitDelete(w) \/ reservation' = reservation
           /\ Rollback(w) => reservation' = reservation
<1>1. \A work : SetSession(w, work) => reservation' = reservation
  BY DEF SetSession, tables
<1>2. CreateReservation(w) => reservation' = reservation
  BY <1>1 DEF CreateReservation
<1>3. UpdateReservation(w) => reservation' = reservation
  BY <1>1 DEF UpdateReservation
<1>4. CancelReservation(w) => reservation' = reservation
  BY <1>1 DEF CancelReservation
<1>5. CheckIn(w) => reservation' = reservation
  BY <1>1 DEF CheckIn
<1>6. CheckOut(w) => reservation' = reservation
  BY <1>1 DEF CheckOut
<1>7. CreatePayment(w) => reservation' = reservation
  BY <1>1 DEF CreatePayment
<1>8. ProcessPayment(w) \/ RefundPayment(w) => reservation' = reservation
  BY <1>1 DEF ProcessPayment, RefundPayment
<1>9. UpdateRoom(w) \/ UpdateRoomType(w) => reservation' = reservation
  BY DEF UpdateRoom, UpdateRoomType
<1>10. DeleteReservation(w) => reservation' = reservation
  BY <1>1 DEF DeleteReservation
<1>11. FlushPayment(w) \/ EmptyReservation(w) \/ LockReservation(w) => reservation' = reservation
  BY <1>1 DEF FlushPayment, EmptyReservation, LockReservation
<1>12. Rollback(w) => reservation' = reservation
  BY DEF Rollback, tables
<1> QED
  BY <1>2, <1>3, <1>4, <1>5, <1>6, <1>7, <1>8, <1>9, <1>10, <1>11, <1>12 DEF Request, Advance

\* No step checks in what is not confirmed and due, or checks out what is not in.
LEMMA ArrivalsAndDepartures == IInv /\ [Next]_vars => Arrivals /\ Departures
<1> SUFFICES ASSUME IInv, [Next]_vars, NEW r \in Reservations, Stored(reservation', r)
             PROVE  /\ reservation'[r].status = "checked_in" =>
                          /\ Stored(reservation, r)
                          /\ \/ reservation[r].status = "checked_in"
                             \/ /\ reservation[r].status = "confirmed"
                                /\ reservation[r].check_in <= today
                    /\ reservation'[r].status = "checked_out" =>
                          /\ Stored(reservation, r)
                          /\ reservation[r].status \in {"checked_in", "checked_out"}
  BY DEF Arrivals, Departures
<1>1. CASE reservation'[r] = reservation[r]
  BY <1>1 DEF Stored
<1>2. CASE reservation'[r] # reservation[r]
  <2>1. ASSUME NEW w \in Workers, CommitDelete(w) PROVE FALSE
    BY <1>2, <2>1 DEF CommitDelete, Stored, IInv, TypeOK, StoreTypeOK
  <2>2. PICK w \in Workers : Commit(w)
    BY <1>2, <2>1, OnlyCommitsWrite DEF Next, vars, tables, Tick
  <2> DEFINE old == reservation[r]
             new == reservation'[r]
  <2>3. \/ new.status = "pending"
        \/ /\ Stored(reservation, r) /\ old \in ReservationRow
           /\ \/ /\ old.status = "confirmed" /\ old.check_in <= today /\ new = Arrived(old)
              \/ old.status = "checked_in" /\ new = Departed(old)
              \/ new.status \in {old.status, "cancelled", "pending", "confirmed"}
    BY <1>2, <2>2, CommitMoves
  <2>4. old \in ReservationRow => /\ Arrived(old).status = "checked_in"
                                  /\ Departed(old).status = "checked_out"
    BY DEF Arrived, Departed, ReservationRow
  <2> QED
    BY <2>3, <2>4
<1> QED
  BY <1>1, <1>2

\* check_in, check_out: the only ways into checked_in and checked_out are from
\* confirmed (on or after the check-in date) and from checked_in.
THEOREM TransitionsUnderLock == Spec => LockedTransitions
BY ArrivalsAndDepartures, Invariance, PTL DEF Spec, LockedTransitions

--------------------------------------------------------------------------------
(****************************************************************************)
(* Who waits for whom.                                                      *)
(****************************************************************************)

\* Check-in and check-out have what they need: they wait for nobody.
LEMMA MovingNeverWaits ==
    ASSUME IInv, NEW w \in Workers, session[w].op \in {"check_in", "check_out"},
           NEW v \in Workers
    PROVE  ~WaitsFor(w, v)
<1>1. Moving(w)
  BY DEF IInv, UnitsOfWork, UnitOfWork
<1>2. WantedPayments(w) = {} /\ WantedReservations(w) \subseteq {session[w].res.id}
  BY <1>1 DEF Moving, WantedPayments, WantedReservations, Touches
<1> QED
  BY <1>1, <1>2 DEF WaitsFor, Moving

\* Who has a payment locked: a handler that wrote it, or a delete that deleted it.
LEMMA PaymentHolders ==
    ASSUME IInv, NEW w \in Workers, NEW p, LocksPayment(w, p)
    PROVE  \/ /\ session[w].op \in {"process_payment", "refund_payment"}
              /\ session[w].phase = "ready" /\ session[w].pay.id = p /\ Settling(w)
           \/ /\ session[w].op = "delete_reservation" /\ Removing(w)
              /\ session[w].phase \in {"emptied", "locked"} /\ p \in session[w].own
BY PhaseTellsOp DEF LocksPayment, IInv, UnitsOfWork, UnitOfWork

\* A payment that was flushed waits only for a delete that has come to its cascade,
\* and that delete waits for the payment.
LEMMA FlushedAgainstCascade ==
    ASSUME IInv, NEW w \in Workers, NEW d \in Workers, WaitsFor(w, d),
           session[w].op \in {"process_payment", "refund_payment"},
           session[w].phase = "ready",
           session[d].op \notin {"check_in", "check_out"}
    PROVE  session[d].op = "delete_reservation" /\ WaitsFor(d, w)
<1> DEFINE r == session[w].res.id
           p == session[w].pay.id
<1>1. Settling(w)
  BY DEF IInv, UnitsOfWork, UnitOfWork
<1>2. /\ r \in Reservations /\ p \in Payments
      /\ Stored(payment, p) /\ payment[p].reservation = r
  BY <1>1 DEF Settling, Stored
<1>3. WantedPayments(w) = {} /\ WantedReservations(w) \subseteq {r}
  BY DEF WantedPayments, WantedReservations, Touches
<1>4. LocksReservation(d, r) /\ d # w
  BY <1>3 DEF WaitsFor
<1>5. session[d].op = "delete_reservation" /\ session[d].phase = "locked" /\ session[d].res.id = r
  BY <1>2, <1>4, LockHolders
<1>6. p \in WantedPayments(d)
  BY <1>2, <1>5 DEF WantedPayments, PaymentsOf
<1>7. LocksPayment(w, p)
  BY DEF LocksPayment
<1> QED
  BY <1>4, <1>5, <1>6, <1>7 DEF WaitsFor

\* A delete at its cascade waits for a flushed payment or for a delete that has this
\* payment and waits for the reservation.
LEMMA CascadeWaits ==
    ASSUME IInv, NEW d \in Workers, NEW v \in Workers, WaitsFor(d, v),
           session[d].op = "delete_reservation", session[d].phase = "locked"
    PROVE  \/ /\ session[v].op \in {"process_payment", "refund_payment"}
              /\ session[v].phase = "ready"
           \/ WaitsFor(v, d)
<1> DEFINE r == session[d].res.id
<1>1. /\ Removing(d) /\ r \in Reservations /\ LocksReservation(d, r)
      /\ \A u \in Workers \ {d} : ~LocksReservation(u, r)
  BY PhaseTellsOp DEF Removing, LocksReservation
<1>2. WantedReservations(d) = {} /\ WantedPayments(d) = PaymentsOf(r)
  BY DEF WantedReservations, WantedPayments, Touches
<1>3. PICK p \in PaymentsOf(r) : LocksPayment(v, p) /\ v # d
  BY <1>2 DEF WaitsFor
<1>4. CASE /\ session[v].op = "delete_reservation" /\ Removing(v)
           /\ session[v].phase \in {"emptied", "locked"} /\ p \in session[v].own
  <2>1. session[v].res.id = r
    BY <1>3, <1>4 DEF Removing, PaymentsOf
  <2>2. session[v].phase = "emptied"
    BY <1>1, <1>3, <1>4, <2>1 DEF LocksReservation
  <2> QED
    BY <1>1, <1>3, <2>1, <2>2 DEF WaitsFor, WantedReservations
<1> QED
  BY <1>3, <1>4, PaymentHolders

\* process_payment, refund_payment, delete_reservation: in every circle of waiting
\* requests a delete waits for a request that waits for it; requests without a delete
\* never wait in a circle, however many there are.
THEOREM DeadlockFree == Spec => []OnlyDeletesDeadlock
<1>1. ASSUME IInv, NEW circle \in SUBSET Workers, circle # {},
             \A w \in circle : \E v \in circle : WaitsFor(w, v)
      PROVE  \E d, v \in circle : /\ session[d].op = "delete_reservation"
                                  /\ WaitsFor(d, v) /\ WaitsFor(v, d)
  <2>1. \A w \in circle : session[w].op \notin {"check_in", "check_out"}
    BY <1>1, MovingNeverWaits
  <2>2. ASSUME NEW w \in circle, session[w].op \in {"process_payment", "refund_payment"},
               session[w].phase = "ready"
        PROVE  \E d, v \in circle : /\ session[d].op = "delete_reservation"
                                    /\ WaitsFor(d, v) /\ WaitsFor(v, d)
    BY <1>1, <2>1, <2>2, FlushedAgainstCascade
  <2>3. ASSUME NEW d \in circle, session[d].op = "delete_reservation",
               session[d].phase = "locked"
        PROVE  \E e, v \in circle : /\ session[e].op = "delete_reservation"
                                    /\ WaitsFor(e, v) /\ WaitsFor(v, e)
    <3>1. PICK v \in circle : WaitsFor(d, v)
      BY <1>1
    <3>2. CASE /\ session[v].op \in {"process_payment", "refund_payment"}
               /\ session[v].phase = "ready"
      BY <2>2, <3>2
    <3>3. CASE WaitsFor(v, d)
      BY <2>3, <3>1, <3>3
    <3> QED
      BY <1>1, <2>3, <3>1, <3>2, <3>3, CascadeWaits
  <2>4. ASSUME NEW d \in circle, session[d].op = "delete_reservation",
               session[d].phase = "emptied"
        PROVE  \E e \in circle : /\ session[e].op = "delete_reservation"
                                 /\ session[e].phase = "locked"
    <3>1. PICK e \in circle : WaitsFor(d, e)
      BY <1>1
    <3>2. WantedPayments(d) = {} /\ WantedReservations(d) = {session[d].res.id}
      BY <2>4 DEF WantedPayments, WantedReservations, Touches
    <3>3. LocksReservation(e, session[d].res.id) /\ session[d].res.id \in Reservations
      BY <1>1, <2>4, <3>1, <3>2, PhaseTellsOp DEF WaitsFor, Removing
    <3> QED
      BY <1>1, <2>1, <3>3, LockHolders
  <2>5. PICK w \in circle, x \in circle : WaitsFor(w, x)
    BY <1>1
  <2>6. \/ /\ session[x].op \in {"process_payment", "refund_payment"}
           /\ session[x].phase = "ready"
        \/ /\ session[x].op = "delete_reservation"
           /\ session[x].phase \in {"emptied", "locked"}
    <3>1. CASE \E r \in WantedReservations(w) : LocksReservation(x, r)
      BY <1>1, <2>1, <3>1, PhaseTellsOp DEF LocksReservation
    <3>2. CASE \E p \in WantedPayments(w) : LocksPayment(x, p)
      BY <1>1, <3>2, PaymentHolders
    <3> QED
      BY <2>5, <3>1, <3>2 DEF WaitsFor
  <2> QED
    BY <2>2, <2>3, <2>4, <2>6
<1>2. IInv => OnlyDeletesDeadlock
  BY <1>1 DEF OnlyDeletesDeadlock
<1> QED
  BY <1>2, Invariance, PTL

--------------------------------------------------------------------------------
(****************************************************************************)
(* The availability search.                                                 *)
(****************************************************************************)

\* A room is among the busy ones exactly when create_reservation finds an overlap.
LEMMA BusyIsOverlapping ==
    ASSUME NEW m, NEW in, NEW out, None \notin Reservations
    PROVE  (m \in {reservation[r].room : r \in ActiveDuring(in, out)}) <=>
           OverlappingReservations(m, in, out, None) # {}
BY DEF ActiveDuring, OverlappingReservations

\* NULL satisfies no condition, and create_reservation takes it for no limit.
LEMMA CapacityTests ==
    ASSUME TypeOK, NEW m \in Rooms, NEW count \in GuestCounts
    PROVE  CapacityAtLeast(m, count) <=>
           FitsCapacity(m, count) /\ roomType[room[m].type].capacity # None
<1> DEFINE capacity == roomType[room[m].type].capacity
<1>1. capacity \in (Nat \ {0}) \cup {None} /\ count \in Nat
  <2>1. Capacities \subseteq (Nat \ {0}) \cup {None} /\ GuestCounts \subseteq Nat
    BY StoreAssumption
  <2> QED
    BY <2>1 DEF TypeOK, StoreTypeOK, RoomRow, RoomTypeRow
<1>2. capacity # None => (capacity >= count <=> count <= capacity)
  BY <1>1
<1> QED
  BY <1>2 DEF CapacityAtLeast, FitsCapacity

\* search_available_rooms offers exactly the rooms create_reservation accepts, except
\* those under maintenance and those without a known capacity, whatever requests are
\* in flight and whatever administrators have done to rooms and room types.
THEOREM SearchIsBooking == Spec => []SearchMatchesBooking
<1>1. ASSUME TypeOK, NEW hotel \in Hotels, NEW in \in Days, NEW out \in Days,
             NEW count \in GuestCounts
      PROVE  SearchAvailableRooms(hotel, in, out, count) =
                {m \in Rooms : /\ Bookable(hotel, m, in, out, count)
                               /\ room[m].status # "maintenance"
                               /\ roomType[room[m].type].capacity # None}
  <2>1. \A m \in Rooms :
            (m \in {reservation[r].room : r \in ActiveDuring(in, out)}) <=>
                OverlappingReservations(m, in, out, None) # {}
    BY BusyIsOverlapping, SentinelAssumption
  <2>2. \A m \in Rooms : CapacityAtLeast(m, count) <=>
                FitsCapacity(m, count) /\ roomType[room[m].type].capacity # None
    BY <1>1, CapacityTests
  <2> QED
    BY <2>1, <2>2, Zenon DEF SearchAvailableRooms, Bookable
<1>2. TypeOK => SearchMatchesBooking
  BY <1>1 DEF SearchMatchesBooking
<1> QED
  BY <1>2, TypeCorrect, PTL
================================================================================
