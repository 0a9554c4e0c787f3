-------------------------------- MODULE StayEase --------------------------------
(****************************************************************************)
(* The booking engine: reservations, payments and rooms served by several   *)
(* request threads over one PostgreSQL database.  With one worker the       *)
(* requests are serial; with two or more they interleave.                   *)
(****************************************************************************)
EXTENDS PaymentController, RoomController, Availability

Request(w) ==
    \/ CreateReservation(w)
    \/ UpdateReservation(w)
    \/ CancelReservation(w)
    \/ DeleteReservation(w)
    \/ CheckIn(w)
    \/ CheckOut(w)
    \/ CreatePayment(w)
    \/ ProcessPayment(w)
    \/ RefundPayment(w)
    \/ UpdateRoom(w)
    \/ UpdateRoomType(w)

\* The next statement of the commit, once its row locks are granted.
Advance(w) ==
    \/ FlushPayment(w)
    \/ EmptyReservation(w)
    \/ LockReservation(w)
    \/ Commit(w)
    \/ CommitDelete(w)

Next ==
    \/ \E w \in Workers :
        \/ Request(w)
        \/ Advance(w)
        \/ Rollback(w)
    \/ Tick

Init == StoreInit

Spec == Init /\ [][Next]_vars

(****************************************************************************)
(* A statement that can run is run (weak fairness), and a statement waiting *)
(* for a row lock is granted it when the lock keeps coming free (strong     *)
(* fairness: PostgreSQL queues the waiters of a row).  A unit of work that  *)
(* the database refuses is rolled back: its row is gone, or the deadlock    *)
(* detector found it waiting for a request that waits for it.               *)
(****************************************************************************)
Deadlocked(w) == \E v \in Workers : WaitsFor(w, v) /\ WaitsFor(v, w)

\* Mutant of Refused: get_db does not close a session that failed; only the victim of
\* a deadlock is ended, by the database.
RefusedAndLeftOpen(w) == Deadlocked(w) /\ Rollback(w)

Refused(w) == (Doomed(w) \/ Deadlocked(w)) /\ Rollback(w)

Fairness ==
    \A w \in Workers : SF_vars(Advance(w)) /\ WF_vars(Refused(w))

FairSpec == Spec /\ Fairness

--------------------------------------------------------------------------------
(****************************************************************************)
(* Properties of every workload, however many workers there are.            *)
(****************************************************************************)

\* Every table and every session holds rows of the declared shape.
TypeOK == StoreTypeOK

\* _locked_reservation: at most one request holds a reservation FOR UPDATE or has
\* it under its DELETE.
RowLockExclusive ==
    \A v, w \in Workers, r \in Reservations :
        LocksReservation(v, r) /\ LocksReservation(w, r) => v = w

\* _locked_reservation: until the holder commits, the row is the one it read, so
\* what check_in and check_out decided from it is still true when they commit.
LockedRowUnchanged ==
    \A w \in Workers, r \in Reservations :
        LocksReservation(w, r) /\ session[w].op # "delete_reservation" =>
            reservation[r] = session[w].res.old

\* check_in, check_out: even among racing requests a reservation is only checked
\* in from confirmed, on or after its check-in date, and only checked out from
\* checked in.
Arrivals ==
    \A r \in Reservations :
        Stored(reservation', r) /\ reservation'[r].status = "checked_in" =>
            \/ /\ Stored(reservation, r)
               /\ reservation[r].status = "checked_in"
            \/ /\ Stored(reservation, r)
               /\ reservation[r].status = "confirmed"
               /\ reservation[r].check_in <= today

Departures ==
    \A r \in Reservations :
        Stored(reservation', r) /\ reservation'[r].status = "checked_out" =>
            /\ Stored(reservation, r)
            /\ reservation[r].status \in {"checked_in", "checked_out"}

LockedTransitions == [][Arrivals /\ Departures]_vars

\* check_in, check_out: a stay that shows as checked in or out carries the
\* timestamps of that, and no later write of a racing request takes them away.
StampsFollowLifecycle ==
    \A r \in Reservations : Stored(reservation, r) =>
        LET row == reservation[r]
        IN  /\ row.status = "checked_in" => row.checked_in_at
            /\ row.status = "checked_out" => row.checked_out_at
            /\ row.checked_out_at => row.checked_in_at

\* process_payment, refund_payment: paid_at is set exactly on paid payments, also
\* when several requests process and refund the same payment.
PaidAtMatchesStatus ==
    \A p \in Payments : Stored(payment, p) =>
        (payment[p].status = "paid" <=> payment[p].paid_at # None)

\* delete_reservation against create_payment: no payment outlives its reservation.
NoOrphanPayments ==
    \A p \in Payments : Stored(payment, p) => Stored(reservation, payment[p].reservation)

\* process_payment, refund_payment, delete_reservation: payments are locked before
\* their reservation, except by the cascade of a delete.  So where requests wait for
\* each other in a circle, the circle has a delete in it that waits, directly, for
\* one that waits for it; requests without a delete never wait in a circle.
OnlyDeletesDeadlock ==
    \A circle \in (SUBSET Workers) \ {{}} :
        (\A w \in circle : ~Idle(w) /\ \E v \in circle : WaitsFor(w, v)) =>
            \E d, v \in circle : /\ session[d].op = "delete_reservation"
                                 /\ WaitsFor(d, v) /\ WaitsFor(v, d)

\* Every request ends, also one that waits for a row another request locked.
RequestsEnd == \A w \in Workers : ~Idle(w) ~> Idle(w)

--------------------------------------------------------------------------------
(****************************************************************************)
(* The inductive invariant behind the properties above: what a request in   *)
(* flight knows about the rows it is going to write.                        *)
(****************************************************************************)

\* The drawn id is still unused and nobody else's; the new row is a fresh booking.
Inserting(w) ==
    LET s == session[w]
    IN  /\ s.phase = "ready" /\ s.pay = NoObject /\ s.rm = NoObject
        /\ s.res.old = Unused /\ s.res.new \in ReservationRow
        /\ s.res.new.status = "pending"
        /\ ~s.res.new.checked_in_at /\ ~s.res.new.checked_out_at
        /\ s.res.id \in Reservations /\ reservation[s.res.id] = Unused
        /\ \A v \in Workers \ {w} : session[v].res.id # s.res.id

\* An update or a cancellation read its row without a lock: the row may have
\* changed or be gone, but the id is a used one and the stamps are not touched.
Rewriting(w) ==
    LET s == session[w]
    IN  /\ s.phase = "ready" /\ s.pay = NoObject /\ s.rm = NoObject
        /\ s.res.id \in Reservations /\ reservation[s.res.id] # Unused
        /\ s.res.old \in ReservationRow /\ s.res.new \in ReservationRow
        /\ s.res.new.status =
               IF s.op = "cancel_reservation" THEN "cancelled" ELSE s.res.old.status
        /\ s.res.new.checked_in_at = s.res.old.checked_in_at
        /\ s.res.new.checked_out_at = s.res.old.checked_out_at

\* Check-in and check-out hold the row lock: the row is the one they read, in the
\* status they require, and nobody else holds it.
Moving(w) ==
    LET s == session[w]
    IN  /\ s.phase = "ready" /\ s.pay = NoObject
        /\ s.rm.id \in Rooms /\ s.rm.old \in RoomRow /\ s.rm.new \in RoomRow
        /\ s.res.id \in Reservations
        /\ s.res.old \in ReservationRow /\ reservation[s.res.id] = s.res.old
        /\ IF s.op = "check_in"
           THEN /\ s.res.old.status = "confirmed"
                /\ s.res.old.check_in <= today
                /\ s.res.new = Arrived(s.res.old)
           ELSE /\ s.res.old.status = "checked_in"
                /\ s.res.new = Departed(s.res.old)
        /\ \A v \in Workers \ {w} : ~LocksReservation(v, s.res.id)

Paying(w) ==
    LET s == session[w]
    IN  /\ s.phase = "ready" /\ s.res = NoObject /\ s.rm = NoObject
        /\ s.pay.old = Unused /\ s.pay.new \in PaymentRow
        /\ s.pay.new.status = "pending" /\ s.pay.new.paid_at = None
        /\ reservation[s.pay.new.reservation] # Unused
        /\ s.pay.id \in Payments /\ payment[s.pay.id] = Unused
        /\ \A v \in Workers \ {w} : session[v].pay.id # s.pay.id

\* What processing and refunding may do to a payment, and to its reservation.
PaymentMove(s) ==
    \/ /\ s.op = "process_payment"
       /\ s.pay.old.status = "pending" /\ s.pay.old.paid_at = None
       /\ s.pay.new.paid_at \in Stamps
       /\ s.pay.new = Processed(s.pay.old, s.pay.new.paid_at)
    \/ /\ s.op = "refund_payment"
       /\ s.pay.old.status = "paid" /\ s.pay.old.paid_at # None
       /\ s.pay.new = Refunded(s.pay.old)

ReservationMove(s) ==
    \/ s.res.new = s.res.old
    \/ /\ s.op = "process_payment" /\ s.res.old.status = "pending"
       /\ s.res.new = [s.res.old EXCEPT !.status = "confirmed"]
    \/ /\ s.op = "refund_payment" /\ s.res.old.status = "confirmed"
       /\ s.res.new = [s.res.old EXCEPT !.status = "pending"]

\* Processing and refunding loaded a payment of that reservation in the status
\* they require; after the flush nobody can delete it or write it first.
Settling(w) ==
    LET s == session[w]
    IN  /\ s.phase \in {"loaded", "ready"} /\ s.rm = NoObject
        /\ s.res.id \in Reservations /\ s.res.old \in ReservationRow
        /\ s.pay.id \in Payments /\ s.pay.old \in PaymentRow
        /\ s.pay.old.reservation = s.res.id
        /\ PaymentMove(s) /\ ReservationMove(s)
        /\ reservation[s.res.id] # Unused /\ payment[s.pay.id] # Unused
        /\ Stored(payment, s.pay.id) => payment[s.pay.id].reservation = s.res.id
        /\ s.phase = "ready" =>
              /\ payment[s.pay.id] # Deleted
              /\ \A v \in Workers \ {w} : ~LocksPayment(v, s.pay.id)

\* A delete knows the reservation and some of its payments, which may be gone; from
\* its DELETEs on nobody else has the payments, or the reservation, locked.
Removing(w) ==
    LET s == session[w]
    IN  /\ s.phase \in {"found", "emptied", "locked"}
        /\ s.pay = NoObject /\ s.rm = NoObject
        /\ s.res.id \in Reservations /\ reservation[s.res.id] # Unused
        /\ \A p \in s.own :
              /\ payment[p] # Unused
              /\ Stored(payment, p) => payment[p].reservation = s.res.id
        /\ s.phase # "found" =>
              \A v \in Workers \ {w}, p \in s.own : ~LocksPayment(v, p)
        /\ s.phase = "locked" =>
              \A v \in Workers \ {w} : ~LocksReservation(v, s.res.id)

UnitOfWork(w) ==
    LET op == session[w].op
    IN  /\ op = "none" => session[w] = NoSession
        /\ op = "create_reservation" => Inserting(w)
        /\ op \in {"update_reservation", "cancel_reservation"} => Rewriting(w)
        /\ op \in {"check_in", "check_out"} => Moving(w)
        /\ op = "create_payment" => Paying(w)
        /\ op \in {"process_payment", "refund_payment"} => Settling(w)
        /\ op = "delete_reservation" => Removing(w)
        /\ op \notin {"update_room", "update_room_type"}

\* Each request in flight is what its endpoint made of it, and what it read under
\* a lock or drew from a sequence is still so.
UnitsOfWork == \A w \in Workers : UnitOfWork(w)

--------------------------------------------------------------------------------
(****************************************************************************)
(* Properties of serial requests, or of workloads that leave endpoints out. *)
(****************************************************************************)

Blocks(r) == Stored(reservation, r) /\ reservation[r].status \notin IGNORED_STATUSES

\* No other active reservation of the room overlaps this one.
FitsCalendar(r, row) ==
    \A q \in Reservations \ {r} :
        Blocks(q) /\ reservation[q].room = row.room =>
            ~Overlaps(reservation[q], row.check_in, row.check_out)

\* _ensure_available: no room is promised to two active reservations for one night.
NoDoubleBooking ==
    \A r \in Reservations : Blocks(r) => FitsCalendar(r, reservation[r])

\* _validate_dates: a stored reservation has at least one night.
AtLeastOneNight ==
    \A r \in Reservations :
        Stored(reservation, r) => reservation[r].check_in < reservation[r].check_out

\* _calculate_total: while prices stay put, a stored total is price times nights.
TotalIsPriced ==
    \A r \in Reservations : Stored(reservation, r) =>
        LET row == reservation[r]
        IN  row.total_amount = CalculateTotal(row.room, row.check_in, row.check_out)

\* process_payment, refund_payment: an open reservation is confirmed exactly when
\* its paid payments cover its total.
ConfirmedIffCovered ==
    \A r \in Reservations : Stored(reservation, r) =>
        LET row == reservation[r]
        IN  /\ row.status = "confirmed" => Covered(payment, row, r)
            /\ row.status = "pending" => ~Covered(payment, row, r)

\* check_in: "reservation and room never disagree": a room is occupied exactly
\* when one reservation is checked in to it.
Staying(m) ==
    {r \in Reservations : /\ Stored(reservation, r)
                          /\ reservation[r].room = m
                          /\ reservation[r].status = "checked_in"}

RoomMatchesStay ==
    \A m \in Rooms :
        Cardinality(Staying(m)) = IF room[m].status = "occupied" THEN 1 ELSE 0

\* search_available_rooms: exactly the rooms create_reservation would accept are
\* offered, except those under maintenance and those without a known capacity.
SearchMatchesBooking ==
    \A hotel \in Hotels, in, out \in Days, count \in GuestCounts : in < out =>
        SearchAvailableRooms(hotel, in, out, count) =
            {m \in Rooms : /\ Bookable(hotel, m, in, out, count)
                           /\ room[m].status # "maintenance"
                           /\ roomType[room[m].type].capacity # None}

\* The status of every reservation follows the documented state machine.
StatusOf(r) ==
    IF reservation[r] = Unused THEN "none"
    ELSE IF reservation[r] = Deleted THEN "deleted"
    ELSE reservation[r].status

LC == INSTANCE Lifecycle WITH status <- [r \in Reservations |-> StatusOf(r)]

FollowsLifecycle == LC!Spec

================================================================================
