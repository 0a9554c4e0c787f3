------------------------- MODULE ReservationController -------------------------
(****************************************************************************)
(* Bookings and stays (app/controllers/reservation_controller.py).  Each    *)
(* handler is one action up to its commit: the row lock if it takes one,    *)
(* the reads, the checks in the order of the code, and the changed objects  *)
(* left in the session.  StayStore!Commit is the second half.               *)
(****************************************************************************)
EXTENDS StayStore

\* check_reservation_owner: the caller owns the reservation or is an admin.
MayAccess(u, r) == u \in Admins \/ reservation[r].guest = u

\* resolve_booking_guest: admins book for any profile, the others for their own.
BookingGuests(u) == IF u \in Admins THEN Users ELSE {u}

\* Mutant of ValidDates: a stay of no night passes.
DatesNotReversed(in, out) == in <= out

ValidDates(in, out) == in < out

FitsCapacity(m, count) ==
    LET capacity == roomType[room[m].type].capacity
    IN  capacity # None => count <= capacity

\* Half-open ranges: a stay ending on the day another begins does not overlap.
Overlaps(row, in, out) == row.check_in < out /\ row.check_out > in

\* Mutant of OverlappingReservations: only a reservation that spans the whole range.
SpanningReservations(m, in, out, exclude) ==
    {r \in Reservations :
        /\ Stored(reservation, r)
        /\ reservation[r].room = m
        /\ r # exclude
        /\ reservation[r].status \notin IGNORED_STATUSES
        /\ reservation[r].check_in <= in /\ out <= reservation[r].check_out}

OverlappingReservations(m, in, out, exclude) ==
    {r \in Reservations :
        /\ Stored(reservation, r)
        /\ reservation[r].room = m
        /\ r # exclude
        /\ reservation[r].status \notin IGNORED_STATUSES
        /\ Overlaps(reservation[r], in, out)}

CalculateTotal(m, in, out) ==
    LET price == roomType[room[m].type].price
    IN  IF price = None THEN None ELSE price * (out - in)

\* total_paid / _paid_total: the SUM over the paid payments, as one session sees it.
PaidPayments(table, r) ==
    {p \in Payments : /\ Stored(table, p)
                      /\ table[p].reservation = r
                      /\ table[p].status = "paid"}

TotalPaid(table, r) == MapThenSumSet(LAMBDA p : table[p].amount, PaidPayments(table, r))

NewReservation(guest, hotel, m, in, out, count) ==
    [guest |-> guest, hotel |-> hotel, room |-> m,
     check_in |-> in, check_out |-> out, guests_count |-> count,
     total_amount |-> CalculateTotal(m, in, out), status |-> "pending",
     checked_in_at |-> FALSE, checked_out_at |-> FALSE]

--------------------------------------------------------------------------------

\* POST /reservations
CreateReservation(w) ==
    /\ "create_reservation" \in Ops
    /\ Idle(w)
    /\ \E u \in Users, hotel \in Hotels, m \in Rooms, in, out \in Days, count \in GuestCounts :
       \E guest \in BookingGuests(u), r \in FreshReservations :
        /\ room[m].hotel = hotel
        /\ ValidDates(in, out)
        /\ FitsCapacity(m, count)
        /\ OverlappingReservations(m, in, out, None) = {}
        /\ SetSession(w, Work("create_reservation", "ready",
                         Insert(r, NewReservation(guest, hotel, m, in, out, count)),
                         NoObject, NoObject))

\* Mutant of Rebooked: the total is only calculated at the booking.
RebookedAtOldTotal(r, in, out, count, datesSent) ==
    [reservation[r] EXCEPT !.check_in = in, !.check_out = out, !.guests_count = count]

\* What PUT leaves in the session: the total is recalculated only when a date
\* is in the request body, whether or not its value is new.
Rebooked(r, in, out, count, datesSent) ==
    [reservation[r] EXCEPT
        !.check_in = in, !.check_out = out, !.guests_count = count,
        !.total_amount = IF datesSent THEN CalculateTotal(reservation[r].room, in, out)
                                      ELSE @]

\* PUT /reservations/{id}: whatever the status of the reservation is.
UpdateReservation(w) ==
    /\ "update_reservation" \in Ops
    /\ Idle(w)
    /\ \E u \in Users, r \in Reservations, in, out \in Days,
          count \in GuestCounts, datesSent \in BOOLEAN :
        /\ Stored(reservation, r)
        /\ MayAccess(u, r)
        /\ ~datesSent => in = reservation[r].check_in /\ out = reservation[r].check_out
        /\ ValidDates(in, out)
        /\ FitsCapacity(reservation[r].room, count)
        /\ datesSent => OverlappingReservations(reservation[r].room, in, out, r) = {}
        /\ SetSession(w, Work("update_reservation", "ready",
                         Changed(reservation, r, Rebooked(r, in, out, count, datesSent)),
                         NoObject, NoObject))

\* Mutant of Cancellable: a guest who is staying can still cancel.
NotYetClosed(status) == status \notin {"cancelled", "checked_out"}

Cancellable(status) == status \notin {"cancelled", "checked_out", "checked_in"}

\* POST /reservations/{id}/cancel
CancelReservation(w) ==
    /\ "cancel_reservation" \in Ops
    /\ Idle(w)
    /\ \E u \in Users, r \in Reservations :
        /\ Stored(reservation, r)
        /\ MayAccess(u, r)
        /\ Cancellable(reservation[r].status)
        /\ SetSession(w, Work("cancel_reservation", "ready",
                         Changed(reservation, r,
                                 [reservation[r] EXCEPT !.status = "cancelled"]),
                         NoObject, NoObject))

Removal(r, own) ==
    [Work("delete_reservation", "found", Loaded(reservation, r), NoObject, NoObject)
        EXCEPT !.own = own]

\* DELETE /reservations/{id}: no status is checked; the payments are loaded with
\* the row, to be deleted before it.
DeleteReservation(w) ==
    /\ "delete_reservation" \in Ops
    /\ Idle(w)
    /\ \E r \in Reservations :
        /\ Stored(reservation, r)
        /\ SetSession(w, Removal(r, PaymentsOf(r)))

\* The commit's DELETE of the loaded payments; one that is gone is only warned of.
EmptyReservation(w) ==
    /\ session[w].phase = "found"
    /\ Granted(w)
    /\ SetSession(w, [session[w] EXCEPT !.phase = "emptied"])

\* The commit's DELETE of the reservation, up to the cascade.
LockReservation(w) ==
    /\ session[w].phase = "emptied"
    /\ Granted(w)
    /\ SetSession(w, [session[w] EXCEPT !.phase = "locked"])

\* The cascade to the payments inserted since, and the end of the commit.
CommitDelete(w) ==
    LET r == session[w].res.id
    IN  /\ session[w].phase = "locked"
        /\ Granted(w)
        /\ reservation' = [reservation EXCEPT ![r] = Deleted]
        /\ payment' = [p \in Payments |-> IF p \in PaymentsOf(r) THEN Deleted ELSE payment[p]]
        /\ session' = [session EXCEPT ![w] = NoSession]
        /\ UNCHANGED <<room, roomType, today>>

\* Mutant of Arrived: the reservation gets the status of the room.
ArrivedAsRoom(row) == [row EXCEPT !.status = "occupied", !.checked_in_at = TRUE]

Arrived(row) == [row EXCEPT !.status = "checked_in", !.checked_in_at = TRUE]

\* Mutant of Departed: the timestamp is forgotten.
DepartedUnstamped(row) == [row EXCEPT !.status = "checked_out"]

Departed(row) == [row EXCEPT !.status = "checked_out", !.checked_out_at = TRUE]

\* POST /reservations/{id}/check-in (admin).  The room row is read without a lock.
CheckIn(w) ==
    /\ "check_in" \in Ops
    /\ Idle(w)
    /\ \E r \in Reservations :
        /\ Stored(reservation, r)
        /\ ReservationFree(w, r)
        /\ LET row == reservation[r]
           IN  /\ row.status = "confirmed"
               /\ row.total_amount # None
               /\ TotalPaid(payment, r) >= row.total_amount
               /\ today >= row.check_in
               /\ room[row.room].status = "available"
               /\ SetSession(w, Work("check_in", "ready",
                     Changed(reservation, r, Arrived(row)), NoObject,
                     Changed(room, row.room,
                             [room[row.room] EXCEPT !.status = "occupied"])))

\* Mutant of VacatedStatus: the room is not released.
KeptStatus(status) == status

VacatedStatus(status) == IF status = "occupied" THEN "available" ELSE status

\* POST /reservations/{id}/check-out (admin).
CheckOut(w) ==
    /\ "check_out" \in Ops
    /\ Idle(w)
    /\ \E r \in Reservations :
        /\ Stored(reservation, r)
        /\ ReservationFree(w, r)
        /\ LET row == reservation[r]
           IN  /\ row.status = "checked_in"
               /\ today >= row.check_in
               /\ SetSession(w, Work("check_out", "ready",
                     Changed(reservation, r, Departed(row)), NoObject,
                     Changed(room, row.room,
                             [room[row.room] EXCEPT !.status = VacatedStatus(@)])))

================================================================================
