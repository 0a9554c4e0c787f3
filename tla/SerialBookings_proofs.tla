-------------------------- MODULE SerialBookings_proofs --------------------------
(****************************************************************************)
(* What holds while requests are served one at a time.  A handler checks    *)
(* the calendar, commits later, and nothing in the database enforces what   *)
(* it checked; so long as no other request comes in between, what it        *)
(* checked is still true at its commit (FreshUnits).  From that follow the  *)
(* calendar of the rooms and the life cycle of the reservations, and then   *)
(* that rooms and stays agree.  Racing requests break all of this (see      *)
(* DocumentedClaims).                                                       *)
(****************************************************************************)
EXTENDS StayEase_proofs, FiniteSetTheorems

\* At most one request is in flight.
Serial == \A v, w \in Workers : v = w

\* What a handler read and checked for the reservation in its session is still so.
FreshUnit(w) ==
    LET s == session[w]
    IN  s.res.id # None =>
            /\ s.res.old # Unused =>
                  reservation[s.res.id] = s.res.old /\ s.res.new.room = s.res.old.room
            /\ s.op = "cancel_reservation" => s.res.old.status \in {"pending", "confirmed"}
            /\ s.res.new.check_in < s.res.new.check_out
            /\ s.res.new.status \notin IGNORED_STATUSES =>
                  FitsCalendar(s.res.id, s.res.new)

FreshUnits == \A w \in Workers : FreshUnit(w)

\* The inductive invariant of serial requests.
SerialInv ==
    /\ IInv
    /\ FreshUnits
    /\ NoDoubleBooking
    /\ AtLeastOneNight

\* The empty database satisfies it.
LEMMA InitSerialInv == Init => SerialInv
<1> SUFFICES ASSUME Init PROVE FreshUnits /\ NoDoubleBooking /\ AtLeastOneNight
  BY InitIInv DEF SerialInv
<1> QED
  BY DEF Init, StoreInit, FreshUnits, FreshUnit, NoSession, Work, NoObject,
     NoDoubleBooking, AtLeastOneNight, Blocks, Stored

\* A step of the only request in flight that leaves the tables alone.
LEMMA SerialSession ==
    ASSUME Serial, SerialInv, NEW w \in Workers, NEW work, SetSession(w, work),
           work.res.id # None =>
              /\ work.res.old # Unused =>
                    /\ reservation[work.res.id] = work.res.old
                    /\ work.res.new.room = work.res.old.room
              /\ work.op = "cancel_reservation" =>
                    work.res.old.status \in {"pending", "confirmed"}
              /\ work.res.new.check_in < work.res.new.check_out
              /\ work.res.new.status \notin IGNORED_STATUSES =>
                    FitsCalendar(work.res.id, work.res.new)
    PROVE  (FreshUnits /\ NoDoubleBooking /\ AtLeastOneNight)'
<1>1. session'[w] = work /\ reservation' = reservation
  BY OwnSession DEF SerialInv, IInv
<1>2. (NoDoubleBooking /\ AtLeastOneNight)'
  BY <1>1 DEF SerialInv, NoDoubleBooking, AtLeastOneNight, Blocks, FitsCalendar, Stored
<1>3. \A r, row : FitsCalendar(r, row) => FitsCalendar(r, row)'
  BY <1>1 DEF FitsCalendar, Blocks, Stored
<1>4. FreshUnit(w)'
  BY <1>1, <1>3 DEF FreshUnit
<1> QED
  BY <1>2, <1>4 DEF FreshUnits, Serial

\* No overlapping active reservation was found: the row fits the calendar.
LEMMA NoOverlapFits ==
    ASSUME NEW m, NEW in, NEW out, NEW exclude,
           OverlappingReservations(m, in, out, exclude) = {},
           NEW r, NEW row, row.room = m, row.check_in = in, row.check_out = out,
           exclude \in {None, r}, None \notin Reservations
    PROVE  FitsCalendar(r, row)
BY DEF OverlappingReservations, FitsCalendar, Blocks

\* create_reservation leaves a row that fits the calendar.
LEMMA SerialCreate ==
    ASSUME Serial, SerialInv, NEW w \in Workers, CreateReservation(w)
    PROVE  (FreshUnits /\ NoDoubleBooking /\ AtLeastOneNight)'
<1>1. PICK hotel \in Hotels, m \in Rooms, in \in Days, out \in Days, count \in GuestCounts,
           guest \in Users, r \in FreshReservations :
        /\ ValidDates(in, out)
        /\ OverlappingReservations(m, in, out, None) = {}
        /\ SetSession(w, Work("create_reservation", "ready",
                Insert(r, NewReservation(guest, hotel, m, in, out, count)),
                NoObject, NoObject))
  BY DEF CreateReservation, BookingGuests
<1> DEFINE row == NewReservation(guest, hotel, m, in, out, count)
           work == Work("create_reservation", "ready", Insert(r, row), NoObject, NoObject)
<1>2. row.room = m /\ row.check_in = in /\ row.check_out = out
  BY DEF NewReservation
<1>3. FitsCalendar(r, row)
  BY <1>1, <1>2, NoOverlapFits, SentinelAssumption
<1>4. /\ work.res.old = Unused /\ work.op = "create_reservation"
      /\ work.res.id = r /\ work.res.new = row
  BY DEF Work, Insert
<1>5. in < out
  BY <1>1 DEF ValidDates
<1> HIDE DEF work, row
<1> QED
  BY <1>1, <1>2, <1>3, <1>4, <1>5, SerialSession DEF work, row

\* A stored reservation that is active fits the calendar and has a night.
LEMMA StoredFits ==
    ASSUME SerialInv, NEW r \in Reservations, Stored(reservation, r)
    PROVE  /\ reservation[r] \in ReservationRow
           /\ reservation[r].check_in < reservation[r].check_out
           /\ reservation[r].status \notin IGNORED_STATUSES =>
                 FitsCalendar(r, reservation[r])
BY StoredReservation DEF SerialInv, IInv, NoDoubleBooking, AtLeastOneNight, Blocks

\* Rows with the same room and dates take the same place in the calendar.
LEMMA SamePlace ==
    ASSUME NEW r, NEW old, NEW new, FitsCalendar(r, old), new.room = old.room,
           new.check_in = old.check_in, new.check_out = old.check_out
    PROVE  FitsCalendar(r, new)
BY DEF FitsCalendar

\* update_reservation: a sent date is checked against the calendar; without one the
\* reservation keeps the place it has.
LEMMA SerialUpdate ==
    ASSUME Serial, SerialInv, NEW w \in Workers, UpdateReservation(w)
    PROVE  (FreshUnits /\ NoDoubleBooking /\ AtLeastOneNight)'
<1>1. PICK r \in Reservations, in \in Days, out \in Days, count \in GuestCounts,
           datesSent \in BOOLEAN :
        /\ Stored(reservation, r)
        /\ ~datesSent => in = reservation[r].check_in /\ out = reservation[r].check_out
        /\ ValidDates(in, out)
        /\ datesSent => OverlappingReservations(reservation[r].room, in, out, r) = {}
        /\ SetSession(w, Work("update_reservation", "ready",
                Changed(reservation, r, Rebooked(r, in, out, count, datesSent)),
                NoObject, NoObject))
  BY DEF UpdateReservation
<1> DEFINE old == reservation[r]
           row == Rebooked(r, in, out, count, datesSent)
           work == Work("update_reservation", "ready", Changed(reservation, r, row),
                        NoObject, NoObject)
<1>2. /\ old \in ReservationRow
      /\ old.status \notin IGNORED_STATUSES => FitsCalendar(r, old)
  BY <1>1, StoredFits
<1>3. /\ row.room = old.room /\ row.status = old.status
      /\ row.check_in = in /\ row.check_out = out
  BY <1>2 DEF Rebooked, ReservationRow
<1> HIDE DEF row
<1>4. row.status \notin IGNORED_STATUSES => FitsCalendar(r, row)
  <2>1. CASE datesSent
    BY <1>1, <1>3, <2>1, NoOverlapFits, SentinelAssumption
  <2>2. CASE ~datesSent
    BY <1>1, <1>2, <1>3, <2>2, SamePlace
  <2> QED
    BY <2>1, <2>2
<1>5. /\ work.res.old = old /\ work.op = "update_reservation"
      /\ work.res.id = r /\ work.res.new = row
  BY DEF Work, Changed
<1>6. in < out /\ SetSession(w, work)
  BY <1>1 DEF ValidDates, row
<1> HIDE DEF work
<1> QED
  BY <1>3, <1>4, <1>5, <1>6, SerialSession

\* Cancelling, checking in and checking out keep room and dates.
LEMMA SerialRestatus ==
    ASSUME Serial, SerialInv, NEW w \in Workers, NEW r \in Reservations,
           NEW work, SetSession(w, work), Stored(reservation, r),
           work.res.id = r, work.res.old = reservation[r],
           work.op = "cancel_reservation" =>
                reservation[r].status \in {"pending", "confirmed"},
           NEW status, work.res.new.status = status,
           status = "cancelled" \/ reservation[r].status \notin IGNORED_STATUSES,
           work.res.new.room = reservation[r].room,
           work.res.new.check_in = reservation[r].check_in,
           work.res.new.check_out = reservation[r].check_out
    PROVE  (FreshUnits /\ NoDoubleBooking /\ AtLeastOneNight)'
<1>1. /\ reservation[r].check_in < reservation[r].check_out
      /\ reservation[r].status \notin IGNORED_STATUSES => FitsCalendar(r, reservation[r])
  BY StoredFits
<1>2. work.res.new.status \notin IGNORED_STATUSES => FitsCalendar(r, work.res.new)
  BY <1>1, SamePlace DEF IGNORED_STATUSES
<1> QED
  BY <1>1, <1>2, SerialSession

\* cancel_reservation: only pending and confirmed reservations.
LEMMA SerialCancel ==
    ASSUME Serial, SerialInv, NEW w \in Workers, CancelReservation(w)
    PROVE  (FreshUnits /\ NoDoubleBooking /\ AtLeastOneNight)'
<1>1. PICK r \in Reservations :
        /\ Stored(reservation, r)
        /\ reservation[r].status \notin {"cancelled", "checked_out", "checked_in"}
        /\ SetSession(w, Work("cancel_reservation", "ready",
                Changed(reservation, r, [reservation[r] EXCEPT !.status = "cancelled"]),
                NoObject, NoObject))
  BY DEF CancelReservation, Cancellable
<1> DEFINE row == [reservation[r] EXCEPT !.status = "cancelled"]
           work == Work("cancel_reservation", "ready", Changed(reservation, r, row),
                        NoObject, NoObject)
<1>2. reservation[r] \in ReservationRow
  BY <1>1, StoredFits
<1>3. /\ row.status = "cancelled" /\ row.room = reservation[r].room
      /\ row.check_in = reservation[r].check_in /\ row.check_out = reservation[r].check_out
      /\ reservation[r].status \in {"pending", "confirmed"}
  BY <1>1, <1>2 DEF ReservationRow, RESERVATION_STATUSES
<1>4. work.res.id = r /\ work.res.old = reservation[r] /\ work.res.new = row
  BY DEF Work, Changed
<1>5. SetSession(w, work)
  BY <1>1
<1> HIDE DEF work, row
<1> QED
  BY <1>1, <1>3, <1>4, <1>5, SerialRestatus

\* check_in keeps the reservation's place.
LEMMA SerialCheckIn ==
    ASSUME Serial, SerialInv, NEW w \in Workers, CheckIn(w)
    PROVE  (FreshUnits /\ NoDoubleBooking /\ AtLeastOneNight)'
<1>1. PICK r \in Reservations :
        /\ Stored(reservation, r)
        /\ reservation[r].status = "confirmed"
        /\ SetSession(w, Work("check_in", "ready",
                Changed(reservation, r, Arrived(reservation[r])), NoObject,
                Changed(room, reservation[r].room,
                    [room[reservation[r].room] EXCEPT !.status = "occupied"])))
  BY DEF CheckIn
<1> DEFINE row == Arrived(reservation[r])
           m == reservation[r].room
           work == Work("check_in", "ready", Changed(reservation, r, row), NoObject,
                        Changed(room, m, [room[m] EXCEPT !.status = "occupied"]))
<1>2. reservation[r] \in ReservationRow
  BY <1>1, StoredFits
<1>3. /\ row.room = reservation[r].room
      /\ row.check_in = reservation[r].check_in /\ row.check_out = reservation[r].check_out
      /\ reservation[r].status \notin IGNORED_STATUSES
  BY <1>1, <1>2 DEF Arrived, ReservationRow, IGNORED_STATUSES
<1>4. /\ work.res.id = r /\ work.res.old = reservation[r] /\ work.res.new = row
      /\ work.op = "check_in"
  BY DEF Work, Changed
<1>5. SetSession(w, work)
  BY <1>1
<1> HIDE DEF work, row
<1> QED
  BY <1>1, <1>3, <1>4, <1>5, SerialRestatus

\* check_out keeps the reservation's place.
LEMMA SerialCheckOut ==
    ASSUME Serial, SerialInv, NEW w \in Workers, CheckOut(w)
    PROVE  (FreshUnits /\ NoDoubleBooking /\ AtLeastOneNight)'
<1>1. PICK r \in Reservations :
        /\ Stored(reservation, r)
        /\ reservation[r].status = "checked_in"
        /\ SetSession(w, Work("check_out", "ready",
                Changed(reservation, r, Departed(reservation[r])), NoObject,
                Changed(room, reservation[r].room,
                    [room[reservation[r].room] EXCEPT !.status = VacatedStatus(@)])))
  BY DEF CheckOut
<1> DEFINE row == Departed(reservation[r])
           m == reservation[r].room
           work == Work("check_out", "ready", Changed(reservation, r, row), NoObject,
                        Changed(room, m, [room[m] EXCEPT !.status = VacatedStatus(@)]))
<1>2. reservation[r] \in ReservationRow
  BY <1>1, StoredFits
<1>3. /\ row.room = reservation[r].room
      /\ row.check_in = reservation[r].check_in /\ row.check_out = reservation[r].check_out
      /\ reservation[r].status \notin IGNORED_STATUSES
  BY <1>1, <1>2 DEF Departed, ReservationRow, IGNORED_STATUSES
<1>4. /\ work.res.id = r /\ work.res.old = reservation[r] /\ work.res.new = row
      /\ work.op = "check_out"
  BY DEF Work, Changed
<1>5. SetSession(w, work)
  BY <1>1
<1> HIDE DEF work, row
<1> QED
  BY <1>1, <1>3, <1>4, <1>5, SerialRestatus

\* create_payment touches no reservation.
LEMMA SerialCreatePayment ==
    ASSUME Serial, SerialInv, NEW w \in Workers, CreatePayment(w)
    PROVE  (FreshUnits /\ NoDoubleBooking /\ AtLeastOneNight)'
<1>1. PICK pay : SetSession(w, Work("create_payment", "ready", NoObject, pay, NoObject))
  BY DEF CreatePayment
<1> DEFINE work == Work("create_payment", "ready", NoObject, pay, NoObject)
<1>2. work.res.id = None
  BY DEF Work, NoObject
<1> QED
  BY <1>1, <1>2, SerialSession

\* Processing and refunding load the reservation of a stored payment.
LEMMA SerialLoad ==
    ASSUME Serial, SerialInv, NEW w \in Workers, ProcessPayment(w) \/ RefundPayment(w)
    PROVE  (FreshUnits /\ NoDoubleBooking /\ AtLeastOneNight)'
<1>1. PICK p \in Payments, op \in {"process_payment", "refund_payment"} :
        /\ Stored(payment, p)
        /\ \E pay : SetSession(w, Work(op, "loaded", Loaded(reservation, payment[p].reservation),
                                     pay, NoObject))
  BY DEF ProcessPayment, RefundPayment
<1>2. PICK pay : SetSession(w, Work(op, "loaded", Loaded(reservation, payment[p].reservation),
                                    pay, NoObject))
  BY <1>1
<1> DEFINE r == payment[p].reservation
           work == Work(op, "loaded", Loaded(reservation, r), pay, NoObject)
<1>3. r \in Reservations /\ Stored(reservation, r)
  BY <1>1, StoredPayment DEF SerialInv, IInv, NoOrphanPayments, PaymentRow
<1>4. /\ reservation[r].check_in < reservation[r].check_out
      /\ reservation[r].status \notin IGNORED_STATUSES => FitsCalendar(r, reservation[r])
  BY <1>3, StoredFits
<1>5. /\ work.res.id = r /\ work.res.old = reservation[r] /\ work.res.new = reservation[r]
      /\ work.op # "cancel_reservation"
  BY DEF Work, Loaded
<1>6. SetSession(w, work)
  BY <1>2
<1> HIDE DEF work, r
<1> QED
  BY <1>4, <1>5, <1>6, SerialSession

\* The flush changes the status between pending and confirmed only: it never makes
\* a cancelled reservation active again.
LEMMA SerialFlush ==
    ASSUME Serial, SerialInv, NEW w \in Workers, FlushPayment(w)
    PROVE  (FreshUnits /\ NoDoubleBooking /\ AtLeastOneNight)'
<1> DEFINE s == session[w]
           r == s.res.id
           old == s.res.old
           settled == Settled(s.op, Saved(payment, s.pay), old, r)
           row == [old EXCEPT !.status = settled]
           work == Work(s.op, "ready", Assigned(s.res, row), s.pay, NoObject)
<1>1. SetSession(w, work) /\ s.phase = "loaded"
  BY DEF FlushPayment
<1>2. /\ Settling(w) /\ s.op \in {"process_payment", "refund_payment"}
      /\ r \in Reservations /\ old \in ReservationRow
  BY <1>1, PhaseTellsOp DEF SerialInv, Settling
<1>3. reservation[r] = old /\ Stored(reservation, r)
  <2>1. FreshUnit(w) /\ r # None
    BY <1>2, SentinelAssumption DEF SerialInv, FreshUnits
  <2> QED
    BY <1>2, <2>1, SentinelAssumption DEF FreshUnit, Stored
<1>4. settled = old.status \/ old.status \in {"pending", "confirmed"}
  BY DEF Settled
<1>5. /\ row.room = old.room /\ row.check_in = old.check_in /\ row.check_out = old.check_out
      /\ row.status = settled
  BY <1>2 DEF ReservationRow
<1>6. /\ old.check_in < old.check_out
      /\ old.status \notin IGNORED_STATUSES => FitsCalendar(r, old)
  BY <1>2, <1>3, StoredFits
<1> HIDE DEF settled, row
<1>7. row.status \notin IGNORED_STATUSES => FitsCalendar(r, row)
  BY <1>4, <1>5, <1>6, SamePlace DEF IGNORED_STATUSES
<1>8. /\ work.res.id = r /\ work.res.old = old /\ work.res.new = row /\ work.op = s.op
  BY DEF Work, Assigned
<1> HIDE DEF work
<1> QED
  BY <1>1, <1>2, <1>3, <1>5, <1>6, <1>7, <1>8, SerialSession

\* Serial commits write what the handler left: its copy is not stale.
LEMMA SerialWrite ==
    ASSUME Serial, SerialInv, NEW w \in Workers, Commit(w), NEW r \in Reservations,
           reservation'[r] # reservation[r]
    PROVE  /\ r = session[w].res.id /\ reservation'[r] = session[w].res.new
           /\ session[w].res.new \in ReservationRow
           /\ \A q \in Reservations \ {r} : reservation'[q] = reservation[q]
<1> DEFINE s == session[w]
           obj == s.res
<1>1. reservation' = Saved(reservation, obj)
  BY DEF Commit
<1>2. Dirty(obj) /\ reservation' = [reservation EXCEPT ![obj.id] = Written(@, obj)]
  BY <1>1 DEF Saved
<1>3. reservation \in [Reservations -> ReservationRow \cup {Unused, Deleted}] /\ s \in Session
  BY DEF SerialInv, IInv, TypeOK, StoreTypeOK
<1>4. /\ r = obj.id /\ reservation'[r] = Written(reservation[r], obj)
      /\ \A q \in Reservations \ {r} : reservation'[q] = reservation[q]
  BY <1>2, <1>3
<1>5. r # None /\ FreshUnit(w)
  BY SentinelAssumption DEF SerialInv, FreshUnits
<1>6. obj.new \in ReservationRow /\ obj.old \in ReservationRow \cup {Unused}
  BY <1>3, <1>4, <1>5 DEF Session, Object, NoObject
<1>7. CASE obj.old = Unused
  BY <1>4, <1>6, <1>7 DEF Written
<1>8. CASE obj.old # Unused
  <2>1. obj.old = reservation[r]
    BY <1>4, <1>5, <1>8 DEF FreshUnit
  <2>2. Written(reservation[r], obj) = obj.new
    BY <1>6, <1>8, <2>1 DEF Written, ReservationRow
  <2> QED
    BY <1>4, <1>6, <2>2
<1> QED
  BY <1>4, <1>7, <1>8

\* A place that does not overlap the others: seen from either side.
LEMMA OverlapsBothWays ==
    ASSUME NEW a, NEW b
    PROVE  Overlaps(a, b.check_in, b.check_out) <=> Overlaps(b, a.check_in, a.check_out)
BY DEF Overlaps

\* The commit writes a row that fits the calendar.
LEMMA SerialCommit ==
    ASSUME Serial, SerialInv, NEW w \in Workers, Commit(w)
    PROVE  (FreshUnits /\ NoDoubleBooking /\ AtLeastOneNight)'
<1>1. FreshUnits'
  <2>1. session'[w] = NoSession
    BY DEF Commit, SerialInv, IInv, TypeOK, StoreTypeOK
  <2> QED
    BY <2>1 DEF Serial, FreshUnits, FreshUnit, NoSession, Work, NoObject
<1>2. CASE \A r \in Reservations : reservation'[r] = reservation[r]
  BY <1>1, <1>2 DEF SerialInv, NoDoubleBooking, AtLeastOneNight, Blocks, FitsCalendar, Stored
<1>3. CASE \E r \in Reservations : reservation'[r] # reservation[r]
  <2>1. PICK r \in Reservations : reservation'[r] # reservation[r]
    BY <1>3
  <2> DEFINE new == session[w].res.new
  <2>2. /\ r = session[w].res.id /\ reservation'[r] = new
        /\ \A q \in Reservations \ {r} : reservation'[q] = reservation[q]
    BY <2>1, SerialWrite
  <2>3. /\ new.check_in < new.check_out
        /\ new.status \notin IGNORED_STATUSES => FitsCalendar(r, new)
    BY <2>2, SentinelAssumption DEF SerialInv, FreshUnits, FreshUnit
  <2>4. AtLeastOneNight'
    BY <2>2, <2>3 DEF SerialInv, AtLeastOneNight, Stored
  <2>5. ASSUME NEW q \in Reservations, Blocks(q)',
               NEW o \in Reservations \ {q}, Blocks(o)',
               reservation'[o].room = reservation'[q].room
        PROVE  ~Overlaps(reservation'[o], reservation'[q].check_in, reservation'[q].check_out)
    <3>1. CASE q = r
      <4>1. Blocks(o) /\ reservation[o].room = new.room /\ FitsCalendar(r, new)
        BY <2>2, <2>3, <2>5, <3>1 DEF Blocks, Stored
      <4> QED
        BY <2>2, <2>5, <3>1, <4>1 DEF FitsCalendar
    <3>2. CASE o = r
      <4>1. Blocks(q) /\ reservation[q].room = new.room /\ FitsCalendar(r, new)
        BY <2>2, <2>3, <2>5, <3>2 DEF Blocks, Stored
      <4>2. ~Overlaps(reservation[q], new.check_in, new.check_out)
        BY <2>5, <3>2, <4>1 DEF FitsCalendar
      <4> QED
        BY <2>2, <2>5, <3>2, <4>2, OverlapsBothWays
    <3>3. CASE q # r /\ o # r
      <4>1. Blocks(q) /\ Blocks(o) /\ reservation[o].room = reservation[q].room
        BY <2>2, <2>5, <3>3 DEF Blocks, Stored
      <4> QED
        BY <2>2, <2>5, <3>3, <4>1 DEF SerialInv, NoDoubleBooking, FitsCalendar
    <3> QED
      BY <3>1, <3>2, <3>3
  <2>6. NoDoubleBooking'
    BY <2>5 DEF NoDoubleBooking, FitsCalendar
  <2> QED
    BY <1>1, <2>4, <2>6
<1> QED
  BY <1>2, <1>3

\* A delete loads the reservation; the tables stay as they are.
LEMMA RemovalBegins ==
    ASSUME NEW w \in Workers, DeleteReservation(w)
    PROVE  \E r, work :
              /\ r \in Reservations /\ Stored(reservation, r)
              /\ SetSession(w, work)
              /\ work.op = "delete_reservation" /\ work.res = Loaded(reservation, r)
<1>1. PICK r \in Reservations :
        Stored(reservation, r) /\ SetSession(w, Removal(r, PaymentsOf(r)))
  BY DEF DeleteReservation
<1>2. /\ Removal(r, PaymentsOf(r)).op = "delete_reservation"
      /\ Removal(r, PaymentsOf(r)).res = Loaded(reservation, r)
  BY DEF Removal, Work
<1> QED
  BY <1>1, <1>2

\* Its DELETEs take locks; the reservation in the session stays the loaded one.
LEMMA RemovalGoesOn ==
    ASSUME SerialInv, NEW w \in Workers, EmptyReservation(w) \/ LockReservation(w)
    PROVE  \E work : /\ SetSession(w, work)
                     /\ work.op = "delete_reservation" /\ work.res = session[w].res
<1>1. session[w] \in Session /\ session[w].op = "delete_reservation"
  BY PhaseTellsOp DEF SerialInv, IInv, TypeOK, StoreTypeOK, EmptyReservation, LockReservation
<1>2. \A phase : /\ [session[w] EXCEPT !.phase = phase].op = "delete_reservation"
                 /\ [session[w] EXCEPT !.phase = phase].res = session[w].res
  BY <1>1 DEF Session
<1> QED
  BY <1>2 DEF EmptyReservation, LockReservation

\* Its commit takes one reservation out of the table and ends the request.
LEMMA RemovalEnds ==
    ASSUME SerialInv, NEW w \in Workers, CommitDelete(w)
    PROVE  /\ session'[w] = NoSession /\ room' = room /\ roomType' = roomType
           /\ \A q \in Reservations : Stored(reservation', q) =>
                 reservation'[q] = reservation[q] /\ Stored(reservation, q)
           /\ \E r \in Reservations :
                 /\ reservation[r] # Unused /\ reservation'[r] = Deleted
                 /\ \A q \in Reservations \ {r} : reservation'[q] = reservation[q]
<1>1. session[w].res.id \in Reservations /\ reservation[session[w].res.id] # Unused
  BY PhaseTellsOp DEF SerialInv, CommitDelete, Removing
<1>2. /\ session'[w] = NoSession /\ room' = room /\ roomType' = roomType
      /\ reservation' = [reservation EXCEPT ![session[w].res.id] = Deleted]
  BY DEF CommitDelete, SerialInv, IInv, TypeOK, StoreTypeOK
<1>3. /\ reservation'[session[w].res.id] = Deleted
      /\ \A q \in Reservations \ {session[w].res.id} : reservation'[q] = reservation[q]
  BY <1>1, <1>2 DEF SerialInv, IInv, TypeOK, StoreTypeOK
<1> QED
  BY <1>1, <1>2, <1>3 DEF Stored

\* delete_reservation up to its commit: the reservation it loaded has its place.
LEMMA SerialRemoval ==
    ASSUME Serial, SerialInv, NEW w \in Workers,
           DeleteReservation(w) \/ EmptyReservation(w) \/ LockReservation(w)
    PROVE  (FreshUnits /\ NoDoubleBooking /\ AtLeastOneNight)'
<1>1. CASE DeleteReservation(w)
  <2>1. PICK r, work :
          /\ r \in Reservations /\ Stored(reservation, r)
          /\ SetSession(w, work)
          /\ work.op = "delete_reservation" /\ work.res = Loaded(reservation, r)
    BY <1>1, RemovalBegins
  <2>2. /\ work.res.id = r /\ work.res.old = reservation[r] /\ work.res.new = reservation[r]
    BY <2>1 DEF Loaded
  <2>3. /\ reservation[r].check_in < reservation[r].check_out
        /\ reservation[r].status \notin IGNORED_STATUSES => FitsCalendar(r, reservation[r])
    BY <2>1, StoredFits
  <2> QED
    BY <2>1, <2>2, <2>3, SerialSession
<1>2. CASE EmptyReservation(w) \/ LockReservation(w)
  <2>1. PICK work : /\ SetSession(w, work)
                    /\ work.op = "delete_reservation" /\ work.res = session[w].res
    BY <1>2, RemovalGoesOn
  <2>2. FreshUnit(w)
    BY DEF SerialInv, FreshUnits
  <2> QED
    BY <2>1, <2>2, SerialSession DEF FreshUnit
<1> QED
  BY <1>1, <1>2

\* The commit of a delete only frees nights.
LEMMA SerialDelete ==
    ASSUME Serial, SerialInv, NEW w \in Workers, CommitDelete(w)
    PROVE  (FreshUnits /\ NoDoubleBooking /\ AtLeastOneNight)'
<1>1. /\ session'[w] = NoSession
      /\ \A q \in Reservations : Stored(reservation', q) =>
            reservation'[q] = reservation[q] /\ Stored(reservation, q)
  BY RemovalEnds
<1>2. FreshUnits'
  BY <1>1 DEF Serial, FreshUnits, FreshUnit, NoSession, Work, NoObject
<1>3. (NoDoubleBooking /\ AtLeastOneNight)'
  BY <1>1 DEF SerialInv, NoDoubleBooking, AtLeastOneNight, FitsCalendar, Blocks
<1> QED
  BY <1>2, <1>3

\* A step that changes neither the reservations nor, except to end it, the session.
LEMMA SerialElsewhere ==
    ASSUME Serial, SerialInv, reservation' = reservation,
           \A w \in Workers : session'[w] = session[w] \/ session'[w] = NoSession
    PROVE  (FreshUnits /\ NoDoubleBooking /\ AtLeastOneNight)'
<1>1. ASSUME NEW w \in Workers PROVE FreshUnit(w)'
  <2>1. FreshUnit(w)
    BY DEF SerialInv, FreshUnits
  <2>2. CASE session'[w] = session[w]
    BY <2>1, <2>2 DEF FreshUnit, FitsCalendar, Blocks, Stored
  <2>3. CASE session'[w] = NoSession
    BY <2>3 DEF FreshUnit, NoSession, Work, NoObject
  <2> QED
    BY <2>2, <2>3
<1>2. (NoDoubleBooking /\ AtLeastOneNight)'
  BY DEF SerialInv, NoDoubleBooking, AtLeastOneNight, FitsCalendar, Blocks, Stored
<1> QED
  BY <1>1, <1>2 DEF FreshUnits

\* Every step preserves the invariant.
LEMMA NextSerialInv == ASSUME Serial PROVE SerialInv /\ [Next]_vars => SerialInv'
<1> SUFFICES ASSUME SerialInv, [Next]_vars
             PROVE  (FreshUnits /\ NoDoubleBooking /\ AtLeastOneNight)'
  BY NextIInv DEF SerialInv
<1>1. ASSUME NEW w \in Workers, UpdateRoom(w) \/ UpdateRoomType(w)
      PROVE  (FreshUnits /\ NoDoubleBooking /\ AtLeastOneNight)'
  BY <1>1, SerialElsewhere DEF UpdateRoom, UpdateRoomType
<1>2. ASSUME NEW w \in Workers, Request(w)
      PROVE  (FreshUnits /\ NoDoubleBooking /\ AtLeastOneNight)'
  BY <1>1, <1>2, SerialCreate, SerialUpdate, SerialCancel, SerialRemoval, SerialCheckIn,
     SerialCheckOut, SerialCreatePayment, SerialLoad DEF Request
<1>3. ASSUME NEW w \in Workers, Rollback(w)
      PROVE  (FreshUnits /\ NoDoubleBooking /\ AtLeastOneNight)'
  <2>1. \A v \in Workers : session'[v] = session[v] \/ session'[v] = NoSession
    BY <1>3 DEF Rollback, SerialInv, IInv, TypeOK, StoreTypeOK
  <2> QED
    BY <1>3, <2>1, SerialElsewhere DEF Rollback, tables
<1>4. CASE Tick \/ UNCHANGED vars
  BY <1>4, SerialElsewhere DEF Tick, vars, tables
<1> QED
  BY <1>2, <1>3, <1>4, SerialFlush, SerialRemoval, SerialCommit, SerialDelete
  DEF Next, Advance

\* With requests served one at a time, the invariant holds in every reachable state.
LEMMA SerialInvariance == ASSUME Serial PROVE Spec => []SerialInv
<1>1. Init => SerialInv
  BY InitSerialInv
<1>2. SerialInv /\ [Next]_vars => SerialInv'
  BY NextSerialInv
<1> QED
  BY <1>1, <1>2, PTL DEF Spec

\* _validate_dates: every stored reservation has at least one night.
THEOREM SerialNights == ASSUME Serial PROVE Spec => []AtLeastOneNight
<1>1. SerialInv => AtLeastOneNight
  BY DEF SerialInv
<1> QED
  BY <1>1, SerialInvariance, PTL

\* _ensure_available: with requests served one at a time, and whatever
\* administrators do to rooms and room types, no room is ever promised to two active
\* reservations for one night.
THEOREM SerialCalendar == ASSUME Serial PROVE Spec => []NoDoubleBooking
<1>1. SerialInv => NoDoubleBooking
  BY DEF SerialInv
<1> QED
  BY <1>1, SerialInvariance, PTL

--------------------------------------------------------------------------------
\* The commit of a request moves one reservation along the state machine.
LEMMA StatusMove ==
    ASSUME NEW r \in Reservations,
           \A q \in Reservations \ {r} : reservation'[q] = reservation[q],
           NEW from, NEW to, StatusOf(r) \in from, StatusOf(r)' = to
    PROVE  LC!Move(r, from, to)
<1> DEFINE old == [q \in Reservations |-> StatusOf(q)]
           new == [q \in Reservations |-> StatusOf(q)']
<1>1. \A q \in Reservations \ {r} : StatusOf(q)' = StatusOf(q)
  BY DEF StatusOf
<1>2. new = [old EXCEPT ![r] = to]
  BY <1>1
<1>3. old[r] \in from
  OBVIOUS
<1> QED
  BY <1>2, <1>3 DEF LC!Move

\* A commit moves the reservation it writes as the state machine allows, or not at all.
LEMMA SerialCommitMoves ==
    ASSUME Serial, SerialInv, NEW w \in Workers, Commit(w), NEW r \in Reservations,
           reservation'[r] # reservation[r]
    PROVE  LC!Next \/ StatusOf(r)' = StatusOf(r)
<1> DEFINE s == session[w]
           new == s.res.new
<1>1. /\ r = s.res.id /\ reservation'[r] = new /\ new \in ReservationRow
      /\ \A q \in Reservations \ {r} : reservation'[q] = reservation[q]
  BY SerialWrite
<1>2. StatusOf(r)' = new.status
  BY <1>1, SentinelAssumption DEF StatusOf
<1>3. \A from, to : StatusOf(r) \in from /\ new.status = to => LC!Move(r, from, to)
  BY <1>1, <1>2, StatusMove
<1>4. FreshUnit(w) /\ r # None
  BY SentinelAssumption DEF SerialInv, FreshUnits
<1>5. ASSUME s.res.old \in ReservationRow
      PROVE  s.res.old = reservation[r] /\ StatusOf(r) = s.res.old.status
  BY <1>1, <1>4, <1>5, SentinelAssumption DEF FreshUnit, StatusOf
<1>6. CASE s.op = "create_reservation"
  <2>1. StatusOf(r) = "none" /\ new.status = "pending"
    BY <1>1, <1>6, Committing DEF SerialInv, Inserting, StatusOf
  <2> QED
    BY <1>3, <2>1 DEF LC!Next, LC!Book
<1>7. CASE s.op = "update_reservation"
  BY <1>2, <1>5, <1>7, Committing DEF SerialInv, Rewriting
<1>8. CASE s.op = "cancel_reservation"
  <2>1. StatusOf(r) \in {"pending", "confirmed"} /\ new.status = "cancelled"
    BY <1>1, <1>4, <1>5, <1>8, Committing DEF SerialInv, Rewriting, FreshUnit
  <2> QED
    BY <1>3, <2>1 DEF LC!Next, LC!Cancel
<1>9. CASE s.op = "check_in"
  <2>1. StatusOf(r) = "confirmed" /\ new.status = "checked_in"
    BY <1>5, <1>9, Committing DEF SerialInv, Moving, Arrived, ReservationRow
  <2> QED
    BY <1>3, <2>1 DEF LC!Next, LC!Arrive
<1>10. CASE s.op = "check_out"
  <2>1. StatusOf(r) = "checked_in" /\ new.status = "checked_out"
    BY <1>5, <1>10, Committing DEF SerialInv, Moving, Departed, ReservationRow
  <2> QED
    BY <1>3, <2>1 DEF LC!Next, LC!Depart
<1>11. CASE s.op = "create_payment"
  BY <1>1, <1>4, <1>11, Committing DEF SerialInv, Paying, NoObject
<1>12. CASE s.op \in {"process_payment", "refund_payment"}
  <2>1. Settling(w)
    BY <1>12, Committing DEF SerialInv
  <2>2. CASE new = s.res.old
    BY <1>2, <1>5, <2>1, <2>2 DEF Settling
  <2>3. CASE s.res.old.status = "pending" /\ new = [s.res.old EXCEPT !.status = "confirmed"]
    <3>1. StatusOf(r) = "pending" /\ new.status = "confirmed"
      BY <1>5, <2>1, <2>3 DEF Settling, ReservationRow
    <3> QED
      BY <1>3, <3>1 DEF LC!Next, LC!Confirm
  <2>4. CASE s.res.old.status = "confirmed" /\ new = [s.res.old EXCEPT !.status = "pending"]
    <3>1. StatusOf(r) = "confirmed" /\ new.status = "pending"
      BY <1>5, <2>1, <2>4 DEF Settling, ReservationRow
    <3> QED
      BY <1>3, <3>1 DEF LC!Next, LC!Unconfirm
  <2> QED
    BY <2>1, <2>2, <2>3, <2>4 DEF Settling, ReservationMove
<1> QED
  BY <1>6, <1>7, <1>8, <1>9, <1>10, <1>11, <1>12, Committing DEF SerialInv

\* The commit of a delete is the state machine's removal.
LEMMA SerialDeleteMoves ==
    ASSUME SerialInv, NEW w \in Workers, CommitDelete(w), NEW o \in Reservations
    PROVE  LC!Next \/ StatusOf(o)' = StatusOf(o)
<1>1. PICK r \in Reservations :
        /\ reservation[r] # Unused /\ reservation'[r] = Deleted
        /\ \A q \in Reservations \ {r} : reservation'[q] = reservation[q]
  BY RemovalEnds
<1>2. CASE reservation'[o] = reservation[o]
  BY <1>2 DEF StatusOf
<1>3. CASE reservation'[o] # reservation[o]
  <2>1. StatusOf(r)' = "deleted"
    BY <1>1, SentinelAssumption DEF StatusOf
  <2>2. Stored(reservation, r)
    BY <1>1, <1>3 DEF Stored
  <2>3. StatusOf(r) \in RESERVATION_STATUSES
    BY <2>2, StoredFits DEF StatusOf, Stored, ReservationRow
  <2>4. LC!Move(r, RESERVATION_STATUSES, "deleted")
    BY <1>1, <2>1, <2>3, StatusMove
  <2> QED
    BY <2>4 DEF LC!Next, LC!Remove, RESERVATION_STATUSES
<1> QED
  BY <1>2, <1>3

\* Every step is a step of the state machine or a stutter of it.
LEMMA SerialNextMoves ==
    ASSUME Serial
    PROVE  SerialInv /\ [Next]_vars => [LC!Next]_([r \in Reservations |-> StatusOf(r)])
<1> SUFFICES ASSUME SerialInv, [Next]_vars
             PROVE  \/ LC!Next
                    \/ [r \in Reservations |-> StatusOf(r)'] = [r \in Reservations |-> StatusOf(r)]
  OBVIOUS
<1>1. CASE \A r \in Reservations : StatusOf(r)' = StatusOf(r)
  BY <1>1
<1>2. ASSUME NEW r \in Reservations, StatusOf(r)' # StatusOf(r) PROVE LC!Next
  <2>1. reservation'[r] # reservation[r]
    BY <1>2 DEF StatusOf
  <2>2. \/ \E w \in Workers : CommitDelete(w)
        \/ \E w \in Workers : Commit(w)
    BY <2>1, OnlyCommitsWrite DEF Next, vars, tables, Tick
  <2> QED
    BY <1>2, <2>1, <2>2, SerialDeleteMoves, SerialCommitMoves
<1> QED
  BY <1>1, <1>2

\* With requests served one at a time the controllers implement the documented
\* life cycle of a reservation.
THEOREM SerialRefinement ==
    ASSUME Serial
    PROVE  Spec => FollowsLifecycle
<1>1. Init => LC!Init
  BY DEF Init, StoreInit, LC!Init, StatusOf
<1>2. Init => SerialInv
  BY InitSerialInv
<1>3. SerialInv /\ [Next]_vars => SerialInv'
  BY NextSerialInv
<1>4. SerialInv /\ [Next]_vars => [LC!Next]_([r \in Reservations |-> StatusOf(r)])
  BY SerialNextMoves
<1> QED
  BY <1>1, <1>2, <1>3, <1>4, PTL DEF Spec, FollowsLifecycle, LC!Spec

--------------------------------------------------------------------------------
(****************************************************************************)
(* Rooms and stays agree, and stored totals are the price of the nights.    *)
(* check_in and check_out read the room without a lock, so the argument is  *)
(* that nothing else wrote it: no other request is in flight, and           *)
(* administrators leave the rooms alone.                                    *)
(****************************************************************************)

NoRoomUpdates == "update_room" \notin Ops

NoDeletes == "delete_reservation" \notin Ops

NoPriceUpdates == "update_room_type" \notin Ops

\* A check-in or check-out in flight holds the room of its reservation, as it is.
HeldRoom(w) ==
    LET s == session[w]
    IN  s.op \in {"check_in", "check_out"} =>
            /\ s.rm.id = s.res.old.room
            /\ s.rm.old = room[s.rm.id]
            /\ s.op = "check_in" =>
                  /\ s.rm.old.status = "available"
                  /\ s.rm.new = [s.rm.old EXCEPT !.status = "occupied"]
            /\ s.op = "check_out" =>
                  s.rm.new = [s.rm.old EXCEPT !.status = VacatedStatus(@)]

HeldInv ==
    /\ SerialInv
    /\ \A w \in Workers : HeldRoom(w)

\* A request that is no check-in or check-out holds no room.
LEMMA NothingHeld ==
    ASSUME Serial, NEW w \in Workers, session'[w].op \notin {"check_in", "check_out"}
    PROVE  (\A v \in Workers : HeldRoom(v))'
BY DEF Serial, HeldRoom

\* check_in holds the room of its reservation, which it found available.
LEMMA ArrivalHolds ==
    ASSUME Serial, HeldInv, NEW w \in Workers, CheckIn(w)
    PROVE  (\A v \in Workers : HeldRoom(v))'
<1>1. PICK r \in Reservations :
        /\ Stored(reservation, r)
        /\ room[reservation[r].room].status = "available"
        /\ SetSession(w, Work("check_in", "ready",
                Changed(reservation, r, Arrived(reservation[r])), NoObject,
                Changed(room, reservation[r].room,
                    [room[reservation[r].room] EXCEPT !.status = "occupied"])))
  BY DEF CheckIn
<1> DEFINE m == reservation[r].room
           work == Work("check_in", "ready", Changed(reservation, r, Arrived(reservation[r])),
                        NoObject, Changed(room, m, [room[m] EXCEPT !.status = "occupied"]))
<1>2. session'[w] = work /\ room' = room
  BY <1>1, OwnSession DEF HeldInv, SerialInv, IInv
<1>3. /\ work.op = "check_in" /\ work.rm.id = m /\ work.rm.old = room[m]
      /\ work.rm.new = [room[m] EXCEPT !.status = "occupied"] /\ work.res.old = reservation[r]
  BY DEF Work, Changed
<1> HIDE DEF work
<1>4. HeldRoom(w)'
  BY <1>1, <1>2, <1>3 DEF HeldRoom
<1> QED
  BY <1>4 DEF Serial

\* check_out holds the room of its reservation, to be vacated.
LEMMA DepartureHolds ==
    ASSUME Serial, HeldInv, NEW w \in Workers, CheckOut(w)
    PROVE  (\A v \in Workers : HeldRoom(v))'
<1>1. PICK r \in Reservations :
        /\ Stored(reservation, r)
        /\ SetSession(w, Work("check_out", "ready",
                Changed(reservation, r, Departed(reservation[r])), NoObject,
                Changed(room, reservation[r].room,
                    [room[reservation[r].room] EXCEPT !.status = VacatedStatus(@)])))
  BY DEF CheckOut
<1> DEFINE m == reservation[r].room
           work == Work("check_out", "ready", Changed(reservation, r, Departed(reservation[r])),
                        NoObject, Changed(room, m, [room[m] EXCEPT !.status = VacatedStatus(@)]))
<1>2. session'[w] = work /\ room' = room
  BY <1>1, OwnSession DEF HeldInv, SerialInv, IInv
<1>3. /\ work.op = "check_out" /\ work.rm.id = m /\ work.rm.old = room[m]
      /\ work.rm.new = [room[m] EXCEPT !.status = VacatedStatus(@)]
      /\ work.res.old = reservation[r]
  BY DEF Work, Changed
<1> HIDE DEF work
<1>4. HeldRoom(w)'
  BY <1>1, <1>2, <1>3 DEF HeldRoom
<1> QED
  BY <1>4 DEF Serial

\* Every step preserves the invariant.
LEMMA NextHeldInv ==
    ASSUME Serial, NoRoomUpdates PROVE HeldInv /\ [Next]_vars => HeldInv'
<1> SUFFICES ASSUME HeldInv, [Next]_vars PROVE (\A w \in Workers : HeldRoom(w))'
  BY NextSerialInv DEF HeldInv
<1>1. CASE session' = session /\ room' = room
  BY <1>1 DEF HeldInv, HeldRoom
<1>2. ASSUME NEW w \in Workers, NEW work, SetSession(w, work),
             work.op \notin {"check_in", "check_out"}
      PROVE  (\A v \in Workers : HeldRoom(v))'
  BY <1>2, OwnSession, NothingHeld DEF HeldInv, SerialInv, IInv
<1>3. ASSUME NEW w \in Workers, NEW op, op \notin {"check_in", "check_out"},
             NEW phase, NEW res, NEW pay, NEW rm, SetSession(w, Work(op, phase, res, pay, rm))
      PROVE  (\A v \in Workers : HeldRoom(v))'
  <2>1. Work(op, phase, res, pay, rm).op = op BY DEF Work
  <2> QED BY <1>2, <1>3, <2>1
<1>4. ASSUME NEW w \in Workers,
             CreateReservation(w) \/ UpdateReservation(w) \/ CancelReservation(w)
      PROVE  (\A v \in Workers : HeldRoom(v))'
  <2>1. CASE CreateReservation(w)
    <3>1. PICK res : SetSession(w, Work("create_reservation", "ready", res, NoObject, NoObject))
      BY <2>1 DEF CreateReservation
    <3> QED BY <1>3, <3>1
  <2>2. CASE UpdateReservation(w)
    <3>1. PICK res : SetSession(w, Work("update_reservation", "ready", res, NoObject, NoObject))
      BY <2>2 DEF UpdateReservation
    <3> QED BY <1>3, <3>1
  <2>3. CASE CancelReservation(w)
    <3>1. PICK res : SetSession(w, Work("cancel_reservation", "ready", res, NoObject, NoObject))
      BY <2>3 DEF CancelReservation
    <3> QED BY <1>3, <3>1
  <2> QED BY <1>4, <2>1, <2>2, <2>3
<1>5. ASSUME NEW w \in Workers, CreatePayment(w) \/ ProcessPayment(w) \/ RefundPayment(w)
      PROVE  (\A v \in Workers : HeldRoom(v))'
  BY <1>3, <1>5 DEF CreatePayment, ProcessPayment, RefundPayment
<1>6. ASSUME NEW w \in Workers, FlushPayment(w)
      PROVE  (\A v \in Workers : HeldRoom(v))'
  <2>1. session[w].op \notin {"check_in", "check_out"}
    BY <1>6 DEF FlushPayment, HeldInv, SerialInv, IInv, UnitsOfWork, UnitOfWork, Moving
  <2> QED
    BY <1>3, <1>6, <2>1 DEF FlushPayment
<1>7. ASSUME NEW w \in Workers, Commit(w) \/ CommitDelete(w) \/ Rollback(w)
      PROVE  (\A v \in Workers : HeldRoom(v))'
  <2>1. session'[w] = NoSession
    BY <1>7, RemovalEnds DEF Commit, Rollback, HeldInv, SerialInv, IInv, TypeOK, StoreTypeOK
  <2> QED
    BY <2>1, NothingHeld DEF NoSession, Work
<1>8. ASSUME NEW w \in Workers,
             DeleteReservation(w) \/ EmptyReservation(w) \/ LockReservation(w)
      PROVE  (\A v \in Workers : HeldRoom(v))'
  <2>1. PICK work : SetSession(w, work) /\ work.op = "delete_reservation"
    BY <1>8, RemovalBegins, RemovalGoesOn DEF HeldInv
  <2> QED
    BY <1>2, <2>1
<1>9. ASSUME NEW w \in Workers, UpdateRoomType(w)
      PROVE  (\A v \in Workers : HeldRoom(v))'
  BY <1>1, <1>9 DEF UpdateRoomType
<1> QED
  BY <1>1, <1>6, <1>7, <1>8, <1>9, <1>4, <1>5, ArrivalHolds, DepartureHolds
  DEF Next, Request, Advance, UpdateRoom, NoRoomUpdates, Tick, vars, tables

\* The empty database satisfies it.
LEMMA InitHeldInv == Init => HeldInv
<1> SUFFICES ASSUME Init PROVE \A w \in Workers : HeldRoom(w)
  BY InitSerialInv DEF HeldInv
<1> QED
  BY DEF Init, StoreInit, HeldRoom, NoSession, Work

\* With requests served one at a time and no updates of rooms, the invariant holds.
LEMMA HeldInvariance == ASSUME Serial, NoRoomUpdates PROVE Spec => []HeldInv
BY InitHeldInv, NextHeldInv, PTL DEF Spec

--------------------------------------------------------------------------------
(****************************************************************************)
(* Rooms and stays.                                                         *)
(****************************************************************************)
Stays(r) == Stored(reservation, r) /\ reservation[r].status = "checked_in"

\* RoomMatchesStay without counting.
Agree ==
    /\ \A r \in Reservations : Stays(r) => room[reservation[r].room].status = "occupied"
    /\ \A q, r \in Reservations :
          Stays(q) /\ Stays(r) /\ reservation[q].room = reservation[r].room => q = r
    /\ \A m \in Rooms : room[m].status = "occupied" =>
          \E r \in Reservations : Stays(r) /\ reservation[r].room = m

\* Stays that stay where they are, in rooms that do not change.
LEMMA AgreeKept ==
    ASSUME Agree, room' = room,
           \A r \in Reservations : Stays(r)' <=> Stays(r),
           \A r \in Reservations : Stays(r) => reservation'[r].room = reservation[r].room
    PROVE  Agree'
<1>1. ASSUME NEW r \in Reservations, Stays(r)'
      PROVE  room'[reservation'[r].room].status = "occupied"
  BY <1>1 DEF Agree
<1>2. ASSUME NEW q \in Reservations, NEW r \in Reservations, Stays(q)', Stays(r)',
             reservation'[q].room = reservation'[r].room
      PROVE  q = r
  BY <1>2 DEF Agree
<1>3. ASSUME NEW m \in Rooms, room'[m].status = "occupied"
      PROVE  \E r \in Reservations : Stays(r)' /\ reservation'[r].room = m
  BY <1>3 DEF Agree
<1> QED
  BY <1>1, <1>2, <1>3 DEF Agree, Stays, Stored

\* What the commit of a check-in or check-out writes.
LEMMA MovesWrite ==
    ASSUME Serial, HeldInv, NEW w \in Workers, Commit(w),
           session[w].op \in {"check_in", "check_out"}
    PROVE  \E r \in Reservations, m \in Rooms :
              /\ reservation[r] \in ReservationRow /\ reservation[r].room = m
              /\ \A q \in Reservations \ {r} : reservation'[q] = reservation[q]
              /\ room[m] \in RoomRow
              /\ IF session[w].op = "check_in"
                 THEN /\ reservation[r].status = "confirmed"
                      /\ reservation'[r] = Arrived(reservation[r])
                      /\ room[m].status = "available"
                      /\ room' = [room EXCEPT ![m].status = "occupied"]
                 ELSE /\ reservation[r].status = "checked_in"
                      /\ reservation'[r] = Departed(reservation[r])
                      /\ room' = [room EXCEPT ![m].status = VacatedStatus(@)]
<1> DEFINE s == session[w]
           r == s.res.id
           m == s.rm.id
<1>1. /\ Moving(w) /\ s.op \in {"check_in", "check_out"} /\ HeldRoom(w)
      /\ reservation \in [Reservations -> ReservationRow \cup {Unused, Deleted}]
      /\ room \in [Rooms -> RoomRow]
  BY Committing DEF HeldInv, SerialInv, IInv, TypeOK, StoreTypeOK
<1>2. /\ r \in Reservations /\ m \in Rooms /\ s.res.old = reservation[r]
      /\ s.res.old \in ReservationRow /\ s.rm.old = room[m] /\ m = reservation[r].room
      /\ s.rm.new \in RoomRow
  BY <1>1 DEF Moving, HeldRoom
<1>3. /\ reservation'[r] = s.res.new
      /\ \A q \in Reservations \ {r} : reservation'[q] = reservation[q]
  <2>1. ASSUME NEW q \in Reservations, reservation'[q] # reservation[q]
        PROVE  q = r /\ reservation'[q] = s.res.new
    BY <2>1, SerialWrite DEF HeldInv
  <2>2. s.res.new # reservation[r]
    BY <1>1, <1>2 DEF Moving, Arrived, Departed, ReservationRow
  <2>3. reservation' = [reservation EXCEPT ![r] = Written(@, s.res)]
    BY <1>2, <2>2 DEF Commit, Saved, Dirty
  <2>4. s.res.old # Unused
    BY <1>2, SentinelAssumption
  <2>5. s.res.new \in ReservationRow
    BY <1>1, <1>2 DEF Moving, Arrived, Departed, ReservationRow, RESERVATION_STATUSES
  <2>6. Written(reservation[r], s.res) = s.res.new
    BY <1>2, <2>4, <2>5 DEF Written, ReservationRow
  <2> QED BY <1>1, <1>2, <2>3, <2>6
<1>4. room' = [room EXCEPT ![m] = s.rm.new]
  <2>1. CASE s.rm.new = s.rm.old
    BY <1>1, <1>2, <2>1 DEF Commit, Saved, Dirty
  <2>2. CASE s.rm.new # s.rm.old
    <3>1. room' = [room EXCEPT ![m] = Written(@, s.rm)]
      BY <2>2 DEF Commit, Saved, Dirty
    <3>2. Written(room[m], s.rm) = s.rm.new
      <4>1. CASE s.rm.old = Unused BY <4>1 DEF Written
      <4>2. CASE s.rm.old # Unused
        BY <1>1, <1>2, <4>2 DEF Written, RoomRow
      <4> QED BY <4>1, <4>2
    <3> QED BY <1>1, <1>2, <3>1, <3>2
  <2> QED BY <2>1, <2>2
<1>5. CASE s.op = "check_in"
  <2>1. /\ reservation[r].status = "confirmed" /\ s.res.new = Arrived(reservation[r])
        /\ room[m].status = "available" /\ s.rm.new = [room[m] EXCEPT !.status = "occupied"]
    BY <1>1, <1>2, <1>5 DEF Moving, HeldRoom
  <2>2. room' = [room EXCEPT ![m].status = "occupied"]
    BY <1>4, <2>1
  <2> QED BY <1>1, <1>2, <1>3, <1>5, <2>1, <2>2
<1>6. CASE s.op = "check_out"
  <2>1. /\ reservation[r].status = "checked_in" /\ s.res.new = Departed(reservation[r])
        /\ s.rm.new = [room[m] EXCEPT !.status = VacatedStatus(@)]
    BY <1>1, <1>2, <1>6 DEF Moving, HeldRoom
  <2>2. room' = [room EXCEPT ![m].status = VacatedStatus(@)]
    BY <1>4, <2>1
  <2> QED BY <1>1, <1>2, <1>3, <1>6, <2>1, <2>2
<1> QED BY <1>1, <1>5, <1>6

\* check_in fills an empty room, check_out empties a full one.
LEMMA MovesAgree ==
    ASSUME Serial, HeldInv, Agree, NEW w \in Workers, Commit(w),
           session[w].op \in {"check_in", "check_out"}
    PROVE  Agree'
<1>1. PICK r \in Reservations, m \in Rooms :
        /\ reservation[r] \in ReservationRow /\ reservation[r].room = m
        /\ \A q \in Reservations \ {r} : reservation'[q] = reservation[q]
        /\ room[m] \in RoomRow
        /\ IF session[w].op = "check_in"
           THEN /\ reservation[r].status = "confirmed"
                /\ reservation'[r] = Arrived(reservation[r])
                /\ room[m].status = "available"
                /\ room' = [room EXCEPT ![m].status = "occupied"]
           ELSE /\ reservation[r].status = "checked_in"
                /\ reservation'[r] = Departed(reservation[r])
                /\ room' = [room EXCEPT ![m].status = VacatedStatus(@)]
  BY MovesWrite
<1>2. room \in [Rooms -> RoomRow]
      /\ reservation \in [Reservations -> ReservationRow \cup {Unused, Deleted}]
  BY DEF HeldInv, SerialInv, IInv, TypeOK, StoreTypeOK
<1>3. \A q \in Reservations \ {r} : (Stays(q)' <=> Stays(q))
  BY <1>1 DEF Stays, Stored
<1>4. \A q \in Reservations : Stays(q) => reservation[q].room \in Rooms
  BY <1>2 DEF Stays, Stored, ReservationRow
<1>5. Stored(reservation, r)
  BY <1>1, SentinelAssumption DEF Stored
<1>6. CASE session[w].op = "check_in"
  <2>1. /\ reservation'[r].status = "checked_in" /\ reservation'[r].room = m
        /\ reservation'[r] \in ReservationRow
    BY <1>1, <1>6 DEF Arrived, ReservationRow, RESERVATION_STATUSES
  <2>2. Stays(r)'
    BY <2>1, SentinelAssumption DEF Stays, Stored
  <2>3. /\ room'[m].status = "occupied"
        /\ \A k \in Rooms \ {m} : room'[k] = room[k]
    BY <1>1, <1>2, <1>6 DEF RoomRow
  <2>4. \A q \in Reservations : Stays(q) => reservation[q].room # m
    BY <1>1, <1>6 DEF Agree
  <2>5. ASSUME NEW q \in Reservations, Stays(q)'
        PROVE  room'[reservation'[q].room].status = "occupied"
    BY <1>1, <1>3, <1>4, <2>1, <2>3, <2>5 DEF Agree
  <2>6. ASSUME NEW q \in Reservations, NEW o \in Reservations, Stays(q)', Stays(o)',
               reservation'[q].room = reservation'[o].room
        PROVE  q = o
    BY <1>1, <1>3, <2>1, <2>4, <2>6 DEF Agree
  <2>7. ASSUME NEW k \in Rooms, room'[k].status = "occupied"
        PROVE  \E q \in Reservations : Stays(q)' /\ reservation'[q].room = k
    <3>1. CASE k = m BY <2>1, <2>2, <3>1
    <3>2. CASE k # m
      <4>1. PICK q \in Reservations : Stays(q) /\ reservation[q].room = k
        BY <2>3, <2>7, <3>2 DEF Agree
      <4>2. q # r BY <1>1, <1>6, <4>1 DEF Stays
      <4> QED BY <1>1, <1>3, <4>1, <4>2
    <3> QED BY <3>1, <3>2
  <2> QED BY <2>5, <2>6, <2>7 DEF Agree, Stays, Stored
<1>7. CASE session[w].op = "check_out"
  <2>1. /\ reservation'[r].status = "checked_out" /\ Stays(r)
    BY <1>1, <1>5, <1>7 DEF Departed, ReservationRow, Stays
  <2>2. ~Stays(r)'
    BY <2>1 DEF Stays
  <2>3. room[m].status = "occupied"
    BY <1>1, <2>1 DEF Agree
  <2>4. /\ room'[m].status = "available"
        /\ \A k \in Rooms \ {m} : room'[k] = room[k]
    BY <1>1, <1>2, <1>7, <2>3 DEF RoomRow, VacatedStatus
  <2>5. ASSUME NEW q \in Reservations, Stays(q)'
        PROVE  room'[reservation'[q].room].status = "occupied"
    <3>1. q # r /\ Stays(q) BY <1>3, <2>2, <2>5
    <3>2. reservation[q].room # m BY <1>1, <2>1, <3>1 DEF Agree
    <3> QED BY <1>1, <1>4, <2>4, <3>1, <3>2 DEF Agree
  <2>6. ASSUME NEW q \in Reservations, NEW o \in Reservations, Stays(q)', Stays(o)',
               reservation'[q].room = reservation'[o].room
        PROVE  q = o
    BY <1>1, <1>3, <2>2, <2>6 DEF Agree
  <2>7. ASSUME NEW k \in Rooms, room'[k].status = "occupied"
        PROVE  \E q \in Reservations : Stays(q)' /\ reservation'[q].room = k
    <3>1. k # m BY <2>4, <2>7
    <3>2. PICK q \in Reservations : Stays(q) /\ reservation[q].room = k
      BY <2>4, <2>7, <3>1 DEF Agree
    <3> QED BY <1>1, <1>3, <3>1, <3>2
  <2> QED BY <2>5, <2>6, <2>7 DEF Agree, Stays, Stored
<1> QED BY <1>6, <1>7

\* A commit that is no check-in or check-out writes no room, and moves nobody in or out.
LEMMA OthersAgree ==
    ASSUME Serial, HeldInv, Agree, NEW w \in Workers, Commit(w),
           session[w].op \notin {"check_in", "check_out"}
    PROVE  Agree'
<1> DEFINE s == session[w]
<1>1. room' = room
  <2>1. s.rm = NoObject
    BY Committing DEF HeldInv, SerialInv, Inserting, Rewriting, Paying, Settling
  <2> QED BY <2>1 DEF Commit, Saved, Dirty, NoObject
<1>2. ASSUME NEW r \in Reservations
      PROVE  /\ Stays(r)' <=> Stays(r)
             /\ Stays(r) => reservation'[r].room = reservation[r].room
  <2>1. CASE reservation'[r] = reservation[r]
    BY <2>1 DEF Stays, Stored
  <2>2. CASE reservation'[r] # reservation[r]
    <3>1. /\ r = s.res.id /\ reservation'[r] = s.res.new /\ s.res.new \in ReservationRow
          /\ FreshUnit(w) /\ r # None
      BY <2>2, SerialWrite, SentinelAssumption DEF HeldInv, SerialInv, FreshUnits
    <3>2. CASE s.op = "create_reservation"
      BY <3>1, <3>2, Committing DEF HeldInv, SerialInv, Inserting, Stays, Stored
    <3>3. ASSUME s.res.old \in ReservationRow
          PROVE  s.res.old = reservation[r] /\ s.res.new.room = reservation[r].room
      BY <3>1, <3>3, SentinelAssumption DEF FreshUnit
    <3>4. CASE s.op = "update_reservation"
      <4>1. s.res.old \in ReservationRow /\ s.res.new.status = s.res.old.status
        BY <3>4, Committing DEF HeldInv, SerialInv, Rewriting
      <4> QED BY <3>1, <3>3, <4>1, SentinelAssumption DEF Stays, Stored
    <3>5. CASE s.op = "cancel_reservation"
      <4>1. /\ s.res.old \in ReservationRow /\ s.res.new.status = "cancelled"
            /\ s.res.old.status \in {"pending", "confirmed"}
        BY <3>1, <3>5, Committing, SentinelAssumption DEF HeldInv, SerialInv, Rewriting, FreshUnit
      <4> QED BY <3>1, <3>3, <4>1 DEF Stays
    <3>6. CASE s.op = "create_payment"
      BY <3>1, <3>6, Committing DEF HeldInv, SerialInv, Paying, NoObject
    <3>7. CASE s.op \in {"process_payment", "refund_payment"}
      <4>1. /\ s.res.old \in ReservationRow
            /\ \/ s.res.new = s.res.old
               \/ /\ s.res.old.status \in {"pending", "confirmed"}
                  /\ s.res.new.status \in {"pending", "confirmed"}
        BY <3>7, Committing DEF HeldInv, SerialInv, Settling, ReservationMove, ReservationRow
      <4> QED BY <3>1, <3>3, <4>1, SentinelAssumption DEF Stays, Stored
    <3> QED BY <3>2, <3>4, <3>5, <3>6, <3>7, Committing DEF HeldInv, SerialInv
  <2> QED BY <2>1, <2>2
<1> QED BY <1>1, <1>2, AgreeKept

\* Every step keeps rooms and stays in agreement.
LEMMA NextAgree ==
    ASSUME Serial, NoRoomUpdates, NoDeletes PROVE HeldInv /\ Agree /\ [Next]_vars => Agree'
<1> SUFFICES ASSUME HeldInv, Agree, [Next]_vars PROVE Agree'
  OBVIOUS
<1>1. CASE reservation' = reservation /\ room' = room
  BY <1>1, AgreeKept DEF Stays, Stored
<1>2. ASSUME NEW w \in Workers, Commit(w) PROVE Agree'
  BY <1>2, MovesAgree, OthersAgree
<1>3. ASSUME NEW w \in Workers, NEW work, SetSession(w, work) PROVE Agree'
  BY <1>1, <1>3 DEF SetSession, tables
<1>4. ASSUME NEW w \in Workers, Request(w) PROVE Agree'
  <2>1. CASE CreateReservation(w) BY <1>3, <2>1 DEF CreateReservation
  <2>2. CASE UpdateReservation(w) BY <1>3, <2>2 DEF UpdateReservation
  <2>3. CASE CancelReservation(w) BY <1>3, <2>3 DEF CancelReservation
  <2>4. CASE CheckIn(w) BY <1>3, <2>4 DEF CheckIn
  <2>5. CASE CheckOut(w) BY <1>3, <2>5 DEF CheckOut
  <2>6. CASE CreatePayment(w) BY <1>3, <2>6 DEF CreatePayment
  <2>7. CASE ProcessPayment(w) BY <1>3, <2>7 DEF ProcessPayment
  <2>8. CASE RefundPayment(w) BY <1>3, <2>8 DEF RefundPayment
  <2>9. CASE UpdateRoomType(w) BY <1>1, <2>9 DEF UpdateRoomType
  <2>10. ~UpdateRoom(w) /\ ~DeleteReservation(w)
    BY DEF UpdateRoom, DeleteReservation, NoRoomUpdates, NoDeletes
  <2> QED
    BY <1>4, <2>1, <2>2, <2>3, <2>4, <2>5, <2>6, <2>7, <2>8, <2>9, <2>10 DEF Request
<1>5. ASSUME NEW w \in Workers, Advance(w), ~Commit(w) PROVE Agree'
  <2>1. ~CommitDelete(w)
    <3>1. session[w] \in Session
      BY DEF HeldInv, SerialInv, IInv, TypeOK, StoreTypeOK
    <3> QED
      BY <3>1, PhaseTellsOp DEF CommitDelete, HeldInv, SerialInv, NoDeletes, Session
  <2> QED
    BY <1>3, <1>5, <2>1 DEF Advance, FlushPayment, EmptyReservation, LockReservation
<1>6. ASSUME NEW w \in Workers, Rollback(w) PROVE Agree'
  BY <1>1, <1>6 DEF Rollback, tables
<1>7. CASE Tick \/ UNCHANGED vars
  BY <1>1, <1>7 DEF Tick, vars, tables
<1> QED BY <1>2, <1>4, <1>5, <1>6, <1>7 DEF Next

\* Agreement in the terms of the checked property.
LEMMA AgreeCounts == Agree => RoomMatchesStay
<1> SUFFICES ASSUME Agree, NEW m \in Rooms
             PROVE  Cardinality(Staying(m)) = IF room[m].status = "occupied" THEN 1 ELSE 0
  BY DEF RoomMatchesStay
<1>1. Staying(m) = {r \in Reservations : Stays(r) /\ reservation[r].room = m}
  BY DEF Staying, Stays
<1>2. CASE room[m].status = "occupied"
  <2>1. PICK r \in Reservations : Stays(r) /\ reservation[r].room = m
    BY <1>2 DEF Agree
  <2>2. \A q \in Reservations : Stays(q) /\ reservation[q].room = m => q = r
    BY <2>1 DEF Agree
  <2>3. Staying(m) = {r}
    BY <1>1, <2>1, <2>2
  <2> QED BY <1>2, <2>3, FS_Singleton
<1>3. CASE room[m].status # "occupied"
  <2>1. Staying(m) = {}
    BY <1>1, <1>3 DEF Agree
  <2> QED BY <1>3, <2>1, FS_EmptySet
<1> QED BY <1>2, <1>3

\* check_in: "reservation and room never disagree".  With requests served one at a time,
\* and as long as administrators neither write rooms nor delete reservations, a room is
\* occupied exactly when one reservation is checked in to it.
THEOREM SerialOccupancy ==
    ASSUME Serial, NoRoomUpdates, NoDeletes PROVE Spec => []RoomMatchesStay
<1>1. Init => Agree
  BY DEF Init, StoreInit, Agree, Stays, Stored
<1>2. HeldInv /\ Agree /\ [Next]_vars => Agree'
  BY NextAgree
<1>3. Agree => RoomMatchesStay
  BY AgreeCounts
<1>4. Spec => []HeldInv
  BY HeldInvariance
<1> QED BY <1>1, <1>2, <1>3, <1>4, PTL DEF Spec

--------------------------------------------------------------------------------
(****************************************************************************)
(* Totals.                                                                  *)
(****************************************************************************)
Priced(row) == row.total_amount = CalculateTotal(row.room, row.check_in, row.check_out)

PricedUnit(w) == session[w].res.id # None => Priced(session[w].res.new)

PricedInv ==
    /\ TotalIsPriced
    /\ \A w \in Workers : PricedUnit(w)

\* Neither the prices nor the type of a room change.
PricesStay ==
    /\ roomType' = roomType
    /\ \A m \in Rooms : room'[m].type = room[m].type

\* No step of this workload writes a price or the type of a room.
LEMMA PricesStand ==
    ASSUME Serial, HeldInv, [Next]_vars, NoRoomUpdates, NoPriceUpdates
    PROVE  PricesStay
<1>1. CASE UNCHANGED <<room, roomType>> BY <1>1 DEF PricesStay
<1>2. ASSUME NEW w \in Workers, Commit(w) PROVE PricesStay
  <2>1. CASE session[w].op \in {"check_in", "check_out"}
    <3>1. PICK m \in Rooms :
            /\ room[m] \in RoomRow
            /\ \/ room' = [room EXCEPT ![m].status = "occupied"]
               \/ room' = [room EXCEPT ![m].status = VacatedStatus(@)]
      BY <1>2, <2>1, MovesWrite
    <3>2. room \in [Rooms -> RoomRow]
      BY DEF HeldInv, SerialInv, IInv, TypeOK, StoreTypeOK
    <3>3. \A k \in Rooms : room'[k].type = room[k].type
      <4>1. CASE room' = [room EXCEPT ![m].status = "occupied"]
        BY <3>2, <4>1 DEF RoomRow
      <4>2. CASE room' = [room EXCEPT ![m].status = VacatedStatus(@)]
        BY <3>2, <4>2 DEF RoomRow
      <4> QED BY <3>1, <4>1, <4>2
    <3>4. roomType' = roomType BY <1>2 DEF Commit
    <3> QED BY <3>3, <3>4 DEF PricesStay
  <2>2. CASE session[w].op \notin {"check_in", "check_out"}
    <3>1. session[w].rm = NoObject
      BY <1>2, <2>2, Committing DEF HeldInv, SerialInv, Inserting, Rewriting, Paying, Settling
    <3> QED BY <1>2, <3>1 DEF Commit, Saved, Dirty, NoObject, PricesStay
  <2> QED BY <2>1, <2>2
<1>3. ASSUME NEW w \in Workers, NEW work, SetSession(w, work) PROVE PricesStay
  BY <1>1, <1>3 DEF SetSession, tables
<1>4. ASSUME NEW w \in Workers, Request(w) PROVE PricesStay
  <2>1. CASE CreateReservation(w) BY <1>3, <2>1 DEF CreateReservation
  <2>2. CASE UpdateReservation(w) BY <1>3, <2>2 DEF UpdateReservation
  <2>3. CASE CancelReservation(w) BY <1>3, <2>3 DEF CancelReservation
  <2>4. CASE CheckIn(w) BY <1>3, <2>4 DEF CheckIn
  <2>5. CASE CheckOut(w) BY <1>3, <2>5 DEF CheckOut
  <2>6. CASE CreatePayment(w) BY <1>3, <2>6 DEF CreatePayment
  <2>7. CASE ProcessPayment(w) BY <1>3, <2>7 DEF ProcessPayment
  <2>8. CASE RefundPayment(w) BY <1>3, <2>8 DEF RefundPayment
  <2>9. CASE DeleteReservation(w) BY <1>3, <2>9 DEF DeleteReservation
  <2>10. ~UpdateRoom(w) /\ ~UpdateRoomType(w)
    BY DEF UpdateRoom, UpdateRoomType, NoRoomUpdates, NoPriceUpdates
  <2> QED
    BY <1>4, <2>1, <2>2, <2>3, <2>4, <2>5, <2>6, <2>7, <2>8, <2>9, <2>10 DEF Request
<1>5. ASSUME NEW w \in Workers, Advance(w), ~Commit(w) PROVE PricesStay
  <2>1. CASE CommitDelete(w) BY <1>1, <2>1 DEF CommitDelete
  <2> QED
    BY <1>3, <1>5, <2>1 DEF Advance, FlushPayment, EmptyReservation, LockReservation
<1>6. ASSUME NEW w \in Workers, Rollback(w) PROVE PricesStay
  BY <1>1, <1>6 DEF Rollback, tables
<1>7. CASE Tick \/ UNCHANGED vars
  BY <1>1, <1>7 DEF Tick, vars, tables
<1> QED BY <1>2, <1>4, <1>5, <1>6, <1>7 DEF Next

\* The request leaves a priced reservation in its session, or none.
LEMMA PricedSession ==
    ASSUME Serial, HeldInv, PricedInv, PricesStay, NEW w \in Workers, NEW work,
           SetSession(w, work),
           work.res.id # None => work.res.new.room \in Rooms /\ Priced(work.res.new)
    PROVE  PricedInv'
<1>1. session'[w] = work /\ UNCHANGED <<room, roomType, reservation>>
  BY OwnSession DEF HeldInv, SerialInv, IInv
<1>2. PricedUnit(w)'
  BY <1>1 DEF PricedUnit, Priced, CalculateTotal
<1>3. TotalIsPriced'
  BY <1>1 DEF PricedInv, TotalIsPriced, CalculateTotal, Stored
<1> QED BY <1>2, <1>3 DEF PricedInv, Serial

\* A stored reservation is priced.
LEMMA StoredPriced ==
    ASSUME HeldInv, PricedInv, NEW r \in Reservations, Stored(reservation, r)
    PROVE  /\ reservation[r] \in ReservationRow /\ reservation[r].room \in Rooms
           /\ Priced(reservation[r])
BY StoredFits DEF HeldInv, PricedInv, TotalIsPriced, Priced, ReservationRow

\* A status is not part of the price.
LEMMA RestatusPriced ==
    ASSUME NEW old, NEW row, Priced(old), row.room = old.room, row.check_in = old.check_in,
           row.check_out = old.check_out, row.total_amount = old.total_amount
    PROVE  Priced(row)
BY DEF Priced

\* A step that writes no reservation and no session, except to end it.
LEMMA PricedElsewhere ==
    ASSUME HeldInv, PricedInv, PricesStay, reservation' = reservation,
           \A w \in Workers : session'[w] = session[w] \/ session'[w] = NoSession
    PROVE  PricedInv'
<1>1. TotalIsPriced'
  <2>1. ASSUME NEW r \in Reservations, Stored(reservation, r)
        PROVE  Priced(reservation[r])'
    <3>1. PICK row : row = reservation[r] /\ row.room \in Rooms /\ Priced(row)
      BY <2>1, StoredPriced
    <3> QED BY <3>1 DEF Priced, CalculateTotal, PricesStay
  <2> QED BY <2>1 DEF TotalIsPriced, Priced, CalculateTotal, Stored
<1>2. ASSUME NEW w \in Workers PROVE PricedUnit(w)'
  <2>1. CASE session'[w] = NoSession
    BY <2>1 DEF PricedUnit, NoSession, Work, NoObject
  <2>2. CASE session'[w] = session[w] /\ session[w].res.id # None
    <3>1. session[w].res.new.room \in Rooms
      <4>1. session[w] \in Session BY DEF HeldInv, SerialInv, IInv, TypeOK, StoreTypeOK
      <4> QED BY <2>2, <4>1 DEF Session, Object, NoObject, ReservationRow
    <3>2. PICK row : row = session[w].res.new /\ row.room \in Rooms /\ Priced(row)
      BY <2>2, <3>1 DEF PricedInv, PricedUnit
    <3> QED BY <2>2, <3>2 DEF PricesStay, PricedUnit, Priced, CalculateTotal
  <2>3. CASE session'[w] = session[w] /\ session[w].res.id = None
    BY <2>3 DEF PricedUnit
  <2> QED BY <2>1, <2>2, <2>3
<1> QED BY <1>1, <1>2 DEF PricedInv

\* Every handler leaves a priced reservation in its session.
LEMMA RequestPriced ==
    ASSUME Serial, HeldInv, PricedInv, PricesStay, NEW w \in Workers, Request(w)
    PROVE  PricedInv'
<1>1. CASE CreateReservation(w)
  <2>1. PICK hotel \in Hotels, m \in Rooms, in \in Days, out \in Days, count \in GuestCounts,
             guest \in Users, r \in FreshReservations :
          SetSession(w, Work("create_reservation", "ready",
              Insert(r, NewReservation(guest, hotel, m, in, out, count)), NoObject, NoObject))
    BY <1>1 DEF CreateReservation, BookingGuests
  <2> DEFINE row == NewReservation(guest, hotel, m, in, out, count)
             work == Work("create_reservation", "ready", Insert(r, row), NoObject, NoObject)
  <2>2. row.room = m /\ Priced(row) BY DEF NewReservation, Priced
  <2>3. work.res.new = row BY DEF Work, Insert
  <2>4. SetSession(w, work) BY <2>1
  <2> HIDE DEF work, row
  <2> QED BY <2>2, <2>3, <2>4, PricedSession
<1>2. CASE UpdateReservation(w)
  <2>1. PICK r \in Reservations, in \in Days, out \in Days, count \in GuestCounts,
             datesSent \in BOOLEAN :
          /\ Stored(reservation, r)
          /\ ~datesSent => in = reservation[r].check_in /\ out = reservation[r].check_out
          /\ SetSession(w, Work("update_reservation", "ready",
                  Changed(reservation, r, Rebooked(r, in, out, count, datesSent)),
                  NoObject, NoObject))
    BY <1>2 DEF UpdateReservation
  <2> DEFINE row == Rebooked(r, in, out, count, datesSent)
             work == Work("update_reservation", "ready", Changed(reservation, r, row),
                          NoObject, NoObject)
  <2>2. reservation[r] \in ReservationRow /\ reservation[r].room \in Rooms
        /\ Priced(reservation[r])
    BY <2>1, StoredPriced
  <2>3. /\ row.room = reservation[r].room /\ row.check_in = in /\ row.check_out = out
        /\ row.total_amount = IF datesSent THEN CalculateTotal(reservation[r].room, in, out)
                                           ELSE reservation[r].total_amount
    BY <2>2 DEF Rebooked, ReservationRow
  <2> HIDE DEF row
  <2>4. Priced(row) BY <2>1, <2>2, <2>3 DEF Priced
  <2>5. work.res.new = row BY DEF Work, Changed
  <2>6. SetSession(w, work) BY <2>1 DEF row
  <2> HIDE DEF work
  <2> QED BY <2>2, <2>3, <2>4, <2>5, <2>6, PricedSession
<1>3. ASSUME NEW r \in Reservations, Stored(reservation, r), NEW row, NEW op, NEW phase, NEW pay,
             NEW rm, SetSession(w, Work(op, phase, Changed(reservation, r, row), pay, rm)),
             row.room = reservation[r].room, row.check_in = reservation[r].check_in,
             row.check_out = reservation[r].check_out,
             row.total_amount = reservation[r].total_amount
      PROVE  PricedInv'
  <2> DEFINE work == Work(op, phase, Changed(reservation, r, row), pay, rm)
  <2>1. reservation[r].room \in Rooms /\ Priced(row)
    BY <1>3, StoredPriced, RestatusPriced
  <2>2. work.res.new = row BY DEF Work, Changed
  <2>3. SetSession(w, work) BY <1>3
  <2> HIDE DEF work
  <2> QED BY <1>3, <2>1, <2>2, <2>3, PricedSession
<1>4. CASE CancelReservation(w)
  <2>1. PICK r \in Reservations :
          /\ Stored(reservation, r)
          /\ SetSession(w, Work("cancel_reservation", "ready",
                Changed(reservation, r, [reservation[r] EXCEPT !.status = "cancelled"]),
                NoObject, NoObject))
    BY <1>4 DEF CancelReservation
  <2> DEFINE row == [reservation[r] EXCEPT !.status = "cancelled"]
  <2>2. /\ row.room = reservation[r].room /\ row.check_in = reservation[r].check_in
        /\ row.check_out = reservation[r].check_out
        /\ row.total_amount = reservation[r].total_amount
    BY <2>1, StoredPriced DEF ReservationRow
  <2>3. SetSession(w, Work("cancel_reservation", "ready", Changed(reservation, r, row),
                           NoObject, NoObject))
    BY <2>1
  <2> HIDE DEF row
  <2> QED BY <1>3, <2>1, <2>2, <2>3
<1>5. CASE CheckIn(w)
  <2>1. PICK r \in Reservations :
          /\ Stored(reservation, r)
          /\ SetSession(w, Work("check_in", "ready",
                Changed(reservation, r, Arrived(reservation[r])), NoObject,
                Changed(room, reservation[r].room,
                        [room[reservation[r].room] EXCEPT !.status = "occupied"])))
    BY <1>5 DEF CheckIn
  <2> DEFINE row == Arrived(reservation[r])
             rm == Changed(room, reservation[r].room,
                           [room[reservation[r].room] EXCEPT !.status = "occupied"])
  <2>2. /\ row.room = reservation[r].room /\ row.check_in = reservation[r].check_in
        /\ row.check_out = reservation[r].check_out
        /\ row.total_amount = reservation[r].total_amount
    BY <2>1, StoredPriced DEF Arrived, ReservationRow
  <2>3. SetSession(w, Work("check_in", "ready", Changed(reservation, r, row), NoObject, rm))
    BY <2>1
  <2> HIDE DEF row, rm
  <2> QED BY <1>3, <2>1, <2>2, <2>3
<1>6. CASE CheckOut(w)
  <2>1. PICK r \in Reservations :
          /\ Stored(reservation, r)
          /\ SetSession(w, Work("check_out", "ready",
                Changed(reservation, r, Departed(reservation[r])), NoObject,
                Changed(room, reservation[r].room,
                        [room[reservation[r].room] EXCEPT !.status = VacatedStatus(@)])))
    BY <1>6 DEF CheckOut
  <2> DEFINE row == Departed(reservation[r])
             rm == Changed(room, reservation[r].room,
                           [room[reservation[r].room] EXCEPT !.status = VacatedStatus(@)])
  <2>2. /\ row.room = reservation[r].room /\ row.check_in = reservation[r].check_in
        /\ row.check_out = reservation[r].check_out
        /\ row.total_amount = reservation[r].total_amount
    BY <2>1, StoredPriced DEF Departed, ReservationRow
  <2>3. SetSession(w, Work("check_out", "ready", Changed(reservation, r, row), NoObject, rm))
    BY <2>1
  <2> HIDE DEF row, rm
  <2> QED BY <1>3, <2>1, <2>2, <2>3
<1>7. CASE CreatePayment(w)
  <2>1. PICK pay : SetSession(w, Work("create_payment", "ready", NoObject, pay, NoObject))
    BY <1>7 DEF CreatePayment
  <2> DEFINE work == Work("create_payment", "ready", NoObject, pay, NoObject)
  <2>2. work.res.id = None BY DEF Work, NoObject
  <2>3. SetSession(w, work) BY <2>1
  <2> HIDE DEF work
  <2> QED BY <2>2, <2>3, PricedSession
<1>8. CASE ProcessPayment(w) \/ RefundPayment(w)
  <2>1. PICK p \in Payments, op \in {"process_payment", "refund_payment"} :
          /\ Stored(payment, p)
          /\ \E pay : SetSession(w, Work(op, "loaded",
                            Loaded(reservation, payment[p].reservation), pay, NoObject))
    BY <1>8 DEF ProcessPayment, RefundPayment
  <2>2. PICK pay : SetSession(w, Work(op, "loaded",
                        Loaded(reservation, payment[p].reservation), pay, NoObject))
    BY <2>1
  <2> DEFINE r == payment[p].reservation
             work == Work(op, "loaded", Loaded(reservation, r), pay, NoObject)
  <2>3. r \in Reservations /\ Stored(reservation, r)
    BY <2>1, StoredPayment DEF HeldInv, SerialInv
  <2>4. reservation[r].room \in Rooms /\ Priced(reservation[r])
    BY <2>3, StoredPriced
  <2>5. work.res.new = reservation[r] BY DEF Work, Loaded
  <2>6. SetSession(w, work) BY <2>2
  <2> HIDE DEF work, r
  <2> QED BY <2>4, <2>5, <2>6, PricedSession
<1>9. CASE DeleteReservation(w)
  <2>1. PICK r, work :
          /\ r \in Reservations /\ Stored(reservation, r)
          /\ SetSession(w, work) /\ work.res = Loaded(reservation, r)
    BY <1>9, RemovalBegins
  <2>2. work.res.new = reservation[r] BY <2>1 DEF Loaded
  <2>3. reservation[r].room \in Rooms /\ Priced(reservation[r])
    BY <2>1, StoredPriced
  <2> QED BY <2>1, <2>2, <2>3, PricedSession
<1>10. CASE UpdateRoom(w) \/ UpdateRoomType(w)
  <2>1. session' = session /\ reservation' = reservation
    BY <1>10 DEF UpdateRoom, UpdateRoomType
  <2> QED BY <2>1, PricedElsewhere
<1> QED
  BY <1>1, <1>2, <1>4, <1>5, <1>6, <1>7, <1>8, <1>9, <1>10 DEF Request

\* The flush changes a status.
LEMMA FlushPriced ==
    ASSUME Serial, HeldInv, PricedInv, PricesStay, NEW w \in Workers, FlushPayment(w)
    PROVE  PricedInv'
<1> DEFINE s == session[w]
           old == s.res.old
           settled == Settled(s.op, Saved(payment, s.pay), old, s.res.id)
           row == [old EXCEPT !.status = settled]
           work == Work(s.op, "ready", Assigned(s.res, row), s.pay, NoObject)
<1>1. SetSession(w, work) /\ s.phase = "loaded"
  BY DEF FlushPayment
<1>2. s.res.id \in Reservations /\ old \in ReservationRow
  BY <1>1, PhaseTellsOp DEF HeldInv, SerialInv, Settling
<1>3. reservation[s.res.id] = old /\ Stored(reservation, s.res.id)
  <2>1. FreshUnit(w) /\ s.res.id # None
    BY <1>2, SentinelAssumption DEF HeldInv, SerialInv, FreshUnits
  <2> QED
    BY <1>2, <2>1, SentinelAssumption DEF FreshUnit, Stored
<1>4. old.room \in Rooms /\ Priced(old)
  BY <1>2, <1>3, StoredPriced
<1>5. /\ row.room = old.room /\ row.check_in = old.check_in /\ row.check_out = old.check_out
      /\ row.total_amount = old.total_amount
  BY <1>2 DEF ReservationRow
<1> HIDE DEF settled, row
<1>6. Priced(row) BY <1>4, <1>5, RestatusPriced
<1>7. work.res.new = row BY DEF Work, Assigned
<1> HIDE DEF work
<1> QED BY <1>1, <1>4, <1>5, <1>6, <1>7, PricedSession

\* The DELETEs of a delete leave the reservation in its session as it is.
LEMMA RemovalPriced ==
    ASSUME Serial, HeldInv, PricedInv, PricesStay, NEW w \in Workers,
           EmptyReservation(w) \/ LockReservation(w)
    PROVE  PricedInv'
<1>1. PICK work : SetSession(w, work) /\ work.res = session[w].res
  BY RemovalGoesOn DEF HeldInv
<1>2. session[w].res.id # None =>
         session[w].res.new.room \in Rooms /\ Priced(session[w].res.new)
  <2>1. session[w] \in Session BY DEF HeldInv, SerialInv, IInv, TypeOK, StoreTypeOK
  <2> QED BY <2>1 DEF Session, Object, NoObject, ReservationRow, PricedInv, PricedUnit
<1> QED BY <1>1, <1>2, PricedSession

\* The commit of a delete stores no total.
LEMMA DeletePriced ==
    ASSUME Serial, HeldInv, PricedInv, NEW w \in Workers, CommitDelete(w)
    PROVE  PricedInv'
<1>1. /\ session'[w] = NoSession /\ room' = room /\ roomType' = roomType
      /\ \A q \in Reservations : Stored(reservation', q) =>
            reservation'[q] = reservation[q] /\ Stored(reservation, q)
  BY RemovalEnds DEF HeldInv
<1>2. TotalIsPriced'
  BY <1>1 DEF PricedInv, TotalIsPriced, CalculateTotal
<1>3. \A v \in Workers : PricedUnit(v)'
  BY <1>1 DEF Serial, PricedUnit, NoSession, Work, NoObject
<1> QED BY <1>2, <1>3 DEF PricedInv

\* A serial commit stores the priced row of its session.
LEMMA CommitPriced ==
    ASSUME Serial, HeldInv, PricedInv, PricesStay, NEW w \in Workers, Commit(w)
    PROVE  PricedInv'
<1>1. ASSUME NEW r \in Reservations, Stored(reservation', r)
      PROVE  Priced(reservation[r])'
  <2>1. CASE reservation'[r] = reservation[r]
    <3>1. Stored(reservation, r) BY <1>1, <2>1 DEF Stored
    <3>2. PICK row : row = reservation[r] /\ row.room \in Rooms /\ Priced(row)
      BY <3>1, StoredPriced
    <3> QED BY <2>1, <3>2 DEF PricesStay, Priced, CalculateTotal
  <2>2. CASE reservation'[r] # reservation[r]
    <3>1. /\ r = session[w].res.id /\ reservation'[r] = session[w].res.new
          /\ session[w].res.new \in ReservationRow
      BY <2>2, SerialWrite DEF HeldInv
    <3>2. Priced(session[w].res.new)
      BY <3>1, SentinelAssumption DEF PricedInv, PricedUnit
    <3>3. PICK row : row = session[w].res.new /\ row.room \in Rooms /\ Priced(row)
      BY <3>1, <3>2 DEF ReservationRow
    <3> QED BY <3>1, <3>3 DEF PricesStay, Priced, CalculateTotal
  <2> QED BY <2>1, <2>2
<1>2. TotalIsPriced'
  BY <1>1 DEF TotalIsPriced, Priced, CalculateTotal, Stored
<1>3. session'[w] = NoSession
  BY DEF Commit, HeldInv, SerialInv, IInv, TypeOK, StoreTypeOK
<1>4. \A v \in Workers : PricedUnit(v)'
  BY <1>3 DEF Serial, PricedUnit, NoSession, Work, NoObject
<1> QED BY <1>2, <1>4 DEF PricedInv

\* The empty database satisfies it.
LEMMA InitPriced == Init => PricedInv
BY DEF Init, StoreInit, PricedInv, TotalIsPriced, PricedUnit, Stored, NoSession, Work, NoObject

\* _calculate_total: with requests served one at a time, and as long as neither prices
\* nor rooms are written, every stored total is the price of the nights, whatever
\* updates, cancellations, payments and stays follow the booking.
THEOREM SerialTotals ==
    ASSUME Serial, NoRoomUpdates, NoPriceUpdates PROVE Spec => []TotalIsPriced
<1>1. Init => PricedInv
  BY InitPriced
<1>2. HeldInv /\ PricedInv /\ [Next]_vars => PricedInv'
  <2> SUFFICES ASSUME HeldInv, PricedInv, [Next]_vars PROVE PricedInv'
    OBVIOUS
  <2>1. PricesStay BY PricesStand
  <2>2. ASSUME NEW w \in Workers, Rollback(w) PROVE PricedInv'
    <3>1. session'[w] = NoSession /\ reservation' = reservation
      BY <2>2 DEF Rollback, tables, HeldInv, SerialInv, IInv, TypeOK, StoreTypeOK
    <3> QED BY <2>1, <3>1, PricedElsewhere DEF Serial
  <2>3. CASE Tick \/ UNCHANGED vars
    BY <2>1, <2>3, PricedElsewhere DEF Tick, vars, tables
  <2> QED
    BY <2>1, <2>2, <2>3, RequestPriced, FlushPriced, RemovalPriced, CommitPriced, DeletePriced
    DEF Next, Advance
<1>3. PricedInv => TotalIsPriced
  BY DEF PricedInv
<1>4. Spec => []HeldInv
  BY HeldInvariance
<1> QED BY <1>1, <1>2, <1>3, <1>4, PTL DEF Spec

================================================================================
