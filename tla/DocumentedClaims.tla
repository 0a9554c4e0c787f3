---------------------------- MODULE DocumentedClaims ----------------------------
(****************************************************************************)
(* What comments, docstrings and the README say of the program and the code *)
(* does not keep.  Each formula has a run that ends in a counterexample.    *)
(****************************************************************************)
EXTENDS StayEase

\* README "Payments: ... no-overpayment rule": a reservation's paid payments never
\* exceed its total.
NoOverpayment ==
    \A r \in Reservations :
        Stored(reservation, r) /\ reservation[r].total_amount # None =>
            TotalPaid(payment, r) <= reservation[r].total_amount

\* cancel_reservation "Cancellation is only allowed before check-in": a stay that
\* has begun is never turned into a cancelled reservation.
CancelOnlyBeforeCheckIn ==
    [][\A r \in Reservations :
        Stored(reservation, r) /\ reservation[r].status = "checked_in" =>
            ~(Stored(reservation', r) /\ reservation'[r].status = "cancelled")]_vars

\* refund_payment "cancelled/checked-in/checked-out reservations are untouched".
RefundLeavesStays ==
    [][\A w \in Workers, r \in Reservations :
        /\ session[w].op = "refund_payment" /\ session'[w].op = "none"
        /\ Stored(reservation, r)
        /\ reservation[r].status \in {"cancelled", "checked_in", "checked_out"}
        => reservation'[r] = reservation[r]]_vars

\* payment_routes "Fully covering a pending reservation confirms it": once the
\* payments have been processed, a covered reservation is not left pending.
CoveringConfirms ==
    \A r \in Reservations :
        /\ Stored(reservation, r)
        /\ \A w \in Workers : session[w].op \notin {"process_payment", "refund_payment"}
        => ~(reservation[r].status = "pending" /\ Covered(payment, reservation[r], r))

\* check_out "maintenance is preserved".
MaintenancePreserved ==
    [][\A w \in Workers, m \in Rooms :
        /\ session[w].op = "check_out" /\ session'[w].op = "none"
        /\ room[m].status = "maintenance"
        => room'[m].status = "maintenance"]_vars

\* "two simultaneous admin requests cannot corrupt reservation/room state": a room
\* has one party staying at a time.
OneStayPerRoom == \A m \in Rooms : Cardinality(Staying(m)) <= 1

\* payment_routes "Atomic; re-processing returns 400": a refunded payment is not
\* paid again.
RefundedStaysRefunded ==
    [][\A p \in Payments :
        Stored(payment, p) /\ payment[p].status = "refunded" =>
            ~(Stored(payment', p) /\ payment'[p].status = "paid")]_vars

\* get_available_rooms_for_dates "Excludes ... rooms with an overlapping active
\* reservation".
ListedRoomsAreFree ==
    \A hotel \in Hotels, in, out \in Days : in < out =>
        \A m \in AvailableRoomsForDates(hotel, in, out) :
            OverlappingReservations(m, in, out, None) = {}

================================================================================
