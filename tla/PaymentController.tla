--------------------------- MODULE PaymentController ---------------------------
(****************************************************************************)
(* Simulated payments (app/controllers/payment_controller.py).  Processing  *)
(* and refunding take three steps: the handler loads the payment and its    *)
(* reservation, flushes the payment's UPDATE (which waits for and then      *)
(* holds the row lock) and sums what is paid, and commits.  The status of   *)
(* the reservation it decides on is the one loaded in the first step.       *)
(****************************************************************************)
EXTENDS ReservationController

\* POST /payments: pending payments do not count against the balance.
CreatePayment(w) ==
    /\ "create_payment" \in Ops
    /\ Idle(w)
    /\ \E u \in Users, r \in Reservations, amount \in Amounts, p \in FreshPayments :
        /\ Stored(reservation, r)
        /\ MayAccess(u, r)
        /\ reservation[r].status # "cancelled"
        /\ reservation[r].total_amount # None =>
              amount <= reservation[r].total_amount - TotalPaid(payment, r)
        /\ SetSession(w, Work("create_payment", "ready", NoObject,
                         Insert(p, [reservation |-> r, amount |-> amount,
                                    status |-> "pending", paid_at |-> None]),
                         NoObject))

Covered(table, row, r) ==
    row.total_amount # None /\ TotalPaid(table, r) >= row.total_amount

Uncovered(table, row, r) ==
    row.total_amount # None /\ TotalPaid(table, r) < row.total_amount

Processed(row, now) == [row EXCEPT !.status = "paid", !.paid_at = now]

\* Mutant of Refunded: paid_at is not reset.
RefundedStillStamped(row) == [row EXCEPT !.status = "refunded"]

Refunded(row) == [row EXCEPT !.status = "refunded", !.paid_at = None]

\* POST /payments/{id}/process, up to the flush.
ProcessPayment(w) ==
    /\ "process_payment" \in Ops
    /\ Idle(w)
    /\ \E u \in Users, p \in Payments :
        /\ Stored(payment, p)
        /\ MayAccess(u, payment[p].reservation)
        /\ payment[p].status = "pending"
        /\ reservation[payment[p].reservation].status # "cancelled"
        /\ SetSession(w, Work("process_payment", "loaded",
                         Loaded(reservation, payment[p].reservation),
                         Changed(payment, p, Processed(payment[p], MonthOf[today])), NoObject))

\* POST /payments/{id}/refund (admin), up to the flush.
RefundPayment(w) ==
    /\ "refund_payment" \in Ops
    /\ Idle(w)
    /\ \E p \in Payments :
        /\ Stored(payment, p)
        /\ payment[p].status = "paid"
        /\ SetSession(w, Work("refund_payment", "loaded",
                         Loaded(reservation, payment[p].reservation),
                         Changed(payment, p, Refunded(payment[p])), NoObject))

\* Mutant of Settled: a refund leaves the reservation confirmed.
SettledByPaymentOnly(op, table, old, r) ==
    IF op = "process_payment" /\ old.status = "pending" /\ Covered(table, old, r)
    THEN "confirmed"
    ELSE old.status

\* The status the reservation object gets: `old` is the row loaded before the
\* flush, `table` the payments this session sees, its own UPDATE included.
Settled(op, table, old, r) ==
    IF op = "process_payment" /\ old.status = "pending" /\ Covered(table, old, r)
    THEN "confirmed"
    ELSE IF op = "refund_payment" /\ old.status = "confirmed" /\ Uncovered(table, old, r)
    THEN "pending"
    ELSE old.status

\* db.flush() and the sum: once the payment's row lock is granted.
FlushPayment(w) ==
    LET s == session[w]
        settled == Settled(s.op, Saved(payment, s.pay), s.res.old, s.res.id)
    IN  /\ s.phase = "loaded"
        /\ ~Doomed(w)
        /\ Granted(w)
        /\ SetSession(w, Work(s.op, "ready",
                Assigned(s.res, [s.res.old EXCEPT !.status = settled]),
                s.pay, NoObject))

================================================================================
