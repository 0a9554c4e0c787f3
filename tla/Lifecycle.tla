------------------------------- MODULE Lifecycle -------------------------------
(****************************************************************************)
(* What the controllers promise about the status of a reservation, whatever *)
(* the requests in between: the state machine written down above check_in   *)
(* ("pending -> confirmed -> checked_in -> checked_out, plus                *)
(* pending/confirmed -> cancelled"), the payment-driven moves between       *)
(* pending and confirmed, and the hard delete.                              *)
(****************************************************************************)
CONSTANTS Reservations

VARIABLE status         \* Reservations -> status, "none" or "deleted"

Init == status = [r \in Reservations |-> "none"]

Move(r, from, to) ==
    /\ status[r] \in from
    /\ status' = [status EXCEPT ![r] = to]

Book(r)     == Move(r, {"none"}, "pending")
Confirm(r)  == Move(r, {"pending"}, "confirmed")
Unconfirm(r) == Move(r, {"confirmed"}, "pending")
Arrive(r)   == Move(r, {"confirmed"}, "checked_in")
Depart(r)   == Move(r, {"checked_in"}, "checked_out")
Cancel(r)   == Move(r, {"pending", "confirmed"}, "cancelled")

\* "dev/testing only": a reservation of any status can be removed.
Remove(r) ==
    Move(r, {"pending", "confirmed", "checked_in", "checked_out", "cancelled"}, "deleted")

Next ==
    \E r \in Reservations :
        \/ Book(r) \/ Confirm(r) \/ Unconfirm(r) \/ Arrive(r)
        \/ Depart(r) \/ Cancel(r) \/ Remove(r)

Spec == Init /\ [][Next]_status

================================================================================
