--------------------------- MODULE SerialMoney_proofs ---------------------------
(****************************************************************************)
(* Money while requests are served one at a time: a reservation is          *)
(* confirmed exactly when its paid payments cover its total.                *)
(*                                                                          *)
(* process_payment and refund_payment decide on a status loaded before the  *)
(* flush and on a sum read after it.  The argument is that with no other    *)
(* request in between, both are still true at the commit, and that the sum  *)
(* grows when a payment is processed and shrinks when one is refunded.      *)
(* Racing requests break it (see DocumentedClaims).                         *)
(****************************************************************************)
EXTENDS SerialBookings_proofs, Sums_proofs

\* PUT /reservations/{id} changes totals, and leaves the status alone.
NoRebookings == "update_reservation" \notin Ops

\* The ids that have been used: there are never infinitely many rows to add up.
UsedReservations == {r \in Reservations : reservation[r] # Unused}
UsedPayments == {p \in Payments : payment[p] # Unused}

FinitelyUsed == IsFiniteSet(UsedReservations) /\ IsFiniteSet(UsedPayments)

\* A new booking costs something; a payment in flight is the stored one, and after
\* the flush the status is the one that the stored payments, with it, call for.
MoneyUnit(w) ==
    LET s == session[w]
    IN  /\ s.op = "create_reservation" /\ s.res.new.total_amount # None =>
              s.res.new.total_amount > 0
        /\ s.op \in {"process_payment", "refund_payment"} =>
              /\ payment[s.pay.id] = s.pay.old
              /\ s.phase = "ready" =>
                    s.res.new = [s.res.old EXCEPT !.status =
                        Settled(s.op, Saved(payment, s.pay), s.res.old, s.res.id)]

\* The inductive invariant.
MoneyInv ==
    /\ SerialInv
    /\ FinitelyUsed
    /\ ConfirmedIffCovered
    /\ \A w \in Workers : MoneyUnit(w)

--------------------------------------------------------------------------------
(****************************************************************************)
(* Only finitely many rows, whatever the workload.                          *)
(****************************************************************************)

\* A commit uses at most one new id of each kind.
LEMMA CommitUses ==
    ASSUME IInv, FinitelyUsed, NEW w \in Workers, Commit(w)
    PROVE  FinitelyUsed'
<1> DEFINE r == session[w].res.id
           p == session[w].pay.id
<1>1. \A q \in Reservations \ {r} : reservation'[q] = reservation[q]
  BY DEF Commit, Saved, IInv, TypeOK, StoreTypeOK
<1>2. \A q \in Payments \ {p} : payment'[q] = payment[q]
  BY DEF Commit, Saved, IInv, TypeOK, StoreTypeOK
<1>3. UsedReservations' \in SUBSET (UsedReservations \cup {r})
  BY <1>1 DEF UsedReservations
<1>4. UsedPayments' \in SUBSET (UsedPayments \cup {p})
  BY <1>2 DEF UsedPayments
<1>5. IsFiniteSet(UsedReservations \cup {r}) /\ IsFiniteSet(UsedPayments \cup {p})
  BY FS_AddElement DEF FinitelyUsed
<1>6. IsFiniteSet(UsedReservations') /\ IsFiniteSet(UsedPayments')
  BY <1>3, <1>4, <1>5, FS_Subset
<1> QED
  BY <1>6 DEF FinitelyUsed

\* A delete keeps the ids used.
LEMMA DeleteUses ==
    ASSUME IInv, FinitelyUsed, NEW w \in Workers, CommitDelete(w)
    PROVE  FinitelyUsed'
<1> DEFINE r == session[w].res.id
<1>1. /\ r \in Reservations /\ reservation[r] # Unused
      /\ reservation' = [reservation EXCEPT ![r] = Deleted]
      /\ payment' = [p \in Payments |-> IF p \in PaymentsOf(r) THEN Deleted ELSE payment[p]]
  BY PhaseTellsOp DEF CommitDelete, Removing
<1>2. UsedReservations' = UsedReservations
  BY <1>1, SentinelAssumption DEF UsedReservations, IInv, TypeOK, StoreTypeOK
<1>3. UsedPayments' = UsedPayments
  BY <1>1, SentinelAssumption DEF UsedPayments, PaymentsOf, Stored, IInv, TypeOK, StoreTypeOK
<1> QED
  BY <1>2, <1>3 DEF FinitelyUsed

\* What a step does to the tables of reservations and payments: only commits and
\* deletes write them.
LEMMA OnlyCommitsWriteMoney ==
    ASSUME NEW w \in Workers
    PROVE  /\ Advance(w) => \/ Commit(w) \/ CommitDelete(w)
                            \/ reservation' = reservation /\ payment' = payment
           /\ Request(w) \/ Rollback(w) =>
                  reservation' = reservation /\ payment' = payment
<1> DEFINE Kept == reservation' = reservation /\ payment' = payment
<1>1. \A work : SetSession(w, work) => Kept
  BY DEF SetSession, tables
<1>2. CreateReservation(w) => Kept
  BY <1>1 DEF CreateReservation
<1>3. UpdateReservation(w) => Kept
  BY <1>1 DEF UpdateReservation
<1>4. CancelReservation(w) => Kept
  BY <1>1 DEF CancelReservation
<1>5. CheckIn(w) => Kept
  BY <1>1 DEF CheckIn
<1>6. CheckOut(w) => Kept
  BY <1>1 DEF CheckOut
<1>7. CreatePayment(w) => Kept
  BY <1>1 DEF CreatePayment
<1>8. ProcessPayment(w) \/ RefundPayment(w) => Kept
  BY <1>1 DEF ProcessPayment, RefundPayment
<1>9. UpdateRoom(w) \/ UpdateRoomType(w) => Kept
  BY DEF UpdateRoom, UpdateRoomType
<1>10. DeleteReservation(w) => Kept
  BY <1>1 DEF DeleteReservation
<1>11. FlushPayment(w) \/ EmptyReservation(w) \/ LockReservation(w) => Kept
  BY <1>1 DEF FlushPayment, EmptyReservation, LockReservation
<1>12. Rollback(w) => Kept
  BY DEF Rollback, tables
<1> QED
  BY <1>2, <1>3, <1>4, <1>5, <1>6, <1>7, <1>8, <1>9, <1>10, <1>11, <1>12
  DEF Request, Advance

\* Every step preserves it.
LEMMA NextFinitelyUsed == IInv /\ FinitelyUsed /\ [Next]_vars => FinitelyUsed'
<1> SUFFICES ASSUME IInv, FinitelyUsed, [Next]_vars PROVE FinitelyUsed'
  OBVIOUS
<1>1. CASE reservation' = reservation /\ payment' = payment
  BY <1>1 DEF FinitelyUsed, UsedReservations, UsedPayments
<1>2. CASE Tick \/ UNCHANGED vars
  BY <1>1, <1>2 DEF Tick, vars, tables
<1> QED
  BY <1>1, <1>2, OnlyCommitsWriteMoney, CommitUses, DeleteUses DEF Next, Advance

--------------------------------------------------------------------------------
(****************************************************************************)
(* What is paid.                                                            *)
(****************************************************************************)
AmountOf(table) == [p \in Payments |-> table[p].amount]

\* What the amounts and the prices of the workload are.
LEMMA MoneyConstants ==
    /\ Amounts \subseteq Nat \ {0}
    /\ Prices \subseteq (Nat \ {0}) \cup {None}
    /\ LastDay \in Nat
<1>1. Amounts \subseteq Nat \ {0}
  BY StoreAssumption
<1>2. Prices \subseteq (Nat \ {0}) \cup {None}
  BY StoreAssumption
<1>3. LastDay \in Nat
  BY StoreAssumption
<1> QED
  BY <1>1, <1>2, <1>3

PaymentTable == [Payments -> PaymentRow \cup {Unused, Deleted}]

\* A sum of payments is the sum of their amounts.
LEMMA SumOfPayments ==
    ASSUME NEW table, NEW S \in SUBSET Payments, IsFiniteSet(S)
    PROVE  MapThenSumSet(LAMBDA p : table[p].amount, S) = Total(AmountOf(table), S)
<1> DEFINE iter == CHOOSE h : h = [s \in SUBSET S |->
                        IF s = {} THEN 0
                        ELSE table[CHOOSE x \in s : TRUE].amount
                                + h[s \ {CHOOSE x \in s : TRUE}]]
           f == AmountOf(table)
<1>1. MapThenSumSet(LAMBDA p : table[p].amount, S) = iter[S]
  BY DEF MapThenSumSet, MapThenFoldSet
<1>2. \A h : Sums(f, h, S) <=> h = [s \in SUBSET S |->
                        IF s = {} THEN 0
                        ELSE table[CHOOSE x \in s : TRUE].amount
                                + h[s \ {CHOOSE x \in s : TRUE}]]
  <2>1. \A s \in SUBSET S : s # {} => f[Pick(s)] = table[Pick(s)].amount
    BY PickOne DEF AmountOf
  <2> QED
    BY <2>1 DEF Sums, Partial, Pick
<1>3. PICK h : Sums(f, h, S)
  BY SumsExist
<1>4. h = [s \in SUBSET S |->
                        IF s = {} THEN 0
                        ELSE table[CHOOSE x \in s : TRUE].amount
                                + h[s \ {CHOOSE x \in s : TRUE}]]
  BY <1>2, <1>3
<1>5. iter = [s \in SUBSET S |->
                        IF s = {} THEN 0
                        ELSE table[CHOOSE x \in s : TRUE].amount
                                + iter[s \ {CHOOSE x \in s : TRUE}]]
  BY <1>4, Zenon
<1>6. Sums(f, iter, S)
  BY <1>2, <1>5
<1> HIDE DEF iter, f
<1>7. Total(f, S) = iter[S]
  BY <1>6, TotalIsSum
<1> QED
  BY <1>1, <1>7 DEF iter, f

\* The sum of what is paid, over the table of amounts.
LEMMA PaidIsTotal ==
    ASSUME NEW table, NEW r, IsFiniteSet(PaidPayments(table, r))
    PROVE  TotalPaid(table, r) = Total(AmountOf(table), PaidPayments(table, r))
<1>1. PaidPayments(table, r) \in SUBSET Payments
  BY DEF PaidPayments
<1> HIDE DEF PaidPayments
<1> QED
  BY <1>1, SumOfPayments DEF TotalPaid

\* In a table of payments whose used ids are finitely many, what is paid is an amount.
LEMMA PaidIsMoney ==
    ASSUME NEW table \in PaymentTable, IsFiniteSet({p \in Payments : table[p] # Unused}), NEW r
    PROVE  /\ IsFiniteSet(PaidPayments(table, r))
           /\ \A p \in PaidPayments(table, r) : AmountOf(table)[p] \in Nat
           /\ TotalPaid(table, r) \in Nat
<1>1. PaidPayments(table, r) \in SUBSET {p \in Payments : table[p] # Unused}
  BY DEF PaidPayments, Stored
<1>2. IsFiniteSet(PaidPayments(table, r))
  BY <1>1, FS_Subset
<1>3. ASSUME NEW p \in PaidPayments(table, r) PROVE AmountOf(table)[p] \in Nat
  BY <1>3, MoneyConstants DEF PaymentTable, AmountOf, PaidPayments, Stored, PaymentRow
<1>4. Total(AmountOf(table), PaidPayments(table, r)) \in Nat
  BY <1>2, <1>3, TotalNatural
<1> QED
  BY <1>2, <1>3, <1>4, PaidIsTotal

\* With more of the same payments paid, not less is paid.
LEMMA PaidGrows ==
    ASSUME NEW few \in PaymentTable, NEW many \in PaymentTable,
           IsFiniteSet({p \in Payments : few[p] # Unused}),
           IsFiniteSet({p \in Payments : many[p] # Unused}),
           NEW r, PaidPayments(few, r) \subseteq PaidPayments(many, r),
           \A p \in PaidPayments(few, r) : many[p].amount = few[p].amount
    PROVE  TotalPaid(few, r) <= TotalPaid(many, r)
<1> DEFINE F == PaidPayments(few, r)
           M == PaidPayments(many, r)
<1>1. /\ IsFiniteSet(F) /\ IsFiniteSet(M) /\ F \in SUBSET M
      /\ \A p \in M : AmountOf(many)[p] \in Nat
  BY PaidIsMoney
<1>2. \A p \in F : AmountOf(few)[p] = AmountOf(many)[p]
  BY DEF AmountOf, PaidPayments
<1>3. TotalPaid(few, r) = Total(AmountOf(few), F) /\ TotalPaid(many, r) = Total(AmountOf(many), M)
  BY <1>1, PaidIsTotal
<1> HIDE DEF F, M
<1>4. Total(AmountOf(few), F) = Total(AmountOf(many), F)
  BY <1>1, <1>2, TotalSame
<1>5. Total(AmountOf(many), F) <= Total(AmountOf(many), M)
  BY <1>1, TotalOfFewer
<1> QED
  BY <1>3, <1>4, <1>5

\* With the same payments paid, the same is paid.
LEMMA PaidSame ==
    ASSUME NEW old \in PaymentTable, NEW new \in PaymentTable,
           IsFiniteSet({p \in Payments : old[p] # Unused}),
           IsFiniteSet({p \in Payments : new[p] # Unused}),
           NEW r, PaidPayments(old, r) = PaidPayments(new, r),
           \A p \in PaidPayments(old, r) : new[p].amount = old[p].amount
    PROVE  TotalPaid(old, r) = TotalPaid(new, r)
<1>1. TotalPaid(old, r) \in Nat /\ TotalPaid(new, r) \in Nat
  BY PaidIsMoney
<1>2. TotalPaid(old, r) <= TotalPaid(new, r) /\ TotalPaid(new, r) <= TotalPaid(old, r)
  BY PaidGrows
<1> QED
  BY <1>1, <1>2

\* Nothing is paid for a reservation that has no payments.
LEMMA NothingPaid ==
    ASSUME NEW table, NEW r, PaidPayments(table, r) = {}
    PROVE  TotalPaid(table, r) = 0
BY PaidIsTotal, TotalNothing, FS_EmptySet

--------------------------------------------------------------------------------
(****************************************************************************)
(* Steps up to the commit.                                                  *)
(****************************************************************************)

\* The only request in flight leaves a unit of work that is right about the money.
LEMMA MoneySession ==
    ASSUME Serial, MoneyInv, NEW w \in Workers, NEW work, SetSession(w, work),
           work.op = "create_reservation" /\ work.res.new.total_amount # None =>
              work.res.new.total_amount > 0,
           work.op \in {"process_payment", "refund_payment"} =>
              /\ payment[work.pay.id] = work.pay.old
              /\ work.phase = "ready" =>
                    work.res.new = [work.res.old EXCEPT !.status =
                        Settled(work.op, Saved(payment, work.pay), work.res.old, work.res.id)]
    PROVE  (ConfirmedIffCovered /\ \A v \in Workers : MoneyUnit(v))'
<1>1. session'[w] = work /\ reservation' = reservation /\ payment' = payment
  BY OwnSession DEF MoneyInv, SerialInv, IInv
<1>2. ConfirmedIffCovered'
  BY <1>1 DEF MoneyInv, ConfirmedIffCovered, Stored
<1>3. MoneyUnit(w)'
  BY <1>1 DEF MoneyUnit
<1> QED
  BY <1>2, <1>3 DEF Serial

\* A request of an endpoint that neither books nor pays.
LEMMA MoneyElse ==
    ASSUME Serial, MoneyInv, NEW w \in Workers, NEW op, NEW phase, NEW res, NEW pay, NEW rm,
           SetSession(w, Work(op, phase, res, pay, rm)),
           op \notin {"create_reservation", "process_payment", "refund_payment"}
    PROVE  (ConfirmedIffCovered /\ \A v \in Workers : MoneyUnit(v))'
<1> DEFINE work == Work(op, phase, res, pay, rm)
<1>1. work.op = op
  BY DEF Work
<1> HIDE DEF work
<1>2. SetSession(w, work)
  BY DEF work
<1> QED
  BY <1>1, <1>2, MoneySession

\* create_reservation: a night costs at least 1.
LEMMA BookingCosts ==
    ASSUME TypeOK, NEW m \in Rooms, NEW in \in Days, NEW out \in Days, in < out,
           CalculateTotal(m, in, out) # None
    PROVE  CalculateTotal(m, in, out) > 0
<1> DEFINE price == roomType[room[m].type].price
<1>1. price \in (Nat \ {0}) \cup {None}
  BY MoneyConstants DEF TypeOK, StoreTypeOK, RoomRow, RoomTypeRow
<1>2. out - in \in Nat /\ out - in > 0
  BY MoneyConstants DEF Days
<1>3. price # None /\ CalculateTotal(m, in, out) = price * (out - in)
  BY DEF CalculateTotal
<1>4. \A x \in Nat \ {0}, y \in Nat : y > 0 => x * y > 0
  OBVIOUS
<1> QED
  BY <1>1, <1>2, <1>3, <1>4

\* create_reservation up to its commit.
LEMMA MoneyCreate ==
    ASSUME Serial, MoneyInv, NEW w \in Workers, CreateReservation(w)
    PROVE  (ConfirmedIffCovered /\ \A v \in Workers : MoneyUnit(v))'
<1>1. PICK hotel \in Hotels, m \in Rooms, in \in Days, out \in Days, count \in GuestCounts,
           guest \in Users, r \in FreshReservations :
        /\ ValidDates(in, out)
        /\ SetSession(w, Work("create_reservation", "ready",
                Insert(r, NewReservation(guest, hotel, m, in, out, count)),
                NoObject, NoObject))
  BY StoreAssumption DEF CreateReservation, BookingGuests
<1> DEFINE row == NewReservation(guest, hotel, m, in, out, count)
           work == Work("create_reservation", "ready", Insert(r, row), NoObject, NoObject)
<1>2. row.total_amount = CalculateTotal(m, in, out)
  BY DEF NewReservation
<1>3. row.total_amount # None => row.total_amount > 0
  BY <1>1, <1>2, BookingCosts DEF MoneyInv, SerialInv, IInv, ValidDates
<1>4. work.op = "create_reservation" /\ work.res.new = row
  BY DEF Work, Insert
<1> HIDE DEF row, work
<1>5. SetSession(w, work)
  BY <1>1 DEF row, work
<1> QED
  BY <1>3, <1>4, <1>5, MoneySession

\* Processing and refunding load the payment that is stored.
LEMMA MoneyLoad ==
    ASSUME Serial, MoneyInv, NEW w \in Workers, ProcessPayment(w) \/ RefundPayment(w)
    PROVE  (ConfirmedIffCovered /\ \A v \in Workers : MoneyUnit(v))'
<1>1. PICK p \in Payments, op \in {"process_payment", "refund_payment"} :
          \E res, row :
              SetSession(w, Work(op, "loaded", res, Changed(payment, p, row), NoObject))
  BY DEF ProcessPayment, RefundPayment
<1>2. PICK res, row :
          SetSession(w, Work(op, "loaded", res, Changed(payment, p, row), NoObject))
  BY <1>1
<1> DEFINE work == Work(op, "loaded", res, Changed(payment, p, row), NoObject)
<1>3. /\ work.op = op /\ work.phase = "loaded"
      /\ work.pay.id = p /\ work.pay.old = payment[p]
  BY DEF Work, Changed
<1> HIDE DEF work
<1>4. SetSession(w, work)
  BY <1>2 DEF work
<1> QED
  BY <1>3, <1>4, MoneySession

\* The flush decides on the sum with this payment in it.
LEMMA MoneyFlush ==
    ASSUME Serial, MoneyInv, NEW w \in Workers, FlushPayment(w)
    PROVE  (ConfirmedIffCovered /\ \A v \in Workers : MoneyUnit(v))'
<1> DEFINE s == session[w]
           settled == Settled(s.op, Saved(payment, s.pay), s.res.old, s.res.id)
           work == Work(s.op, "ready", Assigned(s.res, [s.res.old EXCEPT !.status = settled]),
                        s.pay, NoObject)
<1>1. SetSession(w, work) /\ s.phase = "loaded"
  BY DEF FlushPayment
<1>2. /\ work.op = s.op /\ work.pay = s.pay /\ work.res.id = s.res.id
      /\ work.res.old = s.res.old /\ work.res.new = [s.res.old EXCEPT !.status = settled]
  BY DEF Work, Assigned
<1>3. s.op # "create_reservation"
  BY <1>1 DEF MoneyInv, SerialInv, IInv, UnitsOfWork, UnitOfWork, Inserting
<1>4. s.op \in {"process_payment", "refund_payment"} => payment[s.pay.id] = s.pay.old
  BY DEF MoneyInv, MoneyUnit
<1> HIDE DEF work
<1> QED
  BY <1>1, <1>2, <1>3, <1>4, MoneySession

--------------------------------------------------------------------------------
(****************************************************************************)
(* The commit.                                                              *)
(****************************************************************************)
Balanced(table, row, r) ==
    /\ row.status = "confirmed" => Covered(table, row, r)
    /\ row.status = "pending" => ~Covered(table, row, r)

\* The tables of payments before and after a step have finitely many payments.
LEMMA MoneyTables ==
    ASSUME MoneyInv, [Next]_vars
    PROVE  /\ payment \in PaymentTable /\ payment' \in PaymentTable
           /\ IsFiniteSet({p \in Payments : payment[p] # Unused})
           /\ IsFiniteSet({p \in Payments : payment'[p] # Unused})
<1>1. IInv /\ FinitelyUsed /\ IInv' /\ FinitelyUsed'
  BY NextIInv, NextFinitelyUsed DEF MoneyInv, SerialInv
<1> QED
  BY <1>1 DEF PaymentTable, IInv, TypeOK, StoreTypeOK, FinitelyUsed, UsedPayments

\* A reservation that stays as it is, and so do its paid payments.
LEMMA BalanceKept ==
    ASSUME MoneyInv, [Next]_vars, NEW r \in Reservations, Stored(reservation, r),
           PaidPayments(payment, r) = PaidPayments(payment', r),
           \A p \in PaidPayments(payment, r) : payment'[p].amount = payment[p].amount
    PROVE  Balanced(payment', reservation[r], r)
<1>1. TotalPaid(payment, r) = TotalPaid(payment', r)
  BY MoneyTables, PaidSame
<1>2. Balanced(payment, reservation[r], r)
  BY DEF MoneyInv, ConfirmedIffCovered, Balanced
<1> QED
  BY <1>1, <1>2 DEF Balanced, Covered

\* Commits that leave the payments alone: a new booking has nothing paid, and the
\* others close the reservation or move the guest.
LEMMA MoneyStays ==
    ASSUME Serial, NoRebookings, MoneyInv, NEW w \in Workers, Commit(w), payment' = payment,
           session[w].op \notin {"process_payment", "refund_payment"}
    PROVE  ConfirmedIffCovered'
<1> DEFINE s == session[w]
<1>1. SUFFICES ASSUME NEW r \in Reservations, Stored(reservation', r)
               PROVE  Balanced(payment, reservation'[r], r)
  BY DEF ConfirmedIffCovered, Balanced
<1>2. CASE reservation'[r] = reservation[r]
  BY <1>1, <1>2 DEF MoneyInv, ConfirmedIffCovered, Balanced, Stored
<1>3. CASE reservation'[r] # reservation[r]
  <2>1. r = s.res.id /\ reservation'[r] = s.res.new
    BY <1>3, SerialWrite DEF MoneyInv
  <2>2. r # None
    BY SentinelAssumption
  <2>3. CASE s.op = "create_reservation"
    <3>1. s.res.new.status = "pending" /\ reservation[r] = Unused
      BY <2>1, <2>3, Committing DEF MoneyInv, SerialInv, Inserting
    <3>2. PaidPayments(payment, r) = {}
      BY <3>1 DEF MoneyInv, SerialInv, IInv, NoOrphanPayments, PaidPayments, Stored
    <3>3. TotalPaid(payment, r) = 0
      BY <3>2, NothingPaid
    <3>4. s.res.new.total_amount # None => s.res.new.total_amount > 0
      BY <2>3 DEF MoneyInv, MoneyUnit
    <3>5. s.res.new.total_amount \in Nat \cup {None}
      BY <2>3, Committing DEF MoneyInv, SerialInv, Inserting, ReservationRow
    <3>6. \A x \in Nat : x > 0 => ~(0 >= x)
      OBVIOUS
    <3> QED
      BY <2>1, <3>1, <3>3, <3>4, <3>5, <3>6 DEF Balanced, Covered
  <2>4. CASE s.op = "cancel_reservation"
    <3>1. s.res.new.status = "cancelled"
      BY <2>4, Committing DEF MoneyInv, SerialInv, Rewriting
    <3> QED
      BY <2>1, <3>1 DEF Balanced
  <2>5. CASE s.op \in {"check_in", "check_out"}
    <3>1. s.res.new.status \in {"checked_in", "checked_out"}
      BY <2>5, Committing DEF MoneyInv, SerialInv, Moving, Arrived, Departed, ReservationRow
    <3> QED
      BY <2>1, <3>1 DEF Balanced
  <2>6. s.op # "create_payment"
    BY <2>1, <2>2, Committing DEF MoneyInv, SerialInv, Paying, NoObject
  <2>7. s.op # "update_reservation"
    <3>1. s.op \in Ops \cup {"none"}
      BY Committing DEF MoneyInv, SerialInv, Session
    <3> QED
      BY <3>1 DEF NoRebookings
  <2> QED
    BY <2>3, <2>4, <2>5, <2>6, <2>7, Committing DEF MoneyInv, SerialInv
<1> QED
  BY <1>2, <1>3

\* create_payment: a pending payment covers nothing.
LEMMA MoneyCreatePayment ==
    ASSUME Serial, MoneyInv, NEW w \in Workers, Commit(w), session[w].op = "create_payment"
    PROVE  ConfirmedIffCovered'
<1> DEFINE s == session[w]
           p == s.pay.id
<1>1. /\ s.res = NoObject /\ p \in Payments /\ payment[p] = Unused
      /\ s.pay.new.status = "pending"
  BY Committing DEF MoneyInv, SerialInv, Paying
<1>2. reservation' = reservation
  BY <1>1 DEF Commit, Saved, Dirty, NoObject
<1>3. payment \in [Payments -> PaymentRow \cup {Unused, Deleted}]
  BY DEF MoneyInv, SerialInv, IInv, TypeOK, StoreTypeOK
<1>4. payment'[p].status = "pending" \/ ~Stored(payment', p)
  BY <1>1, <1>3, CommitPayments DEF MoneyInv, SerialInv, Stored
<1>5. \A q \in Payments \ {p} : payment'[q] = payment[q]
  BY <1>1, <1>3, CommitPayments DEF MoneyInv, SerialInv
<1>6. ~Stored(payment, p)
  BY <1>1 DEF Stored
<1> HIDE DEF p
<1>7. ASSUME NEW r \in Reservations, Stored(reservation', r)
      PROVE  Balanced(payment', reservation'[r], r)
  <2>1. PaidPayments(payment, r) = PaidPayments(payment', r)
    BY <1>4, <1>5, <1>6 DEF PaidPayments, Stored
  <2>2. \A q \in PaidPayments(payment, r) : payment'[q].amount = payment[q].amount
    BY <1>5, <1>6 DEF PaidPayments
  <2>3. [Next]_vars
    BY DEF Next, Advance
  <2> QED
    BY <1>2, <1>7, <2>1, <2>2, <2>3, BalanceKept
<1> QED
  BY <1>7 DEF ConfirmedIffCovered, Balanced

\* The commit of process_payment and refund_payment: the reservation becomes what the
\* handler made of it, and the payment what it flushed.
LEMMA SettlementWrites ==
    ASSUME Serial, MoneyInv, NEW w \in Workers, Commit(w),
           session[w].op \in {"process_payment", "refund_payment"}
    PROVE  \E r \in Reservations, p \in Payments :
              /\ r = session[w].res.id /\ p = session[w].pay.id
              /\ reservation[r] = session[w].res.old /\ reservation'[r] = session[w].res.new
              /\ \A q \in Reservations \ {r} : reservation'[q] = reservation[q]
              /\ payment[p] = session[w].pay.old /\ payment'[p] = session[w].pay.new
              /\ \A q \in Payments \ {p} : payment'[q] = payment[q]
              /\ payment' = Saved(payment, session[w].pay)
<1> DEFINE s == session[w]
           r == s.res.id
           p == s.pay.id
<1>1. /\ r \in Reservations /\ s.res.old \in ReservationRow
      /\ p \in Payments /\ s.pay.old \in PaymentRow
      /\ FreshUnit(w)
  BY Committing DEF MoneyInv, SerialInv, Settling, FreshUnits
<1>2. reservation[r] = s.res.old
  BY <1>1, SentinelAssumption DEF FreshUnit
<1>3. reservation'[r] = s.res.new /\ \A q \in Reservations \ {r} : reservation'[q] = reservation[q]
  <2>1. CASE reservation' = reservation
    <3>1. s.res.new = s.res.old
      <4>1. SUFFICES ASSUME Dirty(s.res) PROVE FALSE
        BY DEF Dirty
      <4>2. reservation' = [reservation EXCEPT ![r] = Written(@, s.res)]
        BY <4>1 DEF Commit, Saved
      <4>3. /\ s.res.new \in ReservationRow
            /\ reservation \in [Reservations -> ReservationRow \cup {Unused, Deleted}]
        <5>1. /\ s \in Session
              /\ reservation \in [Reservations -> ReservationRow \cup {Unused, Deleted}]
          BY DEF MoneyInv, SerialInv, IInv, TypeOK, StoreTypeOK
        <5> QED
          BY <1>1, <5>1, SentinelAssumption DEF Session, Object, NoObject
      <4>4. Written(s.res.old, s.res) = s.res.new
        BY <1>1, <4>3, SentinelAssumption DEF Written, ReservationRow
      <4> QED
        BY <1>1, <1>2, <2>1, <4>1, <4>2, <4>3, <4>4 DEF Dirty
    <3> QED
      BY <1>2, <2>1, <3>1
  <2>2. ASSUME NEW q \in Reservations, reservation'[q] # reservation[q]
        PROVE  /\ q = r /\ reservation'[q] = s.res.new
               /\ \A o \in Reservations \ {r} : reservation'[o] = reservation[o]
    BY <2>2, SerialWrite DEF MoneyInv
  <2>3. CASE reservation' # reservation
    <3>1. /\ reservation \in [Reservations -> ReservationRow \cup {Unused, Deleted}]
          /\ reservation' \in [Reservations -> ReservationRow \cup {Unused, Deleted}]
      <4>1. IInv'
        BY NextIInv DEF Next, Advance, MoneyInv, SerialInv
      <4> QED
        BY <4>1 DEF MoneyInv, SerialInv, IInv, TypeOK, StoreTypeOK
    <3>2. PICK q \in Reservations : reservation'[q] # reservation[q]
      BY <2>3, <3>1
    <3> QED
      BY <2>2, <3>2
  <2> QED
    BY <2>1, <2>3
<1>4. payment[p] = s.pay.old
  BY DEF MoneyInv, MoneyUnit
<1>5. payment' = Saved(payment, s.pay)
  BY DEF Commit
<1>6. s.pay.new \in PaymentRow /\ s.pay.new # s.pay.old
  <2>1. PaymentMove(s)
    BY Committing DEF MoneyInv, SerialInv, Settling
  <2> QED
    BY <1>1, <2>1 DEF PaymentMove, Processed, Refunded, PaymentRow, PAYMENT_STATUSES
<1>7. Written(s.pay.old, s.pay) = s.pay.new
  BY <1>1, <1>6, SentinelAssumption DEF Written, PaymentRow
<1>8. payment \in [Payments -> PaymentRow \cup {Unused, Deleted}]
  BY DEF MoneyInv, SerialInv, IInv, TypeOK, StoreTypeOK
<1>9. payment' = [payment EXCEPT ![p] = s.pay.new]
  BY <1>4, <1>5, <1>6, <1>7 DEF Saved, Dirty
<1>10. payment'[p] = s.pay.new /\ \A q \in Payments \ {p} : payment'[q] = payment[q]
  BY <1>1, <1>8, <1>9
<1> QED
  BY <1>1, <1>2, <1>3, <1>4, <1>5, <1>10

\* process_payment: more is paid, and a pending reservation that is now covered is
\* confirmed.  refund_payment: less is paid, and a confirmed one that is no longer
\* covered is pending again.
LEMMA MoneySettles ==
    ASSUME Serial, MoneyInv, NEW w \in Workers, Commit(w),
           session[w].op \in {"process_payment", "refund_payment"}
    PROVE  ConfirmedIffCovered'
<1> DEFINE s == session[w]
<1>1. PICK r \in Reservations, p \in Payments :
              /\ r = s.res.id /\ p = s.pay.id
              /\ reservation[r] = s.res.old /\ reservation'[r] = s.res.new
              /\ \A q \in Reservations \ {r} : reservation'[q] = reservation[q]
              /\ payment[p] = s.pay.old /\ payment'[p] = s.pay.new
              /\ \A q \in Payments \ {p} : payment'[q] = payment[q]
              /\ payment' = Saved(payment, s.pay)
  BY SettlementWrites
<1>2. /\ s.res.old \in ReservationRow /\ s.pay.old \in PaymentRow
      /\ s.pay.old.reservation = r /\ PaymentMove(s) /\ s.phase = "ready"
  BY <1>1, Committing DEF MoneyInv, SerialInv, Settling
<1>3. s.res.new = [s.res.old EXCEPT !.status = Settled(s.op, payment', s.res.old, r)]
  BY <1>1, <1>2 DEF MoneyInv, MoneyUnit
<1>4. /\ s.pay.new.reservation = r /\ s.pay.new.amount = s.pay.old.amount
      /\ s.op = "process_payment" => s.pay.old.status = "pending" /\ s.pay.new.status = "paid"
      /\ s.op = "refund_payment" => s.pay.old.status = "paid" /\ s.pay.new.status = "refunded"
      /\ s.pay.new \in PaymentRow
  BY <1>2 DEF PaymentMove, Processed, Refunded, PaymentRow, PAYMENT_STATUSES
<1>5. Stored(payment, p) /\ Stored(payment', p)
  BY <1>1, <1>2, <1>4, SentinelAssumption DEF Stored
<1>6. [Next]_vars
  BY DEF Next, Advance
<1>7. ASSUME NEW q \in Reservations, q # r, Stored(reservation', q)
      PROVE  Balanced(payment', reservation'[q], q)
  <2>1. PaidPayments(payment, q) = PaidPayments(payment', q)
    BY <1>1, <1>2, <1>4, <1>7 DEF PaidPayments, Stored
  <2>2. \A o \in PaidPayments(payment, q) : payment'[o].amount = payment[o].amount
    BY <1>1, <1>4 DEF PaidPayments
  <2> QED
    BY <1>1, <1>6, <1>7, <2>1, <2>2, BalanceKept DEF Stored
<1>8. Balanced(payment', reservation'[r], r)
  <2> DEFINE old == s.res.old
             before == TotalPaid(payment, r)
             after == TotalPaid(payment', r)
  <2>1. Balanced(payment, old, r)
    <3>1. Stored(reservation, r)
      BY <1>1, <1>2, SentinelAssumption DEF Stored
    <3> QED
      BY <1>1, <3>1 DEF MoneyInv, ConfirmedIffCovered, Balanced
  <2>2. before \in Nat /\ after \in Nat
    BY <1>6, MoneyTables, PaidIsMoney
  <2>3. old.total_amount \in Nat \cup {None}
    BY <1>2 DEF ReservationRow
  <2>4. /\ reservation'[r].total_amount = old.total_amount
        /\ reservation'[r].status = Settled(s.op, payment', old, r)
    BY <1>1, <1>2, <1>3 DEF ReservationRow
  <2>5. s.op = "process_payment" => before <= after
    <3> SUFFICES ASSUME s.op = "process_payment" PROVE before <= after
      OBVIOUS
    <3>1. PaidPayments(payment, r) \subseteq PaidPayments(payment', r)
      BY <1>1, <1>4, <1>5 DEF PaidPayments, Stored
    <3>2. \A o \in PaidPayments(payment, r) : payment'[o].amount = payment[o].amount
      BY <1>1, <1>4 DEF PaidPayments
    <3> QED
      BY <1>6, <3>1, <3>2, MoneyTables, PaidGrows
  <2>6. s.op = "refund_payment" => after <= before
    <3> SUFFICES ASSUME s.op = "refund_payment" PROVE after <= before
      OBVIOUS
    <3>1. PaidPayments(payment', r) \subseteq PaidPayments(payment, r)
      BY <1>1, <1>4, <1>5 DEF PaidPayments, Stored
    <3>2. \A o \in PaidPayments(payment', r) : payment[o].amount = payment'[o].amount
      BY <1>1, <1>4 DEF PaidPayments
    <3> QED
      BY <1>6, <3>1, <3>2, MoneyTables, PaidGrows
  <2>7. /\ Covered(payment, old, r) <=> old.total_amount # None /\ before >= old.total_amount
        /\ Covered(payment', old, r) <=> old.total_amount # None /\ after >= old.total_amount
        /\ Uncovered(payment', old, r) <=> old.total_amount # None /\ after < old.total_amount
    BY DEF Covered, Uncovered
  <2>8. Balanced(payment', reservation'[r], r) <=>
           /\ reservation'[r].status = "confirmed" => Covered(payment', old, r)
           /\ reservation'[r].status = "pending" => ~Covered(payment', old, r)
    BY <2>4 DEF Balanced, Covered
  <2> HIDE DEF before, after, old
  <2>9. CASE s.op = "process_payment"
    <3>1. Covered(payment, old, r) => Covered(payment', old, r)
      BY <2>2, <2>3, <2>5, <2>7, <2>9
    <3> QED
      BY <2>1, <2>4, <2>8, <2>9, <3>1 DEF Settled, Balanced
  <2>10. CASE s.op = "refund_payment"
    <3>1. Covered(payment', old, r) => Covered(payment, old, r)
      BY <2>2, <2>3, <2>6, <2>7, <2>10
    <3>2. Covered(payment, old, r) => Covered(payment', old, r) \/ Uncovered(payment', old, r)
      BY <2>2, <2>3, <2>7
    <3>3. Uncovered(payment', old, r) => ~Covered(payment', old, r)
      BY <2>2, <2>3, <2>7
    <3> QED
      BY <2>1, <2>4, <2>8, <2>10, <3>1, <3>2, <3>3 DEF Settled, Balanced
  <2> QED
    BY <2>9, <2>10
<1> QED
  BY <1>7, <1>8 DEF ConfirmedIffCovered, Balanced

--------------------------------------------------------------------------------
(****************************************************************************)
(* The theorem.                                                             *)
(****************************************************************************)

\* A request in flight is untouched, or there is none any more.
LEMMA MoneyUnitsStay ==
    ASSUME MoneyInv, payment' = payment,
           \A w \in Workers : session'[w] = session[w] \/ session'[w] = NoSession
    PROVE  (\A w \in Workers : MoneyUnit(w))'
<1>1. ASSUME NEW w \in Workers PROVE MoneyUnit(w)'
  <2>1. CASE session'[w] = session[w]
    BY <2>1 DEF MoneyInv, MoneyUnit
  <2>2. CASE session'[w] = NoSession
    BY <2>2 DEF MoneyUnit, NoSession, Work
  <2> QED
    BY <2>1, <2>2
<1> QED
  BY <1>1

\* A commit: what it leaves is right, and no request is in flight any more.
LEMMA MoneyCommit ==
    ASSUME Serial, NoRebookings, MoneyInv, NEW w \in Workers, Commit(w)
    PROVE  (ConfirmedIffCovered /\ \A v \in Workers : MoneyUnit(v))'
<1>1. session'[w] = NoSession
  BY DEF Commit, MoneyInv, SerialInv, IInv, TypeOK, StoreTypeOK
<1>2. (\A v \in Workers : MoneyUnit(v))'
  BY <1>1 DEF Serial, MoneyUnit, NoSession, Work
<1>3. payment' = payment \/ session[w].op \in {"create_payment", "process_payment", "refund_payment"}
  BY CommitPayments DEF MoneyInv, SerialInv
<1> QED
  BY <1>2, <1>3, MoneyStays, MoneyCreatePayment, MoneySettles

\* delete_reservation takes the payments of that reservation, and no others.
LEMMA MoneyDelete ==
    ASSUME Serial, MoneyInv, NEW w \in Workers, CommitDelete(w)
    PROVE  (ConfirmedIffCovered /\ \A v \in Workers : MoneyUnit(v))'
<1> DEFINE r == session[w].res.id
<1>1. /\ r \in Reservations
      /\ reservation' = [reservation EXCEPT ![r] = Deleted]
      /\ payment' = [p \in Payments |-> IF p \in PaymentsOf(r) THEN Deleted ELSE payment[p]]
  BY PhaseTellsOp DEF CommitDelete, Removing, MoneyInv, SerialInv
<1>2. session'[w] = NoSession
  BY RemovalEnds DEF MoneyInv
<1>3. (\A v \in Workers : MoneyUnit(v))'
  BY <1>2 DEF Serial, MoneyUnit, NoSession, Work
<1>4. [Next]_vars
  BY DEF Next, Advance
<1>5. reservation \in [Reservations -> ReservationRow \cup {Unused, Deleted}]
  BY DEF MoneyInv, SerialInv, IInv, TypeOK, StoreTypeOK
<1>6. ASSUME NEW q \in Reservations, Stored(reservation', q)
      PROVE  Balanced(payment', reservation'[q], q)
  <2>1. q # r /\ reservation'[q] = reservation[q]
    BY <1>1, <1>5, <1>6 DEF Stored
  <2>2. PaidPayments(payment, q) = PaidPayments(payment', q)
    BY <1>1, <2>1 DEF PaidPayments, PaymentsOf, Stored
  <2>3. \A p \in PaidPayments(payment, q) : payment'[p].amount = payment[p].amount
    BY <1>1, <2>1 DEF PaidPayments, PaymentsOf
  <2> QED
    BY <1>4, <1>6, <2>1, <2>2, <2>3, BalanceKept DEF Stored
<1>7. ConfirmedIffCovered'
  BY <1>6 DEF ConfirmedIffCovered, Balanced
<1> QED
  BY <1>3, <1>7

\* A step that writes neither table.
LEMMA MoneyElsewhere ==
    ASSUME MoneyInv, reservation' = reservation, payment' = payment,
           \A w \in Workers : session'[w] = session[w] \/ session'[w] = NoSession
    PROVE  (ConfirmedIffCovered /\ \A w \in Workers : MoneyUnit(w))'
<1>1. ConfirmedIffCovered'
  BY DEF MoneyInv, ConfirmedIffCovered, Stored
<1> QED
  BY <1>1, MoneyUnitsStay

\* A request that begins.
LEMMA MoneyRequest ==
    ASSUME Serial, NoRebookings, MoneyInv, NEW w \in Workers, Request(w)
    PROVE  (ConfirmedIffCovered /\ \A v \in Workers : MoneyUnit(v))'
<1>1. CASE CancelReservation(w)
  <2>1. PICK res : SetSession(w, Work("cancel_reservation", "ready", res, NoObject, NoObject))
    BY <1>1 DEF CancelReservation
  <2> QED
    BY <2>1, MoneyElse
<1>2. CASE CheckIn(w)
  <2>1. PICK res, rm : SetSession(w, Work("check_in", "ready", res, NoObject, rm))
    BY <1>2 DEF CheckIn
  <2> QED
    BY <2>1, MoneyElse
<1>3. CASE CheckOut(w)
  <2>1. PICK res, rm : SetSession(w, Work("check_out", "ready", res, NoObject, rm))
    BY <1>3 DEF CheckOut
  <2> QED
    BY <2>1, MoneyElse
<1>4. CASE CreatePayment(w)
  <2>1. PICK pay : SetSession(w, Work("create_payment", "ready", NoObject, pay, NoObject))
    BY <1>4 DEF CreatePayment
  <2> QED
    BY <2>1, MoneyElse
<1>5. CASE UpdateRoom(w) \/ UpdateRoomType(w)
  BY <1>5, MoneyElsewhere DEF UpdateRoom, UpdateRoomType
<1>6. ~UpdateReservation(w)
  BY DEF UpdateReservation, NoRebookings
<1>7. CASE DeleteReservation(w)
  <2>1. PICK r, work : SetSession(w, work) /\ work.op = "delete_reservation"
    BY <1>7, RemovalBegins
  <2> QED
    BY <2>1, MoneySession
<1> QED
  BY <1>1, <1>2, <1>3, <1>4, <1>5, <1>6, <1>7, MoneyCreate, MoneyLoad DEF Request

\* The DELETEs of a delete before its commit.
LEMMA MoneyRemoval ==
    ASSUME Serial, MoneyInv, NEW w \in Workers, EmptyReservation(w) \/ LockReservation(w)
    PROVE  (ConfirmedIffCovered /\ \A v \in Workers : MoneyUnit(v))'
<1>1. PICK work : SetSession(w, work) /\ work.op = "delete_reservation"
  BY RemovalGoesOn DEF MoneyInv
<1> QED
  BY <1>1, MoneySession

\* Every step preserves the invariant.
LEMMA NextMoneyInv == ASSUME Serial, NoRebookings PROVE MoneyInv /\ [Next]_vars => MoneyInv'
<1> SUFFICES ASSUME MoneyInv, [Next]_vars
             PROVE  (ConfirmedIffCovered /\ \A w \in Workers : MoneyUnit(w))'
  BY NextSerialInv, NextFinitelyUsed DEF MoneyInv, SerialInv
<1>1. ASSUME NEW w \in Workers, Rollback(w)
      PROVE  (ConfirmedIffCovered /\ \A v \in Workers : MoneyUnit(v))'
  <2>1. \A v \in Workers : session'[v] = session[v] \/ session'[v] = NoSession
    BY <1>1 DEF Rollback, MoneyInv, SerialInv, IInv, TypeOK, StoreTypeOK
  <2> QED
    BY <1>1, <2>1, MoneyElsewhere DEF Rollback, tables
<1>2. CASE Tick \/ UNCHANGED vars
  BY <1>2, MoneyElsewhere DEF Tick, vars, tables
<1> QED
  BY <1>1, <1>2, MoneyRequest, MoneyFlush, MoneyRemoval, MoneyCommit, MoneyDelete
  DEF Next, Advance

\* An empty database uses no ids.
LEMMA InitFinitelyUsed == Init => FinitelyUsed
<1> SUFFICES ASSUME Init PROVE FinitelyUsed
  OBVIOUS
<1>1. UsedReservations = {} /\ UsedPayments = {}
  BY DEF Init, StoreInit, UsedReservations, UsedPayments
<1> QED
  BY <1>1, FS_EmptySet DEF FinitelyUsed

\* The empty database satisfies the invariant.
LEMMA InitMoneyInv == Init => MoneyInv
<1> SUFFICES ASSUME Init PROVE ConfirmedIffCovered /\ \A w \in Workers : MoneyUnit(w)
  BY InitSerialInv, InitFinitelyUsed DEF MoneyInv
<1> QED
  BY DEF Init, StoreInit, ConfirmedIffCovered, Stored, MoneyUnit, NoSession, Work

\* process_payment, refund_payment: with requests served one at a time, and as long as no
\* reservation is rebooked, an open reservation is confirmed exactly when its paid
\* payments cover its total - also with prices that change, deletes, rollbacks and refunds.
THEOREM SerialCoverage ==
    ASSUME Serial, NoRebookings PROVE Spec => []ConfirmedIffCovered
<1>1. MoneyInv => ConfirmedIffCovered
  BY DEF MoneyInv
<1> QED
  BY <1>1, InitMoneyInv, NextMoneyInv, PTL DEF Spec

================================================================================
