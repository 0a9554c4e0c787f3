---------------------------- MODULE Dashboard_proofs ----------------------------
(****************************************************************************)
(* The reports.  Two queries that count or sum the same rows by different   *)
(* columns agree because of what the invariants of the booking engine say   *)
(* of the tables; the rest is counting.                                     *)
(****************************************************************************)
EXTENDS Dashboard, SerialMoney_proofs

--------------------------------------------------------------------------------
(****************************************************************************)
(* Revenue.                                                                 *)
(****************************************************************************)
AllPaid == {p \in Payments : Stored(payment, p) /\ payment[p].status = "paid"}

\* A sum over histories is the sum of what each says is paid.
LEMMA SumOfHistories ==
    ASSUME NEW S, IsFiniteSet(S)
    PROVE  MapThenSumSet(LAMBDA r : GetReservationHistory(r).total_paid, S)
              = Total([r \in S |-> TotalPaid(payment, r)], S)
<1> DEFINE iter == CHOOSE h : h = [s \in SUBSET S |->
                        IF s = {} THEN 0
                        ELSE GetReservationHistory(CHOOSE x \in s : TRUE).total_paid
                                + h[s \ {CHOOSE x \in s : TRUE}]]
           f == [r \in S |-> TotalPaid(payment, r)]
<1>1. MapThenSumSet(LAMBDA r : GetReservationHistory(r).total_paid, S) = iter[S]
  BY DEF MapThenSumSet, MapThenFoldSet
<1>2. \A h : Sums(f, h, S) <=> h = [s \in SUBSET S |->
                        IF s = {} THEN 0
                        ELSE GetReservationHistory(CHOOSE x \in s : TRUE).total_paid
                                + h[s \ {CHOOSE x \in s : TRUE}]]
  <2>1. \A r : GetReservationHistory(r).total_paid = TotalPaid(payment, r)
    BY DEF GetReservationHistory
  <2>2. \A s \in SUBSET S : s # {} => f[Pick(s)] = GetReservationHistory(Pick(s)).total_paid
    BY <2>1, PickOne
  <2> HIDE DEF f
  <2> QED
    BY <2>2 DEF Sums, Partial, Pick
<1>3. PICK h : Sums(f, h, S)
  BY SumsExist
<1>4. h = [s \in SUBSET S |->
                        IF s = {} THEN 0
                        ELSE GetReservationHistory(CHOOSE x \in s : TRUE).total_paid
                                + h[s \ {CHOOSE x \in s : TRUE}]]
  BY <1>2, <1>3
<1>5. iter = [s \in SUBSET S |->
                        IF s = {} THEN 0
                        ELSE GetReservationHistory(CHOOSE x \in s : TRUE).total_paid
                                + iter[s \ {CHOOSE x \in s : TRUE}]]
  BY <1>4, Zenon
<1>6. Sums(f, iter, S)
  BY <1>2, <1>5
<1> HIDE DEF iter, f
<1>7. Total(f, S) = iter[S]
  BY <1>6, TotalIsSum
<1> QED
  BY <1>1, <1>7 DEF iter, f

\* The paid payments are finitely many, and their amounts are numbers.
LEMMA AllPaidIsMoney ==
    ASSUME IInv, FinitelyUsed
    PROVE  /\ AllPaid \in SUBSET Payments /\ IsFiniteSet(AllPaid)
           /\ \A p \in AllPaid : AmountOf(payment)[p] \in Nat
<1>1. AllPaid \in SUBSET UsedPayments
  BY DEF AllPaid, UsedPayments, Stored
<1>2. IsFiniteSet(AllPaid)
  BY <1>1, FS_Subset DEF FinitelyUsed
<1>3. ASSUME NEW p \in AllPaid PROVE AmountOf(payment)[p] \in Nat
  <2>1. p \in Payments /\ payment[p] \in PaymentRow
    BY <1>3, StoredPayment DEF AllPaid
  <2> QED
    BY <2>1, MoneyConstants DEF AmountOf, PaymentRow
<1> QED
  BY <1>1, <1>2, <1>3 DEF UsedPayments

\* get_revenue_stats, get_summary: the sum by status.
LEMMA RevenueByStatus ==
    ASSUME IInv, FinitelyUsed, NEW u \in Admins
    PROVE  /\ Report(u, "revenue", None).amounts["paid"] = Total(AmountOf(payment), AllPaid)
           /\ Report(u, "summary", None).payments["paid"] = Total(AmountOf(payment), AllPaid)
<1>1. AllPaid \in SUBSET Payments /\ IsFiniteSet(AllPaid)
  BY AllPaidIsMoney
<1>2. PaymentSums["paid"].sum = MapThenSumSet(LAMBDA p : payment[p].amount, AllPaid)
  BY DEF PaymentSums, PAYMENT_STATUSES, AllPaid
<1>3. MapThenSumSet(LAMBDA p : payment[p].amount, AllPaid) = Total(AmountOf(payment), AllPaid)
  BY <1>1, SumOfPayments
<1>4. Report(u, "revenue", None) = GetRevenueStats /\ Report(u, "summary", None) = GetSummary
  BY DEF Report
<1>5. GetRevenueStats.amounts["paid"] = PaymentSums["paid"].sum
  BY DEF GetRevenueStats
<1>6. GetSummary.payments["paid"] = PaymentSums["paid"].sum
  BY DEF GetSummary
<1> QED
  BY <1>2, <1>3, <1>4, <1>5, <1>6

\* The calendar: finitely many years, each with the twelve months, all within what the
\* query parameter accepts.
LEMMA Calendar ==
    /\ IsFiniteSet(Years) /\ IsFiniteSet(Months)
    /\ \A stamp \in Stamps : stamp.year \in Years /\ stamp.month \in Months
    /\ \A y \in Years : y \in 2000 .. 2100 /\ y # None
<1>1. MonthOf \in [0 .. LastDay -> [year : 2000 .. 2100, month : 1 .. 12]]
  BY StoreAssumption
<1>2. LastDay \in Nat
  BY StoreAssumption
<1>3. IsFiniteSet(Days) /\ IsFiniteSet(Months)
  <2>1. 0 \in Int /\ 1 \in Int /\ 12 \in Int /\ LastDay \in Int
    BY <1>2
  <2>2. IsFiniteSet(0 .. LastDay) /\ IsFiniteSet(1 .. 12)
    BY <2>1, FS_Interval, Zenon
  <2> QED
    BY <2>2 DEF Days, Months
<1>4. \A d \in Days : MonthOf[d].year \in 2000 .. 2100 /\ MonthOf[d].month \in Months
  <2> DEFINE days == 0 .. LastDay
             range == [year : 2000 .. 2100, month : 1 .. 12]
  <2>1. \A stamp \in range : stamp.year \in 2000 .. 2100 /\ stamp.month \in Months
    BY DEF Months
  <2> HIDE DEF days, range
  <2>2. \A d \in days : MonthOf[d] \in range
    <3>1. MonthOf \in [days -> range]
      BY <1>1 DEF days, range
    <3> QED
      BY <3>1
  <2>3. Days = days
    BY DEF Days, days
  <2> QED
    BY <2>1, <2>2, <2>3
<1>5. IsFiniteSet(Years)
  <2> DEFINE yearOf == [d \in Days |-> MonthOf[d].year]
  <2>1. yearOf \in Surjection(Days, Years)
    BY DEF Surjection, Years
  <2> HIDE DEF yearOf
  <2> QED
    BY <1>3, <2>1, FS_Surjection
<1>6. \A y \in Years : y \in 2000 .. 2100 /\ y # None
  BY <1>4, SentinelAssumption DEF Years
<1>7. \A stamp \in Stamps : stamp.year \in Years /\ stamp.month \in Months
  BY <1>4 DEF Stamps, Years
<1> QED
  BY <1>3, <1>5, <1>6, <1>7

\* The report of a year in which the system has been running, or of this year.
LEMMA MonthlyReport ==
    ASSUME IInv, NEW u \in Admins, NEW year \in Years \cup {None}
    PROVE  \E asked \in Years :
              /\ year # None => asked = year
              /\ Report(u, "monthly-revenue", year) = MonthlyRevenue(asked)
<1> DEFINE asked == IF year = None THEN MonthOf[today].year ELSE year
<1>1. asked \in Years
  BY DEF Years, IInv, TypeOK, StoreTypeOK
<1>2. asked \in 2000 .. 2100
  BY <1>1, Calendar
<1>3. Report(u, "monthly-revenue", year) = GetMonthlyRevenue(year)
  BY DEF Report
<1> QED
  BY <1>1, <1>2, <1>3 DEF GetMonthlyRevenue

\* A month's revenue is the amounts of the payments stamped with it.
LEMMA MonthIsTotal ==
    ASSUME IInv, FinitelyUsed, NEW year, NEW month
    PROVE  /\ PaidIn(year, month) \in SUBSET AllPaid
           /\ MapThenSumSet(LAMBDA p : payment[p].amount, PaidIn(year, month))
                 = Total(AmountOf(payment), PaidIn(year, month))
           /\ Total(AmountOf(payment), PaidIn(year, month)) \in Nat
<1>1. PaidIn(year, month) \in SUBSET AllPaid
  BY DEF PaidIn, AllPaid
<1>2. PaidIn(year, month) \in SUBSET Payments /\ IsFiniteSet(PaidIn(year, month))
  BY <1>1, AllPaidIsMoney, FS_Subset
<1>3. \A p \in PaidIn(year, month) : AmountOf(payment)[p] \in Nat
  BY <1>1, AllPaidIsMoney
<1> QED
  BY <1>1, <1>2, <1>3, SumOfPayments, TotalNatural

\* A sum over months is the sum of what each month has.
LEMMA SumOfMonths ==
    ASSUME NEW report
    PROVE  YearTotal(report) = Total([m \in Months |-> report.months[m]], Months)
<1> DEFINE iter == CHOOSE h : h = [s \in SUBSET Months |->
                        IF s = {} THEN 0
                        ELSE report.months[CHOOSE x \in s : TRUE]
                                + h[s \ {CHOOSE x \in s : TRUE}]]
           f == [m \in Months |-> report.months[m]]
<1>1. YearTotal(report) = iter[Months]
  BY DEF YearTotal, MapThenSumSet, MapThenFoldSet
<1>2. \A h : Sums(f, h, Months) <=> h = [s \in SUBSET Months |->
                        IF s = {} THEN 0
                        ELSE report.months[CHOOSE x \in s : TRUE]
                                + h[s \ {CHOOSE x \in s : TRUE}]]
  <2>1. \A s \in SUBSET Months : s # {} => f[Pick(s)] = report.months[Pick(s)]
    BY PickOne
  <2> HIDE DEF f
  <2> QED
    BY <2>1 DEF Sums, Partial, Pick
<1>3. PICK h : Sums(f, h, Months)
  BY SumsExist, Calendar
<1>4. h = [s \in SUBSET Months |->
                        IF s = {} THEN 0
                        ELSE report.months[CHOOSE x \in s : TRUE]
                                + h[s \ {CHOOSE x \in s : TRUE}]]
  BY <1>2, <1>3
<1>5. iter = [s \in SUBSET Months |->
                        IF s = {} THEN 0
                        ELSE report.months[CHOOSE x \in s : TRUE]
                                + iter[s \ {CHOOSE x \in s : TRUE}]]
  BY <1>4, Zenon
<1>6. Sums(f, iter, Months)
  BY <1>2, <1>5
<1> HIDE DEF iter, f
<1>7. Total(f, Months) = iter[Months]
  BY <1>6, TotalIsSum, Calendar
<1> QED
  BY <1>1, <1>7 DEF iter, f

\* A sum over years is the sum of what the reports of the years add up to.
LEMMA SumOfYears ==
    ASSUME NEW u
    PROVE  MapThenSumSet(LAMBDA y : YearTotal(Report(u, "monthly-revenue", y)), Years)
              = Total([y \in Years |-> YearTotal(Report(u, "monthly-revenue", y))], Years)
<1> DEFINE iter == CHOOSE h : h = [s \in SUBSET Years |->
                        IF s = {} THEN 0
                        ELSE YearTotal(Report(u, "monthly-revenue", CHOOSE x \in s : TRUE))
                                + h[s \ {CHOOSE x \in s : TRUE}]]
           f == [y \in Years |-> YearTotal(Report(u, "monthly-revenue", y))]
<1>1. MapThenSumSet(LAMBDA y : YearTotal(Report(u, "monthly-revenue", y)), Years) = iter[Years]
  BY DEF MapThenSumSet, MapThenFoldSet
<1>2. \A h : Sums(f, h, Years) <=> h = [s \in SUBSET Years |->
                        IF s = {} THEN 0
                        ELSE YearTotal(Report(u, "monthly-revenue", CHOOSE x \in s : TRUE))
                                + h[s \ {CHOOSE x \in s : TRUE}]]
  <2>1. \A s \in SUBSET Years : s # {} =>
            f[Pick(s)] = YearTotal(Report(u, "monthly-revenue", Pick(s)))
    BY PickOne
  <2> HIDE DEF f
  <2> QED
    BY <2>1 DEF Sums, Partial, Pick
<1>3. PICK h : Sums(f, h, Years)
  BY SumsExist, Calendar
<1>4. h = [s \in SUBSET Years |->
                        IF s = {} THEN 0
                        ELSE YearTotal(Report(u, "monthly-revenue", CHOOSE x \in s : TRUE))
                                + h[s \ {CHOOSE x \in s : TRUE}]]
  BY <1>2, <1>3
<1>5. iter = [s \in SUBSET Years |->
                        IF s = {} THEN 0
                        ELSE YearTotal(Report(u, "monthly-revenue", CHOOSE x \in s : TRUE))
                                + iter[s \ {CHOOSE x \in s : TRUE}]]
  BY <1>4, Zenon
<1>6. Sums(f, iter, Years)
  BY <1>2, <1>5
<1> HIDE DEF iter, f
<1>7. Total(f, Years) = iter[Years]
  BY <1>6, TotalIsSum, Calendar
<1> QED
  BY <1>1, <1>7 DEF iter, f

\* The payments stamped with a year, and what its report adds up to.
PaidInYear(year) == {p \in AllPaid : payment[p].paid_at.year = year}

\* get_monthly_revenue: a paid payment is stamped with one month of one year.
LEMMA YearIsTotal ==
    ASSUME IInv, FinitelyUsed, NEW u \in Admins, NEW y \in Years
    PROVE  YearTotal(Report(u, "monthly-revenue", y)) = Total(AmountOf(payment), PaidInYear(y))
<1> DEFINE report == Report(u, "monthly-revenue", y)
           k == [p \in Payments |-> payment[p].paid_at.month]
           of == [m \in Months |-> PaidIn(y, m)]
           g == [m \in Months |-> report.months[m]]
           P == PaidInYear(y)
<1>1. \A p \in AllPaid : p \in Payments /\ payment[p].paid_at \in Stamps /\ payment[p].paid_at # None
  <2>1. SUFFICES ASSUME NEW p \in AllPaid
                 PROVE  p \in Payments /\ payment[p].paid_at \in Stamps /\ payment[p].paid_at # None
    OBVIOUS
  <2>2. payment[p] \in PaymentRow /\ payment[p].paid_at # None
    BY StoredPayment DEF AllPaid, IInv, PaidAtMatchesStatus
  <2> QED
    BY <2>2 DEF AllPaid, PaymentRow
<1>2. \A p \in P : k[p] \in Months
  BY <1>1, Calendar DEF PaidInYear
<1>3. \A m \in Months : of[m] = {p \in P : k[p] = m}
  BY <1>1 DEF PaidIn, PaidInYear, AllPaid
<1>4. ASSUME NEW m \in Months PROVE g[m] = Total(AmountOf(payment), of[m])
  <2>1. report = MonthlyRevenue(y)
    BY MonthlyReport, Calendar
  <2> HIDE DEF report
  <2>2. g[m] = MapThenSumSet(LAMBDA p : payment[p].amount, PaidIn(y, m))
    BY <2>1 DEF MonthlyRevenue
  <2> QED
    BY <2>2, MonthIsTotal
<1>5. P \in SUBSET AllPaid
  BY DEF PaidInYear
<1>6. IsFiniteSet(P) /\ \A p \in P : AmountOf(payment)[p] \in Nat
  BY <1>5, AllPaidIsMoney, FS_Subset
<1>7. YearTotal(report) = Total(g, Months)
  BY SumOfMonths
<1> HIDE DEF k, of, g, P, report
<1>8. Total(g, Months) = Total(AmountOf(payment), P)
  BY <1>2, <1>3, <1>4, <1>6, Calendar, TotalByGroup
<1> QED
  BY <1>7, <1>8 DEF P, report

\* get_monthly_revenue: the sum by paid_at, over all months of all years.
LEMMA RevenueByMonth ==
    ASSUME IInv, FinitelyUsed, NEW u \in Admins
    PROVE  MapThenSumSet(LAMBDA y : YearTotal(Report(u, "monthly-revenue", y)), Years)
              = Total(AmountOf(payment), AllPaid)
<1> DEFINE k == [p \in Payments |-> payment[p].paid_at.year]
           of == [y \in Years |-> PaidInYear(y)]
           g == [y \in Years |-> YearTotal(Report(u, "monthly-revenue", y))]
<1>1. ASSUME NEW p \in AllPaid PROVE p \in Payments /\ k[p] \in Years
  <2>1. payment[p] \in PaymentRow /\ payment[p].paid_at # None
    BY StoredPayment DEF AllPaid, IInv, PaidAtMatchesStatus
  <2> QED
    BY <2>1, Calendar DEF AllPaid, PaymentRow
<1>2. \A y \in Years : of[y] = {p \in AllPaid : k[p] = y}
  BY <1>1 DEF PaidInYear
<1>3. \A y \in Years : g[y] = Total(AmountOf(payment), of[y])
  BY YearIsTotal
<1> HIDE DEF k, of, g
<1>4. Total(g, Years) = Total(AmountOf(payment), AllPaid)
  BY <1>1, <1>2, <1>3, AllPaidIsMoney, Calendar, TotalByGroup
<1> QED
  BY <1>4, SumOfYears DEF g

\* get_reservation_history: the sum reservation by reservation.
LEMMA RevenueByReservation ==
    ASSUME IInv, FinitelyUsed
    PROVE  MapThenSumSet(LAMBDA r : GetReservationHistory(r).total_paid,
                         ReservationsIn(RESERVATION_STATUSES))
              = Total(AmountOf(payment), AllPaid)
<1> DEFINE R == ReservationsIn(RESERVATION_STATUSES)
           k == [p \in Payments |-> payment[p].reservation]
           of == [r \in R |-> PaidPayments(payment, r)]
           g == [r \in R |-> TotalPaid(payment, r)]
<1>1. R = {r \in Reservations : Stored(reservation, r)}
  BY StoredReservation DEF ReservationsIn, ReservationRow
<1>2. IsFiniteSet(R)
  <2>1. R \in SUBSET UsedReservations
    BY <1>1 DEF UsedReservations, Stored
  <2> QED
    BY <2>1, FS_Subset DEF FinitelyUsed
<1>3. \A p \in AllPaid : k[p] \in R
  BY <1>1, StoredPayment DEF AllPaid
<1>4. \A r \in R : of[r] = {p \in AllPaid : k[p] = r}
  BY DEF PaidPayments, AllPaid
<1>5. ASSUME NEW r \in R PROVE g[r] = Total(AmountOf(payment), of[r])
  <2>1. PaidPayments(payment, r) \in SUBSET AllPaid
    BY DEF PaidPayments, AllPaid
  <2>2. IsFiniteSet(PaidPayments(payment, r))
    BY <2>1, AllPaidIsMoney, FS_Subset
  <2> QED
    BY <1>5, <2>2, PaidIsTotal
<1> HIDE DEF R, k, of, g
<1>6. Total(g, R) = Total(AmountOf(payment), AllPaid)
  BY <1>2, <1>3, <1>4, <1>5, AllPaidIsMoney, TotalByGroup
<1>7. MapThenSumSet(LAMBDA r : GetReservationHistory(r).total_paid, R) = Total(g, R)
  BY <1>2, SumOfHistories DEF g
<1> QED
  BY <1>6, <1>7 DEF R

\* get_revenue_stats, get_summary, get_monthly_revenue and the histories of the
\* reservations: whatever the workload and however requests race, adding up what was paid
\* by status, month by month over the years, and reservation by reservation gives the
\* same sum.
THEOREM Revenue == Spec => []RevenueAddsUp
<1>1. Init => IInv /\ FinitelyUsed
  BY InitIInv, InitFinitelyUsed
<1>2. IInv /\ FinitelyUsed /\ [Next]_vars => (IInv /\ FinitelyUsed)'
  BY NextIInv, NextFinitelyUsed
<1>3. IInv /\ FinitelyUsed => RevenueAddsUp
  BY RevenueByStatus, RevenueByMonth, RevenueByReservation DEF RevenueAddsUp
<1> QED
  BY <1>1, <1>2, <1>3, PTL DEF Spec

--------------------------------------------------------------------------------
(****************************************************************************)
(* Occupancy: rooms are counted where they are, reservations by the hotel   *)
(* stored in them.                                                          *)
(****************************************************************************)

\* The hotel stored in a reservation is that of its room.
Housed ==
    \A r \in Reservations : Stored(reservation, r) =>
        reservation[r].hotel = room[reservation[r].room].hotel

\* A booking is made at the hotel of the room; changes to it leave the hotel alone.
HousedUnit(w) ==
    LET s == session[w]
    IN  /\ s.op = "create_reservation" => s.res.new.hotel = room[s.res.new.room].hotel
        /\ s.op \in {"update_reservation", "cancel_reservation"} =>
              s.res.new.hotel = s.res.old.hotel

HousedInv == Housed /\ \A w \in Workers : HousedUnit(w)

RoomsStand == \A m \in Rooms : room'[m].hotel = room[m].hotel

\* No step of this workload moves a room to another hotel.
LEMMA HotelsStand ==
    ASSUME Serial, NoRoomUpdates, HeldInv, [Next]_vars
    PROVE  RoomsStand
<1>1. CASE room' = room
  BY <1>1 DEF RoomsStand
<1>2. ASSUME NEW w \in Workers, Commit(w) PROVE RoomsStand
  <2>1. CASE session[w].op \in {"check_in", "check_out"}
    <3>1. PICK m \in Rooms :
            /\ room[m] \in RoomRow
            /\ \/ room' = [room EXCEPT ![m].status = "occupied"]
               \/ room' = [room EXCEPT ![m].status = VacatedStatus(@)]
      BY <1>2, <2>1, MovesWrite
    <3>2. room \in [Rooms -> RoomRow]
      BY DEF HeldInv, SerialInv, IInv, TypeOK, StoreTypeOK
    <3>3. CASE room' = [room EXCEPT ![m].status = "occupied"]
      BY <3>2, <3>3 DEF RoomRow, RoomsStand
    <3>4. CASE room' = [room EXCEPT ![m].status = VacatedStatus(@)]
      BY <3>2, <3>4 DEF RoomRow, RoomsStand
    <3> QED
      BY <3>1, <3>3, <3>4
  <2>2. CASE session[w].op \notin {"check_in", "check_out"}
    <3>1. session[w].rm = NoObject
      BY <1>2, <2>2, Committing DEF HeldInv, SerialInv, Inserting, Rewriting, Paying, Settling
    <3> QED
      BY <1>1, <1>2, <3>1 DEF Commit, Saved, Dirty, NoObject
  <2> QED
    BY <2>1, <2>2
<1>3. ASSUME NEW w \in Workers, NEW work, SetSession(w, work) PROVE RoomsStand
  BY <1>1, <1>3 DEF SetSession, tables
<1>4. ASSUME NEW w \in Workers, Request(w) PROVE RoomsStand
  <2>1. CASE CreateReservation(w) BY <1>3, <2>1 DEF CreateReservation
  <2>2. CASE UpdateReservation(w) BY <1>3, <2>2 DEF UpdateReservation
  <2>3. CASE CancelReservation(w) BY <1>3, <2>3 DEF CancelReservation
  <2>4. CASE CheckIn(w) BY <1>3, <2>4 DEF CheckIn
  <2>5. CASE CheckOut(w) BY <1>3, <2>5 DEF CheckOut
  <2>6. CASE CreatePayment(w) BY <1>3, <2>6 DEF CreatePayment
  <2>7. CASE ProcessPayment(w) BY <1>3, <2>7 DEF ProcessPayment
  <2>8. CASE RefundPayment(w) BY <1>3, <2>8 DEF RefundPayment
  <2>9. CASE DeleteReservation(w) BY <1>3, <2>9 DEF DeleteReservation
  <2>10. CASE UpdateRoomType(w) BY <1>1, <2>10 DEF UpdateRoomType
  <2>11. ~UpdateRoom(w) BY DEF UpdateRoom, NoRoomUpdates
  <2> QED
    BY <1>4, <2>1, <2>2, <2>3, <2>4, <2>5, <2>6, <2>7, <2>8, <2>9, <2>10, <2>11 DEF Request
<1>5. ASSUME NEW w \in Workers, Advance(w), ~Commit(w) PROVE RoomsStand
  <2>1. CASE CommitDelete(w) BY <1>1, <2>1 DEF CommitDelete
  <2> QED
    BY <1>3, <1>5, <2>1 DEF Advance, FlushPayment, EmptyReservation, LockReservation
<1>6. ASSUME NEW w \in Workers, Rollback(w) PROVE RoomsStand
  BY <1>1, <1>6 DEF Rollback, tables
<1>7. CASE Tick \/ UNCHANGED vars
  BY <1>1, <1>7 DEF Tick, vars, tables
<1> QED
  BY <1>2, <1>4, <1>5, <1>6, <1>7 DEF Next

\* The request leaves the right hotel in its session.
LEMMA HousedSession ==
    ASSUME Serial, HeldInv, HousedInv, NEW w \in Workers, NEW work, SetSession(w, work),
           work.op = "create_reservation" =>
              work.res.new.hotel = room[work.res.new.room].hotel,
           work.op \in {"update_reservation", "cancel_reservation"} =>
              work.res.new.hotel = work.res.old.hotel
    PROVE  HousedInv'
<1>1. session'[w] = work /\ room' = room /\ reservation' = reservation
  BY OwnSession DEF HeldInv, SerialInv, IInv
<1>2. Housed'
  BY <1>1 DEF HousedInv, Housed, Stored
<1>3. HousedUnit(w)'
  BY <1>1 DEF HousedUnit
<1> QED
  BY <1>2, <1>3 DEF HousedInv, Serial

\* A request of an endpoint that has nothing to do with the hotel.
LEMMA HousedElse ==
    ASSUME Serial, HeldInv, HousedInv, NEW w \in Workers, NEW op, NEW phase, NEW res, NEW pay,
           NEW rm, SetSession(w, Work(op, phase, res, pay, rm)),
           op \notin {"create_reservation", "update_reservation", "cancel_reservation"}
    PROVE  HousedInv'
<1> DEFINE work == Work(op, phase, res, pay, rm)
<1>1. work.op = op
  BY DEF Work
<1> HIDE DEF work
<1>2. SetSession(w, work)
  BY DEF work
<1> QED
  BY <1>1, <1>2, HousedSession

\* A booking, an update or a cancellation.
LEMMA HousedBooking ==
    ASSUME Serial, HeldInv, HousedInv, NEW w \in Workers,
           CreateReservation(w) \/ UpdateReservation(w) \/ CancelReservation(w)
    PROVE  HousedInv'
<1>1. CASE CreateReservation(w)
  <2>1. PICK hotel \in Hotels, m \in Rooms, in \in Days, out \in Days, count \in GuestCounts,
             guest \in Users, r \in FreshReservations :
          /\ room[m].hotel = hotel
          /\ SetSession(w, Work("create_reservation", "ready",
                  Insert(r, NewReservation(guest, hotel, m, in, out, count)),
                  NoObject, NoObject))
    BY <1>1 DEF CreateReservation, BookingGuests
  <2> DEFINE row == NewReservation(guest, hotel, m, in, out, count)
             work == Work("create_reservation", "ready", Insert(r, row), NoObject, NoObject)
  <2>2. row.room = m /\ row.hotel = hotel
    BY DEF NewReservation
  <2>3. work.op = "create_reservation" /\ work.res.new = row
    BY DEF Work, Insert
  <2>4. SetSession(w, work)
    BY <2>1
  <2> HIDE DEF work, row
  <2> QED
    BY <2>1, <2>2, <2>3, <2>4, HousedSession
<1>2. ASSUME NEW r \in Reservations, Stored(reservation, r), NEW row, NEW op,
             row.hotel = reservation[r].hotel, op # "create_reservation",
             SetSession(w, Work(op, "ready", Changed(reservation, r, row), NoObject, NoObject))
      PROVE  HousedInv'
  <2> DEFINE work == Work(op, "ready", Changed(reservation, r, row), NoObject, NoObject)
  <2>1. work.op = op /\ work.res.new = row /\ work.res.old = reservation[r]
    BY DEF Work, Changed
  <2>2. SetSession(w, work)
    BY <1>2
  <2> HIDE DEF work
  <2> QED
    BY <1>2, <2>1, <2>2, HousedSession
<1>3. CASE UpdateReservation(w)
  <2>1. PICK r \in Reservations, in \in Days, out \in Days, count \in GuestCounts,
             datesSent \in BOOLEAN :
          /\ Stored(reservation, r)
          /\ SetSession(w, Work("update_reservation", "ready",
                  Changed(reservation, r, Rebooked(r, in, out, count, datesSent)),
                  NoObject, NoObject))
    BY <1>3 DEF UpdateReservation
  <2> DEFINE row == Rebooked(r, in, out, count, datesSent)
  <2>2. row.hotel = reservation[r].hotel
    BY <2>1, StoredFits DEF Rebooked, ReservationRow, HeldInv
  <2> HIDE DEF row
  <2>3. SetSession(w, Work("update_reservation", "ready", Changed(reservation, r, row),
                           NoObject, NoObject))
    BY <2>1 DEF row
  <2> QED
    BY <1>2, <2>1, <2>2, <2>3
<1>4. CASE CancelReservation(w)
  <2>1. PICK r \in Reservations :
          /\ Stored(reservation, r)
          /\ SetSession(w, Work("cancel_reservation", "ready",
                Changed(reservation, r, [reservation[r] EXCEPT !.status = "cancelled"]),
                NoObject, NoObject))
    BY <1>4 DEF CancelReservation
  <2> DEFINE row == [reservation[r] EXCEPT !.status = "cancelled"]
  <2>2. row.hotel = reservation[r].hotel
    BY <2>1, StoredFits DEF ReservationRow, HeldInv
  <2> HIDE DEF row
  <2>3. SetSession(w, Work("cancel_reservation", "ready", Changed(reservation, r, row),
                           NoObject, NoObject))
    BY <2>1 DEF row
  <2> QED
    BY <1>2, <2>1, <2>2, <2>3
<1> QED
  BY <1>1, <1>3, <1>4

\* A step that writes no reservation and no session, except to end it.
LEMMA HousedElsewhere ==
    ASSUME HeldInv, HousedInv, RoomsStand, reservation' = reservation,
           \A w \in Workers : session'[w] = session[w] \/ session'[w] = NoSession
    PROVE  HousedInv'
<1>1. Housed'
  BY StoredFits DEF HeldInv, HousedInv, Housed, RoomsStand, Stored, ReservationRow
<1>2. ASSUME NEW w \in Workers PROVE HousedUnit(w)'
  <2>1. CASE session'[w] = NoSession
    BY <2>1 DEF HousedUnit, NoSession, Work
  <2>2. CASE session'[w] = session[w]
    <3>1. session[w].op = "create_reservation" => session[w].res.new.room \in Rooms
      BY DEF HeldInv, SerialInv, IInv, UnitsOfWork, UnitOfWork, Inserting, ReservationRow
    <3> QED
      BY <2>2, <3>1 DEF HousedInv, HousedUnit, RoomsStand
  <2> QED
    BY <1>2, <2>1, <2>2
<1> QED
  BY <1>1, <1>2 DEF HousedInv

\* A serial commit stores the hotel that its session holds.
LEMMA HousedCommit ==
    ASSUME Serial, HeldInv, HousedInv, RoomsStand, NEW w \in Workers, Commit(w)
    PROVE  HousedInv'
<1> DEFINE s == session[w]
<1>1. ASSUME NEW r \in Reservations, Stored(reservation', r)
      PROVE  /\ reservation'[r].hotel = room[reservation'[r].room].hotel
             /\ reservation'[r].room \in Rooms
  <2>1. CASE reservation'[r] = reservation[r]
    BY <1>1, <2>1, StoredFits DEF HeldInv, HousedInv, Housed, Stored, ReservationRow
  <2>2. CASE reservation'[r] # reservation[r]
    <3>1. /\ r = s.res.id /\ reservation'[r] = s.res.new /\ s.res.new \in ReservationRow
          /\ FreshUnit(w) /\ r # None
      BY <2>2, SerialWrite, SentinelAssumption DEF HeldInv, SerialInv, FreshUnits
    <3>2. s.res.new.room \in Rooms
      BY <3>1 DEF ReservationRow
    <3>3. CASE s.op = "create_reservation"
      BY <3>1, <3>2, <3>3 DEF HousedInv, HousedUnit
    <3>4. ASSUME s.res.old \in ReservationRow, s.res.new.hotel = s.res.old.hotel
          PROVE  reservation'[r].hotel = room[reservation'[r].room].hotel
      <4>1. reservation[r] = s.res.old /\ s.res.new.room = s.res.old.room
        BY <3>1, <3>4, SentinelAssumption DEF FreshUnit
      <4>2. Stored(reservation, r)
        BY <3>4, <4>1, SentinelAssumption DEF Stored
      <4> QED
        BY <3>1, <3>4, <4>1, <4>2 DEF HousedInv, Housed
    <3>5. CASE s.op \in {"update_reservation", "cancel_reservation"}
      <4>1. s.res.old \in ReservationRow
        BY <3>5, Committing DEF HeldInv, SerialInv, Rewriting
      <4> QED
        BY <3>1, <3>2, <3>4, <3>5, <4>1 DEF HousedInv, HousedUnit
    <3>6. CASE s.op \in {"check_in", "check_out"}
      <4>1. s.res.old \in ReservationRow /\ s.res.new.hotel = s.res.old.hotel
        BY <3>6, Committing DEF HeldInv, SerialInv, Moving, Arrived, Departed, ReservationRow
      <4> QED
        BY <3>1, <3>2, <3>4, <4>1
    <3>7. CASE s.op \in {"process_payment", "refund_payment"}
      <4>1. s.res.old \in ReservationRow /\ s.res.new.hotel = s.res.old.hotel
        BY <3>7, Committing DEF HeldInv, SerialInv, Settling, ReservationMove, ReservationRow
      <4> QED
        BY <3>1, <3>2, <3>4, <4>1
    <3>8. s.op # "create_payment"
      BY <3>1, Committing DEF HeldInv, SerialInv, Paying, NoObject
    <3> QED
      BY <3>3, <3>5, <3>6, <3>7, <3>8, Committing DEF HeldInv, SerialInv
  <2> QED
    BY <2>1, <2>2
<1>2. Housed'
  BY <1>1 DEF Housed, RoomsStand
<1>3. session'[w] = NoSession
  BY DEF Commit, HeldInv, SerialInv, IInv, TypeOK, StoreTypeOK
<1>4. \A v \in Workers : HousedUnit(v)'
  BY <1>3 DEF Serial, HousedUnit, NoSession, Work
<1> QED
  BY <1>2, <1>4 DEF HousedInv

\* Every step preserves it.
LEMMA NextHoused ==
    ASSUME Serial, NoRoomUpdates, NoDeletes
    PROVE  HeldInv /\ HousedInv /\ [Next]_vars => HousedInv'
<1> SUFFICES ASSUME HeldInv, HousedInv, [Next]_vars PROVE HousedInv'
  OBVIOUS
<1>1. RoomsStand
  BY HotelsStand
<1>2. ASSUME NEW w \in Workers, Request(w) PROVE HousedInv'
  <2>1. CASE CheckIn(w)
    <3>1. PICK res, rm : SetSession(w, Work("check_in", "ready", res, NoObject, rm))
      BY <2>1 DEF CheckIn
    <3> QED
      BY <3>1, HousedElse
  <2>2. CASE CheckOut(w)
    <3>1. PICK res, rm : SetSession(w, Work("check_out", "ready", res, NoObject, rm))
      BY <2>2 DEF CheckOut
    <3> QED
      BY <3>1, HousedElse
  <2>3. CASE CreatePayment(w) \/ ProcessPayment(w) \/ RefundPayment(w)
    <3>1. \E op \in {"create_payment", "process_payment", "refund_payment"} :
              \E phase, res, pay : SetSession(w, Work(op, phase, res, pay, NoObject))
      BY <2>3 DEF CreatePayment, ProcessPayment, RefundPayment
    <3> QED
      BY <3>1, HousedElse
  <2>4. CASE UpdateRoomType(w)
    BY <1>1, <2>4, HousedElsewhere DEF UpdateRoomType
  <2>5. ~UpdateRoom(w) /\ ~DeleteReservation(w)
    BY DEF UpdateRoom, DeleteReservation, NoRoomUpdates, NoDeletes
  <2> QED
    BY <1>2, <2>1, <2>2, <2>3, <2>4, <2>5, HousedBooking DEF Request
<1>3. ASSUME NEW w \in Workers, Advance(w), ~Commit(w) PROVE HousedInv'
  <2>1. session[w] \in Session
    BY DEF HeldInv, SerialInv, IInv, TypeOK, StoreTypeOK
  <2>2. session[w].phase \notin {"found", "emptied", "locked"}
    BY <2>1, PhaseTellsOp DEF HeldInv, SerialInv, NoDeletes, Session
  <2>3. FlushPayment(w)
    BY <1>3, <2>2 DEF Advance, EmptyReservation, LockReservation, CommitDelete
  <2>4. session[w].op \in {"process_payment", "refund_payment"}
    BY <2>3, PhaseTellsOp DEF FlushPayment, HeldInv, SerialInv
  <2> QED
    BY <2>3, <2>4, HousedElse DEF FlushPayment
<1>4. ASSUME NEW w \in Workers, Rollback(w) PROVE HousedInv'
  <2>1. \A v \in Workers : session'[v] = session[v] \/ session'[v] = NoSession
    BY <1>4 DEF Rollback, HeldInv, SerialInv, IInv, TypeOK, StoreTypeOK
  <2> QED
    BY <1>1, <1>4, <2>1, HousedElsewhere DEF Rollback, tables
<1>5. CASE Tick \/ UNCHANGED vars
  BY <1>1, <1>5, HousedElsewhere DEF Tick, vars, tables
<1> QED
  BY <1>1, <1>2, <1>3, <1>4, <1>5, HousedCommit DEF Next

\* The empty database satisfies it.
LEMMA InitHoused == Init => HousedInv
BY DEF Init, StoreInit, HousedInv, Housed, HousedUnit, Stored, NoSession, Work

\* The reservations in some statuses are finitely many.
LEMMA ReservationsFinite ==
    ASSUME FinitelyUsed, NEW statuses
    PROVE  IsFiniteSet(ReservationsIn(statuses))
<1>1. ReservationsIn(statuses) \in SUBSET UsedReservations
  BY DEF ReservationsIn, UsedReservations, Stored
<1> QED
  BY <1>1, FS_Subset DEF FinitelyUsed

\* The occupied rooms of some hotels, and the guests who stay in these hotels.
LEMMA GuestsFillRooms ==
    ASSUME IInv, FinitelyUsed, Agree, Housed, NEW hotels
    PROVE  RoomBreakdown(hotels)["occupied"] =
              Cardinality({r \in ReservationsIn({"checked_in"}) : reservation[r].hotel \in hotels})
<1> DEFINE G == {r \in ReservationsIn({"checked_in"}) : reservation[r].hotel \in hotels}
           O == {m \in Rooms : room[m].hotel \in hotels /\ room[m].status = "occupied"}
           f == [r \in G |-> reservation[r].room]
<1>1. RoomBreakdown(hotels)["occupied"] = Cardinality(O)
  BY DEF RoomBreakdown, ROOM_STATUSES
<1>2. \A r \in G : r \in Reservations /\ Stays(r) /\ reservation[r] \in ReservationRow
                     /\ reservation[r].hotel = room[reservation[r].room].hotel
  BY StoredReservation DEF ReservationsIn, Stays, Housed
<1>3. \A r \in G : f[r] \in O
  BY <1>2 DEF Agree, ReservationRow
<1>4. \A q, r \in G : f[q] = f[r] => q = r
  BY <1>2 DEF Agree
<1>5. \A m \in O : \E r \in G : f[r] = m
  <2>1. SUFFICES ASSUME NEW m \in O PROVE \E r \in G : f[r] = m
    OBVIOUS
  <2>2. PICK r \in Reservations : Stays(r) /\ reservation[r].room = m
    BY DEF Agree
  <2>3. r \in G
    BY <2>2 DEF ReservationsIn, Stays, Housed
  <2> QED
    BY <2>2, <2>3
<1>6. IsFiniteSet(G)
  <2>1. G \in SUBSET ReservationsIn({"checked_in"})
    OBVIOUS
  <2> HIDE DEF G
  <2> QED
    BY <2>1, ReservationsFinite, FS_Subset
<1>7. f \in [G -> O]
  BY <1>3
<1> HIDE DEF G, O, f
<1>8. f \in Bijection(G, O)
  BY <1>4, <1>5, <1>7 DEF Bijection, Injection, Surjection, IsInjective
<1>9. Cardinality(O) = Cardinality(G)
  BY <1>6, <1>8, FS_Bijection DEF ExistsBijection
<1> QED
  BY <1>1, <1>9 DEF G

\* The active reservations, hotel by hotel and status by status.
LEMMA ActiveByHotel ==
    ASSUME IInv, FinitelyUsed, IsFiniteSet(Hotels)
    PROVE  Total([h \in Hotels |-> GetHotelsDashboard[h].active_reservations], Hotels)
              = Cardinality(ReservationsIn(ACTIVE_RESERVATION_STATUSES))
<1> DEFINE P == ReservationsIn(ACTIVE_RESERVATION_STATUSES)
           k == [r \in Reservations |-> reservation[r].hotel]
           of == [h \in Hotels |-> {r \in P : reservation[r].hotel = h}]
           g == [h \in Hotels |-> GetHotelsDashboard[h].active_reservations]
<1>1. \A r \in P : r \in Reservations /\ k[r] \in Hotels
  BY StoredReservation DEF ReservationsIn, ReservationRow
<1>2. \A h \in Hotels : of[h] = {r \in P : k[r] = h}
  BY <1>1
<1>3. \A h \in Hotels : g[h] = Cardinality(of[h])
  BY DEF GetHotelsDashboard
<1>4. IsFiniteSet(P)
  BY ReservationsFinite
<1> HIDE DEF P, k, of, g
<1>5. Total(g, Hotels) = Cardinality(P)
  BY <1>1, <1>2, <1>3, <1>4, CountByGroup
<1> QED
  BY <1>5 DEF g, P

\* Three statuses, counted one by one.
LEMMA ActiveByStatus ==
    ASSUME FinitelyUsed
    PROVE  Cardinality(ReservationsIn(ACTIVE_RESERVATION_STATUSES)) =
              Cardinality(ReservationsIn({"pending"})) + Cardinality(ReservationsIn({"confirmed"}))
                + Cardinality(ReservationsIn({"checked_in"}))
<1> DEFINE A == ReservationsIn({"pending"})
           B == ReservationsIn({"confirmed"})
           C == ReservationsIn({"checked_in"})
<1>1. IsFiniteSet(A) /\ IsFiniteSet(B) /\ IsFiniteSet(C)
  BY ReservationsFinite
<1>2. ReservationsIn(ACTIVE_RESERVATION_STATUSES) = (A \cup B) \cup C
  BY DEF ReservationsIn, ACTIVE_RESERVATION_STATUSES
<1>3. A \cap B = {} /\ (A \cup B) \cap C = {}
  BY DEF ReservationsIn
<1> HIDE DEF A, B, C
<1>4. IsFiniteSet(A \cup B) /\ Cardinality(A \cup B) = Cardinality(A) + Cardinality(B)
  BY <1>1, <1>3, CountOfBoth
<1>5. Cardinality((A \cup B) \cup C) = Cardinality(A \cup B) + Cardinality(C)
  BY <1>1, <1>3, <1>4, CountOfBoth
<1> QED
  BY <1>2, <1>4, <1>5 DEF A, B, C

\* A sum over hotels is the sum of what each hotel counts.
LEMMA SumOfHotels ==
    ASSUME NEW hotels, IsFiniteSet(Hotels)
    PROVE  MapThenSumSet(LAMBDA h : hotels[h].active_reservations, Hotels)
              = Total([h \in Hotels |-> hotels[h].active_reservations], Hotels)
<1> DEFINE iter == CHOOSE g : g = [s \in SUBSET Hotels |->
                        IF s = {} THEN 0
                        ELSE hotels[CHOOSE x \in s : TRUE].active_reservations
                                + g[s \ {CHOOSE x \in s : TRUE}]]
           f == [h \in Hotels |-> hotels[h].active_reservations]
<1>1. MapThenSumSet(LAMBDA h : hotels[h].active_reservations, Hotels) = iter[Hotels]
  BY DEF MapThenSumSet, MapThenFoldSet
<1>2. \A g : Sums(f, g, Hotels) <=> g = [s \in SUBSET Hotels |->
                        IF s = {} THEN 0
                        ELSE hotels[CHOOSE x \in s : TRUE].active_reservations
                                + g[s \ {CHOOSE x \in s : TRUE}]]
  <2>1. \A s \in SUBSET Hotels : s # {} => f[Pick(s)] = hotels[Pick(s)].active_reservations
    BY PickOne
  <2> HIDE DEF f
  <2> QED
    BY <2>1 DEF Sums, Partial, Pick
<1>3. PICK g : Sums(f, g, Hotels)
  BY SumsExist
<1>4. g = [s \in SUBSET Hotels |->
                        IF s = {} THEN 0
                        ELSE hotels[CHOOSE x \in s : TRUE].active_reservations
                                + g[s \ {CHOOSE x \in s : TRUE}]]
  BY <1>2, <1>3
<1>5. iter = [s \in SUBSET Hotels |->
                        IF s = {} THEN 0
                        ELSE hotels[CHOOSE x \in s : TRUE].active_reservations
                                + iter[s \ {CHOOSE x \in s : TRUE}]]
  BY <1>4, Zenon
<1>6. Sums(f, iter, Hotels)
  BY <1>2, <1>5
<1> HIDE DEF iter, f
<1>7. Total(f, Hotels) = iter[Hotels]
  BY <1>6, TotalIsSum
<1> QED
  BY <1>1, <1>7 DEF iter, f

\* What the reports say, in the terms of the lemmas above.
LEMMA CountsAddUp ==
    ASSUME IInv, FinitelyUsed, Agree, Housed, IsFiniteSet(Hotels)
    PROVE  OccupancyAddsUp
<1> SUFFICES ASSUME NEW u \in Admins
             PROVE  LET guests == TodayDashboard.currently_checked_in
                        counts == Report(u, "reservations", None)
                        hotels == Report(u, "hotels", None)
                    IN  /\ Report(u, "rooms", None).rooms.occupied = Cardinality(guests)
                        /\ counts["checked_in"] = Cardinality(guests)
                        /\ \A h \in Hotels :
                              Report(u, "occupancy", None).hotels[h].occupied_rooms =
                                  Cardinality({r \in guests : reservation[r].hotel = h})
                        /\ MapThenSumSet(LAMBDA h : hotels[h].active_reservations, Hotels) =
                              counts["pending"] + counts["confirmed"] + counts["checked_in"]
  BY DEF OccupancyAddsUp
<1> DEFINE G == ReservationsIn({"checked_in"})
<1>1. /\ Report(u, "reservations", None) = CountByStatus /\ Report(u, "hotels", None) = GetHotelsDashboard
      /\ Report(u, "rooms", None) = GetRoomStats /\ Report(u, "occupancy", None) = GetOccupancy
  BY DEF Report
<1>2. TodayDashboard.currently_checked_in = G
  BY DEF TodayDashboard
<1>3. \A s \in RESERVATION_STATUSES : CountByStatus[s] = Cardinality(ReservationsIn({s}))
  BY DEF CountByStatus, RESERVATION_STATUSES
<1>4. \A hotels : RoomFigures(hotels).occupied = RoomBreakdown(hotels)["occupied"]
  BY DEF RoomFigures
<1>5. GetRoomStats.rooms.occupied = Cardinality(G)
  <2>1. GetRoomStats.rooms = RoomFigures(Hotels)
    BY DEF GetRoomStats
  <2>2. {r \in G : reservation[r].hotel \in Hotels} = G
    BY StoredReservation DEF ReservationsIn, ReservationRow
  <2> QED
    BY <1>4, <2>1, <2>2, GuestsFillRooms
<1>6. ASSUME NEW h \in Hotels
      PROVE  GetOccupancy.hotels[h].occupied_rooms =
                Cardinality({r \in G : reservation[r].hotel = h})
  <2>1. GetHotelsDashboard[h].rooms = RoomFigures({h})
    BY DEF GetHotelsDashboard
  <2>2. GetOccupancy.hotels[h].occupied_rooms = GetHotelsDashboard[h].rooms.occupied
    BY DEF GetOccupancy
  <2>3. {r \in G : reservation[r].hotel \in {h}} = {r \in G : reservation[r].hotel = h}
    OBVIOUS
  <2>4. RoomBreakdown({h})["occupied"] = Cardinality({r \in G : reservation[r].hotel \in {h}})
    BY GuestsFillRooms
  <2> HIDE DEF G
  <2> QED
    BY <1>4, <2>1, <2>2, <2>3, <2>4
<1>7. MapThenSumSet(LAMBDA h : Report(u, "hotels", None)[h].active_reservations, Hotels) =
          Cardinality(ReservationsIn(ACTIVE_RESERVATION_STATUSES))
  <2>1. MapThenSumSet(LAMBDA h : Report(u, "hotels", None)[h].active_reservations, Hotels) =
            Total([h \in Hotels |-> Report(u, "hotels", None)[h].active_reservations], Hotels)
    BY SumOfHotels
  <2> QED
    BY <1>1, <2>1, ActiveByHotel
<1>8. Cardinality(ReservationsIn(ACTIVE_RESERVATION_STATUSES)) =
          CountByStatus["pending"] + CountByStatus["confirmed"] + CountByStatus["checked_in"]
  BY <1>3, ActiveByStatus DEF RESERVATION_STATUSES
<1>9. CountByStatus["checked_in"] = Cardinality(G)
  BY <1>3 DEF RESERVATION_STATUSES
<1> HIDE DEF G
<1> QED
  BY <1>1, <1>2, <1>5, <1>6, <1>7, <1>8, <1>9

\* get_room_stats, get_occupancy, get_hotels_dashboard against today_dashboard and the
\* reservation counts: with requests served one at a time, and as long as administrators
\* neither write rooms nor delete reservations, the occupied rooms are those of the
\* guests in the house, in all and hotel by hotel, and the hotels' active reservations
\* are those of the three open statuses.
THEOREM Occupancy ==
    ASSUME Serial, NoRoomUpdates, NoDeletes, IsFiniteSet(Hotels)
    PROVE  Spec => []OccupancyAddsUp
<1> DEFINE Inv == HeldInv /\ FinitelyUsed /\ Agree /\ HousedInv
<1>1. Init => Inv
  <2>1. Init => Agree
    BY DEF Init, StoreInit, Agree, Stays, Stored
  <2> QED
    BY <2>1, InitHeldInv, InitFinitelyUsed, InitHoused
<1>2. Inv /\ [Next]_vars => Inv'
  BY NextHeldInv, NextFinitelyUsed, NextAgree, NextHoused DEF HeldInv, SerialInv
<1>3. Inv => OccupancyAddsUp
  BY CountsAddUp DEF HeldInv, SerialInv, HousedInv
<1> HIDE DEF Inv
<1> QED
  BY <1>1, <1>2, <1>3, PTL DEF Spec

--------------------------------------------------------------------------------
(****************************************************************************)
(* The shape of the reports.                                                *)
(****************************************************************************)

\* There are never infinitely many users, hotels and rooms to count.
FiniteTables == IsFiniteSet(Users) /\ IsFiniteSet(Hotels) /\ IsFiniteSet(Rooms)

\* Part of a whole is a percentage of it, also of nothing.
LEMMA RateIsPercentage ==
    ASSUME NEW part \in Nat, NEW whole \in Nat, part <= whole
    PROVE  Rate(part, whole) \in Percentage
<1>1. CASE whole = 0
  BY <1>1 DEF Rate, Percentage
<1>2. CASE whole # 0
  <2> DEFINE share == (part * 100) \div whole
  <2>1. whole \in Nat /\ whole > 0 /\ part * 100 \in Nat /\ part * 100 <= whole * 100
    BY <1>2
  <2>2. share \in Int /\ whole * share <= part * 100 /\ part * 100 < whole * share + whole
    BY <2>1
  <2>3. share >= 0
    <3>1. SUFFICES ASSUME share < 0 PROVE FALSE
      BY <2>2
    <3> HIDE DEF share
    <3>2. share + 1 <= 0
      BY <2>2, <3>1
    <3>3. whole * (share + 1) <= 0
      BY <2>1, <2>2, <3>2
    <3>4. whole * (share + 1) = whole * share + whole
      BY <2>1, <2>2
    <3> QED
      BY <2>1, <2>2, <3>3, <3>4
  <2>4. share <= 100
    <3>1. SUFFICES ASSUME share >= 101 PROVE FALSE
      BY <2>2
    <3> HIDE DEF share
    <3>2. whole * share >= whole * 101
      BY <2>1, <2>2, <3>1
    <3> QED
      BY <2>1, <2>2, <3>2
  <2> HIDE DEF share
  <2>5. share \in 0 .. 100
    BY <2>2, <2>3, <2>4
  <2> QED
    BY <1>2, <2>5 DEF Rate, Percentage, share
<1> QED
  BY <1>1, <1>2

\* Rooms are counted by their status, of some hotels.
LEMMA RoomCounts ==
    ASSUME FiniteTables, NEW hotels
    PROVE  /\ RoomBreakdown(hotels) \in [ROOM_STATUSES \cup {"total"} -> Nat]
           /\ RoomFigures(hotels) \in RoomSummary
           /\ Rate(RoomBreakdown(hotels)["occupied"], RoomBreakdown(hotels)["total"])
                \in Percentage
<1> DEFINE Of(s) == {m \in Rooms : /\ room[m].hotel \in hotels
                                   /\ s = "total" \/ room[m].status = s}
<1>1. \A s : Of(s) \in SUBSET Rooms
  OBVIOUS
<1>2. Of("occupied") \in SUBSET Of("total")
  OBVIOUS
<1>3. RoomBreakdown(hotels) = [s \in ROOM_STATUSES \cup {"total"} |-> Cardinality(Of(s))]
  BY DEF RoomBreakdown
<1> HIDE DEF Of
<1>4. \A s : IsFiniteSet(Of(s)) /\ Cardinality(Of(s)) \in Nat
  BY <1>1, FS_Subset, FS_CardinalityType DEF FiniteTables
<1>5. RoomBreakdown(hotels) \in [ROOM_STATUSES \cup {"total"} -> Nat]
  BY <1>3, <1>4
<1>6. RoomFigures(hotels) \in RoomSummary
  BY <1>5 DEF RoomFigures, RoomSummary, ROOM_STATUSES
<1>7. /\ RoomBreakdown(hotels)["occupied"] = Cardinality(Of("occupied"))
      /\ RoomBreakdown(hotels)["total"] = Cardinality(Of("total"))
  BY <1>3 DEF ROOM_STATUSES
<1>8. Cardinality(Of("occupied")) <= Cardinality(Of("total"))
  BY <1>2, <1>4, FS_Subset
<1> QED
  BY <1>4, <1>5, <1>6, <1>7, <1>8, RateIsPercentage

\* Reservations are counted by their status.
LEMMA ReservationCounts ==
    ASSUME FinitelyUsed PROVE CountByStatus \in ReservationSummary
<1>1. \A statuses : Cardinality(ReservationsIn(statuses)) \in Nat
  BY ReservationsFinite, FS_CardinalityType
<1> QED
  BY <1>1 DEF CountByStatus, ReservationSummary

\* Payments are counted and added up by their status.
LEMMA PaymentCounts ==
    ASSUME IInv, FinitelyUsed, NEW s \in PAYMENT_STATUSES
    PROVE  PaymentSums[s].n \in Nat /\ PaymentSums[s].sum \in Nat
<1> DEFINE rows == {p \in Payments : Stored(payment, p) /\ payment[p].status = s}
<1>1. rows \in SUBSET UsedPayments
  BY DEF UsedPayments, Stored
<1>2. rows \in SUBSET Payments
  OBVIOUS
<1>3. \A p \in rows : AmountOf(payment)[p] \in Nat
  BY StoredPayment, MoneyConstants DEF AmountOf, PaymentRow
<1>4. PaymentSums[s].n = Cardinality(rows)
      /\ PaymentSums[s].sum = MapThenSumSet(LAMBDA p : payment[p].amount, rows)
  BY DEF PaymentSums
<1> HIDE DEF rows
<1>5. IsFiniteSet(rows)
  BY <1>1, FS_Subset DEF FinitelyUsed
<1>6. MapThenSumSet(LAMBDA p : payment[p].amount, rows) = Total(AmountOf(payment), rows)
  BY <1>2, <1>5, SumOfPayments
<1> QED
  BY <1>3, <1>4, <1>5, <1>6, FS_CardinalityType, TotalNatural

\* The money in a report.
LEMMA MoneyReports ==
    ASSUME IInv, FinitelyUsed
    PROVE  /\ GetRevenueStats \in ResponseModel("revenue")
           /\ GetSummary.payments \in MoneySummary
<1>1. \A s \in {"paid", "pending", "refunded"} :
          PaymentSums[s].n \in Nat /\ PaymentSums[s].sum \in Nat
  BY PaymentCounts DEF PAYMENT_STATUSES
<1>2. ResponseModel("revenue") =
          [amounts : MoneySummary, transactions : [{"paid", "pending", "refunded"} -> Nat]]
  BY DEF ResponseModel
<1>3. GetRevenueStats \in ResponseModel("revenue")
  BY <1>1, <1>2 DEF GetRevenueStats, MoneySummary
<1>4. GetSummary.payments = [s \in {"paid", "pending", "refunded"} |-> PaymentSums[s].sum]
  BY DEF GetSummary
<1>5. GetSummary.payments \in MoneySummary
  BY <1>1, <1>4 DEF MoneySummary
<1> QED
  BY <1>3, <1>5

\* The revenue of a year.
LEMMA MonthsReport ==
    ASSUME IInv, FinitelyUsed, NEW u \in Admins, NEW year \in Years \cup {None}
    PROVE  Report(u, "monthly-revenue", year) \in ResponseModel("monthly-revenue")
<1>1. ResponseModel("monthly-revenue") = [year : Int, months : [Months -> Nat]]
  BY DEF ResponseModel
<1>2. PICK asked \in Years : Report(u, "monthly-revenue", year) = MonthlyRevenue(asked)
  BY MonthlyReport
<1>3. asked \in Int
  BY Calendar
<1>4. \A month \in Months :
          MapThenSumSet(LAMBDA p : payment[p].amount, PaidIn(asked, month)) \in Nat
  BY MonthIsTotal
<1> QED
  BY <1>1, <1>2, <1>3, <1>4 DEF MonthlyRevenue

\* The summary of everything.
LEMMA SummaryReport ==
    ASSUME IInv, FinitelyUsed, FiniteTables
    PROVE  GetSummary \in ResponseModel("summary")
<1>1. ResponseModel("summary") =
          [users : [total : Nat, guests : Nat, admins : Nat], hotels : Nat,
           rooms : RoomSummary, reservations : ReservationSummary, payments : MoneySummary]
  BY DEF ResponseModel
<1>2. Users \ Admins \in SUBSET Users /\ Admins \in SUBSET Users
  BY StoreAssumption
<1>3. Cardinality(Users) \in Nat /\ Cardinality(Users \ Admins) \in Nat
      /\ Cardinality(Admins) \in Nat /\ Cardinality(Hotels) \in Nat
  BY <1>2, FS_Subset, FS_CardinalityType DEF FiniteTables
<1>4. /\ GetSummary = [users |-> GetSummary.users, hotels |-> GetSummary.hotels,
                       rooms |-> GetSummary.rooms, reservations |-> GetSummary.reservations,
                       payments |-> GetSummary.payments]
      /\ GetSummary.users = [total |-> Cardinality(Users), guests |-> Cardinality(Users \ Admins),
                             admins |-> Cardinality(Admins)]
      /\ GetSummary.hotels = Cardinality(Hotels)
      /\ GetSummary.rooms = RoomFigures(Hotels)
      /\ GetSummary.reservations = CountByStatus
  BY DEF GetSummary
<1>5. GetSummary.users \in [total : Nat, guests : Nat, admins : Nat] /\ GetSummary.hotels \in Nat
  BY <1>3, <1>4
<1>6. /\ GetSummary.rooms \in RoomSummary /\ GetSummary.reservations \in ReservationSummary
      /\ GetSummary.payments \in MoneySummary
  BY <1>4, RoomCounts, ReservationCounts, MoneyReports
<1>7. GetSummary = [users |-> GetSummary.users, hotels |-> GetSummary.hotels,
                    rooms |-> GetSummary.rooms, reservations |-> GetSummary.reservations,
                    payments |-> GetSummary.payments]
  BY <1>4
<1> QED
  BY <1>1, <1>5, <1>6, <1>7

\* Rooms, hotel by hotel and in all.
LEMMA RoomReports ==
    ASSUME IInv, FinitelyUsed, FiniteTables
    PROVE  /\ GetRoomStats \in ResponseModel("rooms")
           /\ GetHotelsDashboard \in ResponseModel("hotels")
           /\ GetOccupancy \in ResponseModel("occupancy")
<1> DEFINE Row == [rooms : RoomSummary, active_reservations : Nat, occupancy_rate : Percentage]
           Share == [total_rooms : Nat, occupied_rooms : Nat, occupancy_rate : Percentage]
<1>1. /\ ResponseModel("rooms") = [rooms : RoomSummary, occupancy_rate : Percentage]
      /\ ResponseModel("hotels") = [Hotels -> Row]
      /\ ResponseModel("occupancy") =
            [rooms : RoomSummary, occupancy_rate : Percentage, hotels : [Hotels -> Share]]
  BY DEF ResponseModel
<1>2. GetRoomStats \in ResponseModel("rooms")
  BY <1>1, RoomCounts DEF GetRoomStats
<1>3. ASSUME NEW h \in Hotels
      PROVE  Cardinality({r \in ReservationsIn(ACTIVE_RESERVATION_STATUSES) :
                            reservation[r].hotel = h}) \in Nat
  <2> DEFINE A == {r \in ReservationsIn(ACTIVE_RESERVATION_STATUSES) : reservation[r].hotel = h}
  <2>1. A \in SUBSET ReservationsIn(ACTIVE_RESERVATION_STATUSES)
    OBVIOUS
  <2> HIDE DEF A
  <2>2. Cardinality(A) \in Nat
    BY <2>1, ReservationsFinite, FS_Subset, FS_CardinalityType
  <2> QED
    BY <2>2 DEF A
<1>4. ASSUME NEW h \in Hotels PROVE GetHotelsDashboard[h] \in Row
  BY <1>3, RoomCounts DEF GetHotelsDashboard
<1>5. GetHotelsDashboard \in [Hotels -> Row]
  BY <1>4 DEF GetHotelsDashboard
<1>6. GetOccupancy \in ResponseModel("occupancy")
  <2>1. \A h \in Hotels : GetHotelsDashboard[h].rooms.total \in Nat
           /\ GetHotelsDashboard[h].rooms.occupied \in Nat
           /\ GetHotelsDashboard[h].occupancy_rate \in Percentage
    BY <1>4 DEF RoomSummary
  <2>2. [h \in Hotels |-> [total_rooms |-> GetHotelsDashboard[h].rooms.total,
                           occupied_rooms |-> GetHotelsDashboard[h].rooms.occupied,
                           occupancy_rate |-> GetHotelsDashboard[h].occupancy_rate]]
          \in [Hotels -> Share]
    BY <2>1
  <2> HIDE DEF Share
  <2> QED
    BY <1>1, <2>2, RoomCounts DEF GetOccupancy
<1> QED
  BY <1>1, <1>2, <1>5, <1>6

\* dashboard_schema.py: whatever the workload and however requests race, every report has
\* the shape that its response model declares, and a rate is a percentage.
THEOREM ReportShapes == ASSUME FiniteTables PROVE Spec => []ReportsFit
<1>1. Init => IInv /\ FinitelyUsed
  BY InitIInv, InitFinitelyUsed
<1>2. IInv /\ FinitelyUsed /\ [Next]_vars => (IInv /\ FinitelyUsed)'
  BY NextIInv, NextFinitelyUsed
<1>3. IInv /\ FinitelyUsed => ReportsFit
  <2> SUFFICES ASSUME IInv, FinitelyUsed, NEW u \in Admins, NEW path \in Reports,
                      NEW year \in Years \cup {None}, path # "monthly-revenue" => year = None
               PROVE  Report(u, path, year) \in ResponseModel(path)
    BY DEF ReportsFit, Report
  <2>1. CASE path = "summary"
    BY <2>1, SummaryReport DEF Report
  <2>2. CASE path = "reservations"
    <3>1. ResponseModel(path) = ReservationSummary
      BY <2>2 DEF ResponseModel
    <3> QED
      BY <2>2, <3>1, ReservationCounts DEF Report
  <2>3. CASE path \in {"rooms", "occupancy", "hotels"}
    BY <2>3, RoomReports DEF Report
  <2>4. CASE path = "revenue"
    BY <2>4, MoneyReports DEF Report
  <2>5. CASE path = "monthly-revenue"
    BY <2>5, MonthsReport
  <2> QED
    BY <2>1, <2>2, <2>3, <2>4, <2>5 DEF Reports
<1> QED
  BY <1>1, <1>2, <1>3, PTL DEF Spec

================================================================================
