-------------------------------- MODULE Dashboard -------------------------------
(****************************************************************************)
(* What the reports say of the tables (dashboard_controller.py,             *)
(* dashboard_routes.py, dashboard_schema.py; today_dashboard of             *)
(* reservation_controller.py and get_reservation_history of                 *)
(* payment_controller.py).  The same numbers are computed by different      *)
(* queries, from rooms here and from reservations there.                    *)
(*                                                                          *)
(* A report is a function of one state of the tables: its statements are    *)
(* taken together.                                                          *)
(****************************************************************************)
EXTENDS StayEase

\* Mutant of ACTIVE_RESERVATION_STATUSES: whatever was not cancelled.
UNCANCELLED_STATUSES == {"pending", "confirmed", "checked_in", "checked_out"}

ACTIVE_RESERVATION_STATUSES == {"pending", "confirmed", "checked_in"}

\* A whole percentage, where the code rounds to two decimals.
Rate(part, whole) == IF whole = 0 THEN 0 ELSE (part * 100) \div whole

ReservationsIn(statuses) ==
    {r \in Reservations : Stored(reservation, r) /\ reservation[r].status \in statuses}

\* Mutant of CountByStatus: the counts that GROUP BY returns, and no zeros.
CountsFound ==
    [s \in {reservation[r].status : r \in ReservationsIn(RESERVATION_STATUSES)} \cup {"total"} |->
        Cardinality(ReservationsIn(IF s = "total" THEN RESERVATION_STATUSES ELSE {s}))]

CountByStatus ==
    [s \in RESERVATION_STATUSES \cup {"total"} |->
        Cardinality(ReservationsIn(IF s = "total" THEN RESERVATION_STATUSES ELSE {s}))]

RoomBreakdown(hotels) ==
    [s \in ROOM_STATUSES \cup {"total"} |->
        Cardinality({m \in Rooms : /\ room[m].hotel \in hotels
                                   /\ s = "total" \/ room[m].status = s})]

\* Mutant of PaymentSums: refunded payments are still counted as paid.
SumsBeforeRefund ==
    [s \in PAYMENT_STATUSES |->
        LET rows == {p \in Payments : /\ Stored(payment, p)
                                      /\ \/ payment[p].status = s
                                         \/ s = "paid" /\ payment[p].status = "refunded"}
        IN  [n |-> Cardinality(rows), sum |-> MapThenSumSet(LAMBDA p : payment[p].amount, rows)]]

PaymentSums ==
    [s \in PAYMENT_STATUSES |->
        LET rows == {p \in Payments : Stored(payment, p) /\ payment[p].status = s}
        IN  [n |-> Cardinality(rows), sum |-> MapThenSumSet(LAMBDA p : payment[p].amount, rows)]]

RoomFigures(hotels) ==
    LET rooms == RoomBreakdown(hotels)
    IN  [total |-> rooms["total"], available |-> rooms["available"],
         occupied |-> rooms["occupied"], maintenance |-> rooms["maintenance"]]

GetSummary ==
    [users |-> [total |-> Cardinality(Users), guests |-> Cardinality(Users \ Admins),
                admins |-> Cardinality(Admins)],
     hotels |-> Cardinality(Hotels),
     rooms |-> RoomFigures(Hotels),
     reservations |-> CountByStatus,
     payments |-> [s \in {"paid", "pending", "refunded"} |-> PaymentSums[s].sum]]

GetRoomStats ==
    [rooms |-> RoomFigures(Hotels),
     occupancy_rate |-> Rate(RoomBreakdown(Hotels)["occupied"], RoomBreakdown(Hotels)["total"])]

GetRevenueStats ==
    [amounts |-> [s \in {"paid", "pending", "refunded"} |-> PaymentSums[s].sum],
     transactions |-> [s \in {"paid", "pending", "refunded"} |-> PaymentSums[s].n]]

Months == 1 .. 12

BadRequest == [error |-> 400]

PaidIn(year, month) ==
    {p \in Payments : /\ Stored(payment, p)
                      /\ payment[p].status = "paid"
                      /\ payment[p].paid_at # None
                      /\ payment[p].paid_at.year = year
                      /\ payment[p].paid_at.month = month}

MonthlyRevenue(year) ==
    [year |-> year,
     months |-> [month \in Months |->
         MapThenSumSet(LAMBDA p : payment[p].amount, PaidIn(year, month))]]

\* The revenue of a year (None: of this year), month by month, by paid_at.
GetMonthlyRevenue(year) ==
    LET asked == IF year = None THEN MonthOf[today].year ELSE year
    IN  IF asked \in 2000 .. 2100 THEN MonthlyRevenue(asked) ELSE BadRequest

\* Rooms are counted where they are now, reservations by the hotel stored in them.
GetHotelsDashboard ==
    [h \in Hotels |->
        [rooms |-> RoomFigures({h}),
         active_reservations |->
            Cardinality({r \in ReservationsIn(ACTIVE_RESERVATION_STATUSES) :
                            reservation[r].hotel = h}),
         occupancy_rate |-> Rate(RoomBreakdown({h})["occupied"], RoomBreakdown({h})["total"])]]

GetOccupancy ==
    [rooms |-> RoomFigures(Hotels),
     occupancy_rate |-> Rate(RoomBreakdown(Hotels)["occupied"], RoomBreakdown(Hotels)["total"]),
     hotels |-> [h \in Hotels |-> [total_rooms |-> GetHotelsDashboard[h].rooms.total,
                                   occupied_rooms |-> GetHotelsDashboard[h].rooms.occupied,
                                   occupancy_rate |-> GetHotelsDashboard[h].occupancy_rate]]]

\* GET /reservations/today
TodayDashboard ==
    [check_ins |-> {r \in ReservationsIn({"pending", "confirmed"}) :
                        reservation[r].check_in = today},
     check_outs |-> {r \in ReservationsIn({"confirmed", "checked_in"}) :
                        reservation[r].check_out = today},
     currently_checked_in |-> ReservationsIn({"checked_in"})]

\* GET /reservations/{id}/payments
GetReservationHistory(r) ==
    LET total == reservation[r].total_amount
    IN  [total_amount |-> total,
         total_paid |-> TotalPaid(payment, r),
         remaining_balance |-> IF total = None THEN None ELSE total - TotalPaid(payment, r),
         payments |-> PaymentsOf(r)]

(****************************************************************************)
(* The endpoints, all for administrators only, and their response models.   *)
(****************************************************************************)
Reports ==
    {"summary", "reservations", "rooms", "revenue", "occupancy", "monthly-revenue", "hotels"}

Forbidden == [error |-> 403]

\* `year` is the query parameter of monthly-revenue; the others have none.
Report(u, path, year) ==
    IF u \notin Admins THEN Forbidden
    ELSE CASE path = "summary" -> GetSummary
           [] path = "reservations" -> CountByStatus
           [] path = "rooms" -> GetRoomStats
           [] path = "revenue" -> GetRevenueStats
           [] path = "occupancy" -> GetOccupancy
           [] path = "monthly-revenue" -> GetMonthlyRevenue(year)
           [] path = "hotels" -> GetHotelsDashboard

Percentage == 0 .. 100
RoomSummary == [total : Nat, available : Nat, occupied : Nat, maintenance : Nat]
ReservationSummary == [RESERVATION_STATUSES \cup {"total"} -> Nat]
MoneySummary == [{"paid", "pending", "refunded"} -> Nat]

ResponseModel(path) ==
    CASE path = "summary" ->
            [users : [total : Nat, guests : Nat, admins : Nat], hotels : Nat,
             rooms : RoomSummary, reservations : ReservationSummary, payments : MoneySummary]
      [] path = "reservations" -> ReservationSummary
      [] path = "rooms" -> [rooms : RoomSummary, occupancy_rate : Percentage]
      [] path = "revenue" -> [amounts : MoneySummary,
                              transactions : [{"paid", "pending", "refunded"} -> Nat]]
      [] path = "occupancy" ->
            [rooms : RoomSummary, occupancy_rate : Percentage,
             hotels : [Hotels -> [total_rooms : Nat, occupied_rooms : Nat,
                                  occupancy_rate : Percentage]]]
      [] path = "monthly-revenue" -> [year : Int, months : [Months -> Nat]]
      [] path = "hotels" -> [Hotels -> [rooms : RoomSummary, active_reservations : Nat,
                                        occupancy_rate : Percentage]]

--------------------------------------------------------------------------------

\* The years in which the system has been running.
Years == {MonthOf[d].year : d \in Days}

\* What a monthly report adds up to.
YearTotal(report) == MapThenSumSet(LAMBDA m : report.months[m], Months)

\* get_summary, get_revenue_stats, get_monthly_revenue and the histories of the
\* reservations: the same money is found by the status of the payments, by their
\* paid_at, over all months of all years, and reservation by reservation.
RevenueAddsUp ==
    \A u \in Admins :
        LET revenue == Report(u, "revenue", None).amounts["paid"]
        IN  /\ Report(u, "summary", None).payments["paid"] = revenue
            /\ MapThenSumSet(LAMBDA y : YearTotal(Report(u, "monthly-revenue", y)), Years)
                  = revenue
            /\ MapThenSumSet(LAMBDA r : GetReservationHistory(r).total_paid,
                             ReservationsIn(RESERVATION_STATUSES)) = revenue

\* get_room_stats, get_occupancy, get_hotels_dashboard against today_dashboard and
\* the reservation counts: the occupied rooms are those of the guests in the house,
\* hotel by hotel, while no room is moved or set by hand.
OccupancyAddsUp ==
    \A u \in Admins :
        LET guests == TodayDashboard.currently_checked_in
            counts == Report(u, "reservations", None)
            hotels == Report(u, "hotels", None)
        IN  /\ Report(u, "rooms", None).rooms.occupied = Cardinality(guests)
            /\ counts["checked_in"] = Cardinality(guests)
            /\ \A h \in Hotels :
                  Report(u, "occupancy", None).hotels[h].occupied_rooms =
                      Cardinality({r \in guests : reservation[r].hotel = h})
            /\ MapThenSumSet(LAMBDA h : hotels[h].active_reservations, Hotels) =
                  counts["pending"] + counts["confirmed"] + counts["checked_in"]

\* Every report has the shape that its response model declares, and a rate is a
\* percentage.
ReportsFit ==
    \A u \in Users, path \in Reports :
    \A year \in IF path = "monthly-revenue" THEN Years \cup {None} ELSE {None} :
        Report(u, path, year) \in IF u \in Admins THEN ResponseModel(path) ELSE {Forbidden}

================================================================================
