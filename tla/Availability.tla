------------------------------ MODULE Availability ------------------------------
(****************************************************************************)
(* The two availability searches: GET /rooms/available (room_controller,    *)
(* search_available_rooms) and GET /reservations/available                  *)
(* (reservation_controller, get_available_rooms_for_dates).  They were      *)
(* written apart: the first asks which rooms are busy, the second which     *)
(* rooms are busy with reservations of the same hotel.                      *)
(****************************************************************************)
EXTENDS ReservationController

\* Mutant of ActiveDuring: unpaid reservations do not count.
ConfirmedDuring(in, out) ==
    {r \in Reservations : /\ Stored(reservation, r)
                          /\ reservation[r].status \in {"confirmed", "checked_in"}
                          /\ Overlaps(reservation[r], in, out)}

\* The active reservations that overlap a range, on any room.
ActiveDuring(in, out) ==
    {r \in Reservations : /\ Stored(reservation, r)
                          /\ reservation[r].status \notin IGNORED_STATUSES
                          /\ Overlaps(reservation[r], in, out)}

\* SQL comparison: a NULL capacity satisfies no condition on the headcount.
CapacityAtLeast(m, count) ==
    LET capacity == roomType[room[m].type].capacity
    IN  capacity # None /\ capacity >= count

\* search_available_rooms with a date range and a headcount.
SearchAvailableRooms(hotel, in, out, count) ==
    LET busy == {reservation[r].room : r \in ActiveDuring(in, out)}
    IN  {m \in Rooms \ busy : /\ room[m].status # "maintenance"
                              /\ room[m].hotel = hotel
                              /\ CapacityAtLeast(m, count)}

\* get_available_rooms_for_dates: busy rooms are looked up by the hotel_id stored
\* in the reservation, which is not updated when the room moves.
AvailableRoomsForDates(hotel, in, out) ==
    LET busy == {reservation[r].room :
                    r \in {q \in ActiveDuring(in, out) : reservation[q].hotel = hotel}}
    IN  {m \in Rooms \ busy : room[m].hotel = hotel /\ room[m].status # "maintenance"}

\* What create_reservation checks before it inserts.
Bookable(hotel, m, in, out, count) ==
    /\ room[m].hotel = hotel
    /\ FitsCapacity(m, count)
    /\ OverlappingReservations(m, in, out, None) = {}

================================================================================
