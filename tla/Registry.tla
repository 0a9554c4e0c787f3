-------------------------------- MODULE Registry --------------------------------
(****************************************************************************)
(* What the back office promises, without its requests: the directory       *)
(* changes one row at a time (a hotel goes with its rooms), and every       *)
(* change is right for the tables as they are at that moment - however long *)
(* ago the request that makes it looked at them.                            *)
(****************************************************************************)
EXTENDS Directory

EnterHotel ==
    /\ \E h \in Fresh(hotel) \cup Rows(hotel), row \in HotelRow : hotel' = Put(hotel, h, row)
    /\ UNCHANGED <<roomType, room, user, guest, booking>>

\* With all rooms of the hotel, and nothing that is booked.
CloseHotel ==
    /\ \E h \in Hotels, ms \in SUBSET Rooms :
        /\ RoomsOf(h) \subseteq ms
        /\ BookingsOfHotel(h) = {} /\ BookingsOfRooms(ms) = {}
        /\ hotel' = Drop(hotel, {h})
        /\ room' = Drop(room, ms)
    /\ UNCHANGED <<roomType, user, guest, booking>>

EnterRoomType ==
    /\ \E t \in Fresh(roomType), row \in RoomTypeRow : roomType' = Put(roomType, t, row)
    /\ UNCHANGED <<hotel, room, user, guest, booking>>

RetireRoomType ==
    /\ \E t \in RoomTypes :
        /\ \A m \in Rows(room) : room[m].type # t
        /\ roomType' = Drop(roomType, {t})
    /\ UNCHANGED <<hotel, room, user, guest, booking>>

\* A new room, or another place or number for one.
EnterRoom ==
    /\ \E m \in Fresh(room) \cup Rows(room), row \in RoomRow :
        /\ row.hotel \in Rows(hotel) /\ row.type \in Rows(roomType)
        /\ NumberFree(m, row)
        /\ room' = Put(room, m, row)
    /\ UNCHANGED <<hotel, roomType, user, guest, booking>>

RetireRoom ==
    /\ \E m \in Rooms :
        /\ BookingsOfRooms({m}) = {}
        /\ room' = Drop(room, {m})
    /\ UNCHANGED <<hotel, roomType, user, guest, booking>>

OpenAccount ==
    /\ \E u \in Fresh(user), row \in UserRow :
        /\ EmailFree(row.email)
        /\ user' = Put(user, u, row)
    /\ UNCHANGED <<hotel, roomType, room, guest, booking>>

OpenProfile ==
    /\ \E g \in Fresh(guest), row \in GuestRow :
        /\ row.user \in Rows(user) /\ ProfileFree(row.user)
        /\ guest' = Put(guest, g, row)
    /\ UNCHANGED <<hotel, roomType, room, user, booking>>

\* Contact data change, the user does not.
AmendProfile ==
    /\ \E g \in Rows(guest), row \in GuestRow :
        /\ row.user = guest[g].user
        /\ guest' = Put(guest, g, row)
    /\ UNCHANGED <<hotel, roomType, room, user, booking>>

CloseProfile ==
    /\ \E g \in Guests :
        /\ BookingsOfGuest(g) = {}
        /\ guest' = Drop(guest, {g})
    /\ UNCHANGED <<hotel, roomType, room, user, booking>>

Book ==
    /\ \E b \in Fresh(booking), row \in BookingRow :
        /\ row.hotel \in Rows(hotel) /\ row.room \in Rows(room)
        /\ row.guest \in Rows(guest) /\ guest[row.guest].user = row.owner
        /\ booking' = Put(booking, b, row)
    /\ UNCHANGED <<hotel, roomType, room, user, guest>>

Unbook ==
    /\ \E b \in Bookings : booking' = Drop(booking, {b})
    /\ UNCHANGED <<hotel, roomType, room, user, guest>>

Change ==
    \/ EnterHotel \/ CloseHotel
    \/ EnterRoomType \/ RetireRoomType
    \/ EnterRoom \/ RetireRoom
    \/ OpenAccount \/ OpenProfile \/ AmendProfile \/ CloseProfile
    \/ Book \/ Unbook

NothingYet ==
    /\ Rows(hotel) = {} /\ Rows(roomType) = {} /\ Rows(room) = {}
    /\ Rows(user) = {} /\ Rows(guest) = {} /\ Rows(booking) = {}

RegistrySpec == NothingYet /\ [][Change]_tables

================================================================================
