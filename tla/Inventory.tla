------------------------------- MODULE Inventory -------------------------------
(****************************************************************************)
(* Hotels, room types and rooms (app/controllers/hotel_controller.py,       *)
(* room_type_controller.py, room_controller.py).  All for administrators.   *)
(*                                                                          *)
(* A handler that decides on nothing it read, or whose decision the         *)
(* statement itself repeats, is one step.  create_room and update_room look *)
(* for a room of the same number first, delete_hotel loads the hotel's      *)
(* rooms first: each commits in a second step, after whatever happened      *)
(* meanwhile.                                                               *)
(****************************************************************************)
EXTENDS Directory

CreateHotel(w) ==
    /\ Calls(w, "create_hotel")
    /\ AdminSignedIn
    /\ \E h \in Fresh(hotel), row \in HotelRow : hotel' = Put(hotel, h, row)
    /\ UNCHANGED <<roomType, room, user, guest, booking, session>>

UpdateHotel(w) ==
    /\ Calls(w, "update_hotel")
    /\ AdminSignedIn
    /\ \E h \in Rows(hotel), row \in HotelRow : hotel' = Put(hotel, h, row)
    /\ UNCHANGED <<roomType, room, user, guest, booking, session>>

\* db.delete(hotel) loads hotel.rooms and marks each for deletion by its id.
DeleteHotel(w) ==
    /\ Calls(w, "delete_hotel")
    /\ AdminSignedIn
    /\ \E h \in Rows(hotel) :
        Prepare(w, [op |-> "delete_hotel", id |-> h, owned |-> RoomsOf(h)])

\* Mutant of Doomed: the foreign key has no ON DELETE CASCADE, nor any other check.
LoadedRooms(w) == session[w].owned

\* What goes with the hotel: the rooms that were loaded, wherever they are now,
\* and by ON DELETE CASCADE those that have come into the hotel since.
Doomed(w) == session[w].owned \cup RoomsOf(session[w].id)

\* Bookings are not cascaded to: one that refers to the hotel or to a room of it
\* would be left with a NULL, which the columns refuse.
CommitDeleteHotel(w) ==
    /\ Commits(w, "delete_hotel")
    /\ BookingsOfHotel(session[w].id) = {}
    /\ BookingsOfRooms(Doomed(w)) = {}
    /\ hotel' = Drop(hotel, {session[w].id})
    /\ room' = Drop(room, Doomed(w))
    /\ UNCHANGED <<roomType, user, guest, booking>>

CreateRoomType(w) ==
    /\ Calls(w, "create_room_type")
    /\ AdminSignedIn
    /\ \E t \in Fresh(roomType), row \in RoomTypeRow : roomType' = Put(roomType, t, row)
    /\ UNCHANGED <<hotel, room, user, guest, booking, session>>

TypeInUse(t) == \E m \in Rows(room) : room[m].type = t

\* Refused with 409 while rooms use the type.
DeleteRoomType(w) ==
    /\ Calls(w, "delete_room_type")
    /\ AdminSignedIn
    /\ \E t \in Rows(roomType) :
        /\ ~TypeInUse(t)
        /\ roomType' = Drop(roomType, {t})
    /\ UNCHANGED <<hotel, room, user, guest, booking, session>>

CreateRoom(w) ==
    /\ Calls(w, "create_room")
    /\ AdminSignedIn
    /\ \E h \in Rows(hotel), t \in Rows(roomType), number \in Numbers :
        LET row == [hotel |-> h, type |-> t, number |-> number]
        IN  /\ \A n \in RoomsOf(h) : room[n].number # number
            /\ Prepare(w, [op |-> "create_room", new |-> row])

\* Mutant of RoomInsertable: the number is only looked up before the insert.
ParentsExist(m, row) == row.hotel \in Rows(hotel) /\ row.type \in Rows(roomType)

\* The foreign keys and the unique constraint, at the INSERT.
RoomInsertable(m, row) ==
    row.hotel \in Rows(hotel) /\ row.type \in Rows(roomType) /\ NumberFree(m, row)

CommitCreateRoom(w) ==
    /\ Commits(w, "create_room")
    /\ \E m \in Fresh(room) :
        /\ RoomInsertable(m, session[w].new)
        /\ room' = Put(room, m, session[w].new)
    /\ UNCHANGED <<hotel, roomType, user, guest, booking>>

UpdateRoom(w) ==
    /\ Calls(w, "update_room")
    /\ AdminSignedIn
    /\ \E m \in Rows(room), h \in Hotels, t \in RoomTypes, number \in Numbers :
        LET row == [hotel |-> h, type |-> t, number |-> number]
        IN  /\ row # room[m]
            /\ h \in Rows(hotel) \cup {room[m].hotel}
            /\ t \in Rows(roomType) \cup {room[m].type}
            /\ \A n \in RoomsOf(h) \ {m} : room[n].number # number
            /\ Prepare(w, [op |-> "update_room", id |-> m, old |-> room[m], new |-> row])

\* Mutant of Merged: the columns that are not sent are written as NULL.
MergedWithDefaults(row, old, new) ==
    [c \in DOMAIN row |-> IF new[c] # old[c] THEN new[c] ELSE Unused]

\* The UPDATE sets the columns whose value differs from the one loaded.
Merged(row, old, new) ==
    [c \in DOMAIN row |-> IF new[c] # old[c] THEN new[c] ELSE row[c]]

\* Mutant of RoomUpdatable: constraints only look at the row the handler had.
RoomUpdatableAsRead(m, old, new) ==
    /\ new.hotel \in Rows(hotel) /\ new.type \in Rows(roomType)
    /\ NumberFree(m, new)

\* Foreign keys are checked for the columns that are set, the unique constraint
\* for the row that results.
RoomUpdatable(m, old, new) ==
    /\ new.hotel \in Rows(hotel) \/ new.hotel = old.hotel
    /\ new.type \in Rows(roomType) \/ new.type = old.type
    /\ NumberFree(m, Merged(room[m], old, new))

CommitUpdateRoom(w) ==
    LET s == session[w]
    IN  /\ Commits(w, "update_room")
        /\ s.id \in Rows(room)
        /\ RoomUpdatable(s.id, s.old, s.new)
        /\ room' = Put(room, s.id, Merged(room[s.id], s.old, s.new))
        /\ UNCHANGED <<hotel, roomType, user, guest, booking>>

\* Mutant of RoomBooked: only the bookings of the hotel the room is in now count.
RoomBookedHere(m) ==
    \E b \in Rows(booking) : booking[b].room = m /\ booking[b].hotel = room[m].hotel

RoomBooked(m) == \E b \in Rows(booking) : booking[b].room = m

\* Refused with 409 while bookings refer to the room.
DeleteRoom(w) ==
    /\ Calls(w, "delete_room")
    /\ AdminSignedIn
    /\ \E m \in Rows(room) :
        /\ ~RoomBooked(m)
        /\ room' = Drop(room, {m})
    /\ UNCHANGED <<hotel, roomType, user, guest, booking, session>>

================================================================================
