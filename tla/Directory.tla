------------------------------- MODULE Directory -------------------------------
(****************************************************************************)
(* The tables that say what there is to book and who may book it: hotels,   *)
(* room types, rooms, user accounts, guest profiles, and the bookings that  *)
(* refer to them.  Requests run in threads, each with a session of its own; *)
(* what one checked may be gone when it commits, and the database's         *)
(* constraints are then all that is left.                                   *)
(*                                                                          *)
(* The constraints are checked the way PostgreSQL does it: an INSERT or an  *)
(* UPDATE looks at the columns it writes, a DELETE looks for the rows that  *)
(* refer to the one that goes.                                              *)
(****************************************************************************)
EXTENDS Integers, FiniteSets

CONSTANTS
    Hotels, RoomTypes, Rooms, Users, Guests, Bookings,  \* ids, never handed out twice
    Numbers,        \* room numbers
    Mailboxes,      \* e-mail addresses, but for the case of their letters
    AdminForms,     \* how addresses are typed for scripts/create_admin.py
    Names, Phones,  \* columns nothing decides on
    Workers,        \* request threads
    Ops,            \* what this workload calls
    Unused, Deleted

HotelOps == {"create_hotel", "update_hotel", "delete_hotel"}
RoomTypeOps == {"create_room_type", "delete_room_type"}
RoomOps == {"create_room", "update_room", "delete_room"}
AccountOps == {"register", "create_admin"}
GuestOps == {"create_guest", "update_guest", "delete_guest", "get_own_guest"}
BookingOps == {"create_reservation", "delete_reservation"}

BackOfficeOps == HotelOps \cup RoomTypeOps \cup RoomOps \cup AccountOps \cup GuestOps \cup BookingOps

VARIABLES hotel, roomType, room, user, guest, booking, session

tables == <<hotel, roomType, room, user, guest, booking>>
vars == <<tables, session>>

\* An address is stored as typed; the schemas turn "mixed" into "lower".
Forms == {"lower", "mixed"}
Address == [box : Mailboxes, form : Forms]
Normalized(address) == [address EXCEPT !.form = "lower"]

HotelRow == [name : Names]
RoomTypeRow == {"room type"}    \* price and capacity: see StayStore
RoomRow == [hotel : Hotels, type : RoomTypes, number : Numbers]
UserRow == [email : Address, role : {"admin", "guest"}]
GuestRow == [user : Users, phone : Phones]
\* `owner` is the user the booking was made for: what guest.user_id said when the
\* handler read the profile.
BookingRow == [guest : Guests, hotel : Hotels, room : Rooms, owner : Users]

Gone == {Unused, Deleted}

ASSUME DirectoryAssumption ==
    /\ Ops \subseteq BackOfficeOps
    /\ AdminForms \subseteq Forms
    /\ Unused # Deleted
    /\ Gone \cap (HotelRow \cup RoomTypeRow \cup RoomRow
                    \cup UserRow \cup GuestRow \cup BookingRow) = {}

\* The rows of a table.
Rows(table) == {id \in DOMAIN table : table[id] \notin Gone}

\* Mutant of Fresh: the id of a deleted row is handed out again.
Reusable(table) == {id \in DOMAIN table : table[id] \in Gone}

\* The ids its sequence has not handed out yet.
Fresh(table) == {id \in DOMAIN table : table[id] = Unused}

Put(table, id, row) == [table EXCEPT ![id] = row]
Drop(table, ids) == [id \in DOMAIN table |-> IF id \in ids THEN Deleted ELSE table[id]]

\* uq_rooms_hotel_room_number
NumberFree(m, row) ==
    \A n \in Rows(room) \ {m} : <<room[n].hotel, room[n].number>> # <<row.hotel, row.number>>

\* users.email
EmailFree(email) == \A u \in Rows(user) : user[u].email # email

\* Mutant of ProfileFree: guests.user_id is a plain foreign key.
ProfileUnchecked(u) == TRUE

\* guests.user_id
ProfileFree(u) == \A g \in Rows(guest) : guest[g].user # u

ProfilesOf(u) == {g \in Rows(guest) : guest[g].user = u}

\* The bookings that refer to a hotel, to one of these rooms, to a profile.
BookingsOfHotel(h) == {b \in Rows(booking) : booking[b].hotel = h}
BookingsOfRooms(ms) == {b \in Rows(booking) : booking[b].room \in ms}
BookingsOfGuest(g) == {b \in Rows(booking) : booking[b].guest = g}
RoomsOf(h) == {m \in Rows(room) : room[m].hotel = h}

\* auth.get_current_user: whoever can log in has a token for as long as the user
\* exists.  authenticate_user looks the address up in lower case.
SignedIn == {u \in Rows(user) : user[u].email = Normalized(user[u].email)}

\* auth.require_admin
AdminSignedIn == \E u \in SignedIn : user[u].role = "admin"

(****************************************************************************)
(* A session between its reads and its commit: what it is about to write.   *)
(****************************************************************************)
NoWork == [op |-> "none"]

Work ==
    {NoWork}
        \cup [op : {"delete_hotel"}, id : Hotels, owned : SUBSET Rooms]
        \cup [op : {"create_room"}, new : RoomRow]
        \cup [op : {"update_room"}, id : Rooms, old : RoomRow, new : RoomRow]
        \cup [op : {"register", "create_admin"}, new : UserRow]
        \cup [op : {"register_profile", "create_guest", "get_own_guest"}, user : Users]
        \cup [op : {"create_reservation"}, new : BookingRow]

Calls(w, op) == op \in Ops /\ session[w] = NoWork

Prepare(w, work) ==
    /\ session' = [session EXCEPT ![w] = work]
    /\ UNCHANGED tables

Commits(w, op) ==
    /\ session[w].op = op
    /\ session' = [session EXCEPT ![w] = NoWork]

\* get_db: a refused commit, an exception or a crash ends the unit of work.
Rollback(w) ==
    /\ session[w] # NoWork
    /\ session' = [session EXCEPT ![w] = NoWork]
    /\ UNCHANGED tables

DirectoryInit ==
    /\ hotel = [h \in Hotels |-> Unused]
    /\ roomType = [t \in RoomTypes |-> Unused]
    /\ room = [m \in Rooms |-> Unused]
    /\ user = [u \in Users |-> Unused]
    /\ guest = [g \in Guests |-> Unused]
    /\ booking = [b \in Bookings |-> Unused]
    /\ session = [w \in Workers |-> NoWork]

DirectoryTypeOK ==
    /\ hotel \in [Hotels -> HotelRow \cup Gone]
    /\ roomType \in [RoomTypes -> RoomTypeRow \cup Gone]
    /\ room \in [Rooms -> RoomRow \cup Gone]
    /\ user \in [Users -> UserRow \cup Gone]
    /\ guest \in [Guests -> GuestRow \cup Gone]
    /\ booking \in [Bookings -> BookingRow \cup Gone]
    /\ session \in [Workers -> Work]

================================================================================
