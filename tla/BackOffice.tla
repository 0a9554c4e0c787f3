------------------------------- MODULE BackOffice -------------------------------
(****************************************************************************)
(* Administration and accounts together: the requests of several threads on *)
(* the directory of hotels, rooms, users and profiles.                      *)
(****************************************************************************)
EXTENDS Inventory, Accounts, Registry

Request(w) ==
    \/ CreateHotel(w)
    \/ UpdateHotel(w)
    \/ DeleteHotel(w)
    \/ CreateRoomType(w)
    \/ DeleteRoomType(w)
    \/ CreateRoom(w)
    \/ UpdateRoom(w)
    \/ DeleteRoom(w)
    \/ Register(w)
    \/ CreateAdmin(w)
    \/ CreateGuest(w)
    \/ GetOwnGuest(w)
    \/ UpdateGuest(w)
    \/ DeleteGuest(w)
    \/ CreateReservation(w)
    \/ DeleteReservation(w)

Commit(w) ==
    \/ CommitDeleteHotel(w)
    \/ CommitCreateRoom(w)
    \/ CommitUpdateRoom(w)
    \/ CommitRegister(w)
    \/ CommitCreateAdmin(w)
    \/ CommitProfile(w)
    \/ CommitReservation(w)

Next == \E w \in Workers : Request(w) \/ Commit(w) \/ Rollback(w)

Init == DirectoryInit

Spec == Init /\ [][Next]_vars

--------------------------------------------------------------------------------

\* Every table and every session holds rows of the declared shape.
TypeOK == DirectoryTypeOK

\* create_room, update_room: no two rooms of a hotel carry one number, also when
\* rooms are created, renumbered and moved at the same time.
RoomNumbersUnique ==
    \A m, n \in Rows(room) :
        <<room[m].hotel, room[m].number>> = <<room[n].hotel, room[n].number>> => m = n

\* delete_hotel, delete_room_type: a room's hotel and type are there, whatever was
\* deleted while it was created or moved.
RoomsHaveParents ==
    \A m \in Rows(room) : room[m].hotel \in Rows(hotel) /\ room[m].type \in Rows(roomType)

\* models: "history is kept": a booking's hotel, room and profile outlive every
\* deletion, also of a hotel whose rooms moved.
HistoryKept ==
    \A b \in Rows(booking) :
        /\ booking[b].hotel \in Rows(hotel)
        /\ booking[b].room \in Rows(room)
        /\ booking[b].guest \in Rows(guest)

\* resolve_booking_guest: a booking stays with the user it was made for, though
\* profiles are deleted and made again between its checks and its commit.
BookingsKeepTheirOwner ==
    \A b \in Rows(booking) :
        booking[b].guest \in Rows(guest) => guest[booking[b].guest].user = booking[b].owner

\* models/guest.py: exactly one profile per user: registration, an administrator
\* and two first bookings may make it at the same time.
OneProfilePerUser ==
    \A g, k \in Rows(guest) : guest[g].user = guest[k].user => g = k

\* auth_schema, create_admin: addresses that differ in case are one address.  (Not so:
\* the script stores the address of its flag as it is typed.)
OneAccountPerMailbox ==
    \A u, v \in Rows(user) : user[u].email.box = user[v].email.box => u = v

\* auth_schema, register_user, create_admin: also when registrations and the script run
\* at the same time, a second account of a mailbox is an administrator's, whose address
\* the script stored as it was typed; two guests never share one.
MailboxSharedByFlagOnly ==
    \A u, v \in Rows(user) : user[u].email.box = user[v].email.box =>
        \/ u = v
        \/ \E k \in {u, v} : user[k].role = "admin" /\ user[k].email.form = "mixed"

\* All controllers: each commit is a change that is right for the tables it meets.
ImplementsRegistry == RegistrySpec

\* delete_hotel: "its rooms go with it", and no others.
HotelTakesItsOwnRooms ==
    [][\A h \in Rows(hotel), m \in Rows(room) :
        h \notin Rows(hotel)' /\ m \notin Rows(room)' => room[m].hotel = h]_vars

================================================================================
