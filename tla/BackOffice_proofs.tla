--------------------------- MODULE BackOffice_proofs ---------------------------
(****************************************************************************)
(* The directory stays consistent for any number of requests, hotels, rooms *)
(* and users.  The constraints the database checks are local: a statement   *)
(* looks at the columns it writes.  That they add up to the invariants of   *)
(* whole tables is what is proved here.                                     *)
(****************************************************************************)
EXTENDS BackOffice, TLAPS

\* A profile's user has an account.
ProfilesHaveUsers == \A g \in Rows(guest) : guest[g].user \in Rows(user)

\* users.email is unique.
EmailsUnique == \A u, v \in Rows(user) : user[u].email = user[v].email => u = v

\* What a request in flight still knows about the rows it refers to: accounts are
\* never removed, and the profile it read can go, but not become another user's.
SessionsAreSound ==
    \A w \in Workers :
        /\ session[w].op \in {"register_profile", "create_guest", "get_own_guest"} =>
              session[w].user \in Rows(user)
        /\ session[w].op = "create_reservation" =>
              LET row == session[w].new
              IN  /\ guest[row.guest] # Unused
                  /\ row.guest \in Rows(guest) => guest[row.guest].user = row.owner

Places == RoomNumbersUnique /\ RoomsHaveParents
People == EmailsUnique /\ ProfilesHaveUsers /\ OneProfilePerUser
History == HistoryKept /\ BookingsKeepTheirOwner

TablesOK ==
    /\ hotel \in [Hotels -> HotelRow \cup Gone]
    /\ roomType \in [RoomTypes -> RoomTypeRow \cup Gone]
    /\ room \in [Rooms -> RoomRow \cup Gone]
    /\ user \in [Users -> UserRow \cup Gone]
    /\ guest \in [Guests -> GuestRow \cup Gone]
    /\ booking \in [Bookings -> BookingRow \cup Gone]

IInv == TypeOK /\ Places /\ People /\ History /\ SessionsAreSound

--------------------------------------------------------------------------------
(****************************************************************************)
(* The rows of a table after an INSERT or UPDATE, and after a DELETE.       *)
(****************************************************************************)
LEMMA PutRows ==
    ASSUME NEW table, NEW id \in Fresh(table) \cup Rows(table), NEW row, row \notin Gone
    PROVE  /\ Rows(Put(table, id, row)) = Rows(table) \cup {id}
           /\ Put(table, id, row)[id] = row
           /\ \A k \in Rows(table) \ {id} : Put(table, id, row)[k] = table[k]
  BY DEF Rows, Fresh, Put

\* A new id is not the id of a row.
LEMMA FreshIsNew == ASSUME NEW table PROVE Fresh(table) \cap Rows(table) = {}
  BY DEF Fresh, Rows, Gone

LEMMA DropRows ==
    ASSUME NEW table, NEW ids
    PROVE  /\ Rows(Drop(table, ids)) = Rows(table) \ ids
           /\ \A k \in Rows(table) \ ids : Drop(table, ids)[k] = table[k]
  BY DEF Rows, Drop, Gone

\* No row is one of the sentinels.
LEMMA RowsAreNotGone ==
    /\ HotelRow \cap Gone = {} /\ RoomTypeRow \cap Gone = {} /\ RoomRow \cap Gone = {}
    /\ UserRow \cap Gone = {} /\ GuestRow \cap Gone = {} /\ BookingRow \cap Gone = {}
  BY DirectoryAssumption

\* The stored rows of well-typed tables have the declared shape.
LEMMA RowShapes ==
    ASSUME TablesOK
    PROVE  /\ Rows(hotel) \subseteq Hotels /\ Rows(roomType) \subseteq RoomTypes
           /\ \A m \in Rows(room) : m \in Rooms /\ room[m] \in RoomRow
           /\ \A u \in Rows(user) : u \in Users /\ user[u] \in UserRow
           /\ \A g \in Rows(guest) : g \in Guests /\ guest[g] \in GuestRow
           /\ \A b \in Rows(booking) : b \in Bookings /\ booking[b] \in BookingRow
  BY DEF TablesOK, Rows

--------------------------------------------------------------------------------
(****************************************************************************)
(* The registry keeps tables well typed and consistent, change by change.   *)
(****************************************************************************)
LEMMA DeletedIsGone == Deleted \in Gone
  BY DEF Gone

LEMMA ChangeTyped ==
    ASSUME TablesOK, Change PROVE TablesOK'
<1> USE DeletedIsGone DEF TablesOK, Rows, Fresh, Put, Drop
<1>1. CASE EnterHotel BY <1>1 DEF EnterHotel
<1>2. CASE CloseHotel BY <1>2 DEF CloseHotel
<1>3. CASE EnterRoomType BY <1>3 DEF EnterRoomType
<1>4. CASE RetireRoomType BY <1>4 DEF RetireRoomType
<1>5. CASE EnterRoom BY <1>5 DEF EnterRoom
<1>6. CASE RetireRoom BY <1>6 DEF RetireRoom
<1>7. CASE OpenAccount BY <1>7 DEF OpenAccount
<1>8. CASE OpenProfile BY <1>8 DEF OpenProfile
<1>9. CASE AmendProfile BY <1>9 DEF AmendProfile
<1>10. CASE CloseProfile BY <1>10 DEF CloseProfile
<1>11. CASE Book BY <1>11 DEF Book
<1>12. CASE Unbook BY <1>12 DEF Unbook
<1> QED
  BY <1>1, <1>2, <1>3, <1>4, <1>5, <1>6, <1>7, <1>8, <1>9, <1>10, <1>11, <1>12 DEF Change

LEMMA ChangeKeepsPlaces ==
    ASSUME TablesOK, Places, People, History, Change PROVE Places'
<1>1. CASE EnterHotel
  BY <1>1, PutRows, RowsAreNotGone
  DEF EnterHotel, Places, RoomNumbersUnique, RoomsHaveParents
<1>2. CASE CloseHotel
  <2>1. PICK h \in Hotels, ms \in SUBSET Rooms :
              /\ RoomsOf(h) \subseteq ms
              /\ hotel' = Drop(hotel, {h}) /\ room' = Drop(room, ms)
    BY <1>2 DEF CloseHotel
  <2>2. /\ Rows(hotel)' = Rows(hotel) \ {h} /\ Rows(room)' = Rows(room) \ ms
        /\ roomType' = roomType
        /\ \A k \in Rows(room) \ ms : room'[k] = room[k]
    BY <2>1, DropRows, <1>2 DEF CloseHotel
  <2>3. RoomNumbersUnique' BY <2>2 DEF Places, RoomNumbersUnique
  <2>4. RoomsHaveParents' BY <2>1, <2>2 DEF Places, RoomsHaveParents, RoomsOf
  <2> QED BY <2>3, <2>4 DEF Places
<1>3. CASE EnterRoomType
  BY <1>3, PutRows, RowsAreNotGone
  DEF EnterRoomType, Places, RoomNumbersUnique, RoomsHaveParents
<1>4. CASE RetireRoomType
  BY <1>4, DropRows DEF RetireRoomType, Places, RoomNumbersUnique, RoomsHaveParents
<1>5. CASE EnterRoom
  <2>1. PICK m \in Fresh(room) \cup Rows(room), row \in RoomRow :
              /\ row.hotel \in Rows(hotel) /\ row.type \in Rows(roomType)
              /\ NumberFree(m, row)
              /\ room' = Put(room, m, row)
    BY <1>5 DEF EnterRoom
  <2>2. /\ Rows(Put(room, m, row)) = Rows(room) \cup {m}
        /\ Put(room, m, row)[m] = row
        /\ \A k \in Rows(room) \ {m} : Put(room, m, row)[k] = room[k]
    BY <2>1, PutRows, RowsAreNotGone
  <2>3. /\ Rows(room)' = Rows(room) \cup {m} /\ room'[m] = row
        /\ hotel' = hotel /\ roomType' = roomType
        /\ \A k \in Rows(room) \ {m} : room'[k] = room[k]
    BY <2>1, <2>2, FreshIsNew, <1>5 DEF EnterRoom
  <2>4. RoomNumbersUnique' BY <2>1, <2>3 DEF Places, RoomNumbersUnique, NumberFree
  <2>5. RoomsHaveParents' BY <2>1, <2>3 DEF Places, RoomsHaveParents
  <2> QED BY <2>4, <2>5 DEF Places
<1>6. CASE RetireRoom
  <2>1. PICK m \in Rooms : room' = Drop(room, {m}) BY <1>6 DEF RetireRoom
  <2>2. /\ Rows(room)' = Rows(room) \ {m}
        /\ hotel' = hotel /\ roomType' = roomType
        /\ \A k \in Rows(room) \ {m} : room'[k] = room[k]
    BY <2>1, DropRows, <1>6 DEF RetireRoom
  <2> QED BY <2>2 DEF Places, RoomNumbersUnique, RoomsHaveParents
<1>7. CASE UNCHANGED <<hotel, roomType, room>>
  BY <1>7 DEF Places, RoomNumbersUnique, RoomsHaveParents
<1> QED
  BY <1>1, <1>2, <1>3, <1>4, <1>5, <1>6, <1>7
  DEF Change, OpenAccount, OpenProfile, AmendProfile, CloseProfile, Book, Unbook

LEMMA ChangeKeepsPeople ==
    ASSUME TablesOK, Places, People, History, Change PROVE People'
<1>1. CASE OpenAccount
  <2>1. PICK u \in Fresh(user), row \in UserRow :
              EmailFree(row.email) /\ user' = Put(user, u, row)
    BY <1>1 DEF OpenAccount
  <2>2. /\ Rows(Put(user, u, row)) = Rows(user) \cup {u}
        /\ Put(user, u, row)[u] = row
        /\ \A k \in Rows(user) \ {u} : Put(user, u, row)[k] = user[k]
    BY <2>1, PutRows, RowsAreNotGone
  <2>3. /\ Rows(user)' = Rows(user) \cup {u} /\ user'[u] = row /\ u \notin Rows(user)
        /\ guest' = guest
        /\ \A k \in Rows(user) : user'[k] = user[k]
    BY <2>1, <2>2, FreshIsNew, <1>1 DEF OpenAccount
  <2>4. EmailsUnique' BY <2>1, <2>3 DEF People, EmailsUnique, EmailFree
  <2>5. ProfilesHaveUsers' /\ OneProfilePerUser'
    BY <2>3 DEF People, ProfilesHaveUsers, OneProfilePerUser
  <2> QED BY <2>4, <2>5 DEF People
<1>2. CASE OpenProfile
  <2>1. PICK g \in Fresh(guest), row \in GuestRow :
              /\ row.user \in Rows(user) /\ ProfileFree(row.user)
              /\ guest' = Put(guest, g, row)
    BY <1>2 DEF OpenProfile
  <2>2. /\ Rows(Put(guest, g, row)) = Rows(guest) \cup {g}
        /\ Put(guest, g, row)[g] = row
        /\ \A k \in Rows(guest) \ {g} : Put(guest, g, row)[k] = guest[k]
    BY <2>1, PutRows, RowsAreNotGone
  <2>3. /\ Rows(guest)' = Rows(guest) \cup {g} /\ guest'[g] = row /\ g \notin Rows(guest)
        /\ user' = user
        /\ \A k \in Rows(guest) : guest'[k] = guest[k]
    BY <2>1, <2>2, FreshIsNew, <1>2 DEF OpenProfile
  <2>4. ProfilesHaveUsers' BY <2>1, <2>3 DEF People, ProfilesHaveUsers
  <2>5. OneProfilePerUser' BY <2>1, <2>3 DEF People, OneProfilePerUser, ProfileFree
  <2>6. EmailsUnique' BY <2>3 DEF People, EmailsUnique
  <2> QED BY <2>4, <2>5, <2>6 DEF People
<1>3. CASE AmendProfile
  <2>1. PICK g \in Rows(guest), row \in GuestRow :
              row.user = guest[g].user /\ guest' = Put(guest, g, row)
    BY <1>3 DEF AmendProfile
  <2>2. /\ Rows(Put(guest, g, row)) = Rows(guest) \cup {g}
        /\ Put(guest, g, row)[g] = row
        /\ \A k \in Rows(guest) \ {g} : Put(guest, g, row)[k] = guest[k]
    BY <2>1, PutRows, RowsAreNotGone
  <2>3. /\ Rows(guest)' = Rows(guest) /\ user' = user
        /\ \A k \in Rows(guest) : guest'[k].user = guest[k].user
    BY <2>1, <2>2, FreshIsNew, <1>3 DEF AmendProfile
  <2> QED BY <2>3 DEF People, ProfilesHaveUsers, OneProfilePerUser, EmailsUnique
<1>4. CASE CloseProfile
  <2>1. PICK g \in Guests : guest' = Drop(guest, {g}) BY <1>4 DEF CloseProfile
  <2>2. /\ Rows(guest)' = Rows(guest) \ {g} /\ user' = user
        /\ \A k \in Rows(guest) \ {g} : guest'[k] = guest[k]
    BY <2>1, DropRows, <1>4 DEF CloseProfile
  <2> QED BY <2>2 DEF People, ProfilesHaveUsers, OneProfilePerUser, EmailsUnique
<1>5. CASE UNCHANGED <<user, guest>>
  BY <1>5 DEF People, EmailsUnique, ProfilesHaveUsers, OneProfilePerUser
<1> QED
  BY <1>1, <1>2, <1>3, <1>4, <1>5
  DEF Change, EnterHotel, CloseHotel, EnterRoomType, RetireRoomType, EnterRoom, RetireRoom,
      Book, Unbook

LEMMA ChangeKeepsHistory ==
    ASSUME TablesOK, Places, People, History, Change PROVE History'
<1>1. CASE EnterHotel
  <2>1. PICK h \in Fresh(hotel) \cup Rows(hotel), row \in HotelRow : hotel' = Put(hotel, h, row)
    BY <1>1 DEF EnterHotel
  <2>2. Rows(hotel)' = Rows(hotel) \cup {h} BY <2>1, PutRows, RowsAreNotGone
  <2> QED BY <2>2, <1>1 DEF EnterHotel, History, HistoryKept, BookingsKeepTheirOwner
<1>2. CASE CloseHotel
  BY <1>2, DropRows
  DEF CloseHotel, History, HistoryKept, BookingsKeepTheirOwner, BookingsOfHotel,
      BookingsOfRooms
<1>3. CASE EnterRoom
  <2>1. PICK m \in Fresh(room) \cup Rows(room), row \in RoomRow : room' = Put(room, m, row)
    BY <1>3 DEF EnterRoom
  <2>2. Rows(room)' = Rows(room) \cup {m} BY <2>1, PutRows, RowsAreNotGone
  <2> QED BY <2>2, <1>3 DEF EnterRoom, History, HistoryKept, BookingsKeepTheirOwner
<1>4. CASE RetireRoom
  BY <1>4, DropRows
  DEF RetireRoom, History, HistoryKept, BookingsKeepTheirOwner, BookingsOfRooms
<1>5. CASE OpenProfile
  <2>1. PICK g \in Fresh(guest), row \in GuestRow : guest' = Put(guest, g, row)
    BY <1>5 DEF OpenProfile
  <2>2. /\ Rows(Put(guest, g, row)) = Rows(guest) \cup {g}
        /\ Put(guest, g, row)[g] = row
        /\ \A k \in Rows(guest) \ {g} : Put(guest, g, row)[k] = guest[k]
    BY <2>1, PutRows, RowsAreNotGone
  <2>3. /\ Rows(guest)' = Rows(guest) \cup {g} /\ g \notin Rows(guest)
        /\ \A k \in Rows(guest) : guest'[k] = guest[k]
    BY <2>1, <2>2, FreshIsNew
  <2> QED BY <2>3, <1>5 DEF OpenProfile, History, HistoryKept, BookingsKeepTheirOwner
<1>6. CASE AmendProfile
  <2>1. PICK g \in Rows(guest), row \in GuestRow :
              row.user = guest[g].user /\ guest' = Put(guest, g, row)
    BY <1>6 DEF AmendProfile
  <2>2. /\ Rows(Put(guest, g, row)) = Rows(guest) \cup {g}
        /\ Put(guest, g, row)[g] = row
        /\ \A k \in Rows(guest) \ {g} : Put(guest, g, row)[k] = guest[k]
    BY <2>1, PutRows, RowsAreNotGone
  <2>3. /\ Rows(guest)' = Rows(guest)
        /\ \A k \in Rows(guest) : guest'[k].user = guest[k].user
    BY <2>1, <2>2, FreshIsNew
  <2> QED BY <2>3, <1>6 DEF AmendProfile, History, HistoryKept, BookingsKeepTheirOwner
<1>7. CASE CloseProfile
  BY <1>7, DropRows
  DEF CloseProfile, History, HistoryKept, BookingsKeepTheirOwner, BookingsOfGuest
<1>8. CASE Book
  <2>1. PICK b \in Fresh(booking), row \in BookingRow :
              /\ row.hotel \in Rows(hotel) /\ row.room \in Rows(room)
              /\ row.guest \in Rows(guest) /\ guest[row.guest].user = row.owner
              /\ booking' = Put(booking, b, row)
    BY <1>8 DEF Book
  <2>2. /\ Rows(Put(booking, b, row)) = Rows(booking) \cup {b}
        /\ Put(booking, b, row)[b] = row
        /\ \A k \in Rows(booking) \ {b} : Put(booking, b, row)[k] = booking[k]
    BY <2>1, PutRows, RowsAreNotGone
  <2>3. /\ Rows(booking)' = Rows(booking) \cup {b} /\ booking'[b] = row
        /\ \A k \in Rows(booking) \ {b} : booking'[k] = booking[k]
    BY <2>1, <2>2, FreshIsNew
  <2> QED BY <2>1, <2>3, <1>8 DEF Book, History, HistoryKept, BookingsKeepTheirOwner
<1>9. CASE Unbook
  BY <1>9, DropRows DEF Unbook, History, HistoryKept, BookingsKeepTheirOwner
<1>10. CASE UNCHANGED <<hotel, room, guest, booking>>
  BY <1>10 DEF History, HistoryKept, BookingsKeepTheirOwner
<1> QED
  BY <1>1, <1>2, <1>3, <1>4, <1>5, <1>6, <1>7, <1>8, <1>9, <1>10
  DEF Change, EnterRoomType, RetireRoomType, OpenAccount

--------------------------------------------------------------------------------
(****************************************************************************)
(* Every request, commit and rollback is a change of the registry, or       *)
(* leaves the tables alone.                                                 *)
(****************************************************************************)

\* What a session of each kind holds.
LEMMA SessionShapes ==
    ASSUME session \in [Workers -> Work], NEW w \in Workers
    PROVE  /\ session[w].op = "delete_hotel" =>
                 session[w].id \in Hotels /\ session[w].owned \subseteq Rooms
           /\ session[w].op = "create_room" => session[w].new \in RoomRow
           /\ session[w].op = "update_room" =>
                 /\ session[w].id \in Rooms
                 /\ session[w].old \in RoomRow /\ session[w].new \in RoomRow
           /\ session[w].op \in {"register", "create_admin"} => session[w].new \in UserRow
           /\ session[w].op \in {"register_profile", "create_guest", "get_own_guest"} =>
                 session[w].user \in Users
           /\ session[w].op = "create_reservation" => session[w].new \in BookingRow
<1>1. session[w] \in Work OBVIOUS
<1> QED BY <1>1 DEF Work, NoWork

LEMMA RequestChanges ==
    ASSUME TablesOK, NEW w \in Workers, Request(w)
    PROVE  Change \/ UNCHANGED tables
<1>1. CASE CreateHotel(w)
  BY <1>1 DEF CreateHotel, Change, EnterHotel
<1>2. CASE UpdateHotel(w)
  BY <1>2 DEF UpdateHotel, Change, EnterHotel
<1>3. CASE CreateRoomType(w)
  BY <1>3 DEF CreateRoomType, Change, EnterRoomType
<1>4. CASE DeleteRoomType(w)
  BY <1>4, RowShapes DEF DeleteRoomType, TypeInUse, Change, RetireRoomType
<1>5. CASE DeleteRoom(w)
  <2>1. PICK m \in Rows(room) : ~RoomBooked(m) /\ room' = Drop(room, {m})
    BY <1>5 DEF DeleteRoom
  <2>2. m \in Rooms /\ BookingsOfRooms({m}) = {}
    BY <2>1, RowShapes DEF RoomBooked, BookingsOfRooms
  <2> QED BY <2>1, <2>2, <1>5 DEF DeleteRoom, Change, RetireRoom
<1>6. CASE UpdateGuest(w)
  <2>1. PICK g \in Rows(guest), phone \in Phones : guest' = [guest EXCEPT ![g].phone = phone]
    BY <1>6 DEF UpdateGuest
  <2> DEFINE row == [guest[g] EXCEPT !.phone = phone]
  <2>2. guest[g] \in GuestRow BY RowShapes
  <2>3. row \in GuestRow /\ row.user = guest[g].user BY <2>2 DEF GuestRow
  <2>4. guest' = Put(guest, g, row) BY <2>1 DEF Put
  <2>5. AmendProfile BY <2>3, <2>4, <1>6 DEF AmendProfile, UpdateGuest
  <2> QED BY <2>5 DEF Change
<1>7. CASE DeleteGuest(w)
  BY <1>7, RowShapes DEF DeleteGuest, Change, CloseProfile
<1>8. CASE DeleteReservation(w)
  BY <1>8, RowShapes DEF DeleteReservation, Change, Unbook
<1>9. CASE UNCHANGED tables
  BY <1>9
<1> QED
  BY <1>1, <1>2, <1>3, <1>4, <1>5, <1>6, <1>7, <1>8, <1>9
  DEF Request, DeleteHotel, CreateRoom, UpdateRoom, Register, CreateAdmin, CreateGuest,
      GetOwnGuest, CreateReservation, Prepare

LEMMA CommitChanges ==
    ASSUME TypeOK, TablesOK, Places, SessionsAreSound, NEW w \in Workers, Commit(w)
    PROVE  Change
<1> USE DEF Change
<1> session \in [Workers -> Work] BY DEF TypeOK, DirectoryTypeOK
<1>1. CASE CommitDeleteHotel(w)
  <2>1. session[w].id \in Hotels /\ session[w].owned \subseteq Rooms
    BY <1>1, SessionShapes DEF CommitDeleteHotel, Commits
  <2>2. Doomed(w) \in SUBSET Rooms /\ RoomsOf(session[w].id) \subseteq Doomed(w)
    BY <2>1, RowShapes DEF Doomed, RoomsOf
  <2>3. CloseHotel BY <2>1, <2>2, <1>1 DEF CloseHotel, CommitDeleteHotel
  <2> QED BY <2>3
<1>2. CASE CommitCreateRoom(w)
  <2>1. session[w].new \in RoomRow
    BY <1>2, SessionShapes DEF CommitCreateRoom, Commits
  <2>2. EnterRoom BY <2>1, <1>2 DEF EnterRoom, CommitCreateRoom, RoomInsertable
  <2> QED BY <2>2
<1>3. CASE CommitUpdateRoom(w)
  <2> DEFINE m == session[w].id
             row == Merged(room[m], session[w].old, session[w].new)
  <2>1. m \in Rows(room) /\ session[w].old \in RoomRow /\ session[w].new \in RoomRow
    BY <1>3, SessionShapes DEF CommitUpdateRoom, Commits
  <2>2. room[m] \in RoomRow BY <2>1, RowShapes
  <2>3. /\ RoomUpdatable(m, session[w].old, session[w].new)
        /\ room' = Put(room, m, row)
        /\ UNCHANGED <<hotel, roomType, user, guest, booking>>
    BY <1>3 DEF CommitUpdateRoom
  <2>4. /\ row = [hotel |-> row.hotel, type |-> row.type, number |-> row.number]
        /\ row.hotel = IF session[w].new.hotel # session[w].old.hotel
                       THEN session[w].new.hotel ELSE room[m].hotel
        /\ row.type = IF session[w].new.type # session[w].old.type
                      THEN session[w].new.type ELSE room[m].type
        /\ row.number \in {session[w].new.number, room[m].number}
    BY <2>1, <2>2 DEF Merged, RoomRow
  <2>5. row \in RoomRow BY <2>1, <2>2, <2>4 DEF RoomRow
  <2>6. row.hotel \in Rows(hotel) /\ row.type \in Rows(roomType)
    BY <2>1, <2>3, <2>4 DEF RoomUpdatable, Places, RoomsHaveParents
  <2>7. NumberFree(m, row) BY <2>3 DEF RoomUpdatable
  <2> HIDE DEF row
  <2>8. EnterRoom BY <2>1, <2>3, <2>5, <2>6, <2>7 DEF EnterRoom
  <2> QED BY <2>8
<1>4. CASE CommitRegister(w)
  <2>1. session[w].new \in UserRow BY <1>4, SessionShapes DEF CommitRegister
  <2>2. OpenAccount BY <2>1, <1>4 DEF OpenAccount, CommitRegister
  <2> QED BY <2>2
<1>5. CASE CommitCreateAdmin(w)
  <2>1. session[w].new \in UserRow BY <1>5, SessionShapes DEF CommitCreateAdmin, Commits
  <2>2. OpenAccount BY <2>1, <1>5 DEF OpenAccount, CommitCreateAdmin
  <2> QED BY <2>2
<1>6. CASE CommitProfile(w)
  <2>1. session[w].op \in {"register_profile", "create_guest", "get_own_guest"}
    BY <1>6 DEF CommitProfile, Commits
  <2>2. session[w].user \in Rows(user) BY <2>1 DEF SessionsAreSound
  <2>3. PICK g \in Fresh(guest), phone \in Phones :
            guest' = Put(guest, g, [user |-> session[w].user, phone |-> phone])
    BY <1>6 DEF CommitProfile
  <2>4. [user |-> session[w].user, phone |-> phone] \in GuestRow
    BY <2>2, RowShapes DEF GuestRow
  <2>5. OpenProfile BY <2>2, <2>3, <2>4, <1>6 DEF OpenProfile, CommitProfile
  <2> QED BY <2>5
<1>7. CASE CommitReservation(w)
  <2>1. session[w].op = "create_reservation" /\ session[w].new \in BookingRow
    BY <1>7, SessionShapes DEF CommitReservation, Commits
  <2>2. /\ BookingInsertable(session[w].new)
        /\ guest[session[w].new.guest].user = session[w].new.owner
    BY <2>1, <1>7 DEF CommitReservation, BookingInsertable, SessionsAreSound
  <2>3. Book BY <2>1, <2>2, <1>7 DEF Book, CommitReservation, BookingInsertable
  <2> QED BY <2>3
<1> QED BY <1>1, <1>2, <1>3, <1>4, <1>5, <1>6, <1>7 DEF Commit

--------------------------------------------------------------------------------
(****************************************************************************)
(* Sessions: what they hold is well typed, and stays true of the tables.    *)
(****************************************************************************)

\* What a step does to the sessions: at most one changes, to a unit of work that
\* is right for the tables.
Sound(work) ==
    /\ work.op \in {"register_profile", "create_guest", "get_own_guest"} =>
          work.user \in Rows(user)
    /\ work.op = "create_reservation" =>
          /\ guest[work.new.guest] # Unused
          /\ work.new.guest \in Rows(guest) => guest[work.new.guest].user = work.new.owner

LEMMA IdleIsSound == NoWork \in Work /\ Sound(NoWork)
  BY DEF Work, NoWork, Sound

LEMMA RequestPrepares ==
    ASSUME TablesOK, NEW w \in Workers, Request(w)
    PROVE  \/ session' = session
           \/ \E work \in Work : Sound(work) /\ session' = [session EXCEPT ![w] = work]
<1>1. CASE DeleteHotel(w)
  <2>1. PICK h \in Rows(hotel) :
            Prepare(w, [op |-> "delete_hotel", id |-> h, owned |-> RoomsOf(h)])
    BY <1>1 DEF DeleteHotel
  <2> DEFINE work == [op |-> "delete_hotel", id |-> h, owned |-> RoomsOf(h)]
  <2>2. work \in Work BY RowShapes DEF Work, RoomsOf
  <2>3. Sound(work) BY DEF Sound
  <2> QED BY <2>1, <2>2, <2>3 DEF Prepare
<1>2. CASE CreateRoom(w)
  <2>1. PICK h \in Rows(hotel), t \in Rows(roomType), number \in Numbers :
            Prepare(w, [op |-> "create_room",
                        new |-> [hotel |-> h, type |-> t, number |-> number]])
    BY <1>2 DEF CreateRoom
  <2> DEFINE work == [op |-> "create_room",
                      new |-> [hotel |-> h, type |-> t, number |-> number]]
  <2>2. work.new \in RoomRow BY RowShapes DEF RoomRow
  <2>3. work \in Work BY <2>2 DEF Work
  <2>4. Sound(work) BY DEF Sound
  <2> QED BY <2>1, <2>3, <2>4 DEF Prepare
<1>3. CASE UpdateRoom(w)
  <2>1. PICK m \in Rooms, row \in RoomRow :
            room[m] \in RoomRow
            /\ Prepare(w, [op |-> "update_room", id |-> m, old |-> room[m], new |-> row])
    BY <1>3, RowShapes DEF UpdateRoom, RoomRow
  <2> DEFINE work == [op |-> "update_room", id |-> m, old |-> room[m], new |-> row]
  <2>2. work \in Work BY <2>1 DEF Work
  <2>3. Sound(work) BY DEF Sound
  <2> QED BY <2>1, <2>2, <2>3 DEF Prepare
<1>4. CASE Register(w)
  <2>1. PICK address \in Address : Prepare(w, [op |-> "register", new |-> Registered(address)])
    BY <1>4 DEF Register
  <2> DEFINE work == [op |-> "register", new |-> Registered(address)]
  <2>2. work.new \in UserRow BY DEF Registered, Normalized, UserRow, Address, Forms
  <2>3. work \in Work BY <2>2 DEF Work
  <2>4. Sound(work) BY DEF Sound
  <2> QED BY <2>1, <2>3, <2>4 DEF Prepare
<1>5. CASE CreateAdmin(w)
  <2>1. PICK address \in Address :
            Prepare(w, [op |-> "create_admin", new |-> [email |-> address, role |-> "admin"]])
    BY <1>5 DEF CreateAdmin
  <2> DEFINE work == [op |-> "create_admin", new |-> [email |-> address, role |-> "admin"]]
  <2>2. work.new \in UserRow BY DEF UserRow
  <2>3. work \in Work BY <2>2 DEF Work
  <2>4. Sound(work) BY DEF Sound
  <2> QED BY <2>1, <2>3, <2>4 DEF Prepare
<1>6. CASE CreateGuest(w)
  <2>1. PICK u \in Rows(user) : Prepare(w, [op |-> "create_guest", user |-> u])
    BY <1>6 DEF CreateGuest
  <2> DEFINE work == [op |-> "create_guest", user |-> u]
  <2>2. work \in Work BY RowShapes DEF Work
  <2>3. Sound(work) BY DEF Sound
  <2> QED BY <2>1, <2>2, <2>3 DEF Prepare
<1>7. CASE GetOwnGuest(w)
  <2>1. PICK u \in Rows(user) : Prepare(w, [op |-> "get_own_guest", user |-> u])
    BY <1>7 DEF GetOwnGuest, SignedIn
  <2> DEFINE work == [op |-> "get_own_guest", user |-> u]
  <2>2. work \in Work BY RowShapes DEF Work
  <2>3. Sound(work) BY DEF Sound
  <2> QED BY <2>1, <2>2, <2>3 DEF Prepare
<1>8. CASE CreateReservation(w)
  <2>1. PICK g \in Rows(guest), m \in Rows(room) :
            Prepare(w, [op |-> "create_reservation",
                        new |-> [guest |-> g, hotel |-> room[m].hotel, room |-> m,
                                 owner |-> guest[g].user]])
    BY <1>8 DEF CreateReservation, BookingProfiles, ProfilesOf
  <2> DEFINE work == [op |-> "create_reservation",
                      new |-> [guest |-> g, hotel |-> room[m].hotel, room |-> m,
                               owner |-> guest[g].user]]
  <2>2. g \in Guests /\ guest[g] \in GuestRow /\ m \in Rooms /\ room[m] \in RoomRow
    BY RowShapes
  <2>3. work.new \in BookingRow BY <2>2 DEF BookingRow, GuestRow, RoomRow
  <2>4. work \in Work BY <2>3 DEF Work
  <2>5. Sound(work) BY DEF Sound, Rows, Gone
  <2> QED BY <2>1, <2>4, <2>5 DEF Prepare
<1>9. CASE UNCHANGED session
  BY <1>9
<1> QED
  BY <1>1, <1>2, <1>3, <1>4, <1>5, <1>6, <1>7, <1>8, <1>9
  DEF Request, CreateHotel, UpdateHotel, CreateRoomType, DeleteRoomType, DeleteRoom,
      UpdateGuest, DeleteGuest, DeleteReservation

LEMMA CommitEnds ==
    ASSUME TypeOK, TablesOK, NEW w \in Workers, Commit(w) \/ Rollback(w)
    PROVE  \E work \in Work :
              /\ Sound(work)' \/ work = NoWork
              /\ session' = [session EXCEPT ![w] = work]
<1>1. CASE CommitRegister(w)
  <2>1. PICK u \in Fresh(user) :
            /\ user' = Put(user, u, session[w].new)
            /\ session' = [session EXCEPT ![w] = [op |-> "register_profile", user |-> u]]
    BY <1>1 DEF CommitRegister
  <2> DEFINE work == [op |-> "register_profile", user |-> u]
  <2>2. u \in Users BY DEF Fresh, TablesOK
  <2>3. work \in Work BY <2>2 DEF Work
  <2>4. session[w].new \in UserRow
    BY <1>1, SessionShapes DEF CommitRegister, TypeOK, DirectoryTypeOK
  <2>5. Rows(user)' = Rows(user) \cup {u} BY <2>1, <2>4, PutRows, RowsAreNotGone
  <2>6. Sound(work)' BY <2>5 DEF Sound
  <2> QED BY <2>1, <2>3, <2>6
<1>2. CASE session' = [session EXCEPT ![w] = NoWork]
  BY <1>2, IdleIsSound
<1> QED
  BY <1>1, <1>2
  DEF Commit, Rollback, CommitDeleteHotel, CommitCreateRoom, CommitUpdateRoom,
      CommitCreateAdmin, CommitProfile, CommitReservation, Commits

\* Accounts stay, and a profile either stays with its user or goes for good.
LEMMA ChangeKeepsIdentities ==
    ASSUME TablesOK, Change
    PROVE  /\ Rows(user) \subseteq Rows(user)'
           /\ \A g \in Guests : guest[g] # Unused =>
                 /\ guest'[g] # Unused
                 /\ g \in Rows(guest)' => g \in Rows(guest) /\ guest'[g].user = guest[g].user
<1>1. CASE OpenAccount
  <2>1. PICK u \in Fresh(user), row \in UserRow : user' = Put(user, u, row)
    BY <1>1 DEF OpenAccount
  <2>2. Rows(user)' = Rows(user) \cup {u} BY <2>1, PutRows, RowsAreNotGone
  <2> QED BY <2>2, <1>1 DEF OpenAccount, Rows, TablesOK
<1>2. CASE OpenProfile \/ AmendProfile
  <2>1. PICK g \in Fresh(guest) \cup Rows(guest), row \in GuestRow :
            /\ guest' = Put(guest, g, row)
            /\ g \in Rows(guest) => row.user = guest[g].user
    BY <1>2, FreshIsNew DEF OpenProfile, AmendProfile
  <2>2. row \notin Gone BY RowsAreNotGone
  <2>3. \A k \in Guests : guest'[k] = IF k = g THEN row ELSE guest[k]
    BY <2>1 DEF Put, TablesOK
  <2>4. DOMAIN guest' = Guests /\ DOMAIN guest = Guests BY <2>1 DEF Put, TablesOK
  <2>5. ASSUME NEW k \in Guests, guest[k] # Unused
        PROVE  /\ guest'[k] # Unused
               /\ k \in Rows(guest)' => k \in Rows(guest) /\ guest'[k].user = guest[k].user
    <3>1. CASE k = g
      BY <3>1, <2>1, <2>2, <2>3, <2>4, <2>5 DEF Fresh, Gone
    <3>2. CASE k # g
      BY <3>2, <2>3, <2>4, <2>5 DEF Rows
    <3> QED BY <3>1, <3>2
  <2>6. user' = user BY <1>2 DEF OpenProfile, AmendProfile
  <2> QED BY <2>5, <2>6
<1>3. CASE CloseProfile
  <2>1. PICK g \in Guests : guest' = Drop(guest, {g}) BY <1>3 DEF CloseProfile
  <2>2. \A k \in Guests : guest'[k] = IF k = g THEN Deleted ELSE guest[k]
    BY <2>1 DEF Drop, TablesOK
  <2>3. DOMAIN guest' = Guests /\ DOMAIN guest = Guests BY <2>1 DEF Drop, TablesOK
  <2>4. Deleted # Unused BY DirectoryAssumption
  <2>5. user' = user BY <1>3 DEF CloseProfile
  <2> QED BY <2>2, <2>3, <2>4, <2>5 DEF Rows, Gone
<1>4. CASE user' = user /\ guest' = guest
  BY <1>4
<1> QED
  BY <1>1, <1>2, <1>3, <1>4
  DEF Change, EnterHotel, CloseHotel, EnterRoomType, RetireRoomType, EnterRoom, RetireRoom,
      Book, Unbook

LEMMA SoundStaysSound ==
    ASSUME TablesOK, Change \/ UNCHANGED tables, NEW work \in Work, Sound(work)
    PROVE  Sound(work)'
<1>1. CASE Change
  <2>1. work.op = "create_reservation" => work.new.guest \in Guests
    BY DEF Work, NoWork, BookingRow
  <2> QED BY <1>1, <2>1, ChangeKeepsIdentities DEF Sound
<1>2. CASE UNCHANGED tables
  BY <1>2 DEF Sound, tables
<1> QED BY <1>1, <1>2

LEMMA SoundSessions == SessionsAreSound <=> \A w \in Workers : Sound(session[w])
  BY DEF SessionsAreSound, Sound

--------------------------------------------------------------------------------
LEMMA InitHolds == Init => IInv /\ NothingYet
<1> SUFFICES ASSUME Init PROVE IInv /\ NothingYet OBVIOUS
<1>1. NothingYet BY DEF Init, DirectoryInit, NothingYet, Rows, Gone
<1>2. TypeOK BY IdleIsSound DEF Init, DirectoryInit, TypeOK, DirectoryTypeOK, Gone
<1>3. Places /\ People /\ History
  BY <1>1 DEF NothingYet, Places, RoomNumbersUnique, RoomsHaveParents, People, EmailsUnique,
     ProfilesHaveUsers, OneProfilePerUser, History, HistoryKept, BookingsKeepTheirOwner
<1>4. SessionsAreSound BY DEF Init, DirectoryInit, SessionsAreSound, NoWork
<1> QED BY <1>1, <1>2, <1>3, <1>4 DEF IInv

LEMMA StepChanges ==
    ASSUME IInv, NEW w \in Workers, Request(w) \/ Commit(w) \/ Rollback(w)
    PROVE  Change \/ UNCHANGED tables
<1>1. TablesOK BY DEF IInv, TypeOK, DirectoryTypeOK, TablesOK
<1> QED BY <1>1, RequestChanges, CommitChanges DEF IInv, Rollback

LEMMA StepKeepsIInv ==
    ASSUME IInv, [Next]_vars PROVE IInv'
<1>0. TablesOK BY DEF IInv, TypeOK, DirectoryTypeOK, TablesOK
<1>1. CASE UNCHANGED vars
  BY <1>1 DEF vars, tables, IInv, TypeOK, DirectoryTypeOK, Places, RoomNumbersUnique,
     RoomsHaveParents, People, EmailsUnique, ProfilesHaveUsers, OneProfilePerUser, History,
     HistoryKept, BookingsKeepTheirOwner, SessionsAreSound
<1>2. ASSUME NEW w \in Workers, Request(w) \/ Commit(w) \/ Rollback(w) PROVE IInv'
  <2>1. Change \/ UNCHANGED tables BY <1>2, StepChanges
  <2>2. TablesOK' /\ Places' /\ People' /\ History'
    <3>1. CASE Change
      BY <3>1, <1>0, ChangeTyped, ChangeKeepsPlaces, ChangeKeepsPeople, ChangeKeepsHistory
      DEF IInv
    <3>2. CASE UNCHANGED tables
      BY <3>2, <1>0 DEF tables, TablesOK, IInv, Places, RoomNumbersUnique, RoomsHaveParents,
         People, EmailsUnique, ProfilesHaveUsers, OneProfilePerUser, History, HistoryKept,
         BookingsKeepTheirOwner
    <3> QED BY <2>1, <3>1, <3>2
  <2>3. session \in [Workers -> Work] BY DEF IInv, TypeOK, DirectoryTypeOK
  <2>4. \/ session' = session
        \/ \E work \in Work : (Sound(work) \/ Sound(work)' \/ work = NoWork)
                                /\ session' = [session EXCEPT ![w] = work]
    BY <1>0, <1>2, RequestPrepares, CommitEnds DEF IInv
  <2>5. \A work \in Work : Sound(work) => Sound(work)'
    BY <1>0, <2>1, SoundStaysSound
  <2>6. Sound(NoWork)' BY DEF Sound, NoWork
  <2>7. \/ session' = session
        \/ \E work \in Work : Sound(work)' /\ session' = [session EXCEPT ![w] = work]
    BY <2>4, <2>5, <2>6
  <2>8. session' \in [Workers -> Work] BY <2>3, <2>7
  <2>9. \A v \in Workers : Sound(session[v])'
    <3> SUFFICES ASSUME NEW v \in Workers PROVE Sound(session[v])' OBVIOUS
    <3> DEFINE work == session[v]
    <3>1. work \in Work /\ Sound(work) BY <2>3, SoundSessions DEF IInv
    <3>2. \A any \in Work : Sound(any) => Sound(any)' BY <2>5
    <3>3. CASE session'[v] = session[v]
      BY <3>1, <3>2, <3>3 DEF Sound
    <3>4. CASE \E any \in Work : Sound(any)' /\ session'[v] = any
      BY <3>4 DEF Sound
    <3> QED BY <2>3, <2>7, <3>3, <3>4
  <2> QED
    BY <2>2, <2>8, <2>9
    DEF IInv, TypeOK, DirectoryTypeOK, TablesOK, SessionsAreSound, Sound
<1> QED BY <1>1, <1>2 DEF Next

\* Whatever requests race, the directory and every session are consistent.
THEOREM Invariance == Spec => []IInv
<1>1. Init => IInv BY InitHolds
<1>2. IInv /\ [Next]_vars => IInv' BY StepKeepsIInv
<1> QED BY <1>1, <1>2, PTL DEF Spec

\* Tables and sessions hold rows of the declared shape.
THEOREM TypeCorrect == Spec => []TypeOK
<1>1. IInv => TypeOK BY DEF IInv
<1> QED BY <1>1, Invariance, PTL

\* No number twice in a hotel, for any number of administrators at a time.
THEOREM NumbersAreUnique == Spec => []RoomNumbersUnique
<1>1. IInv => RoomNumbersUnique BY DEF IInv, Places
<1> QED BY <1>1, Invariance, PTL

\* No room without its hotel and type, whatever is deleted while it is made or moved.
THEOREM RoomsKeepTheirParents == Spec => []RoomsHaveParents
<1>1. IInv => RoomsHaveParents BY DEF IInv, Places
<1> QED BY <1>1, Invariance, PTL

\* What is booked outlives every deletion.
THEOREM HistoryIsKept == Spec => []HistoryKept
<1>1. IInv => HistoryKept BY DEF IInv, History
<1> QED BY <1>1, Invariance, PTL

\* A booking never changes hands, whatever happens to profiles.
THEOREM OwnersKeepBookings == Spec => []BookingsKeepTheirOwner
<1>1. IInv => BookingsKeepTheirOwner BY DEF IInv, History
<1> QED BY <1>1, Invariance, PTL

\* One profile per user, however many requests make it at once.
THEOREM ProfilesAreUnique == Spec => []OneProfilePerUser
<1>1. IInv => OneProfilePerUser BY DEF IInv, People
<1> QED BY <1>1, Invariance, PTL

\* The controllers implement the registry of atomic changes.
THEOREM Refinement == Spec => ImplementsRegistry
<1>1. Init => NothingYet BY InitHolds
<1>2. IInv /\ [Next]_vars => [Change]_tables
  BY StepChanges DEF Next, vars
<1> QED BY <1>1, <1>2, Invariance, PTL DEF Spec, ImplementsRegistry, RegistrySpec

--------------------------------------------------------------------------------
(****************************************************************************)
(* Addresses that differ in case: an address that is not stored in lower    *)
(* case is one that create_admin took as typed.                             *)
(****************************************************************************)
AsTypedByScript ==
    /\ \A u \in Rows(user) : user[u].email.form = "mixed" => user[u].role = "admin"
    /\ \A w \in Workers :
          /\ session[w].op = "register" => session[w].new.email.form = "lower"
          /\ session[w].op = "create_admin" => session[w].new.role = "admin"

LEMMA AsTypedStays ==
    ASSUME IInv, IInv', AsTypedByScript, [Next]_vars PROVE AsTypedByScript'
<1> session \in [Workers -> Work] /\ session' \in [Workers -> Work]
  BY DEF IInv, TypeOK, DirectoryTypeOK
<1>1. CASE UNCHANGED vars
  BY <1>1 DEF vars, tables, AsTypedByScript
<1>2. ASSUME NEW w \in Workers, Request(w) \/ Commit(w) \/ Rollback(w) PROVE AsTypedByScript'
  <2>1. CASE Register(w)
    <3>1. PICK address \in Address :
              Prepare(w, [op |-> "register", new |-> Registered(address)])
      BY <2>1 DEF Register
    <3>2. Registered(address).email.form = "lower" BY DEF Registered, Normalized, Address
    <3> QED BY <3>1, <3>2 DEF AsTypedByScript, Prepare, tables
  <2>2. CASE CreateAdmin(w)
    <3>1. PICK address \in Address :
              Prepare(w, [op |-> "create_admin",
                          new |-> [email |-> address, role |-> "admin"]])
      BY <2>2 DEF CreateAdmin
    <3> QED BY <3>1 DEF AsTypedByScript, Prepare, tables
  <2>3. CASE CommitRegister(w) \/ CommitCreateAdmin(w)
    <3>1. PICK u \in Fresh(user) : user' = Put(user, u, session[w].new)
      BY <2>3 DEF CommitRegister, CommitCreateAdmin
    <3>2. session[w].op \in {"register", "create_admin"}
      BY <2>3 DEF CommitRegister, CommitCreateAdmin, Commits
    <3>3. session[w].new \in UserRow BY <3>2, SessionShapes
    <3>4. /\ Rows(user') = Rows(user) \cup {u}
          /\ user'[u] = session[w].new
          /\ \A k \in Rows(user) \ {u} : user'[k] = user[k]
      BY <3>1, <3>3, PutRows, RowsAreNotGone
    <3>5. \A v \in Workers : session'[v].op \in {"register", "create_admin"} =>
                                session'[v] = session[v]
      BY <2>3 DEF CommitRegister, CommitCreateAdmin, Commits, NoWork
    <3> QED BY <3>2, <3>4, <3>5 DEF AsTypedByScript
  <2> DEFINE quiet ==
               /\ user' = user
               /\ \/ session' = session
                  \/ \E work : /\ work.op \notin {"register", "create_admin"}
                               /\ session' = [session EXCEPT ![w] = work]
  <2>4. CASE quiet
    BY <2>4 DEF AsTypedByScript
  <2>5. Request(w) => Register(w) \/ CreateAdmin(w) \/ quiet
    BY DEF Request, CreateHotel, UpdateHotel, DeleteHotel, CreateRoomType, DeleteRoomType,
        CreateRoom, UpdateRoom, DeleteRoom, CreateGuest, GetOwnGuest, UpdateGuest,
        DeleteGuest, CreateReservation, DeleteReservation, Prepare, tables
  <2>6. Commit(w) \/ Rollback(w) => CommitRegister(w) \/ CommitCreateAdmin(w) \/ quiet
    BY DEF Commit, CommitDeleteHotel, CommitCreateRoom, CommitUpdateRoom, CommitProfile,
        CommitReservation, Commits, NoWork, Rollback, tables
  <2> HIDE DEF quiet
  <2> QED BY <1>2, <2>1, <2>2, <2>3, <2>4, <2>5, <2>6
<1> QED BY <1>1, <1>2 DEF Next

\* Registrations and administrators together, however addresses are typed: two
\* accounts share a mailbox only where create_admin stored one in mixed case.
THEOREM MailboxesAreUnique == Spec => []MailboxSharedByFlagOnly
<1>1. Init => AsTypedByScript
  BY DEF Init, DirectoryInit, AsTypedByScript, Rows, Gone, NoWork
<1>2. AsTypedByScript /\ IInv /\ IInv' /\ [Next]_vars => AsTypedByScript'
  BY AsTypedStays
<1>3. IInv /\ AsTypedByScript => MailboxSharedByFlagOnly
  <2> SUFFICES ASSUME IInv, AsTypedByScript, NEW u \in Rows(user), NEW v \in Rows(user),
                      user[u].email.box = user[v].email.box,
                      \A k \in {u, v} : user[k].email.form # "mixed"
               PROVE  u = v
    BY DEF MailboxSharedByFlagOnly, AsTypedByScript
  <2>1. TablesOK BY DEF IInv, TypeOK, DirectoryTypeOK, TablesOK
  <2>2. user[u].email \in Address /\ user[v].email \in Address
    BY <2>1, RowShapes DEF UserRow
  <2>3. user[u].email = user[v].email BY <2>2 DEF Address, Forms
  <2> QED BY <2>3 DEF IInv, People, EmailsUnique
<1> QED BY <1>1, <1>2, <1>3, Invariance, PTL DEF Spec

================================================================================
