-------------------------------- MODULE Accounts --------------------------------
(****************************************************************************)
(* User accounts and guest profiles (auth_controller.py,                    *)
(* guest_controller.py, scripts/create_admin.py), and what a booking needs  *)
(* of them (get_own_guest and resolve_booking_guest of                      *)
(* reservation_controller.py).  Accounts are never removed.                 *)
(*                                                                          *)
(* Registration commits twice: the account, then its profile.  A crash      *)
(* between leaves an account without a profile, which the first booking     *)
(* makes good - as may, at the same moment, a second one.                   *)
(****************************************************************************)
EXTENDS Directory

\* Mutant of Registered: the address is stored as it was typed.
RegisteredAsTyped(address) == [email |-> address, role |-> "guest"]

\* UserRegister and register_user: lower case, and never an administrator.
Registered(address) == [email |-> Normalized(address), role |-> "guest"]

\* The user looks for an account of that address first.
Register(w) ==
    /\ Calls(w, "register")
    /\ \E address \in Address :
        /\ EmailFree(Registered(address).email)
        /\ Prepare(w, [op |-> "register", new |-> Registered(address)])

\* First commit; the session goes on with the profile.
CommitRegister(w) ==
    /\ session[w].op = "register"
    /\ EmailFree(session[w].new.email)
    /\ \E u \in Fresh(user) :
        /\ user' = Put(user, u, session[w].new)
        /\ session' = [session EXCEPT ![w] = [op |-> "register_profile", user |-> u]]
    /\ UNCHANGED <<hotel, roomType, room, guest, booking>>

\* scripts/create_admin.py: an address given as a flag is taken as typed.
CreateAdmin(w) ==
    /\ Calls(w, "create_admin")
    /\ \E address \in Address :
        /\ address.form \in AdminForms
        /\ EmailFree(address)
        /\ Prepare(w, [op |-> "create_admin", new |-> [email |-> address, role |-> "admin"]])

CommitCreateAdmin(w) ==
    /\ Commits(w, "create_admin")
    /\ EmailFree(session[w].new.email)
    /\ \E u \in Fresh(user) : user' = Put(user, u, session[w].new)
    /\ UNCHANGED <<hotel, roomType, room, guest, booking>>

\* POST /guests: an administrator gives a user a profile.
CreateGuest(w) ==
    /\ Calls(w, "create_guest")
    /\ AdminSignedIn
    /\ \E u \in Rows(user) :
        /\ ProfilesOf(u) = {}
        /\ Prepare(w, [op |-> "create_guest", user |-> u])

\* get_own_guest: a guest who books or lists bookings has a profile made if there
\* is none.  It is committed before anything else: what follows in the handler is
\* a request that finds the profile.
GetOwnGuest(w) ==
    /\ Calls(w, "get_own_guest")
    /\ \E u \in SignedIn :
        /\ user[u].role = "guest"
        /\ ProfilesOf(u) = {}
        /\ Prepare(w, [op |-> "get_own_guest", user |-> u])

\* The INSERT of a profile: the second commit of a registration, create_guest, or
\* get_own_guest.
CommitProfile(w) ==
    /\ \E op \in {"register_profile", "create_guest", "get_own_guest"} : Commits(w, op)
    /\ ProfileFree(session[w].user)
    /\ \E g \in Fresh(guest), phone \in Phones :
        guest' = Put(guest, g, [user |-> session[w].user, phone |-> phone])
    /\ UNCHANGED <<hotel, roomType, room, user, booking>>

\* PUT /guests/{id}: contact data; user_id is not among the fields of the schema.
UpdateGuest(w) ==
    /\ Calls(w, "update_guest")
    /\ AdminSignedIn
    /\ \E g \in Rows(guest), phone \in Phones :
        guest' = [guest EXCEPT ![g].phone = phone]
    /\ UNCHANGED <<hotel, roomType, room, user, booking, session>>

\* Refused with 409 while bookings refer to the profile.
DeleteGuest(w) ==
    /\ Calls(w, "delete_guest")
    /\ AdminSignedIn
    /\ \E g \in Rows(guest) :
        /\ BookingsOfGuest(g) = {}
        /\ guest' = Drop(guest, {g})
    /\ UNCHANGED <<hotel, roomType, room, user, booking, session>>

\* resolve_booking_guest: guests book on their own profile, whatever guest_id they
\* send; administrators on any.
BookingProfiles(u) == IF user[u].role = "admin" THEN Rows(guest) ELSE ProfilesOf(u)

\* create_reservation, as far as it concerns these tables.
CreateReservation(w) ==
    /\ Calls(w, "create_reservation")
    /\ \E u \in SignedIn : \E g \in BookingProfiles(u), m \in Rows(room) :
        Prepare(w, [op |-> "create_reservation",
                    new |-> [guest |-> g, hotel |-> room[m].hotel, room |-> m,
                             owner |-> guest[g].user]])

BookingInsertable(row) ==
    row.guest \in Rows(guest) /\ row.hotel \in Rows(hotel) /\ row.room \in Rows(room)

CommitReservation(w) ==
    /\ Commits(w, "create_reservation")
    /\ BookingInsertable(session[w].new)
    /\ \E b \in Fresh(booking) : booking' = Put(booking, b, session[w].new)
    /\ UNCHANGED <<hotel, roomType, room, user, guest>>

\* delete_reservation: for administrators, and the only way a booking goes.
DeleteReservation(w) ==
    /\ Calls(w, "delete_reservation")
    /\ AdminSignedIn
    /\ \E b \in Rows(booking) : booking' = Drop(booking, {b})
    /\ UNCHANGED <<hotel, roomType, room, user, guest, session>>

================================================================================
