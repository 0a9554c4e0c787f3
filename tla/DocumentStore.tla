----------------------------- MODULE DocumentStore -----------------------------
(****************************************************************************)
(* The MongoDB side of StayEase: reviews, notifications, activity log and   *)
(* search history.  There are no transactions and no foreign keys: each     *)
(* driver call is a step of its own, other requests run between the calls   *)
(* of a handler, and a call may fail - before it had its effect or, when    *)
(* the answer is lost, after.                                               *)
(*                                                                          *)
(* Of PostgreSQL only what the documents speak of is kept: whose            *)
(* reservations there are, and the stamps of check-in and check-out, which  *)
(* no later write removes (StayEase!StampsFollowLifecycle).                 *)
(****************************************************************************)
EXTENDS Integers, FiniteSets

CONSTANTS
    Users, Admins,
    Hotels,
    Reservations,       \* ids the reservation sequence can hand out
    Documents,          \* ObjectIds
    Ratings,            \* ratings that clients send
    Workers,            \* request threads
    Ops,                \* what this workload calls
    None, Unused, Deleted

VARIABLES reservation, doc, session

vars == <<reservation, doc, session>>

ReviewOps == {"create_review", "update_review", "delete_review"}
StayOps ==
    {"create_reservation", "cancel_reservation", "check_in", "check_out",
     "create_payment", "process_payment", "refund_payment"}
OwnedOps == {"mark_read", "delete_notification", "delete_entry"}
InsertOps == {"create_notification", "create_entry", "create_log_entry", "login"}

ReservationRow == [user : Users, checked_in_at : BOOLEAN, checked_out_at : BOOLEAN]

ReviewDoc ==
    [col : {"reviews"}, user : Users, hotel : Hotels, reservation : Reservations,
     rating : Ratings \cup {None}]

\* `reservation` is the one the text of the message names, None in free text.
NotificationDoc ==
    [col : {"notifications"}, user : Users, type : StayOps \cup {"system"},
     reservation : Reservations \cup {None}, is_read : BOOLEAN]

\* user: None for a failed login.  reservation: None when the entry is about no
\* reservation, or was written by hand.
ActivityDoc ==
    [col : {"activity_logs"}, user : Users \cup {None}, action : StayOps \cup {"login", "manual"},
     reservation : Reservations \cup {None}]

SearchDoc == [col : {"search_history"}, user : Users]

Doc == ReviewDoc \cup NotificationDoc \cup ActivityDoc \cup SearchDoc

Gone == {Unused, Deleted}

ASSUME DocumentAssumption ==
    /\ Ops \subseteq ReviewOps \cup StayOps \cup OwnedOps \cup InsertOps \cup {"delete_reservation"}
    /\ Admins \subseteq Users
    /\ Ratings \subseteq 1 .. 5
    /\ None \notin Users \cup Reservations \cup Ratings
    /\ Unused # Deleted
    /\ Gone \cap (Doc \cup ReservationRow) = {}

Rows(table) == {id \in DOMAIN table : table[id] \notin Gone}
Fresh(table) == {id \in DOMAIN table : table[id] = Unused}

\* The documents of a collection.
In(col) == {d \in Rows(doc) : doc[d].col = col}

\* Mutant of CollectionOf: one controller still names the collection of another.
CollectionAsCopied(op) ==
    CASE op \in ReviewOps -> "reviews"
      [] op \in {"mark_read", "delete_notification"} -> "notifications"
      [] op = "delete_entry" -> "activity_logs"

\* The collection a request is about.
CollectionOf(op) ==
    CASE op \in ReviewOps -> "reviews"
      [] op \in {"mark_read", "delete_notification"} -> "notifications"
      [] op = "delete_entry" -> "search_history"

\* Mutant of Owns: whoever can read may write.
Anybody(user, row) == user \in Users

\* _check_owner of the three controllers.
Owns(user, row) == user \in Admins \/ row.user = user

(****************************************************************************)
(* Requests in flight: what a handler holds between two calls.              *)
(****************************************************************************)
NoWork == [op |-> "none", phase |-> "idle"]

\* A document was found and the caller may touch it; `rating` is what an update of
\* a review sets.
Found == [op : {"update_review", "delete_review"} \cup OwnedOps, phase : {"write", "reread", "failed"},
          user : Users, id : Documents, rating : Ratings \cup {None}]

Composed == [op : {"create_review"}, phase : {"insert"}, row : ReviewDoc]

\* A stay or a payment was committed; `user` is who the record will name.
Committed == [op : StayOps, phase : {"refresh", "notify", "log", "failed"},
              user : Users, reservation : Reservations]

Work == {NoWork} \cup Found \cup Composed \cup Committed

Idle(w) == session[w] = NoWork
Calls(w, op) == op \in Ops /\ Idle(w)

Become(w, work) == session' = [session EXCEPT ![w] = work]
Advance(w, phase) == session' = [session EXCEPT ![w].phase = phase]
Answer(w) == Become(w, NoWork)

(****************************************************************************)
(* Driver calls.                                                            *)
(****************************************************************************)
InsertOne(row) == \E d \in Fresh(doc) : doc' = [doc EXCEPT ![d] = row]

\* No document matches: no effect.
UpdateOne(d, row) == IF d \in Rows(doc) THEN doc' = [doc EXCEPT ![d] = row] ELSE UNCHANGED doc

DeleteOne(d) == IF d \in Rows(doc) THEN doc' = [doc EXCEPT ![d] = Deleted] ELSE UNCHANGED doc

\* The driver reports an error, and the call had no effect.
NoEffect == UNCHANGED doc

StoreInit ==
    /\ reservation = [r \in Reservations |-> Unused]
    /\ doc = [d \in Documents |-> Unused]
    /\ session = [w \in Workers |-> NoWork]

StoreTypeOK ==
    /\ reservation \in [Reservations -> ReservationRow \cup Gone]
    /\ doc \in [Documents -> Doc \cup Gone]
    /\ session \in [Workers -> Work]

================================================================================
