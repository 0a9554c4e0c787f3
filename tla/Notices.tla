--------------------------------- MODULE Notices --------------------------------
(****************************************************************************)
(* Notifications, activity log and search history                           *)
(* (notification_controller.py, activity_log_controller.py,                 *)
(* search_history_controller.py), and the records that reservation and      *)
(* payment requests leave in them after their commit.                       *)
(*                                                                          *)
(* Such a request has three things to do after the commit: read back what   *)
(* it committed, notify the guest, log.  The last two are best effort; the  *)
(* first is not: a reservation deleted meanwhile fails the request.         *)
(****************************************************************************)
EXTENDS DocumentStore

(****************************************************************************)
(* Requests on reservations and payments, seen from here.  Which of them    *)
(* the reservation's status allows is StayEase's business: here any may     *)
(* commit.                                                                  *)
(****************************************************************************)

\* A guest books for himself, an administrator for anybody; the log names the
\* caller.
CreateReservation(w) ==
    /\ Calls(w, "create_reservation")
    /\ \E r \in Fresh(reservation), u, guest \in Users :
        /\ u \in Admins \/ guest = u
        /\ reservation' = [reservation EXCEPT ![r] =
                [user |-> guest, checked_in_at |-> FALSE, checked_out_at |-> FALSE]]
        /\ Become(w, [op |-> "create_reservation", phase |-> "refresh", user |-> u,
                      reservation |-> r])
    /\ UNCHANGED doc

\* Mutant of Stamped: a check-out clears the stamp of the check-in.
Restamped(row, op) ==
    CASE op = "check_in" -> [row EXCEPT !.checked_in_at = TRUE]
      [] op = "check_out" -> [row EXCEPT !.checked_in_at = FALSE, !.checked_out_at = TRUE]
      [] OTHER -> row

\* What the commit of a request writes into the reservation.
Stamped(row, op) ==
    CASE op = "check_in" -> [row EXCEPT !.checked_in_at = TRUE]
      [] op = "check_out" -> [row EXCEPT !.checked_out_at = TRUE]
      [] OTHER -> row

\* The other requests; the records they leave name the reservation's guest.
CommitStay(w) ==
    /\ \E op \in StayOps \ {"create_reservation"}, r \in Rows(reservation) :
        /\ Calls(w, op)
        /\ op = "check_out" => reservation[r].checked_in_at
        /\ reservation' = [reservation EXCEPT ![r] = Stamped(@, op)]
        /\ Become(w, [op |-> op, phase |-> "refresh", user |-> reservation[r].user,
                      reservation |-> r])
    /\ UNCHANGED doc

DeleteReservation(w) ==
    /\ Calls(w, "delete_reservation")
    /\ \E r \in Rows(reservation) : reservation' = [reservation EXCEPT ![r] = Deleted]
    /\ UNCHANGED <<doc, session>>

\* Bookings and cancellations are logged only.
NextRecord(op) ==
    IF op \in {"create_reservation", "cancel_reservation"} THEN "log" ELSE "notify"

\* db.refresh, reservation.guest: an error when the row is gone.
Refresh(w) ==
    /\ session[w].phase = "refresh"
    /\ Advance(w, IF session[w].reservation \in Rows(reservation)
                  THEN NextRecord(session[w].op) ELSE "failed")
    /\ UNCHANGED <<reservation, doc>>

\* Mutant of Notice: a new notification has no is_read.
UnflaggedNotice(s) ==
    [col |-> "notifications", user |-> s.user, type |-> s.op, reservation |-> s.reservation]

Notice(s) ==
    [col |-> "notifications", user |-> s.user, type |-> s.op,
     reservation |-> s.reservation, is_read |-> FALSE]

\* _notify, _notify_stay
Notify(w) ==
    /\ session[w].phase = "notify"
    /\ InsertOne(Notice(session[w])) \/ NoEffect
    /\ Advance(w, "log")
    /\ UNCHANGED reservation

LogEntry(user, action, r) ==
    [col |-> "activity_logs", user |-> user, action |-> action, reservation |-> r]

\* Mutant of LogActivity: an error of the driver reaches the caller.
LogOrFail(w) ==
    /\ session[w].phase = "log"
    /\ \/ /\ InsertOne(LogEntry(session[w].user, session[w].op, session[w].reservation))
          /\ Answer(w)
       \/ NoEffect /\ Advance(w, "failed")
    /\ UNCHANGED reservation

\* log_activity
LogActivity(w) ==
    /\ session[w].phase = "log"
    /\ \/ InsertOne(LogEntry(session[w].user, session[w].op, session[w].reservation))
       \/ NoEffect
    /\ Answer(w)
    /\ UNCHANGED reservation

\* authenticate_user logs both outcomes.
Login(w) ==
    /\ Calls(w, "login")
    /\ \E u \in Users \cup {None} : InsertOne(LogEntry(u, "login", None))
    /\ UNCHANGED <<reservation, session>>

(****************************************************************************)
(* Requests on the documents themselves.                                    *)
(****************************************************************************)

\* For oneself; administrators for any user.
CreateNotification(w) ==
    /\ Calls(w, "create_notification")
    /\ \E u, owner \in Users :
        /\ u \in Admins \/ owner = u
        /\ InsertOne([col |-> "notifications", user |-> owner, type |-> "system",
                      reservation |-> None, is_read |-> FALSE])
    /\ UNCHANGED <<reservation, session>>

CreateEntry(w) ==
    /\ Calls(w, "create_entry")
    /\ \E u \in Users : InsertOne([col |-> "search_history", user |-> u])
    /\ UNCHANGED <<reservation, session>>

\* For administrators, who may name any user.
CreateLogEntry(w) ==
    /\ Calls(w, "create_log_entry")
    /\ Admins # {}
    /\ \E u \in Users \cup {None} : InsertOne(LogEntry(u, "manual", None))
    /\ UNCHANGED <<reservation, session>>

\* find_one and _check_owner before a delete, or before mark_read.
FindOwned(w) ==
    /\ \E op \in OwnedOps \cup {"delete_review"} :
        /\ Calls(w, op)
        /\ \E u \in Users, d \in In(CollectionOf(op)) :
            /\ Owns(u, doc[d])
            /\ Become(w, [op |-> op, phase |-> "write", user |-> u, id |-> d, rating |-> None])
    /\ UNCHANGED <<reservation, doc>>

MarkRead(w) ==
    LET s == session[w]
    IN  /\ s.op = "mark_read" /\ s.phase = "write"
        /\ \/ UpdateOne(s.id, [doc[s.id] EXCEPT !.is_read = TRUE]) /\ Advance(w, "reread")
           \/ UpdateOne(s.id, [doc[s.id] EXCEPT !.is_read = TRUE]) /\ Answer(w)
           \/ NoEffect /\ Answer(w)
        /\ UNCHANGED reservation

\* The second find_one of mark_read and update_review: nothing to serialize when
\* the document is gone.
Reread(w) ==
    /\ session[w].phase = "reread"
    /\ IF session[w].id \in Rows(doc) THEN Answer(w) ELSE Advance(w, "failed")
    /\ UNCHANGED <<reservation, doc>>

\* delete_review, delete_notification, delete_entry
Remove(w) ==
    /\ session[w].phase = "write"
    /\ session[w].op \in {"delete_review", "delete_notification", "delete_entry"}
    /\ DeleteOne(session[w].id) \/ NoEffect
    /\ Answer(w)
    /\ UNCHANGED reservation

(****************************************************************************)
(* What is listed for whom.                                                 *)
(****************************************************************************)
\* Mutant of ListNotifications: the owner's filter is lost.
ListEverything(u, unread_only) ==
    {d \in In("notifications") : unread_only => ~doc[d].is_read}

ListNotifications(u, unread_only) ==
    {d \in In("notifications") : /\ u \in Admins \/ doc[d].user = u
                                 /\ unread_only => ~doc[d].is_read}

\* list_entries: `of` is the user_id parameter; guests may only ask for their own.
ListEntries(u, of) ==
    LET scope == IF u \in Admins THEN of ELSE u
    IN  {d \in In("search_history") : scope # None => doc[d].user = scope}

================================================================================
