-------------------------------- MODULE Documents -------------------------------
(****************************************************************************)
(* All requests that touch MongoDB documents, from several threads.         *)
(****************************************************************************)
EXTENDS Reviews, Notices

Request(w) ==
    \/ CreateReview(w)
    \/ UpdateReview(w)
    \/ FindOwned(w)
    \/ CreateNotification(w)
    \/ CreateEntry(w)
    \/ CreateLogEntry(w)
    \/ Login(w)
    \/ CreateReservation(w)
    \/ CommitStay(w)
    \/ DeleteReservation(w)

Continue(w) ==
    \/ InsertReview(w)
    \/ WriteReview(w)
    \/ MarkRead(w)
    \/ Reread(w)
    \/ Remove(w)
    \/ Refresh(w)
    \/ Notify(w)
    \/ LogActivity(w)

\* The error handlers answer 500; or the process dies, and what the request had
\* left to do is never done.
Abandon(w) ==
    /\ ~Idle(w)
    /\ Answer(w)
    /\ UNCHANGED <<reservation, doc>>

Next == \E w \in Workers : Request(w) \/ Continue(w) \/ Abandon(w)

Init == StoreInit

Spec == Init /\ [][Next]_vars

--------------------------------------------------------------------------------

\* Collections, reservations and requests in flight have the declared shape.
TypeOK == StoreTypeOK

\* _notify, _notify_stay, log_activity: a notification or log entry of the backend
\* tells of something that was committed, and tells it to the reservation's guest -
\* also when the reservation was moved on meanwhile.
Tells(row, action) ==
    \/ reservation[row.reservation] = Deleted
    \/ /\ row.reservation \in Rows(reservation)
       /\ action = "check_in" => reservation[row.reservation].checked_in_at
       /\ action = "check_out" => /\ reservation[row.reservation].checked_in_at
                                  /\ reservation[row.reservation].checked_out_at
       /\ action # "create_reservation" => row.user = reservation[row.reservation].user

RecordsAreTrue ==
    /\ \A d \in In("notifications") : doc[d].reservation # None => Tells(doc[d], doc[d].type)
    /\ \A d \in In("activity_logs") : doc[d].reservation # None => Tells(doc[d], doc[d].action)

\* README: "A MongoDB outage never breaks primary PostgreSQL flows": what was
\* committed is answered with an error only if the reservation is gone.
CommitsSucceed ==
    \A w \in Workers : session[w].op \in StayOps /\ session[w].phase = "failed" =>
        reservation[session[w].reservation] = Deleted

\* create_review: a review is by the guest whose reservation it is about, whatever
\* is booked and deleted while it is written.
ReviewsAreOfOwnStays ==
    \A d \in In("reviews") :
        /\ reservation[doc[d].reservation] # Unused
        /\ doc[d].reservation \in Rows(reservation) =>
              doc[d].user = reservation[doc[d].reservation].user

\* _check_owner: a document changes or goes only in a request of its owner or of an
\* administrator, though the check and the write are calls of their own.
OwnersOnly ==
    [][\A d \in Rows(doc) : doc'[d] # doc[d] =>
        \E w \in Workers : /\ session'[w] # session[w]
                           /\ session[w].user \in Admins \cup {doc[d].user}]_vars

\* What was deleted stays deleted, under whatever update found it before; nobody's
\* document becomes another's; and the activity log is append-only.
DocumentsKeepTheirPast ==
    [][\A d \in Documents :
        /\ doc[d] = Deleted => doc'[d] = Deleted
        /\ d \in Rows(doc) /\ doc'[d] # Deleted =>
              doc'[d].col = doc[d].col /\ doc'[d].user = doc[d].user
        /\ d \in In("activity_logs") => doc'[d] = doc[d]]_vars

\* list_notifications, list_entries: a user is shown exactly what _check_owner lets
\* him read one by one.
ListsMatchReads ==
    \A u \in Users :
        /\ ListNotifications(u, FALSE) = {d \in In("notifications") : Owns(u, doc[d])}
        /\ ListEntries(u, None) = {d \in In("search_history") : Owns(u, doc[d])}

--------------------------------------------------------------------------------
(****************************************************************************)
(* What the documentation says and the code does not do.                    *)
(****************************************************************************)

\* review_controller.py: "one review per stay".
OneReviewPerStay ==
    \A d, e \in In("reviews") : doc[d].reservation = doc[e].reservation => d = e

\* models/mongo/review.py: "rating": int, 1..5
RatingsInRange == \A d \in In("reviews") : doc[d].rating \in 1 .. 5

\* routes/notification_routes.py: marking a notification answers with it.
UpdatesAnswer ==
    \A w \in Workers : session[w].op \in {"mark_read", "update_review"} =>
        session[w].phase # "failed"

================================================================================
