---------------------------- MODULE Documents_proofs ----------------------------
(****************************************************************************)
(* The documents tell the truth and belong to their owners, for any number  *)
(* of requests, users and documents.  A handler looks at a document once    *)
(* and writes later: the argument is that what it looked at - whose the     *)
(* document is, whose the reservation was - does not change, only goes.     *)
(****************************************************************************)
EXTENDS Documents, TLAPS

\* What a document of each collection must say.
ReviewTrue(row) ==
    /\ reservation[row.reservation] # Unused
    /\ row.reservation \in Rows(reservation) => row.user = reservation[row.reservation].user

RowTrue(row) ==
    /\ row.col = "reviews" => ReviewTrue(row)
    /\ row.col = "notifications" /\ row.reservation # None => Tells(row, row.type)
    /\ row.col = "activity_logs" /\ row.reservation # None => Tells(row, row.action)

\* What a request in flight knows, and what stays true of it until it is done.
Knows(s) ==
    /\ s \in Found =>
          /\ doc[s.id] # Unused
          /\ s.id \in Rows(doc) => doc[s.id].col = CollectionOf(s.op) /\ Owns(s.user, doc[s.id])
    /\ s \in Composed => ReviewTrue(s.row)
    /\ s \in Committed =>
          /\ Tells(s, s.op)
          /\ s.phase = "failed" => reservation[s.reservation] = Deleted

IInv ==
    /\ TypeOK
    /\ \A d \in Rows(doc) : RowTrue(doc[d])
    /\ \A w \in Workers : Knows(session[w])

--------------------------------------------------------------------------------
(****************************************************************************)
(* Reservations only move on: stamps and guests stay, ids are not reused.   *)
(****************************************************************************)
Onward ==
    \A r \in Reservations :
        /\ reservation[r] = Deleted => reservation'[r] = Deleted
        /\ r \in Rows(reservation) =>
              \/ reservation'[r] = Deleted
              \/ /\ r \in Rows(reservation)'
                 /\ reservation'[r].user = reservation[r].user
                 /\ reservation[r].checked_in_at => reservation'[r].checked_in_at
                 /\ reservation[r].checked_out_at => reservation'[r].checked_out_at

\* A commit keeps the guest and adds at most a stamp.
LEMMA StampedShape ==
    ASSUME NEW row \in ReservationRow, NEW op
    PROVE  /\ Stamped(row, op) \in ReservationRow
           /\ Stamped(row, op).user = row.user
           /\ row.checked_in_at => Stamped(row, op).checked_in_at
           /\ row.checked_out_at => Stamped(row, op).checked_out_at
           /\ op = "check_in" => Stamped(row, op).checked_in_at
           /\ op = "check_out" => Stamped(row, op).checked_out_at
  BY DEF Stamped, ReservationRow

\* What a step does to the reservations.
LEMMA ReservationsMoveOn ==
    ASSUME TypeOK, NEW w \in Workers, Request(w) \/ Continue(w) \/ Abandon(w)
    PROVE  reservation' \in [Reservations -> ReservationRow \cup Gone] /\ Onward
<1> USE DocumentAssumption
<1> reservation \in [Reservations -> ReservationRow \cup Gone]
  BY DEF TypeOK, StoreTypeOK
<1>1. CASE CreateReservation(w)
  <2>1. PICK r \in Fresh(reservation), guest \in Users :
            reservation' = [reservation EXCEPT ![r] =
                [user |-> guest, checked_in_at |-> FALSE, checked_out_at |-> FALSE]]
    BY <1>1 DEF CreateReservation
  <2>2. [user |-> guest, checked_in_at |-> FALSE, checked_out_at |-> FALSE] \in ReservationRow
    BY DEF ReservationRow
  <2> QED BY <2>1, <2>2 DEF Onward, Rows, Fresh, Gone
<1>2. CASE CommitStay(w)
  <2>1. PICK op \in StayOps, r \in Rows(reservation) :
            reservation' = [reservation EXCEPT ![r] = Stamped(@, op)]
    BY <1>2 DEF CommitStay
  <2>2. r \in Reservations /\ reservation[r] \in ReservationRow BY DEF Rows
  <2>3. Stamped(reservation[r], op) \in ReservationRow BY <2>2, StampedShape
  <2>4. Stamped(reservation[r], op) \notin Gone BY <2>3
  <2>5. \A k \in Reservations :
            reservation'[k] = IF k = r THEN Stamped(reservation[r], op) ELSE reservation[k]
    BY <2>1, <2>2
  <2>6. DOMAIN reservation' = Reservations BY <2>1
  <2>7. reservation' \in [Reservations -> ReservationRow \cup Gone] BY <2>1, <2>2, <2>3
  <2>8. Onward
    <3> SUFFICES ASSUME NEW k \in Reservations
                 PROVE  /\ reservation[k] = Deleted => reservation'[k] = Deleted
                        /\ k \in Rows(reservation) =>
                              /\ k \in Rows(reservation)'
                              /\ reservation'[k].user = reservation[k].user
                              /\ reservation[k].checked_in_at => reservation'[k].checked_in_at
                              /\ reservation[k].checked_out_at => reservation'[k].checked_out_at
      BY DEF Onward
    <3>1. CASE k = r
      BY <3>1, <2>2, <2>4, <2>5, <2>6, StampedShape DEF Rows, Gone
    <3>2. CASE k # r
      BY <3>2, <2>5, <2>6 DEF Rows
    <3> QED BY <3>1, <3>2
  <2> QED BY <2>7, <2>8
<1>3. CASE DeleteReservation(w)
  BY <1>3 DEF DeleteReservation, Onward, Rows, Gone
<1>4. CASE UNCHANGED reservation
  BY <1>4 DEF Onward, Rows
<1> QED
  BY <1>1, <1>2, <1>3, <1>4
  DEF Request, CreateReview, UpdateReview, FindOwned, CreateNotification, CreateEntry,
      CreateLogEntry, Login, Continue, InsertReview, WriteReview, MarkRead, Reread, Remove,
      Refresh, Notify, LogActivity, Abandon

\* What was true of a reservation is still true, or the reservation is deleted.
LEMMA TellsStays ==
    ASSUME TypeOK, Onward, NEW row, row.reservation \in Reservations, NEW action,
           Tells(row, action)
    PROVE  Tells(row, action)'
<1> DEFINE r == row.reservation
<1>1. CASE reservation[r] = Deleted
  BY <1>1 DEF Onward, Tells
<1>2. CASE r \in Rows(reservation)
  BY <1>2 DEF Onward, Tells
<1> QED BY <1>1, <1>2 DEF Tells

\* A review stays its author's while the reservation moves on.
LEMMA ReviewStaysTrue ==
    ASSUME TypeOK, Onward, NEW row, row.reservation \in Reservations, ReviewTrue(row)
    PROVE  ReviewTrue(row)'
<1> DEFINE r == row.reservation
<1> USE DocumentAssumption
<1>1. CASE reservation[r] = Deleted
  BY <1>1 DEF Onward, ReviewTrue, Rows, Gone
<1>2. CASE r \in Rows(reservation)
  BY <1>2 DEF Onward, ReviewTrue, Rows, Gone
<1>3. reservation \in [Reservations -> ReservationRow \cup Gone] BY DEF TypeOK, StoreTypeOK
<1> QED BY <1>1, <1>2, <1>3 DEF ReviewTrue, Rows, Gone


--------------------------------------------------------------------------------
(****************************************************************************)
(* Shapes.                                                                  *)
(****************************************************************************)
Step(w) == Request(w) \/ Continue(w) \/ Abandon(w)

\* The kind of a request in flight, from its endpoint and its phase.
LEMMA WorkKinds ==
    ASSUME NEW s \in Work
    PROVE  /\ s.op \in OwnedOps \cup {"update_review", "delete_review"} => s \in Found
           /\ s.op = "create_review" => s \in Composed
           /\ s.op \in StayOps => s \in Committed
           /\ s.phase \in {"write", "reread"} => s \in Found
           /\ s.phase = "insert" => s \in Composed
           /\ s.phase \in {"refresh", "notify", "log"} => s \in Committed
           /\ s \in Found => s.op \in OwnedOps \cup {"update_review", "delete_review"}
           /\ s \in Composed => s.op = "create_review"
           /\ s \in Committed => s.op \in StayOps
BY DEF Work, Found, Composed, Committed, NoWork, OwnedOps, StayOps

\* The kind of a document, from its collection.
LEMMA DocKinds ==
    ASSUME NEW row \in Doc
    PROVE  /\ row.col = "reviews" => row \in ReviewDoc
           /\ row.col = "notifications" => row \in NotificationDoc
           /\ row.col = "activity_logs" => row \in ActivityDoc
           /\ row.col = "search_history" => row \in SearchDoc
           /\ row.col \in {"reviews", "notifications", "activity_logs", "search_history"}
           /\ row \notin Gone
BY DocumentAssumption DEF Doc, ReviewDoc, NotificationDoc, ActivityDoc, SearchDoc

\* The rows of the four collections, made by the operators of the controllers.
LEMMA Written ==
    ASSUME NEW s \in Committed
    PROVE  /\ Notice(s) \in NotificationDoc
           /\ \A user \in Users \cup {None}, action \in StayOps \cup {"login", "manual"},
                 r \in Reservations \cup {None} : LogEntry(user, action, r) \in ActivityDoc
BY DEF Committed, Notice, LogEntry, NotificationDoc, ActivityDoc

--------------------------------------------------------------------------------
(****************************************************************************)
(* What a step does to the documents.                                       *)
(****************************************************************************)
Enters ==
    \E d \in Fresh(doc), row \in Doc :
        /\ doc' = [doc EXCEPT ![d] = row]
        /\ RowTrue(row)

\* A request that owns the document rewrites a field nothing else depends on.
Revised(old, new) ==
    /\ new \in Doc /\ new.col = old.col /\ new.user = old.user
    /\ old.col \in {"reviews", "notifications"}
    /\ old.col = "reviews" => new.reservation = old.reservation
    /\ old.col = "notifications" => new.reservation = old.reservation /\ new.type = old.type

Revises(w) ==
    \E d \in Rows(doc), row \in Doc :
        /\ doc' = [doc EXCEPT ![d] = row]
        /\ Revised(doc[d], row)
        /\ session[w].user \in Admins \cup {doc[d].user}

Removes(w) ==
    \E d \in Rows(doc) :
        /\ doc' = [doc EXCEPT ![d] = Deleted]
        /\ doc[d].col # "activity_logs"
        /\ session[w].user \in Admins \cup {doc[d].user}

DocStep(w) ==
    \/ doc' = doc
    \/ reservation' = reservation /\ Enters
    \/ /\ reservation' = reservation
       /\ session'[w] # session[w]
       /\ Revises(w) \/ Removes(w)

\* The document a request found is the caller's, if it is still there.
LEMMA FoundIsOwned ==
    ASSUME IInv, NEW w \in Workers, session[w] \in Found, session[w].id \in Rows(doc)
    PROVE  /\ doc[session[w].id] \in Doc
           /\ doc[session[w].id].col = CollectionOf(session[w].op)
           /\ session[w].user \in Admins \cup {doc[session[w].id].user}
BY DEF IInv, Knows, Owns, Rows, TypeOK, StoreTypeOK

\* update_review and mark_read change a document of the caller, or none.
LEMMA WritesRevise ==
    ASSUME IInv, NEW w \in Workers, WriteReview(w) \/ MarkRead(w)
    PROVE  DocStep(w)
<1> DEFINE s == session[w]
           d == session[w].id
<1>1. s \in Found /\ s.phase = "write" /\ s.op \in {"update_review", "mark_read"}
  BY WorkKinds DEF IInv, TypeOK, StoreTypeOK, WriteReview, MarkRead
<1>2. reservation' = reservation BY DEF WriteReview, MarkRead
<1>3. session'[w] # session[w]
  BY <1>1 DEF WriteReview, MarkRead, Advance, Answer, Become, NoWork, IInv, TypeOK, StoreTypeOK,
              Found
<1>4. CASE d \in Rows(doc) /\ s.op = "update_review"
  <2>1. doc[d] \in ReviewDoc
    BY <1>1, <1>4, FoundIsOwned, DocKinds DEF CollectionOf, ReviewOps
  <2>2. s.rating \in Ratings \cup {None} BY <1>1 DEF Found
  <2> DEFINE row == [doc[d] EXCEPT !.rating = s.rating]
  <2>3. row \in ReviewDoc /\ row.col = "reviews" /\ row.user = doc[d].user
        /\ row.reservation = doc[d].reservation /\ doc[d].col = "reviews"
    BY <2>1, <2>2 DEF ReviewDoc
  <2>4. doc' = doc \/ doc' = [doc EXCEPT ![d] = row]
    BY <1>4 DEF WriteReview, MarkRead, UpdateOne, NoEffect
  <2>5. row \in Doc /\ Revised(doc[d], row)
    BY <2>3 DEF Revised, Doc
  <2>6. session[w].user \in Admins \cup {doc[d].user}
    BY <1>1, <1>4, FoundIsOwned
  <2> HIDE DEF row
  <2>7. doc' = [doc EXCEPT ![d] = row] => Revises(w)
    BY <1>4, <2>5, <2>6 DEF Revises
  <2> QED BY <1>2, <1>3, <2>4, <2>7 DEF DocStep
<1>5. CASE d \in Rows(doc) /\ s.op = "mark_read"
  <2>1. doc[d] \in NotificationDoc
    BY <1>1, <1>5, FoundIsOwned, DocKinds DEF CollectionOf, ReviewOps
  <2> DEFINE row == [doc[d] EXCEPT !.is_read = TRUE]
  <2>3. row \in NotificationDoc /\ row.col = "notifications" /\ row.user = doc[d].user
        /\ row.reservation = doc[d].reservation /\ row.type = doc[d].type
        /\ doc[d].col = "notifications"
    BY <2>1 DEF NotificationDoc
  <2>4. doc' = doc \/ doc' = [doc EXCEPT ![d] = row]
    BY <1>5 DEF WriteReview, MarkRead, UpdateOne, NoEffect
  <2>5. row \in Doc /\ Revised(doc[d], row)
    BY <2>3 DEF Revised, Doc
  <2>6. session[w].user \in Admins \cup {doc[d].user}
    BY <1>1, <1>5, FoundIsOwned
  <2> HIDE DEF row
  <2>7. doc' = [doc EXCEPT ![d] = row] => Revises(w)
    BY <1>5, <2>5, <2>6 DEF Revises
  <2> QED BY <1>2, <1>3, <2>4, <2>7 DEF DocStep
<1>6. CASE d \notin Rows(doc)
  BY <1>6 DEF WriteReview, MarkRead, UpdateOne, NoEffect, DocStep
<1> QED BY <1>1, <1>4, <1>5, <1>6

\* A delete takes a document of the caller, or none, and no log entry.
LEMMA RemoveRemoves ==
    ASSUME IInv, NEW w \in Workers, Remove(w) PROVE DocStep(w)
<1> DEFINE s == session[w]
<1>1. s \in Found /\ s.op \in {"delete_review", "delete_notification", "delete_entry"}
  BY WorkKinds DEF IInv, TypeOK, StoreTypeOK, Remove
<1>2. reservation' = reservation /\ session'[w] # session[w]
  BY <1>1 DEF Remove, Answer, Become, NoWork, Found, IInv, TypeOK, StoreTypeOK
<1>3. CASE s.id \in Rows(doc)
  <2>1. doc[s.id].col # "activity_logs"
    BY <1>1, <1>3, FoundIsOwned DEF CollectionOf, ReviewOps
  <2>2. doc' = [doc EXCEPT ![s.id] = Deleted] => Removes(w)
    BY <1>1, <1>3, <2>1, FoundIsOwned DEF Removes
  <2> QED BY <1>2, <1>3, <2>2 DEF Remove, DeleteOne, NoEffect, DocStep
<1>4. CASE s.id \notin Rows(doc)
  BY <1>4 DEF Remove, DeleteOne, NoEffect, DocStep
<1> QED BY <1>3, <1>4

\* The records of the backend repeat what the request knows.
LEMMA RecordsEnter ==
    ASSUME IInv, NEW w \in Workers, Notify(w) \/ LogActivity(w) PROVE DocStep(w)
<1> DEFINE s == session[w]
<1>1. s \in Committed
  BY WorkKinds DEF IInv, TypeOK, StoreTypeOK, Notify, LogActivity
<1>2. Tells(s, s.op) /\ s.op \in StayOps /\ s.reservation \in Reservations /\ s.user \in Users
  BY <1>1 DEF IInv, Knows, Committed
<1>3. CASE Notify(w)
  <2>1. Notice(s) \in Doc
    BY <1>1, Written DEF Doc
  <2>2. RowTrue(Notice(s))
    BY <1>2 DEF RowTrue, Notice, Tells
  <2> QED BY <1>3, <2>1, <2>2 DEF Notify, InsertOne, NoEffect, DocStep, Enters
<1>4. CASE LogActivity(w)
  <2> DEFINE row == LogEntry(s.user, s.op, s.reservation)
  <2>1. row \in Doc
    BY <1>1, <1>2, Written DEF Doc
  <2>2. RowTrue(row)
    BY <1>2 DEF RowTrue, LogEntry, Tells
  <2> HIDE DEF row
  <2>3. doc' = doc \/ \E d \in Fresh(doc) : doc' = [doc EXCEPT ![d] = row]
    BY <1>4 DEF LogActivity, InsertOne, NoEffect, row
  <2>4. reservation' = reservation BY <1>4 DEF LogActivity
  <2> QED BY <2>1, <2>2, <2>3, <2>4 DEF DocStep, Enters
<1> QED BY <1>3, <1>4

\* What clients write themselves speaks of no reservation; a review, of their own.
LEMMA ClientsEnter ==
    ASSUME IInv, NEW w \in Workers,
           InsertReview(w) \/ CreateNotification(w) \/ CreateEntry(w) \/ CreateLogEntry(w)
             \/ Login(w)
    PROVE  DocStep(w)
<1> USE DocumentAssumption
<1>1. CASE InsertReview(w)
  <2>1. session[w] \in Composed
    BY <1>1, WorkKinds DEF IInv, TypeOK, StoreTypeOK, InsertReview
  <2>2. session[w].row \in ReviewDoc /\ ReviewTrue(session[w].row)
    BY <2>1 DEF IInv, Knows, Composed
  <2>3. session[w].row \in Doc /\ RowTrue(session[w].row)
    BY <2>2 DEF Doc, RowTrue, ReviewDoc
  <2> QED BY <1>1, <2>3 DEF InsertReview, InsertOne, NoEffect, DocStep, Enters
<1>2. CASE CreateNotification(w)
  <2>1. PICK owner \in Users :
            InsertOne([col |-> "notifications", user |-> owner, type |-> "system",
                       reservation |-> None, is_read |-> FALSE])
    BY <1>2 DEF CreateNotification
  <2> DEFINE row == [col |-> "notifications", user |-> owner, type |-> "system",
                     reservation |-> None, is_read |-> FALSE]
  <2>2. row \in Doc BY DEF Doc, NotificationDoc
  <2>3. RowTrue(row) BY DEF RowTrue
  <2> QED BY <1>2, <2>1, <2>2, <2>3 DEF CreateNotification, InsertOne, DocStep, Enters
<1>3. CASE CreateEntry(w)
  <2>1. PICK u \in Users : InsertOne([col |-> "search_history", user |-> u])
    BY <1>3 DEF CreateEntry
  <2> DEFINE row == [col |-> "search_history", user |-> u]
  <2>2. row \in Doc BY DEF Doc, SearchDoc
  <2>3. RowTrue(row) BY DEF RowTrue
  <2> QED BY <1>3, <2>1, <2>2, <2>3 DEF CreateEntry, InsertOne, DocStep, Enters
<1>4. CASE CreateLogEntry(w) \/ Login(w)
  <2>1. PICK u \in Users \cup {None}, action \in {"login", "manual"} :
            InsertOne(LogEntry(u, action, None))
    BY <1>4 DEF CreateLogEntry, Login
  <2> DEFINE row == LogEntry(u, action, None)
  <2>2. row \in Doc BY DEF Doc, ActivityDoc, LogEntry
  <2>3. RowTrue(row) BY DEF RowTrue, LogEntry
  <2>4. reservation' = reservation BY <1>4 DEF CreateLogEntry, Login
  <2> HIDE DEF row
  <2>5. \E d \in Fresh(doc) : doc' = [doc EXCEPT ![d] = row] BY <2>1 DEF InsertOne, row
  <2> QED BY <2>2, <2>3, <2>4, <2>5 DEF DocStep, Enters
<1> QED BY <1>1, <1>2, <1>3, <1>4

\* Every step leaves the documents alone, adds a true one, or is the owner's.
LEMMA DocumentsStep ==
    ASSUME IInv, NEW w \in Workers, Step(w) PROVE DocStep(w)
<1>1. CASE UNCHANGED doc BY <1>1 DEF DocStep
<1> QED
  BY <1>1, WritesRevise, RemoveRemoves, RecordsEnter, ClientsEnter
  DEF Step, Request, CreateReview, UpdateReview, FindOwned, CreateReservation, CommitStay,
      DeleteReservation, Continue, Reread, Refresh, Abandon

--------------------------------------------------------------------------------
(****************************************************************************)
(* What was looked at does not change.                                      *)
(****************************************************************************)

\* A document keeps its collection and its owner until it goes for good.
LEMMA DocumentsMoveOn ==
    ASSUME TypeOK, NEW w, DocStep(w)
    PROVE  /\ doc' \in [Documents -> Doc \cup Gone]
           /\ \A d \in Documents :
                 /\ doc[d] = Deleted => doc'[d] = Deleted
                 /\ d \in Rows(doc) =>
                       \/ doc'[d] = Deleted
                       \/ /\ d \in Rows(doc)'
                          /\ doc'[d].col = doc[d].col
                          /\ doc'[d].user = doc[d].user
<1> USE DocumentAssumption
<1>0. doc \in [Documents -> Doc \cup Gone] BY DEF TypeOK, StoreTypeOK
<1>1. CASE doc' = doc BY <1>0, <1>1 DEF Rows
<1>2. CASE Enters
  <2>1. PICK d \in Fresh(doc), row \in Doc : doc' = [doc EXCEPT ![d] = row]
    BY <1>2 DEF Enters
  <2> QED BY <1>0, <2>1 DEF Rows, Fresh, Gone
<1>3. CASE Revises(w)
  <2>1. PICK d \in Rows(doc), row \in Doc :
            doc' = [doc EXCEPT ![d] = row] /\ Revised(doc[d], row)
    BY <1>3 DEF Revises
  <2>2. row \notin Gone BY DocKinds
  <2> QED BY <1>0, <2>1, <2>2 DEF Rows, Revised, Gone
<1>4. CASE Removes(w)
  <2>1. PICK d \in Rows(doc) : doc' = [doc EXCEPT ![d] = Deleted]
    BY <1>4 DEF Removes
  <2> QED BY <1>0, <2>1 DEF Rows, Gone
<1> QED BY <1>1, <1>2, <1>3, <1>4 DEF DocStep

\* What a request knows stays true whatever step another request takes.
LEMMA KnowsStays ==
    ASSUME IInv, NEW w \in Workers, Step(w), NEW s \in Work, Knows(s)
    PROVE  Knows(s)'
<1> USE DocumentAssumption
<1>1. TypeOK /\ Onward /\ DocStep(w)
  BY ReservationsMoveOn, DocumentsStep DEF IInv, Step
<1>2. ASSUME s \in Found
      PROVE  /\ doc'[s.id] # Unused
             /\ s.id \in Rows(doc)' => doc'[s.id].col = CollectionOf(s.op)
             /\ s.id \in Rows(doc)' => s.user \in Admins \/ doc'[s.id].user = s.user
  <2>1. s.id \in Documents BY <1>2 DEF Found
  <2>2. doc \in [Documents -> Doc \cup Gone] BY <1>1 DEF TypeOK, StoreTypeOK
  <2>3. /\ doc[s.id] # Unused
        /\ s.id \in Rows(doc) => doc[s.id].col = CollectionOf(s.op)
        /\ s.id \in Rows(doc) => s.user \in Admins \/ doc[s.id].user = s.user
    BY <1>2 DEF Knows, Owns
  <2>4. CASE doc[s.id] = Deleted
    <3>1. doc'[s.id] = Deleted BY <1>1, <2>1, <2>4, DocumentsMoveOn
    <3> QED BY <3>1 DEF Rows, Gone
  <2>5. CASE s.id \in Rows(doc)
    <3>1. \/ doc'[s.id] = Deleted
          \/ /\ s.id \in Rows(doc)'
             /\ doc'[s.id].col = doc[s.id].col
             /\ doc'[s.id].user = doc[s.id].user
      BY <1>1, <2>1, <2>5, DocumentsMoveOn
    <3> QED BY <3>1, <2>3, <2>5 DEF Rows, Gone
  <2> QED BY <2>1, <2>2, <2>3, <2>4, <2>5 DEF Rows, Gone
<1>3. ASSUME s \in Composed PROVE ReviewTrue(s.row)'
  <2>1. s.row.reservation \in Reservations BY <1>3 DEF Composed, ReviewDoc
  <2>2. ReviewTrue(s.row) BY <1>3 DEF Knows
  <2> QED BY <1>1, <2>1, <2>2, ReviewStaysTrue
<1>4. ASSUME s \in Committed
      PROVE  /\ Tells(s, s.op)'
             /\ s.phase = "failed" => reservation'[s.reservation] = Deleted
  <2>1. s.reservation \in Reservations BY <1>4 DEF Committed
  <2>2. Tells(s, s.op) BY <1>4 DEF Knows
  <2>3. Tells(s, s.op)' BY <1>1, <2>1, <2>2, TellsStays
  <2>4. s.phase = "failed" => reservation[s.reservation] = Deleted BY <1>4 DEF Knows
  <2> QED BY <1>1, <2>1, <2>3, <2>4 DEF Onward
<1> QED BY <1>2, <1>3, <1>4 DEF Knows, Owns, Tells, ReviewTrue, Rows

\* What a document says stays true, and a document that enters tells the truth.
LEMMA RowsStayTrue ==
    ASSUME IInv, NEW w \in Workers, Step(w)
    PROVE  \A d \in Rows(doc)' : RowTrue(doc[d])'
<1> USE DocumentAssumption
<1>1. TypeOK /\ Onward /\ DocStep(w)
  BY ReservationsMoveOn, DocumentsStep DEF IInv, Step
<1>2. doc \in [Documents -> Doc \cup Gone] /\ doc' \in [Documents -> Doc \cup Gone]
  BY <1>1, DocumentsMoveOn DEF TypeOK, StoreTypeOK
<1>3. ASSUME NEW row \in Doc, RowTrue(row) PROVE RowTrue(row)'
  <2>1. row.col = "reviews" => ReviewTrue(row)'
    <3> SUFFICES ASSUME row.col = "reviews" PROVE ReviewTrue(row)' OBVIOUS
    <3>1. row.reservation \in Reservations BY DocKinds DEF ReviewDoc
    <3>2. ReviewTrue(row) BY <1>3 DEF RowTrue
    <3> QED BY <1>1, <3>1, <3>2, ReviewStaysTrue
  <2>2. row.col = "notifications" /\ row.reservation # None => Tells(row, row.type)'
    <3> SUFFICES ASSUME row.col = "notifications", row.reservation # None
                 PROVE  Tells(row, row.type)'
      OBVIOUS
    <3>1. row.reservation \in Reservations BY DocKinds DEF NotificationDoc
    <3>2. Tells(row, row.type) BY <1>3 DEF RowTrue
    <3> QED BY <1>1, <3>1, <3>2, TellsStays
  <2>3. row.col = "activity_logs" /\ row.reservation # None => Tells(row, row.action)'
    <3> SUFFICES ASSUME row.col = "activity_logs", row.reservation # None
                 PROVE  Tells(row, row.action)'
      OBVIOUS
    <3>1. row.reservation \in Reservations BY DocKinds DEF ActivityDoc
    <3>2. Tells(row, row.action) BY <1>3 DEF RowTrue
    <3> QED BY <1>1, <3>1, <3>2, TellsStays
  <2> QED BY <2>1, <2>2, <2>3 DEF RowTrue, ReviewTrue, Tells, Rows
<1>4. ASSUME NEW d \in Documents, doc'[d] \notin Gone
      PROVE  \E row \in Doc : row = doc'[d] /\ RowTrue(row)'
  <2>1. CASE doc'[d] = doc[d]
    <3>1. d \in Rows(doc) /\ doc[d] \in Doc BY <1>2, <1>4, <2>1 DEF Rows
    <3>2. \E row \in Doc : row = doc[d] /\ RowTrue(row) BY <3>1 DEF IInv
    <3>3. PICK row \in Doc : row = doc[d] /\ RowTrue(row) BY <3>2
    <3>4. RowTrue(row)' BY <1>3, <3>3
    <3> QED BY <2>1, <3>3, <3>4
  <2>2. CASE Enters
    <3>1. PICK e \in Fresh(doc), row \in Doc : doc' = [doc EXCEPT ![e] = row] /\ RowTrue(row)
      BY <2>2 DEF Enters
    <3>2. CASE d = e
      <4>1. row = doc'[d] BY <1>2, <3>1, <3>2
      <4>2. RowTrue(row)' BY <1>3, <3>1
      <4> QED BY <4>1, <4>2
    <3>3. CASE d # e BY <1>2, <2>1, <3>1, <3>3
    <3> QED BY <3>2, <3>3
  <2>3. CASE Revises(w)
    <3>1. PICK e \in Rows(doc), row \in Doc :
              doc' = [doc EXCEPT ![e] = row] /\ Revised(doc[e], row)
      BY <2>3 DEF Revises
    <3>2. CASE d = e
      <4>1. row = doc'[d] BY <1>2, <3>1, <3>2
      <4>2. RowTrue(doc[e]) BY <3>1 DEF IInv
      <4>3. RowTrue(row)
        BY <3>1, <4>2 DEF RowTrue, Revised, ReviewTrue, Tells
      <4>4. RowTrue(row)' BY <1>3, <4>3
      <4> QED BY <4>1, <4>4
    <3>3. CASE d # e BY <1>2, <2>1, <3>1, <3>3
    <3> QED BY <3>2, <3>3
  <2>4. CASE Removes(w)
    <3>1. PICK e \in Rows(doc) : doc' = [doc EXCEPT ![e] = Deleted] BY <2>4 DEF Removes
    <3> QED BY <1>2, <1>4, <2>1, <3>1 DEF Gone
  <2> QED BY <1>1, <2>1, <2>2, <2>3, <2>4 DEF DocStep
<1>5. ASSUME NEW d \in Rows(doc)' PROVE RowTrue(doc[d])'
  <2>1. d \in Documents /\ doc'[d] \notin Gone BY <1>2, <1>5 DEF Rows
  <2>2. PICK row \in Doc : row = doc'[d] /\ RowTrue(row)' BY <2>1, <1>4
  <2> QED BY <2>2 DEF RowTrue, ReviewTrue, Tells, Rows
<1> QED BY <1>5

--------------------------------------------------------------------------------
(****************************************************************************)
(* What a step does to the requests in flight.                              *)
(****************************************************************************)
Remembers(w) ==
    \E s \in Work : session' = [session EXCEPT ![w] = s] /\ Knows(s)'

\* A worker without a request knows nothing.
LEMMA NothingKnown == Knows(NoWork)'
BY DEF Knows, NoWork, Found, Composed, Committed

\* The call that found a document, or the reservation of a review.
LEMMA LookupsRemember ==
    ASSUME IInv, NEW w \in Workers, CreateReview(w) \/ UpdateReview(w) \/ FindOwned(w)
    PROVE  Remembers(w)
<1> USE DocumentAssumption
<1>1. CASE CreateReview(w)
  <2>1. PICK u \in Users, r \in Reservations, h \in Hotels, rating \in Ratings :
            /\ MayReview(u, r)
            /\ session' = [session EXCEPT ![w] =
                   [op |-> "create_review", phase |-> "insert",
                    row |-> [col |-> "reviews", user |-> u, hotel |-> h,
                             reservation |-> r, rating |-> rating]]]
    BY <1>1 DEF CreateReview, Become
  <2> DEFINE row == [col |-> "reviews", user |-> u, hotel |-> h,
                     reservation |-> r, rating |-> rating]
             s == [op |-> "create_review", phase |-> "insert", row |-> row]
  <2>2. s \in Composed BY <2>1 DEF Composed, ReviewDoc
  <2>3. s \notin Found /\ s \notin Committed BY DEF Found, Committed
  <2>4. reservation' = reservation BY <1>1 DEF CreateReview
  <2>5. ReviewTrue(row)' BY <2>1, <2>4 DEF ReviewTrue, MayReview, Rows, Gone
  <2>6. Knows(s)' BY <2>2, <2>3, <2>5 DEF Knows, ReviewTrue, Rows
  <2> QED BY <2>1, <2>2, <2>6 DEF Remembers, Work
<1>2. CASE UpdateReview(w) \/ FindOwned(w)
  <2>1. PICK op \in OwnedOps \cup {"update_review", "delete_review"}, u \in Users,
             d \in Rows(doc), rating \in Ratings \cup {None} :
            /\ d \in In(CollectionOf(op)) /\ Owns(u, doc[d])
            /\ session' = [session EXCEPT ![w] =
                   [op |-> op, phase |-> "write", user |-> u, id |-> d, rating |-> rating]]
    BY <1>2 DEF UpdateReview, FindOwned, Become, CollectionOf, ReviewOps, In
  <2> DEFINE s == [op |-> op, phase |-> "write", user |-> u, id |-> d, rating |-> rating]
  <2>2. d \in Rows(doc) /\ d \in Documents /\ doc[d].col = CollectionOf(op)
    BY <2>1 DEF In, Rows, IInv, TypeOK, StoreTypeOK
  <2>3. s \in Found BY <2>1, <2>2 DEF Found
  <2>4. s \notin Composed /\ s \notin Committed BY DEF Composed, Committed
  <2>5. doc' = doc BY <1>2 DEF UpdateReview, FindOwned
  <2>6. Knows(s)' BY <2>1, <2>2, <2>3, <2>4, <2>5 DEF Knows, Owns, Rows, Gone
  <2> QED BY <2>1, <2>3, <2>6 DEF Remembers, Work
<1> QED BY <1>1, <1>2

\* The commit a record will tell of.
LEMMA CommitsRemember ==
    ASSUME IInv, NEW w \in Workers, CreateReservation(w) \/ CommitStay(w)
    PROVE  Remembers(w)
<1> USE DocumentAssumption
<1>0. reservation \in [Reservations -> ReservationRow \cup Gone]
  BY DEF IInv, TypeOK, StoreTypeOK
<1>00. \A s \in Committed : s \notin Found /\ s \notin Composed
  BY DEF Found, Composed, Committed, StayOps, OwnedOps
<1>1. CASE CreateReservation(w)
  <2>1. PICK r \in Fresh(reservation), u \in Users, guest \in Users :
            /\ reservation' = [reservation EXCEPT ![r] =
                    [user |-> guest, checked_in_at |-> FALSE, checked_out_at |-> FALSE]]
            /\ session' = [session EXCEPT ![w] =
                    [op |-> "create_reservation", phase |-> "refresh", user |-> u,
                     reservation |-> r]]
    BY <1>1 DEF CreateReservation, Become
  <2> DEFINE s == [op |-> "create_reservation", phase |-> "refresh", user |-> u,
                   reservation |-> r]
  <2>2. r \in Reservations BY <1>0 DEF Fresh
  <2>3. s \in Committed BY <2>2 DEF Committed, StayOps
  <2>4. reservation'[r] \in ReservationRow
    BY <1>0, <2>1, <2>2 DEF ReservationRow
  <2>5. Tells(s, s.op)'
    BY <1>0, <2>1, <2>2, <2>4 DEF Tells, Rows
  <2>6. Knows(s)' BY <1>00, <2>3, <2>5 DEF Knows, Tells, Rows
  <2> QED BY <2>1, <2>3, <2>6 DEF Remembers, Work
<1>2. CASE CommitStay(w)
  <2>1. PICK op \in StayOps \ {"create_reservation"}, r \in Rows(reservation) :
            /\ op = "check_out" => reservation[r].checked_in_at
            /\ reservation' = [reservation EXCEPT ![r] = Stamped(@, op)]
            /\ session' = [session EXCEPT ![w] =
                    [op |-> op, phase |-> "refresh", user |-> reservation[r].user,
                     reservation |-> r]]
    BY <1>2 DEF CommitStay, Become
  <2>2. r \in Reservations /\ reservation[r] \in ReservationRow BY <1>0 DEF Rows
  <2>3. PICK u \in Users : u = reservation[r].user BY <2>2 DEF ReservationRow
  <2> DEFINE s == [op |-> op, phase |-> "refresh", user |-> u, reservation |-> r]
  <2>4. s \in Committed BY <2>2 DEF Committed
  <2>5. reservation'[r] = Stamped(reservation[r], op) BY <1>0, <2>1, <2>2
  <2>6. /\ reservation'[r] \in ReservationRow
        /\ reservation'[r].user = u
        /\ reservation[r].checked_in_at => reservation'[r].checked_in_at
        /\ op = "check_in" => reservation'[r].checked_in_at
        /\ op = "check_out" => reservation'[r].checked_out_at
    BY <2>2, <2>3, <2>5, StampedShape
  <2>7. DOMAIN reservation' = Reservations BY <1>0, <2>1
  <2>8. Tells(s, s.op)'
    BY <2>1, <2>2, <2>6, <2>7 DEF Tells, Rows
  <2>9. Knows(s)' BY <1>00, <2>4, <2>8 DEF Knows, Tells, Rows
  <2> QED BY <2>1, <2>3, <2>4, <2>9 DEF Remembers, Work
<1> QED BY <1>1, <1>2

\* A request that goes on knows what it knew.
LEMMA GoingOnRemembers ==
    ASSUME IInv, NEW w \in Workers, Continue(w)
    PROVE  Remembers(w)
<1> DEFINE s == session[w]
<1>1. s \in Work /\ Knows(s) BY DEF IInv, TypeOK, StoreTypeOK
<1>2. Step(w) BY DEF Step
<1>4. CASE Answer(w)
  BY <1>4, NothingKnown DEF Remembers, Answer, Become, Work
<1>5. ASSUME Advance(w, "reread") \/ Advance(w, "failed"), s \in Found PROVE Remembers(w)
  <2>1. PICK phase \in {"reread", "failed"} : session' = [session EXCEPT ![w].phase = phase]
    BY <1>5 DEF Advance
  <2>2. PICK x \in Work : x = s /\ Knows(x) BY <1>1
  <2>3. Knows(x)' BY <1>2, <2>2, KnowsStays
  <2> DEFINE y == [x EXCEPT !.phase = phase]
  <2>4. /\ y \in Found /\ y \notin Composed /\ y \notin Committed
        /\ y.id = x.id /\ y.user = x.user /\ y.op = x.op /\ x \in Found
    BY <1>5, <2>2 DEF Found, Composed, Committed
  <2>5. Knows(y)' BY <2>3, <2>4 DEF Knows, Owns, Rows
  <2>6. session' = [session EXCEPT ![w] = y] BY <2>1, <2>2
  <2> HIDE DEF y
  <2> QED BY <2>4, <2>5, <2>6 DEF Remembers, Work
<1>6. ASSUME NEW phase \in {"notify", "log", "failed"}, Advance(w, phase), s \in Committed,
             phase = "failed" => reservation'[s.reservation] = Deleted
      PROVE  Remembers(w)
  <2>2. PICK x \in Work : x = s /\ Knows(x) BY <1>1
  <2>3. Knows(x)' BY <1>2, <2>2, KnowsStays
  <2> DEFINE y == [x EXCEPT !.phase = phase]
  <2>4. /\ y \in Committed /\ y \notin Composed /\ y \notin Found
        /\ y.reservation = x.reservation /\ y.user = x.user /\ y.op = x.op /\ x \in Committed
        /\ y.phase = phase
    BY <1>6, <2>2 DEF Found, Composed, Committed
  <2>5. Knows(y)' BY <1>6, <2>2, <2>3, <2>4 DEF Knows, Tells, Rows
  <2>6. session' = [session EXCEPT ![w] = y] BY <1>6, <2>2 DEF Advance
  <2> HIDE DEF y
  <2> QED BY <2>4, <2>5, <2>6 DEF Remembers, Work
<1>7. CASE WriteReview(w) \/ MarkRead(w) \/ Reread(w)
  BY <1>1, <1>4, <1>5, <1>7, WorkKinds DEF WriteReview, MarkRead, Reread
<1>8. CASE Refresh(w)
  <2>1. s \in Committed BY <1>1, <1>8, WorkKinds DEF Refresh
  <2>2. s.reservation \in Reservations /\ Tells(s, s.op) BY <1>1, <2>1 DEF Knows, Committed
  <2>3. reservation' = reservation BY <1>8 DEF Refresh
  <2>4. CASE s.reservation \in Rows(reservation)
    BY <1>6, <1>8, <2>1, <2>4 DEF Refresh, NextRecord
  <2>5. CASE s.reservation \notin Rows(reservation)
    <3>1. reservation[s.reservation] = Deleted BY <2>2, <2>5 DEF Tells
    <3> QED BY <1>6, <1>8, <2>1, <2>3, <2>5, <3>1 DEF Refresh
  <2> QED BY <2>4, <2>5
<1>9. CASE Notify(w)
  BY <1>1, <1>6, <1>9, WorkKinds DEF Notify
<1>10. CASE InsertReview(w) \/ Remove(w) \/ LogActivity(w)
  BY <1>4, <1>10 DEF InsertReview, Remove, LogActivity
<1> QED BY <1>7, <1>8, <1>9, <1>10 DEF Continue

\* Every step leaves every request with what it knows still true.
LEMMA SessionsStep ==
    ASSUME IInv, NEW w \in Workers, Step(w)
    PROVE  /\ session' \in [Workers -> Work]
           /\ \A v \in Workers : Knows(session[v])'
<1>0. session \in [Workers -> Work] BY DEF IInv, TypeOK, StoreTypeOK
<1>1. ASSUME NEW v \in Workers, session'[v] = session[v] PROVE Knows(session[v])'
  <2>1. PICK x \in Work : x = session[v] /\ Knows(x) BY <1>0 DEF IInv
  <2>2. Knows(x)' BY <2>1, KnowsStays
  <2> QED BY <1>1, <2>1, <2>2 DEF Knows, Owns, Tells, ReviewTrue, Rows
<1>2. CASE Remembers(w)
  <2>1. PICK s \in Work : session' = [session EXCEPT ![w] = s] /\ Knows(s)'
    BY <1>2 DEF Remembers
  <2>2. ASSUME NEW v \in Workers PROVE Knows(session[v])'
    <3>1. CASE v = w
      <4>1. session'[v] = s BY <1>0, <2>1, <3>1
      <4> QED BY <2>1, <4>1 DEF Knows, Owns, Tells, ReviewTrue, Rows
    <3>2. CASE v # w BY <1>0, <1>1, <2>1, <3>2
    <3> QED BY <3>1, <3>2
  <2> QED BY <1>0, <2>1, <2>2
<1>3. CASE session' = session
  BY <1>0, <1>1, <1>3
<1>4. CASE Abandon(w)
  <2>1. Remembers(w)
    BY <1>4, NothingKnown DEF Abandon, Remembers, Answer, Become, Work
  <2> QED BY <1>2, <2>1
<1>5. CASE Continue(w) BY <1>2, <1>5, GoingOnRemembers
<1> QED
  BY <1>2, <1>3, <1>4, <1>5, LookupsRemember, CommitsRemember
  DEF Step, Request, CreateNotification, CreateEntry, CreateLogEntry, Login, DeleteReservation

--------------------------------------------------------------------------------
(****************************************************************************)
(* The invariant, and what follows from it.                                 *)
(****************************************************************************)
\* The empty database satisfies the invariant.
LEMMA InitHolds == Init => IInv
<1> SUFFICES ASSUME Init PROVE IInv OBVIOUS
<1>1. TypeOK BY DEF Init, StoreInit, TypeOK, StoreTypeOK, Work, Gone
<1>2. Rows(doc) = {} BY DEF Init, StoreInit, Rows, Gone
<1>3. ASSUME NEW w \in Workers PROVE Knows(session[w])
  <2>1. session[w] = NoWork BY DEF Init, StoreInit
  <2>2. NoWork \notin Found /\ NoWork \notin Composed /\ NoWork \notin Committed
    BY DEF NoWork, Found, Composed, Committed
  <2> QED BY <2>1, <2>2 DEF Knows
<1> QED BY <1>1, <1>2, <1>3 DEF IInv

\* Every step preserves the invariant.
LEMMA StepKeepsIInv == IInv /\ [Next]_vars => IInv'
<1> SUFFICES ASSUME IInv, [Next]_vars PROVE IInv' OBVIOUS
<1>1. CASE UNCHANGED vars
  BY <1>1 DEF vars, IInv, TypeOK, StoreTypeOK, RowTrue, ReviewTrue, Tells, Knows, Owns, Rows
<1>2. CASE Next
  <2>1. PICK w \in Workers : Step(w) BY <1>2 DEF Next, Step
  <2>2. TypeOK /\ DocStep(w) BY <2>1, DocumentsStep DEF IInv
  <2>3. TypeOK'
    <3>1. reservation' \in [Reservations -> ReservationRow \cup Gone]
      BY <2>1, <2>2, ReservationsMoveOn DEF Step
    <3>2. doc' \in [Documents -> Doc \cup Gone] BY <2>2, DocumentsMoveOn
    <3>3. session' \in [Workers -> Work] BY <2>1, SessionsStep
    <3> QED BY <3>1, <3>2, <3>3 DEF TypeOK, StoreTypeOK
  <2>4. (\A d \in Rows(doc) : RowTrue(doc[d]))' BY <2>1, RowsStayTrue
  <2>5. (\A w_1 \in Workers : Knows(session[w_1]))' BY <2>1, SessionsStep
  <2> QED BY <2>3, <2>4, <2>5 DEF IInv
<1> QED BY <1>1, <1>2

\* The invariant of all requests.
THEOREM Invariance == Spec => []IInv
BY InitHolds, StepKeepsIInv, PTL DEF Spec

\* Collections, reservations and requests keep their declared shape.
THEOREM TypeCorrect == Spec => []TypeOK
<1>1. IInv => TypeOK BY DEF IInv
<1> QED BY <1>1, Invariance, PTL

\* A notification or log entry of the backend tells of what was committed, and to
\* the reservation's guest: _notify, _notify_stay and log_activity run after it.
THEOREM RecordsTellTheTruth == Spec => []RecordsAreTrue
<1>1. IInv => RecordsAreTrue
  BY DEF IInv, RecordsAreTrue, RowTrue, In
<1> QED BY <1>1, Invariance, PTL

\* A request whose commit succeeded fails only when its reservation is gone: the
\* refresh is the one call after the commit that is not best effort.
THEOREM CommitsAreAnswered == Spec => []CommitsSucceed
<1>1. IInv => CommitsSucceed
  BY WorkKinds DEF IInv, TypeOK, StoreTypeOK, CommitsSucceed, Knows
<1> QED BY <1>1, Invariance, PTL

\* A review is by the guest whose reservation it is about, although create_review
\* reads the reservation long before it inserts.
THEOREM ReviewsAreOwn == Spec => []ReviewsAreOfOwnStays
<1>1. IInv => ReviewsAreOfOwnStays
  BY DEF IInv, ReviewsAreOfOwnStays, RowTrue, ReviewTrue, In
<1> QED BY <1>1, Invariance, PTL

\* What the three _check_owner promise of every change and removal.
THEOREM OwnersOnlyWrite == Spec => OwnersOnly
<1>1. IInv /\ [Next]_vars =>
        [\A d \in Rows(doc) : doc'[d] # doc[d] =>
            \E w \in Workers : /\ session'[w] # session[w]
                               /\ session[w].user \in Admins \cup {doc[d].user}]_vars
  <2> SUFFICES ASSUME IInv, Next, NEW d \in Rows(doc), doc'[d] # doc[d]
               PROVE  \E w \in Workers : /\ session'[w] # session[w]
                                         /\ session[w].user \in Admins \cup {doc[d].user}
    OBVIOUS
  <2>1. PICK w \in Workers : DocStep(w) BY DocumentsStep DEF Next, Step
  <2>2. ~Enters BY DEF Enters, Fresh, Rows, Gone
  <2>3. session'[w] # session[w] /\ (Revises(w) \/ Removes(w)) BY <2>1, <2>2 DEF DocStep
  <2>4. session[w].user \in Admins \cup {doc[d].user} BY <2>3 DEF Revises, Removes, Rows
  <2> QED BY <2>3, <2>4
<1> QED BY <1>1, Invariance, PTL DEF Spec, OwnersOnly

\* Deleted documents stay deleted, owners and collections stay, and the activity
\* log is append-only, whatever update or delete is late.
THEOREM DocumentsKeepTheirPastAlways == Spec => DocumentsKeepTheirPast
<1>1. IInv /\ [Next]_vars =>
        [\A d \in Documents :
            /\ doc[d] = Deleted => doc'[d] = Deleted
            /\ d \in Rows(doc) /\ doc'[d] # Deleted =>
                  doc'[d].col = doc[d].col /\ doc'[d].user = doc[d].user
            /\ d \in In("activity_logs") => doc'[d] = doc[d]]_vars
  <2> SUFFICES ASSUME IInv, Next, NEW d \in Documents
               PROVE  /\ doc[d] = Deleted => doc'[d] = Deleted
                      /\ d \in Rows(doc) /\ doc'[d] # Deleted =>
                            doc'[d].col = doc[d].col /\ doc'[d].user = doc[d].user
                      /\ d \in In("activity_logs") => doc'[d] = doc[d]
    OBVIOUS
  <2>1. PICK w \in Workers : DocStep(w) BY DocumentsStep DEF Next, Step
  <2>2. TypeOK BY DEF IInv
  <2>3. d \in In("activity_logs") => doc'[d] = doc[d]
    BY <2>1, <2>2 DEF In, DocStep, Enters, Revises, Revised, Removes, Fresh, Rows, Gone,
                      TypeOK, StoreTypeOK
  <2> QED BY <2>1, <2>2, <2>3, DocumentsMoveOn
<1> QED BY <1>1, Invariance, PTL DEF Spec, DocumentsKeepTheirPast

\* list_notifications and list_entries filter by an owner of their own, which for
\* guests replaces the one they ask for; None stands for no owner and is nobody's id.
THEOREM ListsAreReads == Spec => []ListsMatchReads
<1>1. ASSUME NEW u \in Users
      PROVE  /\ ListNotifications(u, FALSE) = {d \in In("notifications") : Owns(u, doc[d])}
             /\ ListEntries(u, None) = {d \in In("search_history") : Owns(u, doc[d])}
  <2>1. ListNotifications(u, FALSE) = {d \in In("notifications") : Owns(u, doc[d])}
    BY DEF ListNotifications, Owns
  <2>2. u # None
    BY DocumentAssumption
  <2>3. ListEntries(u, None) = {d \in In("search_history") : Owns(u, doc[d])}
    <3>1. CASE u \in Admins BY <3>1 DEF ListEntries, Owns
    <3>2. CASE u \notin Admins BY <2>2, <3>2 DEF ListEntries, Owns
    <3> QED BY <3>1, <3>2
  <2> QED BY <2>1, <2>3
<1>2. ListsMatchReads
  BY <1>1 DEF ListsMatchReads
<1> QED BY <1>2, PTL

================================================================================
