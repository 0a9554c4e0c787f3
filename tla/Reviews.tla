--------------------------------- MODULE Reviews --------------------------------
(****************************************************************************)
(* review_controller.py: one find_one, one check, one write - with other    *)
(* requests in between.  A call that fails in the driver answers 500; the   *)
(* client cannot tell whether it had its effect.                            *)
(****************************************************************************)
EXTENDS DocumentStore

\* Mutant of MayReview: the reservation only has to exist.
ReservationExists(u, r) == r \in Rows(reservation)

\* The author's own reservation, and no review of it found.
MayReview(u, r) == r \in Rows(reservation) /\ reservation[r].user = u

\* The reservation's hotel is not compared with the review's.
CreateReview(w) ==
    /\ Calls(w, "create_review")
    /\ \E u \in Users, r \in Reservations, h \in Hotels, rating \in Ratings :
        /\ MayReview(u, r)
        /\ \A d \in In("reviews") : doc[d].reservation # r
        /\ Become(w, [op |-> "create_review", phase |-> "insert",
                      row |-> [col |-> "reviews", user |-> u, hotel |-> h,
                               reservation |-> r, rating |-> rating]])
    /\ UNCHANGED <<reservation, doc>>

InsertReview(w) ==
    /\ session[w].phase = "insert"
    /\ InsertOne(session[w].row) \/ NoEffect
    /\ Answer(w)
    /\ UNCHANGED reservation

\* ReviewUpdate: an explicit null passes the schema.
UpdateReview(w) ==
    /\ Calls(w, "update_review")
    /\ \E u \in Users, d \in In("reviews"), rating \in Ratings \cup {None} :
        /\ Owns(u, doc[d])
        /\ Become(w, [op |-> "update_review", phase |-> "write", user |-> u, id |-> d,
                      rating |-> rating])
    /\ UNCHANGED <<reservation, doc>>

\* {"$set": changes}: the other fields are those of the document now.
WriteReview(w) ==
    LET s == session[w]
    IN  /\ s.op = "update_review" /\ s.phase = "write"
        /\ \/ UpdateOne(s.id, [doc[s.id] EXCEPT !.rating = s.rating]) /\ Advance(w, "reread")
           \/ UpdateOne(s.id, [doc[s.id] EXCEPT !.rating = s.rating]) /\ Answer(w)
           \/ NoEffect /\ Answer(w)
        /\ UNCHANGED reservation

================================================================================
