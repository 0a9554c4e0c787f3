---------------------------- MODULE RoomController ----------------------------
(****************************************************************************)
(* What an administrator may do to a room or a room type at any moment      *)
(* (app/controllers/room_controller.py, room_type_controller.py).  Nothing  *)
(* here looks at reservations.  The handlers write columns the request body *)
(* names, so one atomic step that may rewrite any subset of them has        *)
(* exactly their effects.                                                   *)
(****************************************************************************)
EXTENDS StayStore

\* PUT /rooms/{id}: any of hotel_id, room_type_id, status.
UpdateRoom(w) ==
    /\ "update_room" \in Ops
    /\ Idle(w)
    /\ \E m \in Rooms, row \in RoomRow : room' = [room EXCEPT ![m] = row]
    /\ UNCHANGED <<roomType, reservation, payment, session, today>>

\* PUT /room-types/{id}: price_per_night and capacity.
UpdateRoomType(w) ==
    /\ "update_room_type" \in Ops
    /\ Idle(w)
    /\ \E t \in RoomTypes, row \in RoomTypeRow : roomType' = [roomType EXCEPT ![t] = row]
    /\ UNCHANGED <<room, reservation, payment, session, today>>

================================================================================
