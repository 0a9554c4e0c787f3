------------------------------ MODULE MCBackOffice ------------------------------
(****************************************************************************)
(* Model-checking instances of BackOffice.                                  *)
(****************************************************************************)
EXTENDS BackOffice, TLC

\* Ids, numbers and workers are interchangeable.
Symmetry ==
    Permutations(Hotels) \cup Permutations(RoomTypes) \cup Permutations(Rooms)
        \cup Permutations(Users) \cup Permutations(Guests) \cup Permutations(Bookings)
        \cup Permutations(Numbers) \cup Permutations(Mailboxes) \cup Permutations(Workers)

================================================================================
