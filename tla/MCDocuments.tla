------------------------------- MODULE MCDocuments ------------------------------
(* Documents on small instances. *)
EXTENDS Documents, TLC

\* Ids are interchangeable, and so are guests.
Symmetry ==
    Permutations(Documents) \cup Permutations(Reservations) \cup Permutations(Workers)
        \cup Permutations(Users \ Admins)

================================================================================
