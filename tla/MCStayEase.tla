------------------------------ MODULE MCStayEase ------------------------------
(****************************************************************************)
(* Model-checking instances of StayEase: the .cfg files name the users,     *)
(* rooms, rows and the endpoints of a workload.                             *)
(****************************************************************************)
EXTENDS DocumentedClaims, Dashboard, TLC

\* The calendar of an instance: all in one month, or the first day the last of a year.
OneMonth == [d \in 0 .. LastDay |-> [year |-> 2025, month |-> 12]]

NewYear ==
    [d \in 0 .. LastDay |-> IF d = 0 THEN [year |-> 2025, month |-> 12]
                                     ELSE [year |-> 2026, month |-> d]]

\* Ids, rooms and workers are interchangeable.
Symmetry ==
    Permutations(Rooms) \cup Permutations(Reservations)
        \cup Permutations(Payments) \cup Permutations(Workers)

================================================================================
