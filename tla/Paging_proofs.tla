------------------------------ MODULE Paging_proofs ------------------------------
(****************************************************************************)
(* Walking through the pages of a list.  A page is an OFFSET, so what it    *)
(* shows depends on how many rows come before; the argument counts them.    *)
(* In a list ordered by id the number of rows before a row only shrinks     *)
(* while rows are deleted, and only grows while rows are inserted.          *)
(****************************************************************************)
EXTENDS Paging, FiniteSetTheorems, SequenceTheorems, TLAPS

\* A table has finitely many rows.
FiniteIds == IsFiniteSet(Ids)

Writes == {"insert", "update", "delete"}

Walk ==
    [phase : {"counted", "answered"}, query : Query, first : Nat \ {0}, page : Nat \ {0},
     total_items : Nat, shown : Seq(Ids), items : Seq(Ids), begun : SUBSET Ids,
     writes : SUBSET Writes, torn : BOOLEAN]

TypeOK ==
    /\ table \in [Ids -> Row \cup Gone]
    /\ \/ walk = NoWalk
       \/ walk \in Walk /\ walk.query.page_size \in 1 .. MAX_PAGE_SIZE

--------------------------------------------------------------------------------
(****************************************************************************)
(* The order of a list, and the number of rows that come before a row.      *)
(****************************************************************************)

\* Lists without a sort_by, and the payments, are ordered by id first of all.
NewestFirst(q) ==
    IF ListFunctions[q.list].leading # <<>>
    THEN ListFunctions[q.list].leading[1].descending
    ELSE ListFunctions[q.list].newest_first

Before(q, i, j) == IF NewestFirst(q) THEN i > j ELSE i < j

\* The rows of a set that come before row i.
Ahead(rows, q, i) == {j \in rows : Before(q, j, i)}

\* The first clause of the order is the id.
LEMMA OrderedById ==
    ASSUME NEW q \in Query, Settled(q), NEW i, NEW j, Before(q, i, j)
    PROVE  Precedes(OrderBy(q), i, j)
<1> DEFINE f == ListFunctions[q.list]
           order == OrderBy(q)
<1>1. f.leading \in {<<>>, <<Clause("id", FALSE)>>}
  <2>1. q.list \in {"get_hotels", "get_room_types", "get_rooms", "search_available_rooms",
                    "get_guests", "get_reservations", "get_payments"}
    BY PagingAssumption DEF Query, ListFunctions
  <2>2. f \in {GetHotels, GetRoomTypes, GetRooms, SearchAvailableRooms, GetGuests,
               GetReservations, GetPayments}
    BY <2>1 DEF ListFunctions
  <2> HIDE DEF f
  <2>3. /\ GetHotels.leading = <<>> /\ GetRoomTypes.leading = <<>> /\ GetRooms.leading = <<>>
        /\ SearchAvailableRooms.leading = <<>> /\ GetGuests.leading = <<>>
        /\ GetReservations.leading = <<>> /\ GetPayments.leading = <<Clause("id", FALSE)>>
    BY DEF ListFunction, GetHotels, GetRoomTypes, GetRooms, SearchAvailableRooms, GetGuests,
       GetReservations, GetPayments
  <2> QED
    BY <2>2, <2>3
<1>2. 1 \in DOMAIN order /\ order[1] = Clause("id", NewestFirst(q))
  <2>1. CASE f.leading = <<>>
    <3>1. q.sort_by = None
      BY <2>1 DEF Settled
    <3>2. order = <<Clause("id", f.newest_first)>>
      BY <2>1, <3>1 DEF OrderBy
    <3>3. NewestFirst(q) = f.newest_first
      BY <2>1 DEF NewestFirst
    <3> QED
      BY <3>2, <3>3
  <2>2. CASE f.leading = <<Clause("id", FALSE)>>
    <3>1. NewestFirst(q) = FALSE
      BY <2>2 DEF NewestFirst, Clause
    <3> DEFINE c == IF q.sort_by = None THEN Clause("id", f.newest_first)
                    ELSE Clause(q.sort_by, q.descending)
               head == <<Clause("id", FALSE)>>
               tail == <<c>>
    <3>2. order = head \o tail
      BY <2>2 DEF OrderBy
    <3>3. head \in Seq({Clause("id", FALSE), c}) /\ tail \in Seq({Clause("id", FALSE), c})
      <4> HIDE DEF c
      <4> QED
        OBVIOUS
    <3>4. Len(head) = 1 /\ Len(tail) = 1 /\ head[1] = Clause("id", FALSE)
      OBVIOUS
    <3> DEFINE E == {Clause("id", FALSE), c}
    <3> HIDE DEF c, head, tail, order, E
    <3>5. head \o tail \in Seq(E) /\ Len(head \o tail) = 2 /\ (head \o tail)[1] = head[1]
      <4>1. head \in Seq(E) /\ tail \in Seq(E)
        BY <3>3 DEF E
      <4>2. /\ head \o tail \in Seq(E) /\ Len(head \o tail) = Len(head) + Len(tail)
            /\ \A n \in 1 .. Len(head) + Len(tail) :
                   (head \o tail)[n] = IF n <= Len(head) THEN head[n] ELSE tail[n - Len(head)]
        BY <4>1, ConcatProperties, Zenon
      <4>3. Len(head) + Len(tail) = 2 /\ 1 \in 1 .. Len(head) + Len(tail) /\ 1 <= Len(head)
        BY <3>4
      <4> QED
        BY <4>2, <4>3, Zenon
    <3>6. 1 \in DOMAIN order /\ order[1] = head[1]
      BY <3>2, <3>5
    <3>7. Clause("id", NewestFirst(q)) = Clause("id", FALSE)
      BY <3>1, Zenon
    <3> QED
      BY <3>4, <3>6, <3>7
  <2> QED
    BY <1>1, <2>1, <2>2
<1>3. /\ order[1].column = "id" /\ order[1].descending = NewestFirst(q)
      /\ Column(i, order[1].column) = i /\ Column(j, order[1].column) = j
  BY <1>2 DEF Clause, Column
<1>4. IF order[1].descending THEN i > j ELSE i < j
  BY <1>3 DEF Before
<1>5. \A k \in 1 .. 1 - 1 : Column(i, order[k].column) = Column(j, order[k].column)
  OBVIOUS
<1> QED
  BY <1>2, <1>3, <1>4, <1>5 DEF Precedes

\* Of two rows one comes before the other, and the order is one.
LEMMA BeforeIsAnOrder ==
    ASSUME NEW q
    PROVE  /\ \A i, j \in Ids : i # j => Before(q, i, j) \/ Before(q, j, i)
           /\ \A i, j \in Ids : ~(Before(q, i, j) /\ Before(q, j, i))
           /\ \A i \in Ids : ~Before(q, i, i)
           /\ \A i, j, k \in Ids : Before(q, i, j) /\ Before(q, j, k) => Before(q, i, k)
<1>1. Ids \subseteq Nat
  BY PagingAssumption
<1> QED
  BY <1>1 DEF Before

\* Results are all rows selected, each once, and a settled list is in its order.
LEMMA ResultsInOrder ==
    ASSUME FiniteIds, NEW q \in Query, NEW s \in Results(q)
    PROVE  /\ Cardinality(Selected(q)) \in Nat
           /\ s \in [1 .. Cardinality(Selected(q)) -> Selected(q)]
           /\ \A i \in Selected(q) : \E n \in 1 .. Cardinality(Selected(q)) : s[n] = i
           /\ Settled(q) => \A m, n \in 1 .. Cardinality(Selected(q)) :
                                m < n => Before(q, s[m], s[n])
<1> DEFINE S == Selected(q)
           D == 1 .. Cardinality(S)
<1>1. S \in SUBSET Ids
  BY DEF Selected
<1>2. s \in [D -> S] /\ \A m, n \in D : m # n => s[m] # s[n]
  BY DEF Results, SetToSeqs
<1>3. \A m, n \in DOMAIN s : m < n => ~Precedes(OrderBy(q), s[n], s[m])
  BY DEF Results
<1> HIDE DEF S
<1>4. IsFiniteSet(S) /\ Cardinality(S) \in Nat
  BY <1>1, FS_Subset, FS_CardinalityType DEF FiniteIds
<1>5. \A i \in S : \E n \in D : s[n] = i
  <2>1. IsFiniteSet(D) /\ Cardinality(D) = Cardinality(S)
    BY <1>4, FS_Interval
  <2>2. s \in Injection(D, S)
    BY <1>2 DEF Injection, IsInjective
  <2> HIDE DEF D
  <2>3. s \in Surjection(D, S)
    BY <1>4, <2>1, <2>2, FS_Injection
  <2> QED
    BY <2>3 DEF Surjection
<1>6. ASSUME Settled(q), NEW m \in D, NEW n \in D, m < n
      PROVE  Before(q, s[m], s[n])
  <2>1. s[m] \in Ids /\ s[n] \in Ids /\ s[m] # s[n]
    BY <1>1, <1>2, <1>6
  <2>2. ~Before(q, s[n], s[m])
    BY <1>2, <1>3, <1>6, OrderedById
  <2> QED
    BY <2>1, <2>2, BeforeIsAnOrder
<1> QED
  BY <1>2, <1>4, <1>5, <1>6 DEF S

\* In a settled list, the rows before the row in place n are those in the places before.
LEMMA PlaceIsRank ==
    ASSUME FiniteIds, NEW q \in Query, Settled(q), NEW s \in Results(q),
           NEW n \in 1 .. Cardinality(Selected(q))
    PROVE  Cardinality(Ahead(Selected(q), q, s[n])) = n - 1
<1> DEFINE S == Selected(q)
           D == 1 .. Cardinality(S)
           A == Ahead(S, q, s[n])
           f == [m \in 1 .. n - 1 |-> s[m]]
<1>1. /\ Cardinality(S) \in Nat /\ s \in [D -> S]
      /\ \A i \in S : \E m \in D : s[m] = i
      /\ \A m, k \in D : m < k => Before(q, s[m], s[k])
  BY ResultsInOrder
<1>2. S \in SUBSET Ids
  BY DEF Selected
<1>3. A = {j \in S : Before(q, j, s[n])}
  BY DEF Ahead
<1>0. n \in D
  OBVIOUS
<1> HIDE DEF S, A
<1>4. n \in Nat /\ 1 .. n - 1 \subseteq D /\ \A m \in 1 .. n - 1 : m < n
  BY <1>0, <1>1
<1>5. f \in [1 .. n - 1 -> A]
  <2>1. \A m \in 1 .. n - 1 : s[m] \in A
    BY <1>0, <1>1, <1>3, <1>4
  <2> QED
    BY <2>1
<1>6. \A m, k \in 1 .. n - 1 : f[m] = f[k] => m = k
  <2>1. SUFFICES ASSUME NEW m \in 1 .. n - 1, NEW k \in 1 .. n - 1, m < k PROVE s[m] # s[k]
    OBVIOUS
  <2>2. Before(q, s[m], s[k]) /\ s[k] \in Ids
    BY <1>1, <1>2, <1>4, <2>1
  <2> QED
    BY <2>2, BeforeIsAnOrder
<1>7. \A j \in A : \E m \in 1 .. n - 1 : f[m] = j
  <2>1. SUFFICES ASSUME NEW j \in A PROVE \E m \in 1 .. n - 1 : f[m] = j
    OBVIOUS
  <2>2. j \in S /\ Before(q, j, s[n])
    BY <1>3
  <2>3. PICK m \in D : s[m] = j
    BY <1>1, <2>2
  <2>4. ~(n < m) /\ m # n
    <3>1. j \in Ids /\ s[n] \in Ids
      BY <1>0, <1>1, <1>2, <2>2
    <3> QED
      BY <1>0, <1>1, <2>2, <2>3, <3>1, BeforeIsAnOrder
  <2>5. m \in 1 .. n - 1
    BY <1>1, <1>4, <2>3, <2>4
  <2> QED
    BY <2>3, <2>5
<1> HIDE DEF f
<1>8. f \in Bijection(1 .. n - 1, A)
  BY <1>5, <1>6, <1>7 DEF Bijection, Injection, Surjection, IsInjective
<1>9. IsFiniteSet(1 .. n - 1) /\ Cardinality(1 .. n - 1) = n - 1
  <2>1. n - 1 \in Int /\ n - 1 >= 0
    BY <1>4
  <2> QED
    BY <1>4, <2>1, FS_Interval
<1>10. ExistsBijection(1 .. n - 1, A)
  BY <1>8 DEF ExistsBijection
<1> QED
  BY <1>9, <1>10, FS_Bijection DEF A, S

\* Every row selected is in some place of the results, and its place is its rank.
LEMMA RankIsPlace ==
    ASSUME FiniteIds, NEW q \in Query, Settled(q), NEW s \in Results(q), NEW i \in Selected(q)
    PROVE  \E n \in 1 .. Cardinality(Selected(q)) :
               s[n] = i /\ Cardinality(Ahead(Selected(q), q, i)) = n - 1
<1>1. PICK n \in 1 .. Cardinality(Selected(q)) : s[n] = i
  BY ResultsInOrder
<1>2. Cardinality(Ahead(Selected(q), q, s[n])) = n - 1
  BY PlaceIsRank
<1> QED
  BY <1>1, <1>2

--------------------------------------------------------------------------------
(****************************************************************************)
(* Pages: where they begin, what they hold, and how many there are.         *)
(****************************************************************************)

\* Multiplication by a natural number keeps the order.
LEMMA TimesKeepsOrder ==
    ASSUME NEW a \in Int, NEW b \in Int, NEW n \in Nat, a <= b
    PROVE  a * n <= b * n
<1> DEFINE d == b - a
<1>1. d \in Nat /\ b = a + d
  OBVIOUS
<1> HIDE DEF d
<1>2. b * n = a * n + d * n
  BY <1>1
<1>3. d * n \in Nat /\ a * n \in Int
  BY <1>1
<1> QED
  BY <1>2, <1>3

\* The length of an interval that begins with 1.
LEMMA SameInterval ==
    ASSUME NEW m \in Nat, NEW n \in Int, 1 .. m = 1 .. n
    PROVE  m = IF n >= 0 THEN n ELSE 0
<1>1. \A k \in Int : k \in 1 .. m <=> k \in 1 .. n
  OBVIOUS
<1>2. \A k \in Int : (1 <= k /\ k <= m) <=> (1 <= k /\ k <= n)
  BY <1>1
<1>3. (1 <= n => n <= m) /\ (1 <= m => m <= n)
  BY <1>2
<1> QED
  BY <1>3

\* A page begins where the page before it ends.
LEMMA Offsets ==
    ASSUME NEW page \in Nat \ {0}, NEW size \in Nat \ {0}
    PROVE  /\ Offset(page, size) \in Nat
           /\ Offset(page + 1, size) = Offset(page, size) + size
           /\ page * size = Offset(page, size) + size
           /\ page = 1 => Offset(page, size) = 0
<1> DEFINE p == page - 1
<1>1. p \in Nat /\ page = p + 1
  OBVIOUS
<1> HIDE DEF p
<1>2. p * size \in Nat /\ (p + 1) * size = p * size + size
  BY <1>1
<1>3. page - 1 = p /\ page + 1 - 1 = p + 1
  BY <1>1
<1>4. p = 0 => p * size = 0
  OBVIOUS
<1>5. /\ Offset(page, size) = p * size /\ Offset(page + 1, size) = (p + 1) * size
      /\ page * size = (p + 1) * size
  BY <1>1, <1>3 DEF Offset
<1> QED
  BY <1>1, <1>2, <1>4, <1>5

\* The number of pages, rounded up: a page is behind the last one when it begins
\* behind all rows, and there is a next one when it ends before the last row.
LEMMA PageCount ==
    ASSUME NEW page \in Nat \ {0}, NEW size \in Nat \ {0}, NEW total \in Nat
    PROVE  /\ page > TotalPages(size, total) <=> Offset(page, size) >= total
           /\ page < TotalPages(size, total) <=> Offset(page, size) + size < total
<1> DEFINE pages == TotalPages(size, total)
           o == Offset(page, size)
<1>1. o \in Nat /\ page * size = o + size
  BY Offsets
<1>2. CASE total = 0
  <2>1. pages = 0
    BY <1>2 DEF TotalPages
  <2> HIDE DEF o, pages
  <2> QED
    BY <1>1, <1>2, <2>1 DEF o, pages
<1>3. CASE total # 0
  <2>1. pages = (total + size - 1) \div size
    BY <1>3 DEF TotalPages
  <2> DEFINE dividend == total + size - 1
  <2>2. dividend \in Nat
    OBVIOUS
  <2> HIDE DEF pages, dividend, o
  <2>3. pages \in Int /\ pages * size <= dividend /\ dividend < pages * size + size
    BY <2>1, <2>2 DEF dividend
  <2>4. ASSUME page > pages PROVE o >= total
    <3>1. pages + 1 <= page /\ pages + 1 \in Int
      BY <2>3, <2>4
    <3>2. (pages + 1) * size <= page * size
      BY <3>1, TimesKeepsOrder
    <3>3. (pages + 1) * size = pages * size + size /\ pages * size \in Int
      BY <2>3
    <3> QED
      BY <1>1, <2>3, <3>2, <3>3 DEF dividend
  <2>5. ASSUME page <= pages PROVE o < total
    <3>1. page * size <= pages * size /\ pages * size \in Int
      BY <2>3, <2>5, TimesKeepsOrder
    <3> QED
      BY <1>1, <2>3, <3>1 DEF dividend
  <2>6. ASSUME page < pages PROVE o + size < total
    <3>1. page + 1 <= pages /\ page + 1 \in Int
      BY <2>3, <2>6
    <3>2. (page + 1) * size <= pages * size
      BY <2>3, <3>1, TimesKeepsOrder
    <3>3. (page + 1) * size = page * size + size /\ pages * size \in Int
      BY <2>3
    <3> QED
      BY <1>1, <2>3, <3>2, <3>3 DEF dividend
  <2>7. ASSUME page >= pages PROVE ~(o + size < total)
    <3>1. pages * size <= page * size /\ pages * size \in Int
      BY <2>3, <2>7, TimesKeepsOrder
    <3> QED
      BY <1>1, <2>3, <3>1 DEF dividend
  <2> QED
    BY <1>1, <2>3, <2>4, <2>5, <2>6, <2>7 DEF o, pages
<1> QED
  BY <1>2, <1>3

\* A page holds the results from its offset on.
LEMMA Slices ==
    ASSUME FiniteIds, NEW q \in Query, NEW s \in Results(q), NEW page \in Nat \ {0},
           NEW size \in Nat \ {0}
    PROVE  LET items == Slice(s, page, size)
               o == Offset(page, size)
               rest == Cardinality(Selected(q)) - o
           IN  /\ items \in Seq(Ids)
               /\ DOMAIN items = 1 .. Smaller(size, rest)
               /\ \A n \in DOMAIN items :
                      /\ n <= size /\ o + n \in 1 .. Cardinality(Selected(q))
                      /\ items[n] = s[o + n]
               /\ \A n \in 1 .. size : o + n <= Cardinality(Selected(q)) => n \in DOMAIN items
<1> DEFINE items == Slice(s, page, size)
           o == Offset(page, size)
           N == Cardinality(Selected(q))
           last == Smaller(size, N - o)
<1>1. o \in Nat
  BY Offsets
<1>2. N \in Nat /\ s \in [1 .. N -> Selected(q)]
  BY ResultsInOrder
<1>3. Selected(q) \subseteq Ids
  BY DEF Selected
<1> HIDE DEF N
<1>4. Len(s) = N
  BY <1>2
<1>5. items = [n \in 1 .. last |-> s[o + n]]
  BY <1>4 DEF Slice
<1>6. last \in Int /\ last <= size /\ last <= N - o /\ (last = size \/ last = N - o)
  BY <1>1, <1>2 DEF Smaller
<1> HIDE DEF o, last, items
<1>7. \A n \in 1 .. last : n <= size /\ o + n \in 1 .. N
  BY <1>1, <1>2, <1>6
<1>8. \A n \in 1 .. size : o + n <= N => n \in 1 .. last
  BY <1>1, <1>2, <1>6
<1>9. \A n \in 1 .. last : s[o + n] \in Ids
  BY <1>2, <1>3, <1>7
<1>10. items \in [1 .. last -> Ids]
  BY <1>5, <1>9
<1>11. items \in Seq(Ids)
  <2>1. CASE last \in Nat
    BY <1>10, <2>1, SeqDef
  <2>2. CASE last < 0
    <3>1. 1 .. last = 1 .. 0
      BY <1>6, <2>2
    <3>2. items \in [1 .. 0 -> Ids]
      BY <1>10, <3>1
    <3> QED
      BY <3>2, SeqDef
  <2> QED
    BY <1>6, <2>1, <2>2
<1> QED
  BY <1>5, <1>7, <1>8, <1>11 DEF items, o, last, N

\* What a page appends to what was shown.
LEMMA Appended ==
    ASSUME NEW s \in Seq(Ids), NEW t \in Seq(Ids)
    PROVE  /\ s \o t \in Seq(Ids)
           /\ DOMAIN (s \o t) = 1 .. Len(s) + Len(t)
           /\ \A n \in DOMAIN s : n \in DOMAIN (s \o t) /\ (s \o t)[n] = s[n]
           /\ \A n \in DOMAIN t : Len(s) + n \in DOMAIN (s \o t) /\ (s \o t)[Len(s) + n] = t[n]
           /\ \A n \in DOMAIN (s \o t) : n \in DOMAIN s \/ n - Len(s) \in DOMAIN t
           /\ Len(s) \in Nat /\ DOMAIN s = 1 .. Len(s) /\ DOMAIN t = 1 .. Len(t)
<1> DEFINE st == s \o t
           a == Len(s)
           b == Len(t)
<1>1. /\ st \in Seq(Ids) /\ Len(st) = a + b
      /\ \A n \in 1 .. a + b : st[n] = IF n <= a THEN s[n] ELSE t[n - a]
  BY ConcatProperties
<1>2. a \in Nat /\ b \in Nat /\ DOMAIN s = 1 .. a /\ DOMAIN t = 1 .. b
  BY LenProperties
<1>3. DOMAIN st = 1 .. a + b
  BY <1>1, LenProperties
<1> HIDE DEF st, a, b
<1>4. \A n \in 1 .. a : n \in 1 .. a + b /\ st[n] = s[n]
  BY <1>1, <1>2
<1>5. \A n \in 1 .. b : a + n \in 1 .. a + b /\ st[a + n] = t[n]
  <2>1. SUFFICES ASSUME NEW n \in 1 .. b PROVE a + n \in 1 .. a + b /\ st[a + n] = t[n]
    OBVIOUS
  <2> DEFINE k == a + n
  <2>2. k \in 1 .. a + b /\ ~(k <= a) /\ k - a = n
    BY <1>2
  <2> HIDE DEF k
  <2>3. st[k] = t[k - a]
    BY <1>1, <2>2
  <2>4. st[k] = t[n]
    BY <2>2, <2>3
  <2> QED
    BY <2>2, <2>4 DEF k
<1>6. \A n \in 1 .. a + b : n \in 1 .. a \/ n - a \in 1 .. b
  BY <1>2
<1> QED
  BY <1>1, <1>2, <1>3, <1>4, <1>5, <1>6 DEF st, a, b

--------------------------------------------------------------------------------
(****************************************************************************)
(* The invariant of a walk w through a list of which the rows are selected. *)
(* Skips is the number of rows that the walk has left behind, or is about   *)
(* to skip: the offset of its page, of the next one when it was answered.   *)
(****************************************************************************)

Skips(w) ==
    Offset(IF w.phase = "answered" THEN w.page + 1 ELSE w.page, w.query.page_size)

\* Without a commit between them, COUNT and SELECT tell of the same rows.
Counted(rows, w) ==
    ~w.torn =>
        /\ w.phase = "counted" => w.total_items = Cardinality(rows)
        /\ w.phase = "answered" =>
               DOMAIN w.items = 1 .. Smaller(w.query.page_size,
                                             w.total_items - Offset(w.page, w.query.page_size))

\* While rows are only deleted, a row that is not skipped by the offset comes behind
\* every row that was shown.
BehindTheShown(rows, w) ==
    Settled(w.query) /\ w.writes \subseteq {"delete"} =>
        /\ \A m, n \in DOMAIN w.shown : m < n => Before(w.query, w.shown[m], w.shown[n])
        /\ \A i \in rows : Cardinality(Ahead(rows, w.query, i)) >= Skips(w) =>
               \A n \in DOMAIN w.shown : Before(w.query, w.shown[n], i)

\* While rows are only inserted, those that were there at the beginning and that the
\* offset skips have been shown.
ShownSoFar(rows, w) ==
    (Settled(w.query) /\ w.writes \subseteq {"insert"} /\ w.first = 1) =>
        /\ w.begun \subseteq rows
        /\ \A i \in w.begun : Cardinality(Ahead(rows, w.query, i)) < Skips(w) =>
               \E n \in DOMAIN w.shown : w.shown[n] = i

\* When the last page holds all the rows that were counted, all of them have been shown.
AllShown(w) ==
    (/\ w.phase = "answered" /\ Settled(w.query) /\ w.writes \subseteq {"insert"}
     /\ w.first = 1 /\ ~w.torn
     /\ w.total_items <= Offset(w.page, w.query.page_size) + w.query.page_size) =>
        \A i \in w.begun : \E n \in DOMAIN w.shown : w.shown[n] = i

Walked(rows, w) ==
    Counted(rows, w) /\ BehindTheShown(rows, w) /\ ShownSoFar(rows, w) /\ AllShown(w)

WalkInv == walk.phase # "idle" => Walked(Selected(walk.query), walk)

PagingInv == TypeOK /\ WalkInv

\* A walk that is under way.
LEMMA Walking ==
    ASSUME TypeOK, walk.phase # "idle"
    PROVE  /\ walk \in Walk /\ walk.query \in Query /\ walk.page \in Nat \ {0}
           /\ walk.query.page_size \in Nat \ {0}
<1>1. walk # NoWalk
  BY DEF NoWalk
<1>2. walk \in Walk /\ walk.query.page_size \in 1 .. MAX_PAGE_SIZE
  BY <1>1 DEF TypeOK
<1>3. walk.query \in Query /\ walk.page \in Nat \ {0}
  BY <1>2 DEF Walk
<1>4. walk.query.page_size \in Nat \ {0}
  BY <1>2 DEF MAX_PAGE_SIZE
<1> QED
  BY <1>2, <1>3, <1>4

\* The rows selected are rows of the table, and finitely many.
LEMMA FinitelySelected ==
    ASSUME FiniteIds, NEW rows \in SUBSET Ids, NEW q, NEW i
    PROVE  /\ IsFiniteSet(rows) /\ Cardinality(rows) \in Nat
           /\ IsFiniteSet(Ahead(rows, q, i)) /\ Cardinality(Ahead(rows, q, i)) \in Nat
           /\ \A fewer \in SUBSET rows :
                  Cardinality(Ahead(fewer, q, i)) <= Cardinality(Ahead(rows, q, i))
<1>1. IsFiniteSet(rows) /\ Cardinality(rows) \in Nat
  BY FS_Subset, FS_CardinalityType DEF FiniteIds
<1>2. IsFiniteSet(Ahead(rows, q, i)) /\ Cardinality(Ahead(rows, q, i)) \in Nat
  <2>1. Ahead(rows, q, i) \subseteq rows
    BY DEF Ahead
  <2> QED
    BY <1>1, <2>1, FS_Subset, FS_CardinalityType
<1>3. \A fewer \in SUBSET rows :
          Cardinality(Ahead(fewer, q, i)) <= Cardinality(Ahead(rows, q, i))
  <2>1. SUFFICES ASSUME NEW fewer \in SUBSET rows
                 PROVE  Cardinality(Ahead(fewer, q, i)) <= Cardinality(Ahead(rows, q, i))
    OBVIOUS
  <2>2. Ahead(fewer, q, i) \subseteq Ahead(rows, q, i)
    BY DEF Ahead
  <2> QED
    BY <1>2, <2>2, FS_Subset
<1> QED
  BY <1>1, <1>2, <1>3

--------------------------------------------------------------------------------
(****************************************************************************)
(* The steps keep the types.                                                *)
(****************************************************************************)

\* What a request begins with.
LEMMA BeginType ==
    ASSUME FiniteIds, TypeOK, Begin
    PROVE  TypeOK'
<1>1. PICK q \in Query, page \in Pages :
          /\ ValidPage(page, q.page_size)
          /\ walk' = [phase |-> "counted", query |-> q, first |-> page, page |-> page,
                      total_items |-> Cardinality(Selected(q)), shown |-> <<>>, items |-> <<>>,
                      begun |-> Selected(q), writes |-> {}, torn |-> FALSE]
  BY DEF Begin
<1>2. page \in Nat \ {0} /\ q.page_size \in 1 .. MAX_PAGE_SIZE
  BY <1>1, PagingAssumption DEF ValidPage
<1>3. Selected(q) \in SUBSET Ids
  BY DEF Selected
<1>4. Cardinality(Selected(q)) \in Nat
  BY <1>3, FS_Subset, FS_CardinalityType DEF FiniteIds
<1>5. <<>> \in Seq(Ids) /\ {} \in SUBSET Writes
  OBVIOUS
<1> DEFINE n == Cardinality(Selected(q))
           begun == Selected(q)
<1> HIDE DEF n, begun
<1>6. walk' = [phase |-> "counted", query |-> q, first |-> page, page |-> page,
               total_items |-> n, shown |-> <<>>, items |-> <<>>,
               begun |-> begun, writes |-> {}, torn |-> FALSE]
  BY <1>1 DEF n, begun
<1>7. n \in Nat /\ begun \in SUBSET Ids
  BY <1>3, <1>4 DEF n, begun
<1>8. walk' \in Walk /\ walk'.query = q
  BY <1>2, <1>5, <1>6, <1>7 DEF Walk
<1>9. table' = table
  BY DEF Begin
<1> QED
  BY <1>2, <1>8, <1>9 DEF TypeOK

\* The next page of a walk.
LEMMA NextPageType ==
    ASSUME FiniteIds, TypeOK, NextPage
    PROVE  TypeOK'
<1> DEFINE n == Cardinality(Selected(walk.query))
<1>1. /\ walk.phase = "answered" /\ UNCHANGED table
      /\ walk' = [walk EXCEPT !.phase = "counted", !.page = @ + 1, !.total_items = n]
  BY DEF NextPage
<1>2. n \in Nat
  BY FinitelySelected DEF Selected
<1> HIDE DEF n
<1>3. walk \in Walk /\ walk.page \in Nat \ {0} /\ walk.query.page_size \in 1 .. MAX_PAGE_SIZE
  BY <1>1, Walking DEF TypeOK, NoWalk
<1>4. walk.page + 1 \in Nat \ {0}
  BY <1>3
<1>5. walk' \in Walk /\ walk'.query = walk.query
  BY <1>1, <1>2, <1>3, <1>4 DEF Walk
<1> QED
  BY <1>1, <1>3, <1>5 DEF TypeOK

\* The SELECT of a page.
LEMMA FetchType ==
    ASSUME FiniteIds, TypeOK, Fetch
    PROVE  TypeOK'
<1>1. walk.phase = "counted" /\ UNCHANGED table
  BY DEF Fetch
<1>2. PICK s \in Results(walk.query) :
          walk' = [walk EXCEPT !.phase = "answered",
                      !.items = Slice(s, walk.page, walk.query.page_size),
                      !.shown = @ \o Slice(s, walk.page, walk.query.page_size)]
  BY DEF Fetch
<1>3. /\ walk \in Walk /\ walk.query \in Query /\ walk.page \in Nat \ {0}
      /\ walk.query.page_size \in Nat \ {0}
      /\ walk.query.page_size \in 1 .. MAX_PAGE_SIZE
  BY <1>1, Walking DEF TypeOK, NoWalk
<1> DEFINE items == Slice(s, walk.page, walk.query.page_size)
<1>4. items \in Seq(Ids)
  BY <1>3, Slices
<1> HIDE DEF items
<1>5. walk.shown \in Seq(Ids)
  BY <1>3 DEF Walk
<1> DEFINE shown == walk.shown \o items
<1>6. shown \in Seq(Ids)
  BY <1>4, <1>5, Appended
<1> HIDE DEF shown
<1>7. walk' = [walk EXCEPT !.phase = "answered", !.items = items, !.shown = shown]
  BY <1>2, <1>3 DEF Walk, items, shown
<1>8. walk' \in Walk /\ walk'.query = walk.query
  BY <1>3, <1>4, <1>6, <1>7 DEF Walk
<1> QED
  BY <1>1, <1>3, <1>8 DEF TypeOK

\* What a write of the others adds to the record of the walk.
LEMMA WitnessType ==
    ASSUME TypeOK, NEW kind \in Writes, Witness(kind), table' \in [Ids -> Row \cup Gone]
    PROVE  TypeOK'
<1>1. CASE walk = NoWalk
  BY <1>1 DEF TypeOK, Witness, NoWalk
<1>2. CASE walk \in Walk /\ walk.query.page_size \in 1 .. MAX_PAGE_SIZE
  <2> DEFINE writes == walk.writes \cup {kind}
             torn == walk.torn \/ walk.phase = "counted"
  <2>1. walk.phase # "idle"
    BY <1>2 DEF Walk
  <2>2. walk' = [walk EXCEPT !.writes = writes, !.torn = torn]
    BY <1>2, <2>1 DEF Witness, Walk
  <2>3. writes \in SUBSET Writes /\ torn \in BOOLEAN
    BY <1>2 DEF Walk
  <2> HIDE DEF writes, torn
  <2>4. walk' \in Walk /\ walk'.query = walk.query
    BY <1>2, <2>2, <2>3 DEF Walk
  <2> QED
    BY <1>2, <2>4 DEF TypeOK
<1> QED
  BY <1>1, <1>2 DEF TypeOK

\* The rows that others insert, update and delete.
LEMMA TableType ==
    ASSUME TypeOK, Insert \/ Update \/ Delete
    PROVE  table' \in [Ids -> Row \cup Gone]
<1>1. table \in [Ids -> Row \cup Gone]
  BY DEF TypeOK
<1>2. CASE Insert
  BY <1>1, <1>2 DEF Insert
<1>3. CASE Update
  <2>1. PICK i \in Ids, key \in Keys :
            table[i] \notin Gone /\ table' = [table EXCEPT ![i].key = key]
    BY <1>3 DEF Update
  <2>2. table[i] \in Row
    BY <1>1, <2>1
  <2> DEFINE row == [table[i] EXCEPT !.key = key]
  <2>3. row \in Row
    BY <2>2 DEF Row
  <2> HIDE DEF row
  <2>4. table' = [table EXCEPT ![i] = row]
    BY <1>1, <2>1 DEF row
  <2> QED
    BY <1>1, <2>3, <2>4
<1>4. CASE Delete
  BY <1>1, <1>4 DEF Delete, Gone
<1> QED
  BY <1>2, <1>3, <1>4

\* Every step keeps the types.
LEMMA NextType ==
    ASSUME FiniteIds, TypeOK, [Next]_vars
    PROVE  TypeOK'
<1>1. CASE Begin
  BY <1>1, BeginType
<1>2. CASE Fetch
  BY <1>2, FetchType
<1>3. CASE NextPage
  BY <1>3, NextPageType
<1>4. CASE Stop
  BY <1>4 DEF Stop, TypeOK
<1>5. CASE Insert
  BY <1>5, TableType, WitnessType DEF Insert, Writes
<1>6. CASE Update
  BY <1>6, TableType, WitnessType DEF Update, Writes
<1>7. CASE Delete
  BY <1>7, TableType, WitnessType DEF Delete, Writes
<1>8. CASE UNCHANGED vars
  BY <1>8 DEF TypeOK, vars
<1> QED
  BY <1>1, <1>2, <1>3, <1>4, <1>5, <1>6, <1>7, <1>8 DEF Next

--------------------------------------------------------------------------------
(****************************************************************************)
(* The steps keep the invariant of the walk.                                *)
(****************************************************************************)

\* A walk begins with nothing shown; what skips nothing has to have shown nothing.
LEMMA BeginWalked ==
    ASSUME FiniteIds, TypeOK, Begin
    PROVE  WalkInv'
<1>1. PICK q \in Query, page \in Pages :
          /\ ValidPage(page, q.page_size)
          /\ walk' = [phase |-> "counted", query |-> q, first |-> page, page |-> page,
                      total_items |-> Cardinality(Selected(q)), shown |-> <<>>, items |-> <<>>,
                      begun |-> Selected(q), writes |-> {}, torn |-> FALSE]
  BY DEF Begin
<1>2. page \in Nat \ {0} /\ q.page_size \in Nat \ {0}
  <2>1. page \in Int /\ page >= 1 /\ q.page_size \in 1 .. MAX_PAGE_SIZE
    BY <1>1, PagingAssumption DEF ValidPage
  <2> QED
    BY <2>1 DEF MAX_PAGE_SIZE
<1> DEFINE rows == Selected(q)
           w == walk'
<1>3. Selected(walk.query)' = rows
  BY <1>1 DEF Selected, Begin
<1>4. rows \in SUBSET Ids
  BY DEF Selected
<1> HIDE DEF rows, w
<1>5. /\ w.phase = "counted" /\ w.query = q /\ w.first = page /\ w.page = page
      /\ w.total_items = Cardinality(rows) /\ w.shown = <<>> /\ w.begun = rows
  BY <1>1 DEF rows, w
<1>6. Counted(rows, w)
  BY <1>5 DEF Counted
<1>7. BehindTheShown(rows, w)
  <2>1. DOMAIN w.shown = {}
    BY <1>5
  <2> QED
    BY <2>1 DEF BehindTheShown
<1>8. ShownSoFar(rows, w)
  <2>1. ASSUME w.first = 1 PROVE Skips(w) = 0
    BY <1>2, <1>5, <2>1, Offsets DEF Skips
  <2>2. \A i \in rows : Cardinality(Ahead(rows, q, i)) \in Nat
    BY <1>4, FinitelySelected
  <2>3. ASSUME w.first = 1, NEW i \in rows
        PROVE  ~(Cardinality(Ahead(rows, q, i)) < Skips(w))
    BY <2>1, <2>2, <2>3
  <2> QED
    BY <1>5, <2>3 DEF ShownSoFar
<1>9. AllShown(w)
  BY <1>5 DEF AllShown
<1> QED
  BY <1>3, <1>6, <1>7, <1>8, <1>9 DEF WalkInv, Walked, w

\* The next page skips what the pages so far have left behind.
LEMMA NextPageWalked ==
    ASSUME FiniteIds, TypeOK, WalkInv, NextPage
    PROVE  WalkInv'
<1> DEFINE rows == Selected(walk.query)
           w == walk
           v == walk'
<1>1. /\ w.phase = "answered" /\ UNCHANGED table
      /\ v = [w EXCEPT !.phase = "counted", !.page = @ + 1, !.total_items = Cardinality(rows)]
  BY DEF NextPage
<1>2. w \in Walk /\ w.page \in Nat \ {0}
  BY <1>1, Walking
<1>3. Walked(rows, w)
  BY <1>1 DEF WalkInv
<1>4. Selected(walk.query)' = rows
  BY <1>1, <1>2 DEF Selected, Walk
<1> DEFINE total == Cardinality(rows)
<1> HIDE DEF total
<1>5. /\ v.phase = "counted" /\ v.page = w.page + 1 /\ v.total_items = total
      /\ v.query = w.query /\ v.shown = w.shown /\ v.begun = w.begun /\ v.writes = w.writes
      /\ v.first = w.first
  BY <1>1, <1>2 DEF Walk, total
<1> HIDE DEF rows, w, v
<1>6. Skips(v) = Skips(w)
  BY <1>1, <1>5 DEF Skips
<1>7. Counted(rows, v)
  BY <1>5 DEF Counted, total
<1>8. BehindTheShown(rows, v)
  BY <1>3, <1>5, <1>6 DEF BehindTheShown, Walked
<1>9. ShownSoFar(rows, v)
  BY <1>3, <1>5, <1>6 DEF ShownSoFar, Walked
<1>10. AllShown(v)
  BY <1>5 DEF AllShown
<1> QED
  BY <1>4, <1>7, <1>8, <1>9, <1>10 DEF WalkInv, Walked, v

\* A write of the others: a deletion brings rows nearer to the beginning of the list,
\* an insertion takes them away from it.
LEMMA WriteWalked ==
    ASSUME FiniteIds, TypeOK, WalkInv, NEW kind \in Writes, Witness(kind),
           kind = "delete" => \A q \in Query : Selected(q)' \subseteq Selected(q),
           kind = "insert" => \A q \in Query : Selected(q) \subseteq Selected(q)'
    PROVE  WalkInv'
<1>1. CASE walk.phase = "idle"
  BY <1>1 DEF WalkInv, Witness
<1>2. CASE walk.phase # "idle"
  <2>1. walk \in Walk /\ walk.query \in Query
    BY <1>2, Walking
  <2>2. PICK q \in Query : q = walk.query
    BY <2>1
  <2> DEFINE rows == Selected(q)
             after == Selected(q)'
             w == walk
             v == walk'
  <2>3. v = [w EXCEPT !.writes = @ \cup {kind}, !.torn = @ \/ w.phase = "counted"]
    BY <1>2 DEF Witness
  <2>4. Walked(rows, w)
    BY <1>2, <2>2 DEF WalkInv
  <2>5. v.query = q
    BY <2>1, <2>2, <2>3 DEF Walk
  <2>6. Selected(walk.query)' = after
    BY <2>5 DEF Selected
  <2>7. /\ rows \in SUBSET Ids /\ after \in SUBSET Ids
        /\ kind = "delete" => after \subseteq rows
        /\ kind = "insert" => rows \subseteq after
    BY DEF Selected
  <2> DEFINE torn == w.torn \/ w.phase = "counted"
             writes == w.writes \cup {kind}
  <2> HIDE DEF rows, after
  <2>8. /\ v.phase = w.phase /\ v.page = w.page /\ v.total_items = w.total_items
        /\ v.query = w.query /\ v.shown = w.shown /\ v.items = w.items /\ v.begun = w.begun
        /\ v.first = w.first /\ v.writes = writes /\ v.torn = torn
    <3> HIDE DEF torn, writes
    <3>1. v = [w EXCEPT !.writes = writes, !.torn = torn]
      BY <2>1, <2>3 DEF Walk, torn, writes
    <3> QED
      BY <2>1, <3>1 DEF Walk
  <2>9. w.query = q /\ Skips(v) = Skips(w)
    BY <2>2, <2>8 DEF Skips
  <2>10. w.begun \in SUBSET Ids /\ Skips(w) \in Int
    <3>1. w.begun \in SUBSET Ids
      BY <2>1 DEF Walk
    <3>2. w.page \in Nat \ {0} /\ w.query.page_size \in Nat \ {0}
      BY <1>2, Walking
    <3> DEFINE page == IF w.phase = "answered" THEN w.page + 1 ELSE w.page
    <3>3. page \in Nat \ {0}
      BY <3>2
    <3> HIDE DEF page
    <3>4. Offset(page, w.query.page_size) \in Nat
      BY <3>2, <3>3, Offsets
    <3>5. Skips(w) = Offset(page, w.query.page_size)
      BY DEF Skips, page
    <3> QED
      BY <3>1, <3>4, <3>5
  <2> HIDE DEF w, v
  <2>11. Counted(after, v)
    BY <2>4, <2>8 DEF Counted, Walked
  <2>12. BehindTheShown(after, v)
    <3>1. SUFFICES ASSUME Settled(q), v.writes \subseteq {"delete"}
                   PROVE  BehindTheShown(after, v)
      BY <2>8, <2>9 DEF BehindTheShown
    <3>2. kind = "delete" /\ w.writes \subseteq {"delete"}
      BY <2>8, <3>1
    <3>3. \A m, n \in DOMAIN w.shown : m < n => Before(q, w.shown[m], w.shown[n])
      BY <2>4, <2>9, <3>1, <3>2 DEF BehindTheShown, Walked
    <3>4. \A i \in rows : Cardinality(Ahead(rows, q, i)) >= Skips(w) =>
              \A n \in DOMAIN w.shown : Before(q, w.shown[n], i)
      BY <2>4, <2>9, <3>1, <3>2 DEF BehindTheShown, Walked
    <3>5. \A i \in after : /\ Cardinality(Ahead(after, q, i)) \in Nat
                           /\ Cardinality(Ahead(rows, q, i)) \in Nat
                           /\ Cardinality(Ahead(after, q, i)) <= Cardinality(Ahead(rows, q, i))
      BY <2>7, <3>2, FinitelySelected
    <3>6. \A i \in after : Cardinality(Ahead(after, q, i)) >= Skips(w) =>
              \A n \in DOMAIN w.shown : Before(q, w.shown[n], i)
      <4>1. SUFFICES ASSUME NEW i \in after, Cardinality(Ahead(after, q, i)) >= Skips(w)
                     PROVE  \A n \in DOMAIN w.shown : Before(q, w.shown[n], i)
        OBVIOUS
      <4>2. Cardinality(Ahead(rows, q, i)) >= Skips(w)
        BY <2>10, <3>5, <4>1
      <4> QED
        BY <2>7, <3>2, <3>4, <4>1, <4>2
    <3> QED
      BY <2>8, <2>9, <3>3, <3>6 DEF BehindTheShown
  <2>13. ShownSoFar(after, v)
    <3>1. SUFFICES ASSUME Settled(q), v.writes \subseteq {"insert"}, v.first = 1
                   PROVE  ShownSoFar(after, v)
      BY <2>8, <2>9 DEF ShownSoFar
    <3>2. kind = "insert" /\ w.writes \subseteq {"insert"} /\ w.first = 1
      BY <2>8, <3>1
    <3>3. w.begun \subseteq rows
      BY <2>4, <2>9, <3>1, <3>2 DEF ShownSoFar, Walked
    <3>4. \A i \in w.begun : Cardinality(Ahead(rows, q, i)) < Skips(w) =>
              \E n \in DOMAIN w.shown : w.shown[n] = i
      BY <2>4, <2>9, <3>1, <3>2 DEF ShownSoFar, Walked
    <3>5. \A i \in w.begun : /\ Cardinality(Ahead(after, q, i)) \in Nat
                             /\ Cardinality(Ahead(rows, q, i)) \in Nat
                             /\ Cardinality(Ahead(rows, q, i)) <= Cardinality(Ahead(after, q, i))
      BY <2>7, <2>10, <3>2, FinitelySelected
    <3>6. \A i \in w.begun : Cardinality(Ahead(after, q, i)) < Skips(w) =>
              \E n \in DOMAIN w.shown : w.shown[n] = i
      <4>1. SUFFICES ASSUME NEW i \in w.begun, Cardinality(Ahead(after, q, i)) < Skips(w)
                     PROVE  \E n \in DOMAIN w.shown : w.shown[n] = i
        OBVIOUS
      <4>2. Cardinality(Ahead(rows, q, i)) < Skips(w)
        BY <2>10, <3>5, <4>1
      <4> QED
        BY <3>4, <4>1, <4>2
    <3> QED
      BY <2>7, <2>8, <2>9, <3>2, <3>3, <3>6 DEF ShownSoFar
  <2>14. AllShown(v)
    BY <2>4, <2>8 DEF AllShown, Walked
  <2> QED
    BY <2>6, <2>11, <2>12, <2>13, <2>14 DEF WalkInv, Walked, v
<1> QED
  BY <1>1, <1>2

\* A page shows the rows from its offset on, in the order of the list, and leaves
\* behind as many rows as it holds.
LEMMA FetchWalked ==
    ASSUME FiniteIds, TypeOK, WalkInv, Fetch
    PROVE  WalkInv'
<1> DEFINE q == walk.query
           rows == Selected(walk.query)
           size == walk.query.page_size
           page == walk.page
           o == Offset(page, size)
           N == Cardinality(rows)
           w == walk
           v == walk'
<1>1. w.phase = "counted" /\ UNCHANGED table
  BY DEF Fetch
<1>2. PICK s \in Results(walk.query) :
          v = [w EXCEPT !.phase = "answered", !.items = Slice(s, page, size),
                        !.shown = @ \o Slice(s, page, size)]
  BY DEF Fetch
<1> DEFINE items == Slice(s, page, size)
           shown == w.shown \o items
           a == Len(w.shown)
<1>3. w \in Walk /\ q \in Query /\ page \in Nat \ {0} /\ size \in Nat \ {0}
  BY <1>1, Walking
<1>4. Walked(rows, w)
  BY <1>1 DEF WalkInv
<1>5. Selected(walk.query)' = rows
  BY <1>1, <1>2, <1>3 DEF Selected, Walk
<1>6. N \in Nat /\ s \in [1 .. N -> rows]
  BY <1>3, ResultsInOrder
<1>7. /\ items \in Seq(Ids) /\ DOMAIN items = 1 .. Smaller(size, N - o)
      /\ \A n \in DOMAIN items : n <= size /\ o + n \in 1 .. N /\ items[n] = s[o + n]
      /\ \A n \in 1 .. size : o + n <= N => n \in DOMAIN items
  BY <1>3, Slices
<1>8. o \in Nat /\ Offset(page + 1, size) = o + size
  BY <1>3, Offsets
<1>9. Settled(q) =>
          /\ \A m, n \in 1 .. N : m < n => Before(q, s[m], s[n])
          /\ \A n \in 1 .. N : Cardinality(Ahead(rows, q, s[n])) = n - 1
          /\ \A i \in rows : \E n \in 1 .. N :
                 s[n] = i /\ Cardinality(Ahead(rows, q, i)) = n - 1
  BY <1>3, ResultsInOrder, PlaceIsRank, RankIsPlace
<1>10. w.shown \in Seq(Ids)
  BY <1>3 DEF Walk
<1> HIDE DEF rows, N, items, o
<1>11. /\ a \in Nat /\ DOMAIN w.shown = 1 .. a
       /\ \A n \in DOMAIN w.shown : n \in DOMAIN shown /\ shown[n] = w.shown[n]
       /\ \A n \in DOMAIN items : a + n \in DOMAIN shown /\ shown[a + n] = items[n]
       /\ \A n \in DOMAIN shown : n \in 1 .. a \/ n - a \in DOMAIN items
       /\ DOMAIN shown \subseteq Nat /\ DOMAIN items \subseteq Nat \ {0}
  <2> DEFINE b == Len(items)
  <2>1. /\ a \in Nat /\ DOMAIN w.shown = 1 .. a /\ DOMAIN shown = 1 .. a + b
        /\ DOMAIN items = 1 .. b /\ b \in Nat
        /\ \A n \in DOMAIN w.shown : n \in DOMAIN shown /\ shown[n] = w.shown[n]
        /\ \A n \in DOMAIN items : a + n \in DOMAIN shown /\ shown[a + n] = items[n]
        /\ \A n \in DOMAIN shown : n \in DOMAIN w.shown \/ n - a \in DOMAIN items
    BY <1>7, <1>10, Appended, LenProperties, Zenon
  <2> HIDE DEF shown, w, a, b
  <2>2. DOMAIN shown \subseteq Nat /\ DOMAIN items \subseteq Nat \ {0}
    BY <2>1
  <2> QED
    BY <2>1, <2>2
<1> HIDE DEF shown
<1>12. v = [w EXCEPT !.phase = "answered", !.items = items, !.shown = shown]
  BY <1>2, <1>3 DEF Walk, shown, items
<1>13. /\ v.phase = "answered" /\ v.page = page /\ v.total_items = w.total_items
       /\ v.query = q /\ v.shown = shown /\ v.items = items /\ v.begun = w.begun
       /\ v.first = w.first /\ v.writes = w.writes /\ v.torn = w.torn
  BY <1>3, <1>12 DEF Walk
<1>14. Skips(v) = o + size /\ Skips(w) = o
  BY <1>1, <1>8, <1>13 DEF Skips, o
<1> HIDE DEF v, w, a
<1>15. Counted(rows, v)
  <2>1. SUFFICES ASSUME ~w.torn PROVE Counted(rows, v)
    BY <1>13 DEF Counted
  <2>2. w.total_items = N
    BY <1>1, <1>4, <2>1 DEF Counted, Walked, N
  <2> QED
    BY <1>7, <1>13, <2>2 DEF Counted, o
<1>16. BehindTheShown(rows, v)
  <2>1. SUFFICES ASSUME Settled(q), w.writes \subseteq {"delete"} PROVE BehindTheShown(rows, v)
    BY <1>13 DEF BehindTheShown
  <2>2. /\ \A m, n \in DOMAIN w.shown : m < n => Before(q, w.shown[m], w.shown[n])
        /\ \A i \in rows : Cardinality(Ahead(rows, q, i)) >= o =>
               \A n \in DOMAIN w.shown : Before(q, w.shown[n], i)
    BY <1>4, <1>14, <2>1 DEF BehindTheShown, Walked, w
  <2>3. ASSUME NEW m \in DOMAIN shown, NEW n \in DOMAIN shown, m < n
        PROVE  Before(q, shown[m], shown[n])
    <3> DEFINE k == n - a
               j == m - a
    <3>1. m \in Nat /\ n \in Nat
      BY <1>11
    <3>2. CASE n \in 1 .. a
      <4>1. m \in DOMAIN w.shown /\ n \in DOMAIN w.shown
        BY <1>11, <2>3, <3>1, <3>2
      <4> QED
        BY <1>11, <2>2, <2>3, <4>1
    <3>3. CASE k \in DOMAIN items
      <4>1. k \in Nat \ {0} /\ n = a + k
        BY <1>11, <3>1, <3>3
      <4> HIDE DEF k
      <4>2. PICK d \in 1 .. N : d = o + k /\ shown[n] = s[d]
        BY <1>7, <1>11, <3>3, <4>1
      <4>3. CASE m \in 1 .. a
        <5>1. s[d] \in rows /\ Cardinality(Ahead(rows, q, s[d])) = d - 1
          BY <1>6, <1>9, <2>1
        <5>2. d - 1 >= o
          BY <1>8, <4>1, <4>2
        <5>3. Before(q, w.shown[m], s[d])
          BY <1>11, <2>2, <4>3, <5>1, <5>2
        <5> QED
          BY <1>11, <4>2, <4>3, <5>3
      <4>4. CASE j \in DOMAIN items
        <5>1. j \in Nat \ {0} /\ m = a + j
          BY <1>11, <3>1, <4>4
        <5> HIDE DEF j
        <5>2. shown[m] = s[o + j] /\ o + j \in 1 .. N
          BY <1>7, <1>11, <4>4, <5>1
        <5>3. o + j < o + k
          BY <1>8, <1>11, <2>3, <4>1, <5>1
        <5> QED
          BY <1>9, <2>1, <4>2, <5>2, <5>3
      <4> QED
        BY <1>11, <4>3, <4>4 DEF j
    <3> QED
      BY <1>11, <3>2, <3>3 DEF k
  <2>4. ASSUME NEW i \in rows, Cardinality(Ahead(rows, q, i)) >= o + size,
               NEW n \in DOMAIN shown
        PROVE  Before(q, shown[n], i)
    <3> DEFINE k == n - a
    <3>1. PICK m \in 1 .. N : s[m] = i /\ Cardinality(Ahead(rows, q, i)) = m - 1
      BY <1>9, <2>1
    <3>2. m - 1 >= o + size /\ m \in Nat
      BY <1>6, <2>4, <3>1
    <3>3. CASE n \in 1 .. a
      <4>1. Cardinality(Ahead(rows, q, i)) >= o
        BY <1>3, <1>8, <3>1, <3>2
      <4> QED
        BY <1>11, <2>2, <3>3, <4>1
    <3>4. CASE k \in DOMAIN items
      <4>1. k \in Nat \ {0} /\ n = a + k
        BY <1>11, <3>4
      <4> HIDE DEF k
      <4>2. shown[n] = s[o + k] /\ o + k \in 1 .. N /\ k <= size
        BY <1>7, <1>11, <3>4, <4>1
      <4>3. o + k < m
        BY <1>3, <1>8, <3>2, <4>1, <4>2
      <4> QED
        BY <1>9, <2>1, <3>1, <4>2, <4>3
    <3> QED
      BY <1>11, <3>3, <3>4 DEF k
  <2> QED
    BY <1>13, <1>14, <2>3, <2>4 DEF BehindTheShown
<1>17. /\ ShownSoFar(rows, v)
       /\ Settled(q) /\ w.writes \subseteq {"insert"} /\ w.first = 1 =>
              /\ w.begun \subseteq rows
              /\ \A i \in w.begun : Cardinality(Ahead(rows, q, i)) < o + size =>
                     \E n \in DOMAIN shown : shown[n] = i
  <2>1. SUFFICES ASSUME Settled(q), w.writes \subseteq {"insert"}, w.first = 1
                 PROVE  /\ w.begun \subseteq rows
                        /\ \A i \in w.begun : Cardinality(Ahead(rows, q, i)) < o + size =>
                               \E n \in DOMAIN shown : shown[n] = i
    BY <1>13, <1>14 DEF ShownSoFar
  <2>2. /\ w.begun \subseteq rows
        /\ \A i \in w.begun : Cardinality(Ahead(rows, q, i)) < o =>
               \E n \in DOMAIN w.shown : w.shown[n] = i
    BY <1>4, <1>14, <2>1 DEF ShownSoFar, Walked, w
  <2>3. ASSUME NEW i \in w.begun, Cardinality(Ahead(rows, q, i)) < o + size
        PROVE  \E n \in DOMAIN shown : shown[n] = i
    <3>1. PICK m \in 1 .. N : s[m] = i /\ Cardinality(Ahead(rows, q, i)) = m - 1
      BY <1>9, <2>1, <2>2
    <3>2. m - 1 < o + size /\ m \in Nat /\ m <= N
      BY <1>6, <2>3, <3>1
    <3>3. CASE m - 1 < o
      BY <1>11, <2>2, <3>1, <3>3
    <3>4. CASE ~(m - 1 < o)
      <4> DEFINE k == m - o
      <4>1. k \in 1 .. size /\ o + k = m /\ o + k <= N
        BY <1>3, <1>8, <3>2, <3>4
      <4> HIDE DEF k
      <4>2. k \in DOMAIN items /\ items[k] = i
        BY <1>7, <3>1, <4>1
      <4> QED
        BY <1>11, <4>2
    <3> QED
      BY <3>3, <3>4
  <2> QED
    BY <2>2, <2>3
<1>18. AllShown(v)
  <2>1. SUFFICES ASSUME Settled(q), w.writes \subseteq {"insert"}, w.first = 1, ~w.torn,
                        w.total_items <= o + size
                 PROVE  \A i \in w.begun : \E n \in DOMAIN shown : shown[n] = i
    BY <1>13 DEF AllShown, o
  <2>2. w.total_items = N
    BY <1>1, <1>4, <2>1 DEF Counted, Walked, N
  <2>3. ASSUME NEW i \in w.begun PROVE Cardinality(Ahead(rows, q, i)) < o + size
    <3>1. PICK m \in 1 .. N : s[m] = i /\ Cardinality(Ahead(rows, q, i)) = m - 1
      BY <1>9, <1>17, <2>1
    <3> QED
      BY <1>3, <1>6, <1>8, <2>1, <2>2, <3>1
  <2> QED
    BY <1>17, <2>1, <2>3
<1> QED
  BY <1>5, <1>15, <1>16, <1>17, <1>18 DEF WalkInv, Walked, v

\* Every step keeps the invariant of the walk.
LEMMA NextWalked ==
    ASSUME FiniteIds, TypeOK, WalkInv, [Next]_vars
    PROVE  WalkInv'
<1>1. CASE Begin
  BY <1>1, BeginWalked
<1>2. CASE Fetch
  BY <1>2, FetchWalked
<1>3. CASE NextPage
  BY <1>3, NextPageWalked
<1>4. CASE Stop
  BY <1>4 DEF Stop, WalkInv, NoWalk
<1>5. CASE Insert
  <2>1. \A q \in Query : Selected(q) \subseteq Selected(q)'
    BY <1>5 DEF Insert, Selected, TypeOK, Gone
  <2> QED
    BY <1>5, <2>1, WriteWalked DEF Insert, Writes
<1>6. CASE Update
  BY <1>6, WriteWalked DEF Update, Writes
<1>7. CASE Delete
  <2>1. \A q \in Query : Selected(q)' \subseteq Selected(q)
    BY <1>7 DEF Delete, Selected, TypeOK, Gone
  <2> QED
    BY <1>7, <2>1, WriteWalked DEF Delete, Writes
<1>8. CASE UNCHANGED vars
  BY <1>8 DEF WalkInv, Walked, Counted, BehindTheShown, ShownSoFar, AllShown, Skips, Selected, vars
<1> QED
  BY <1>1, <1>2, <1>3, <1>4, <1>5, <1>6, <1>7, <1>8 DEF Next

\* The invariant holds at the beginning and is kept.
LEMMA PagingInvHolds ==
    ASSUME FiniteIds
    PROVE  Spec => []PagingInv
<1>1. Init => PagingInv
  BY DEF Init, PagingInv, TypeOK, WalkInv, NoWalk, Gone
<1>2. PagingInv /\ [Next]_vars => PagingInv'
  BY NextType, NextWalked DEF PagingInv
<1> QED
  BY <1>1, <1>2, PTL DEF Spec

--------------------------------------------------------------------------------

\* A page that was answered: its offset, and what its metadata says of it.
LEMMA MetadataOfAPage ==
    ASSUME TypeOK, walk.phase = "answered"
    PROVE  LET w == walk
               size == w.query.page_size
               o == Offset(w.page, size)
           IN  /\ o \in Nat /\ size \in Nat \ {0} /\ w.total_items \in Nat
               /\ w.page * size = o + size
               /\ Metadata(w).page > Metadata(w).total_pages <=> o >= w.total_items
               /\ Metadata(w).has_next <=> o + size < w.total_items
<1>1. walk \in Walk /\ walk.page \in Nat \ {0} /\ walk.query.page_size \in Nat \ {0}
  BY Walking
<1>2. walk.total_items \in Nat
  BY <1>1 DEF Walk
<1>3. /\ Metadata(walk).page = walk.page
      /\ Metadata(walk).total_pages = TotalPages(walk.query.page_size, walk.total_items)
      /\ Metadata(walk).has_next <=>
             walk.page < TotalPages(walk.query.page_size, walk.total_items)
  BY DEF Metadata, BuildMetadata
<1> QED
  BY <1>1, <1>2, <1>3, Offsets, PageCount

\* build_metadata is computed from the COUNT, the items from the SELECT: without a
\* commit between the two they tell of the same pages.
THEOREM PagesFit == ASSUME FiniteIds PROVE Spec => []MetadataFits
<1>1. PagingInv => MetadataFits
  <2>1. SUFFICES ASSUME PagingInv, walk.phase = "answered", ~walk.torn PROVE MetadataFits
    BY DEF MetadataFits
  <2> DEFINE w == walk
             size == w.query.page_size
             o == Offset(w.page, size)
             total == w.total_items
             last == Smaller(size, total - o)
  <2>2. /\ o \in Nat /\ size \in Nat \ {0} /\ total \in Nat /\ w.page * size = o + size
        /\ Metadata(w).page > Metadata(w).total_pages <=> o >= total
        /\ Metadata(w).has_next <=> o + size < total
    BY <2>1, MetadataOfAPage DEF PagingInv
  <2>3. DOMAIN w.items = 1 .. last
    BY <2>1 DEF PagingInv, WalkInv, Walked, Counted
  <2>4. w.items \in Seq(Ids)
    BY <2>1, Walking DEF PagingInv, Walk
  <2> DEFINE items == w.items
             metadata == Metadata(w)
  <2>5. items = <<>> <=> Len(items) = 0
    BY <2>4, EmptySeq
  <2>6. Len(items) \in Nat /\ DOMAIN items = 1 .. Len(items)
    BY <2>4, LenProperties
  <2> HIDE DEF items, o, size, total, last
  <2>7. last \in Int /\ last <= size /\ last <= total - o /\ (last = size \/ last = total - o)
    BY <2>2 DEF last, Smaller
  <2>8. Len(items) = IF last >= 0 THEN last ELSE 0
    <3>1. 1 .. Len(items) = 1 .. last
      BY <2>3, <2>6 DEF items
    <3> QED
      BY <2>6, <2>7, <3>1, SameInterval
  <2>9. items = <<>> <=> o >= total
    BY <2>2, <2>5, <2>7, <2>8
  <2>10. o + size < total => Len(items) = size
    BY <2>2, <2>7, <2>8
  <2>11. o + size < total <=> total - w.page * size > 0
    BY <2>2
  <2> QED
    BY <2>2, <2>9, <2>10, <2>11 DEF MetadataFits, items, size, total
<1> QED
  BY <1>1, PagingInvHolds, PTL

\* The lists without a sort_by, and the payments, while rows are only deleted: pages go
\* on in the order of the list, so no row is shown twice - however COUNT and SELECT
\* disagree.
THEOREM PagesDoNotRepeat == ASSUME FiniteIds PROVE Spec => []NothingRepeated
<1>1. PagingInv => NothingRepeated
  <2>1. SUFFICES ASSUME PagingInv, walk.phase # "idle", Settled(walk.query),
                        walk.writes \subseteq {"delete"},
                        NEW m \in DOMAIN walk.shown, NEW n \in DOMAIN walk.shown, m < n
                 PROVE  Precedes(OrderBy(walk.query), walk.shown[m], walk.shown[n])
    BY DEF NothingRepeated
  <2>2. walk.query \in Query
    BY <2>1, Walking DEF PagingInv
  <2>3. Before(walk.query, walk.shown[m], walk.shown[n])
    BY <2>1 DEF PagingInv, WalkInv, Walked, BehindTheShown
  <2> QED
    BY <2>1, <2>2, <2>3, OrderedById
<1> QED
  BY <1>1, PagingInvHolds, PTL

\* Whoever follows has_next to the end of such a list is shown every row there was when
\* he began, while rows are only inserted, before or behind his page, and none between
\* a COUNT and its SELECT.
THEOREM PagesDoNotSkip == ASSUME FiniteIds PROVE Spec => []NothingSkipped
<1>1. PagingInv => NothingSkipped
  <2>1. SUFFICES ASSUME PagingInv, walk.phase = "answered", ~Metadata(walk).has_next,
                        walk.first = 1, Settled(walk.query),
                        walk.writes \subseteq {"insert"}, ~walk.torn
                 PROVE  walk.begun \subseteq ToSet(walk.shown)
    BY DEF NothingSkipped
  <2> DEFINE size == walk.query.page_size
             o == Offset(walk.page, size)
             total == walk.total_items
  <2>2. o \in Nat /\ size \in Nat /\ total \in Nat /\ ~(o + size < total)
    BY <2>1, MetadataOfAPage DEF PagingInv
  <2>3. total <= o + size
    <3> HIDE DEF o, size, total
    <3> QED
      BY <2>2
  <2>4. \A i \in walk.begun : \E n \in DOMAIN walk.shown : walk.shown[n] = i
    BY <2>1, <2>3 DEF PagingInv, WalkInv, Walked, AllShown
  <2> QED
    BY <2>4 DEF ToSet
<1> QED
  BY <1>1, PagingInvHolds, PTL

================================================================================
