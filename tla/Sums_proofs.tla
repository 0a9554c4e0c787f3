------------------------------- MODULE Sums_proofs -------------------------------
(****************************************************************************)
(* Sums over finite sets.  The payment controller and the dashboard add up  *)
(* amounts with SUM(...); the model does it with MapThenSumSet, which takes *)
(* the elements out of the set one by one, in an order that is not known.   *)
(* The lemmas here say that the order does not matter, and what a sum does  *)
(* when the set grows, is split or is grouped.                              *)
(*                                                                          *)
(* Numbers to be added are given as a table f, so that the lemmas are of    *)
(* first order.  Induction is by a smallest counterexample: a set of finite *)
(* sets that is not empty has a member none of whose proper subsets is in   *)
(* it.                                                                      *)
(****************************************************************************)
EXTENDS FiniteSetsExt, FiniteSetTheorems, TLAPS

Total(f, S) == MapThenSumSet(LAMBDA x : f[x], S)

Pick(s) == CHOOSE x \in s : TRUE

\* How the sum of a set is computed from the sums of smaller ones.
Partial(f, g, s) == IF s = {} THEN 0 ELSE f[Pick(s)] + g[s \ {Pick(s)}]

\* g holds the sums of all subsets of S.
Sums(f, g, S) == g = [s \in SUBSET S |-> Partial(f, g, s)]

\* A family of subsets of a finite set has a member without smaller ones in it.
LEMMA SmallestSet ==
    ASSUME NEW S, IsFiniteSet(S), NEW F, F \subseteq SUBSET S, F # {}
    PROVE  \E s \in F : \A t \in SUBSET s : t # s => t \notin F
<1>1. /\ F \subseteq FiniteSubsetsOf(S)
      /\ IsWellFoundedOn(StrictSubsetOrdering(S), FiniteSubsetsOf(S))
  BY FS_FiniteSubsetsOfFinite, FS_StrictSubsetOrderingWellFounded
<1>2. PICK s \in F : \A t \in F : ~(<<t, s>> \in StrictSubsetOrdering(S))
  BY <1>1, WFMin
<1>3. ASSUME NEW t \in SUBSET s, t # s, t \in F PROVE FALSE
  <2>1. <<t, s>> \in (SUBSET S) \X (SUBSET S)
    BY <1>3
  <2>2. <<t, s>> \in StrictSubsetOrdering(S)
    BY <1>3, <2>1 DEF StrictSubsetOrdering
  <2> QED
    BY <1>2, <1>3, <2>2
<1> QED
  BY <1>3

\* A set of natural numbers that is not empty has a least member.
LEMMA LeastNumber ==
    ASSUME NEW N, N \subseteq Nat, N # {}
    PROVE  \E n \in N : \A m \in N : n <= m
<1>1. PICK k \in N : TRUE
  OBVIOUS
<1> DEFINE I == 0 .. k
           G == {s \in SUBSET I : \E n \in N : s = 0 .. n}
<1>2. IsFiniteSet(I) /\ G \subseteq SUBSET I /\ I \in G
  BY <1>1, FS_Interval
<1>3. \E s \in G : \A t \in SUBSET s : t # s => t \notin G
  <2>1. G # {}
    BY <1>2
  <2> HIDE DEF G, I
  <2> QED
    BY <1>2, <2>1, SmallestSet
<1>4. PICK s \in G : \A t \in SUBSET s : t # s => t \notin G
  BY <1>3
<1>5. PICK n \in N : s = 0 .. n
  OBVIOUS
<1>6. ASSUME NEW m \in N, m < n PROVE FALSE
  <2>1. 0 .. m \in SUBSET s /\ 0 .. m # s
    BY <1>5, <1>6
  <2>2. 0 .. m \in G
    BY <2>1
  <2> QED
    BY <1>4, <2>1, <2>2
<1> QED
  BY <1>5, <1>6

\* An element of a set that is not empty.
LEMMA PickOne == ASSUME NEW s, s # {} PROVE Pick(s) \in s
BY DEF Pick

\* The sums of all subsets of a finite set exist: those of n elements give those of
\* n + 1.
LEMMA SumsExist ==
    ASSUME NEW S, IsFiniteSet(S), NEW f
    PROVE  \E g : Sums(f, g, S)
<1> DEFINE UpTo(g, n) ==
        /\ g = [s \in SUBSET S |-> g[s]]
        /\ \A s \in SUBSET S : Cardinality(s) <= n => g[s] = Partial(f, g, s)
<1>1. ASSUME NEW s \in SUBSET S
      PROVE  /\ IsFiniteSet(s) /\ Cardinality(s) \in Nat /\ Cardinality(s) <= Cardinality(S)
             /\ Cardinality(s) = 0 <=> s = {}
  BY FS_Subset, FS_CardinalityType, FS_EmptySet
<1>2. \E g : UpTo(g, 0)
  <2> DEFINE g == [s \in SUBSET S |-> 0]
  <2>1. ASSUME NEW s \in SUBSET S, Cardinality(s) <= 0 PROVE g[s] = Partial(f, g, s)
    BY <1>1, <2>1 DEF Partial
  <2>2. UpTo(g, 0)
    BY <2>1
  <2> QED
    BY <2>2
<1>3. ASSUME NEW n \in Nat, NEW g, UpTo(g, n) PROVE \E h : UpTo(h, n + 1)
  <2> DEFINE h == [s \in SUBSET S |-> Partial(f, g, s)]
  <2>1. \A s \in SUBSET S : Cardinality(s) <= n => h[s] = g[s]
    BY <1>3
  <2>2. ASSUME NEW s \in SUBSET S, Cardinality(s) <= n + 1 PROVE h[s] = Partial(f, h, s)
    <3>1. CASE s = {}
      BY <3>1 DEF Partial
    <3>2. CASE s # {}
      <4> DEFINE t == s \ {Pick(s)}
      <4>1. t \in SUBSET S /\ Cardinality(t) = Cardinality(s) - 1
        BY <1>1, <3>2, PickOne, FS_RemoveElement
      <4>2. Cardinality(t) <= n
        BY <1>1, <2>2, <4>1
      <4>3. h[t] = g[t]
        BY <2>1, <4>1, <4>2
      <4> QED
        BY <3>2, <4>3 DEF Partial
    <3> QED
      BY <3>1, <3>2
  <2> HIDE DEF h
  <2>3. h = [s \in SUBSET S |-> h[s]]
    BY DEF h
  <2> QED
    BY <2>2, <2>3
<1>4. \A n \in Nat : \E g : UpTo(g, n)
  <2> DEFINE N == {n \in Nat : ~\E g : UpTo(g, n)}
  <2> SUFFICES ASSUME N # {} PROVE FALSE
    OBVIOUS
  <2>1. PICK n \in N : \A m \in N : n <= m
    BY LeastNumber
  <2>2. n # 0
    BY <1>2, <2>1
  <2> HIDE DEF UpTo
  <2>3. n - 1 \in Nat /\ ~(n <= n - 1)
    BY <2>1, <2>2
  <2>4. PICK g : UpTo(g, n - 1)
    BY <2>1, <2>3
  <2>5. \E h : UpTo(h, (n - 1) + 1)
    BY <1>3, <2>3, <2>4
  <2>6. (n - 1) + 1 = n
    BY <2>1
  <2> QED
    BY <2>1, <2>5, <2>6
<1>5. Cardinality(S) \in Nat
  BY <1>1
<1>6. PICK g : UpTo(g, Cardinality(S))
  BY <1>4, <1>5
<1>7. \A s \in SUBSET S : g[s] = Partial(f, g, s)
  BY <1>1, <1>6
<1> QED
  BY <1>6, <1>7 DEF Sums

\* There is one way to give sums to the subsets, also across two sets and two tables.
LEMMA SumsUnique ==
    ASSUME NEW S, IsFiniteSet(S), NEW f, NEW g, Sums(f, g, S),
           NEW T, NEW e, NEW h, Sums(e, h, T), S \subseteq T,
           \A x \in S : f[x] = e[x]
    PROVE  \A s \in SUBSET S : g[s] = h[s]
<1> DEFINE F == {s \in SUBSET S : g[s] # h[s]}
<1> SUFFICES ASSUME F # {} PROVE FALSE
  OBVIOUS
<1>0. \E s \in F : \A t \in SUBSET s : t # s => t \notin F
  <2>1. F \subseteq SUBSET S
    OBVIOUS
  <2> HIDE DEF F
  <2> QED
    BY <2>1, SmallestSet
<1>1. PICK s \in F : \A t \in SUBSET s : t # s => t \notin F
  BY <1>0
<1>2. g[s] = Partial(f, g, s) /\ h[s] = Partial(e, h, s)
  BY DEF Sums
<1>3. s # {}
  BY <1>1, <1>2 DEF Partial
<1>4. Pick(s) \in s
  BY <1>3, PickOne
<1>5. s \ {Pick(s)} \in SUBSET S /\ s \ {Pick(s)} \notin F
  BY <1>1, <1>4
<1>6. g[s \ {Pick(s)}] = h[s \ {Pick(s)}] /\ f[Pick(s)] = e[Pick(s)]
  BY <1>4, <1>5
<1> QED
  BY <1>1, <1>2, <1>3, <1>6 DEF Partial

\* Total is the sum of the whole set.
LEMMA TotalIsSum ==
    ASSUME NEW S, IsFiniteSet(S), NEW f, NEW g, Sums(f, g, S)
    PROVE  Total(f, S) = g[S]
<1> DEFINE iter == CHOOSE h : h = [s \in SUBSET S |->
                        IF s = {} THEN 0
                        ELSE f[CHOOSE x \in s : TRUE] + h[s \ {CHOOSE x \in s : TRUE}]]
<1>1. Total(f, S) = iter[S]
  BY DEF Total, MapThenSumSet, MapThenFoldSet
<1>2. Sums(f, iter, S)
  <2>1. \A h : Sums(f, h, S) <=> h = [s \in SUBSET S |->
                        IF s = {} THEN 0
                        ELSE f[CHOOSE x \in s : TRUE] + h[s \ {CHOOSE x \in s : TRUE}]]
    BY DEF Sums, Partial, Pick
  <2>2. PICK h : Sums(f, h, S)
    BY SumsExist
  <2>3. h = [s \in SUBSET S |->
                        IF s = {} THEN 0
                        ELSE f[CHOOSE x \in s : TRUE] + h[s \ {CHOOSE x \in s : TRUE}]]
    BY <2>1, <2>2
  <2>4. iter = [s \in SUBSET S |->
                        IF s = {} THEN 0
                        ELSE f[CHOOSE x \in s : TRUE] + iter[s \ {CHOOSE x \in s : TRUE}]]
    BY <2>3, Zenon
  <2> QED
    BY <2>1, <2>4
<1>3. \A s \in SUBSET S : iter[s] = g[s]
  <2> HIDE DEF iter
  <2> QED
    BY <1>2, SumsUnique
<1> QED
  BY <1>1, <1>3

--------------------------------------------------------------------------------
(****************************************************************************)
(* What is used elsewhere.                                                  *)
(****************************************************************************)

\* Equal numbers have equal sums, and the sum of a part is found on the way.
LEMMA TotalOfPart ==
    ASSUME NEW S, IsFiniteSet(S), NEW f, NEW g, Sums(f, g, S),
           NEW T \in SUBSET S, NEW e, \A x \in T : e[x] = f[x]
    PROVE  Total(e, T) = g[T]
<1>1. IsFiniteSet(T)
  BY FS_Subset
<1>2. PICK h : Sums(e, h, T)
  BY <1>1, SumsExist
<1>3. Total(e, T) = h[T]
  BY <1>1, <1>2, TotalIsSum
<1>4. \A s \in SUBSET T : h[s] = g[s]
  BY <1>1, <1>2, SumsUnique
<1> QED
  BY <1>3, <1>4

\* The sum depends on the numbers of the set's elements only.
LEMMA TotalSame ==
    ASSUME NEW S, IsFiniteSet(S), NEW e, NEW f, \A x \in S : e[x] = f[x]
    PROVE  Total(e, S) = Total(f, S)
<1>1. PICK g : Sums(f, g, S)
  BY SumsExist
<1> QED
  BY <1>1, TotalOfPart, TotalIsSum

\* Nothing adds up to 0.
LEMMA TotalNothing == ASSUME NEW f PROVE Total(f, {}) = 0
<1>1. IsFiniteSet({})
  BY FS_EmptySet
<1>2. PICK g : Sums(f, g, {})
  BY <1>1, SumsExist
<1>3. g[{}] = 0
  BY <1>2 DEF Sums, Partial
<1> QED
  BY <1>1, <1>2, <1>3, TotalIsSum

\* Sums of natural numbers are natural numbers.
LEMMA SumsNatural ==
    ASSUME NEW S, IsFiniteSet(S), NEW f, \A x \in S : f[x] \in Nat, NEW g, Sums(f, g, S)
    PROVE  \A s \in SUBSET S : g[s] \in Nat
<1> DEFINE F == {s \in SUBSET S : g[s] \notin Nat}
<1> SUFFICES ASSUME F # {} PROVE FALSE
  OBVIOUS
<1>1. \E s \in F : \A t \in SUBSET s : t # s => t \notin F
  <2>1. F \subseteq SUBSET S
    OBVIOUS
  <2> HIDE DEF F
  <2> QED
    BY <2>1, SmallestSet
<1>2. PICK s \in F : \A t \in SUBSET s : t # s => t \notin F
  BY <1>1
<1>3. g[s] = Partial(f, g, s)
  BY DEF Sums
<1>4. s # {}
  BY <1>2, <1>3 DEF Partial
<1>5. Pick(s) \in s
  BY <1>4, PickOne
<1>6. g[s \ {Pick(s)}] \in Nat /\ f[Pick(s)] \in Nat
  BY <1>2, <1>5
<1>7. g[s] \in Nat
  BY <1>3, <1>4, <1>6 DEF Partial
<1> QED
  BY <1>2, <1>7

\* The sum is a natural number.
LEMMA TotalNatural ==
    ASSUME NEW S, IsFiniteSet(S), NEW f, \A x \in S : f[x] \in Nat
    PROVE  Total(f, S) \in Nat
<1>1. PICK g : Sums(f, g, S)
  BY SumsExist
<1> QED
  BY <1>1, SumsNatural, TotalIsSum

\* It does not matter which element is taken out first.
LEMMA SumsTakeOut ==
    ASSUME NEW S, IsFiniteSet(S), NEW f, \A x \in S : f[x] \in Nat, NEW g, Sums(f, g, S)
    PROVE  \A s \in SUBSET S : \A x \in s : g[s] = f[x] + g[s \ {x}]
<1> DEFINE F == {s \in SUBSET S : \E x \in s : g[s] # f[x] + g[s \ {x}]}
<1> SUFFICES ASSUME F # {} PROVE FALSE
  OBVIOUS
<1>1. \E s \in F : \A t \in SUBSET s : t # s => t \notin F
  <2>1. F \subseteq SUBSET S
    OBVIOUS
  <2> HIDE DEF F
  <2> QED
    BY <2>1, SmallestSet
<1>2. PICK s \in F : \A t \in SUBSET s : t # s => t \notin F
  BY <1>1
<1>3. PICK x \in s : g[s] # f[x] + g[s \ {x}]
  BY <1>2
<1> DEFINE c == Pick(s)
           t == (s \ {c}) \ {x}
<1>4. c \in s /\ s \in SUBSET S
  BY <1>2, <1>3, PickOne
<1>5. g[s] = f[c] + g[s \ {c}]
  BY <1>3, <1>4 DEF Sums, Partial
<1>6. c # x
  BY <1>3, <1>5
<1> HIDE DEF c
<1>7. s \ {c} \in SUBSET s /\ s \ {c} # s /\ s \ {x} \in SUBSET s /\ s \ {x} # s
  BY <1>3, <1>4
<1>8. s \ {c} \notin F /\ s \ {x} \notin F
  BY <1>2, <1>7
<1>9. g[s \ {c}] = f[x] + g[t]
  BY <1>3, <1>4, <1>6, <1>8
<1>10. g[s \ {x}] = f[c] + g[(s \ {x}) \ {c}]
  BY <1>3, <1>4, <1>6, <1>8
<1>11. g[(s \ {x}) \ {c}] = g[t]
  <2>1. (s \ {x}) \ {c} = t
    OBVIOUS
  <2> QED
    BY <2>1
<1>12. t \in SUBSET S
  BY <1>4
<1>13. f[x] \in Nat /\ f[c] \in Nat /\ g[t] \in Nat
  BY <1>3, <1>4, <1>12, SumsNatural
<1>14. g[s] = f[x] + g[s \ {x}]
  <2> DEFINE whole == g[s]
             withoutC == g[s \ {c}]
             withoutX == g[s \ {x}]
             without == g[t]
             here == f[x]
             there == f[c]
  <2>1. /\ whole = there + withoutC /\ withoutC = here + without
        /\ withoutX = there + without
    BY <1>5, <1>9, <1>10, <1>11
  <2>2. here \in Nat /\ there \in Nat /\ without \in Nat
    BY <1>13
  <2> HIDE DEF whole, withoutC, withoutX, without, here, there
  <2>3. whole = here + withoutX
    BY <2>1, <2>2
  <2> QED
    BY <2>3 DEF whole, withoutX, here
<1> QED
  BY <1>3, <1>14

\* An element counts once.
LEMMA TotalTakeOut ==
    ASSUME NEW S, IsFiniteSet(S), NEW f, \A x \in S : f[x] \in Nat, NEW x \in S
    PROVE  Total(f, S) = f[x] + Total(f, S \ {x})
<1>1. PICK g : Sums(f, g, S)
  BY SumsExist
<1>2. Total(f, S) = g[S] /\ Total(f, S \ {x}) = g[S \ {x}]
  BY <1>1, TotalOfPart
<1> QED
  BY <1>1, <1>2, SumsTakeOut

\* The same, for an element that comes in.
LEMMA TotalPutIn ==
    ASSUME NEW S, IsFiniteSet(S), NEW f, NEW x, x \notin S, \A y \in S \cup {x} : f[y] \in Nat
    PROVE  Total(f, S \cup {x}) = f[x] + Total(f, S)
<1>1. IsFiniteSet(S \cup {x})
  BY FS_AddElement
<1>2. (S \cup {x}) \ {x} = S
  OBVIOUS
<1> QED
  BY <1>1, <1>2, TotalTakeOut

\* The sum of a part is not larger.
LEMMA TotalOfFewer ==
    ASSUME NEW S, IsFiniteSet(S), NEW f, \A x \in S : f[x] \in Nat, NEW T \in SUBSET S
    PROVE  Total(f, T) <= Total(f, S)
<1> DEFINE F == {s \in SUBSET (S \ T) : ~(Total(f, T) <= Total(f, T \cup s))}
<1> SUFFICES ASSUME F # {} PROVE FALSE
  <2>1. S \ T \notin F
    OBVIOUS
  <2>2. T \cup (S \ T) = S
    OBVIOUS
  <2> QED
    BY <2>1, <2>2
<1>0. IsFiniteSet(T) /\ IsFiniteSet(S \ T)
  BY FS_Subset
<1>1. \E s \in F : \A t \in SUBSET s : t # s => t \notin F
  <2>1. F \subseteq SUBSET (S \ T)
    OBVIOUS
  <2> HIDE DEF F
  <2> QED
    BY <1>0, <2>1, SmallestSet
<1>2. PICK s \in F : \A t \in SUBSET s : t # s => t \notin F
  BY <1>1
<1>3. Total(f, T) \in Nat
  BY <1>0, TotalNatural
<1>4. s # {}
  <2> SUFFICES ASSUME s = {} PROVE FALSE
    OBVIOUS
  <2>1. T \cup s = T
    OBVIOUS
  <2>2. Total(f, T \cup s) = Total(f, T)
    BY <2>1
  <2> QED
    BY <1>2, <1>3, <2>2
<1>5. PICK x \in s : TRUE
  BY <1>4
<1> DEFINE t == s \ {x}
<1>6. Total(f, T) <= Total(f, T \cup t)
  BY <1>2, <1>5
<1>7. /\ T \cup s = (T \cup t) \cup {x} /\ x \notin T \cup t
      /\ T \cup t \in SUBSET S /\ (T \cup t) \cup {x} \in SUBSET S
  BY <1>2, <1>5
<1>8. IsFiniteSet(T \cup t)
  BY <1>7, FS_Subset
<1>9. Total(f, T \cup s) = f[x] + Total(f, T \cup t)
  BY <1>7, <1>8, TotalPutIn
<1>10. Total(f, T \cup t) \in Nat /\ f[x] \in Nat
  BY <1>7, <1>8, TotalNatural
<1> QED
  BY <1>2, <1>3, <1>6, <1>9, <1>10

\* The sums of two parts that share nothing add up to the sum of both.
LEMMA TotalOfBoth ==
    ASSUME NEW A, IsFiniteSet(A), NEW B, IsFiniteSet(B), A \cap B = {},
           NEW f, \A x \in A \cup B : f[x] \in Nat
    PROVE  Total(f, A \cup B) = Total(f, A) + Total(f, B)
<1> DEFINE F == {s \in SUBSET B : Total(f, A \cup s) # Total(f, A) + Total(f, s)}
<1> SUFFICES ASSUME F # {} PROVE FALSE
  OBVIOUS
<1>1. \E s \in F : \A t \in SUBSET s : t # s => t \notin F
  <2>1. F \subseteq SUBSET B
    OBVIOUS
  <2> HIDE DEF F
  <2> QED
    BY <2>1, SmallestSet
<1>2. PICK s \in F : \A t \in SUBSET s : t # s => t \notin F
  BY <1>1
<1>3. Total(f, A) \in Nat
  BY TotalNatural
<1>4. s # {}
  <2> SUFFICES ASSUME s = {} PROVE FALSE
    OBVIOUS
  <2>1. A \cup s = A
    OBVIOUS
  <2>2. Total(f, A \cup s) = Total(f, A) /\ Total(f, s) = 0
    BY <2>1, TotalNothing
  <2> QED
    BY <1>2, <1>3, <2>2
<1>5. PICK x \in s : TRUE
  BY <1>4
<1> DEFINE t == s \ {x}
<1>6. Total(f, A \cup t) = Total(f, A) + Total(f, t)
  BY <1>2, <1>5
<1>7. /\ A \cup s = (A \cup t) \cup {x} /\ x \notin A \cup t
      /\ s = t \cup {x} /\ x \notin t /\ t \in SUBSET B
  BY <1>2, <1>5
<1>8. IsFiniteSet(t) /\ IsFiniteSet(A \cup t)
  BY <1>7, FS_Subset, FS_Union
<1>9. /\ \A y \in (A \cup t) \cup {x} : f[y] \in Nat
      /\ \A y \in t \cup {x} : f[y] \in Nat
  BY <1>2, <1>5, <1>7
<1> HIDE DEF F, t
<1>10. Total(f, A \cup s) = f[x] + Total(f, A \cup t)
  <2>1. Total(f, (A \cup t) \cup {x}) = f[x] + Total(f, A \cup t)
    BY <1>7, <1>8, <1>9, TotalPutIn
  <2> QED
    BY <1>7, <2>1
<1>11. Total(f, s) = f[x] + Total(f, t)
  BY <1>7, <1>8, <1>9, TotalPutIn
<1>12. Total(f, t) \in Nat /\ f[x] \in Nat
  BY <1>8, <1>9, TotalNatural
<1> QED
  BY <1>2, <1>3, <1>6, <1>10, <1>11, <1>12 DEF F

\* Adding up group by group gives the sum of all.
LEMMA TotalByGroup ==
    ASSUME NEW P, IsFiniteSet(P), NEW f, \A p \in P : f[p] \in Nat,
           NEW R, IsFiniteSet(R), NEW k, \A p \in P : k[p] \in R,
           NEW of, \A r \in R : of[r] = {p \in P : k[p] = r},
           NEW g, \A r \in R : g[r] = Total(f, of[r])
    PROVE  Total(g, R) = Total(f, P)
<1> DEFINE Of(s) == {p \in P : k[p] \in s}
           F == {s \in SUBSET R : Total(g, s) # Total(f, Of(s))}
<1> SUFFICES ASSUME F # {} PROVE FALSE
  <2>1. Of(R) = P /\ R \notin F
    OBVIOUS
  <2> QED
    BY <2>1
<1>1. \E s \in F : \A t \in SUBSET s : t # s => t \notin F
  <2>1. F \subseteq SUBSET R
    OBVIOUS
  <2> HIDE DEF F
  <2> QED
    BY <2>1, SmallestSet
<1>2. PICK s \in F : \A t \in SUBSET s : t # s => t \notin F
  BY <1>1
<1>3. s # {}
  <2> SUFFICES ASSUME s = {} PROVE FALSE
    OBVIOUS
  <2>1. Of(s) = {}
    OBVIOUS
  <2>2. Total(g, s) = 0 /\ Total(f, Of(s)) = 0
    BY <2>1, TotalNothing
  <2> QED
    BY <1>2, <2>2
<1>4. PICK x \in s : TRUE
  BY <1>3
<1> DEFINE t == s \ {x}
           new == {p \in P : k[p] = x}
<1>5. Total(g, t) = Total(f, Of(t))
  BY <1>2, <1>4
<1>6. s \in SUBSET R /\ s = t \cup {x} /\ x \notin t /\ t \in SUBSET R /\ x \in R
  BY <1>2, <1>4
<1>7. Of(s) = Of(t) \cup new /\ Of(t) \cap new = {}
  BY <1>6
<1>8. /\ Of(t) \in SUBSET P /\ new \in SUBSET P
      /\ IsFiniteSet(Of(t)) /\ IsFiniteSet(new) /\ IsFiniteSet(t)
  <2>1. Of(t) \in SUBSET P /\ new \in SUBSET P
    OBVIOUS
  <2> QED
    BY <1>6, <2>1, FS_Subset
<1>9. \A r \in R : g[r] \in Nat
  <2>1. ASSUME NEW r \in R PROVE g[r] \in Nat
    <3>1. of[r] \in SUBSET P
      OBVIOUS
    <3>2. IsFiniteSet(of[r]) /\ \A p \in of[r] : f[p] \in Nat
      BY <3>1, FS_Subset
    <3> QED
      BY <3>2, TotalNatural
  <2> QED
    BY <2>1
<1>10. g[x] = Total(f, new)
  BY <1>6
<1> HIDE DEF F, t, new, Of
<1>11. Total(g, s) = g[x] + Total(g, t)
  BY <1>6, <1>8, <1>9, TotalPutIn
<1>12. Total(f, Of(s)) = Total(f, Of(t)) + Total(f, new)
  BY <1>7, <1>8, TotalOfBoth
<1>13. Total(f, Of(t)) \in Nat /\ Total(f, new) \in Nat
  BY <1>8, TotalNatural
<1>14. Total(g, s) = Total(f, Of(s))
  BY <1>5, <1>10, <1>11, <1>12, <1>13
<1> QED
  BY <1>2, <1>14 DEF F

\* Counting what two sets without common elements hold.
LEMMA CountOfBoth ==
    ASSUME NEW A, IsFiniteSet(A), NEW B, IsFiniteSet(B), A \cap B = {}
    PROVE  IsFiniteSet(A \cup B) /\ Cardinality(A \cup B) = Cardinality(A) + Cardinality(B)
<1>1. /\ IsFiniteSet(A \cup B)
      /\ Cardinality(A \cup B) = Cardinality(A) + Cardinality(B) - Cardinality(A \cap B)
  BY FS_Union
<1>2. Cardinality(A \cap B) = 0
  BY FS_EmptySet
<1>3. Cardinality(A) \in Nat /\ Cardinality(B) \in Nat
  BY FS_CardinalityType
<1> QED
  BY <1>1, <1>2, <1>3

\* Counting is adding up ones.
LEMMA CountIsTotal ==
    ASSUME NEW P, IsFiniteSet(P), NEW f, \A p \in P : f[p] = 1
    PROVE  Total(f, P) = Cardinality(P)
<1> DEFINE F == {s \in SUBSET P : Total(f, s) # Cardinality(s)}
<1> SUFFICES ASSUME F # {} PROVE FALSE
  OBVIOUS
<1>1. \E s \in F : \A t \in SUBSET s : t # s => t \notin F
  <2>1. F \subseteq SUBSET P
    OBVIOUS
  <2> HIDE DEF F
  <2> QED
    BY <2>1, SmallestSet
<1>2. PICK s \in F : \A t \in SUBSET s : t # s => t \notin F
  BY <1>1
<1>3. s # {}
  <2> SUFFICES ASSUME s = {} PROVE FALSE
    OBVIOUS
  <2>1. Total(f, s) = 0 /\ Cardinality(s) = 0
    BY TotalNothing, FS_EmptySet
  <2> QED
    BY <1>2, <2>1
<1>4. PICK x \in s : TRUE
  BY <1>3
<1> DEFINE t == s \ {x}
<1>5. Total(f, t) = Cardinality(t)
  BY <1>2, <1>4
<1>6. s = t \cup {x} /\ x \notin t /\ t \in SUBSET P /\ x \in P /\ s \in SUBSET P
  BY <1>2, <1>4
<1>7. IsFiniteSet(t)
  BY <1>6, FS_Subset
<1> HIDE DEF F, t
<1>8. Cardinality(s) = Cardinality(t) + 1 /\ Cardinality(t) \in Nat
  BY <1>6, <1>7, FS_AddElement, FS_CardinalityType
<1>9. f[x] = 1 /\ \A y \in t \cup {x} : f[y] \in Nat
  BY <1>6
<1>10. Total(f, s) = 1 + Total(f, t)
  BY <1>6, <1>7, <1>9, TotalPutIn
<1>11. Total(f, s) = Cardinality(s)
  BY <1>5, <1>8, <1>10
<1> QED
  BY <1>2, <1>11 DEF F

\* Counting group by group gives the count of all.
LEMMA CountByGroup ==
    ASSUME NEW P, IsFiniteSet(P), NEW R, IsFiniteSet(R), NEW k, \A p \in P : k[p] \in R,
           NEW of, \A r \in R : of[r] = {p \in P : k[p] = r},
           NEW g, \A r \in R : g[r] = Cardinality(of[r])
    PROVE  Total(g, R) = Cardinality(P)
<1> DEFINE f == [p \in P |-> 1]
<1>1. ASSUME NEW r \in R PROVE g[r] = Total(f, of[r])
  <2>1. of[r] \in SUBSET P
    OBVIOUS
  <2>2. IsFiniteSet(of[r]) /\ \A p \in of[r] : f[p] = 1
    BY <2>1, FS_Subset
  <2> QED
    BY <2>2, CountIsTotal
<1>2. (\A p \in P : f[p] = 1) /\ (\A p \in P : f[p] \in Nat)
  OBVIOUS
<1> HIDE DEF f
<1>3. Total(g, R) = Total(f, P)
  BY <1>1, <1>2, TotalByGroup
<1> QED
  BY <1>2, <1>3, CountIsTotal

================================================================================
