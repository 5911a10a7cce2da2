--------------------------- MODULE TripDaysProofs ---------------------------
(***************************************************************************)
(* TripDays: the dated days are the trip's dates, a stay is never inverted *)
(* and a booking keeps its day, for any number of rows, dates and calls.   *)
(***************************************************************************)
EXTENDS TripDays, FiniteSetTheorems, SequenceTheorems, TLAPS

-----------------------------------------------------------------------------
(* Lists of rows. *)

(* The list holds each row of the set once. *)
Lists(list, S) ==
    /\ list \in Seq(S) /\ Range(list) = S
    /\ \A k, l \in 1 .. Len(list) : list[k] = list[l] => k = l

(* The order of ORDER BY: by the column, then by the row. *)
Before(num, i, j) == num[i] < num[j] \/ (num[i] = num[j] /\ i < j)

Ascending(list, num) ==
    \A k, l \in 1 .. Len(list) : k < l => Before(num, list[k], list[l])

Below(S, num, i) == {j \in S : Before(num, j, i)}

(* A sequence is a function on its positions. *)
LEMMA ListFacts ==
    ASSUME NEW S, NEW list, Lists(list, S)
    PROVE  /\ Len(list) \in Nat /\ DOMAIN list = 1 .. Len(list)
           /\ list \in [1 .. Len(list) -> S]
           /\ \A k \in 1 .. Len(list) : list[k] \in S
           /\ \A i \in S : \E k \in 1 .. Len(list) : list[k] = i
BY DEF Lists, Range

(* The rows are finitely many. *)
LEMMA RowsFinite ==
    ASSUME NEW S \in SUBSET DayIds
    PROVE  IsFiniteSet(S) /\ Cardinality(S) \in Nat
<1>1. IsFiniteSet(DayIds)
  BY TripDaysAssumption, FS_Interval DEF DayIds
<1>2. IsFiniteSet(S)
  BY <1>1, FS_Subset
<1> QED
  BY <1>2, FS_CardinalityType

(* How long a list is: as many rows as there are. *)
LEMMA ListLength ==
    ASSUME NEW S \in SUBSET DayIds, NEW list, Lists(list, S)
    PROVE  Len(list) = Cardinality(S)
<1>1. list \in Bijection(1 .. Len(list), S)
  BY ListFacts DEF Lists, Bijection, Injection, Surjection, IsInjective
<1>2. ExistsBijection(1 .. Len(list), S) /\ Len(list) \in Nat
  BY <1>1, ListFacts DEF ExistsBijection
<1> QED
  BY <1>2, FS_CountingElements

(* The order is total. *)
LEMMA BeforeTotal ==
    ASSUME NEW num \in [DayIds -> Int]
    PROVE  /\ \A i, j \in DayIds : i # j => Before(num, i, j) \/ Before(num, j, i)
           /\ \A i, j \in DayIds : ~(Before(num, i, j) /\ Before(num, j, i))
           /\ \A i, j, k \in DayIds : Before(num, i, j) /\ Before(num, j, k) => Before(num, i, k)
BY DEF Before, DayIds

(* Who has fewer rows below comes first. *)
LEMMA RankGrows ==
    ASSUME NEW S \in SUBSET DayIds, NEW num \in [DayIds -> Int],
           NEW i \in S, NEW j \in S, Before(num, i, j)
    PROVE  Cardinality(Below(S, num, i)) < Cardinality(Below(S, num, j))
<1>1. Below(S, num, i) \subseteq Below(S, num, j)
  BY BeforeTotal DEF Below
<1>2. i \in Below(S, num, j) /\ i \notin Below(S, num, i)
  BY BeforeTotal DEF Below
<1>3. Below(S, num, j) \in SUBSET DayIds /\ Below(S, num, i) \in SUBSET DayIds
  BY DEF Below
<1>4. /\ IsFiniteSet(Below(S, num, j))
      /\ Cardinality(Below(S, num, j)) \in Nat /\ Cardinality(Below(S, num, i)) \in Nat
  BY <1>3, RowsFinite
<1>5. /\ Cardinality(Below(S, num, i)) <= Cardinality(Below(S, num, j))
      /\ Cardinality(Below(S, num, i)) # Cardinality(Below(S, num, j))
  BY <1>1, <1>2, <1>4, FS_Subset
<1> QED
  BY <1>4, <1>5

(* ByNumber lists the rows, in ascending order: the number of rows below is *)
(* another one for each, so every place of the list has its row.            *)
LEMMA ByNumberLists ==
    ASSUME NEW S \in SUBSET DayIds, NEW num \in [DayIds -> Int]
    PROVE  /\ Lists(ByNumber(S, num), S)
           /\ Ascending(ByNumber(S, num), num)
           /\ Len(ByNumber(S, num)) = Cardinality(S)
<1> DEFINE n == Cardinality(S)
           L == ByNumber(S, num)
           rank(i) == Cardinality(Below(S, num, i))
           f == [i \in S |-> rank(i) + 1]
<1>1. n \in Nat /\ IsFiniteSet(S)
  BY RowsFinite
<1>2. \A i \in S : rank(i) \in 0 .. n - 1
  <2> SUFFICES ASSUME NEW i \in S PROVE rank(i) \in 0 .. n - 1
    OBVIOUS
  <2>1. Below(S, num, i) \subseteq S /\ i \notin Below(S, num, i)
    BY BeforeTotal DEF Below
  <2>2. rank(i) \in Nat
    BY <2>1, RowsFinite
  <2>3. rank(i) <= n /\ rank(i) # n
    BY <1>1, <2>1, FS_Subset
  <2> QED
    BY <1>1, <2>2, <2>3
<1>3. \A i, j \in S : rank(i) = rank(j) => i = j
  <2> SUFFICES ASSUME NEW i \in S, NEW j \in S, i # j PROVE rank(i) # rank(j)
    OBVIOUS
  <2>1. rank(i) < rank(j) \/ rank(j) < rank(i)
    BY RankGrows, BeforeTotal
  <2> QED
    BY <1>2, <2>1
<1>4. \A k \in 1 .. n : \E i \in S : rank(i) = k - 1
  <2> HIDE DEF rank
  <2>1. f \in Injection(S, 1 .. n)
    BY <1>1, <1>2, <1>3 DEF Injection, IsInjective
  <2>2. IsFiniteSet(1 .. n) /\ Cardinality(1 .. n) = n
    BY <1>1, FS_Interval
  <2>3. f \in Surjection(S, 1 .. n)
    BY <2>1, <2>2, FS_Injection
  <2>4. ASSUME NEW k \in 1 .. n
        PROVE  \E i \in S : rank(i) = k - 1
    <3>1. PICK i \in S : f[i] = k
      BY <2>3 DEF Surjection
    <3>2. rank(i) + 1 = k /\ rank(i) \in 0 .. n - 1
      BY <1>2, <3>1
    <3> QED
      BY <1>1, <3>2
  <2> QED
    BY <2>4
<1>5. L = [k \in 1 .. n |-> CHOOSE i \in S : rank(i) = k - 1]
  BY DEF ByNumber, Below, Before
<1>6. \A k \in 1 .. n : L[k] \in S /\ rank(L[k]) = k - 1
  <2> HIDE DEF rank, L
  <2> QED
    BY <1>4, <1>5
<1>7. L \in Seq(S) /\ Len(L) = n /\ DOMAIN L = 1 .. n
  <2> HIDE DEF rank, L
  <2> QED
    BY <1>1, <1>5, <1>6
<1>8. Range(L) = S
  <2> HIDE DEF rank, L
  <2>1. ASSUME NEW i \in S
        PROVE  \E k \in 1 .. n : L[k] = i
    <3>1. rank(i) + 1 \in 1 .. n /\ (rank(i) + 1) - 1 = rank(i)
      BY <1>1, <1>2
    <3>2. rank(L[rank(i) + 1]) = rank(i) /\ L[rank(i) + 1] \in S
      BY <1>6, <3>1
    <3> QED
      BY <1>3, <3>1, <3>2
  <2> QED
    BY <1>6, <1>7, <2>1 DEF Range
<1>9. Ascending(L, num)
  <2> SUFFICES ASSUME NEW k \in 1 .. n, NEW l \in 1 .. n, k < l
               PROVE  Before(num, L[k], L[l])
    BY <1>7 DEF Ascending
  <2>1. rank(L[k]) < rank(L[l]) /\ L[k] \in S /\ L[l] \in S
    BY <1>6
  <2>2. L[k] # L[l] /\ ~Before(num, L[l], L[k])
    BY <1>2, <2>1, RankGrows
  <2> QED
    BY <2>1, <2>2, BeforeTotal
<1>10. \A k, l \in 1 .. n : L[k] = L[l] => k = l
  BY <1>1, <1>6
<1> QED
  BY <1>7, <1>8, <1>9, <1>10 DEF Lists

(* The only ascending list of the rows is the one ByNumber makes. *)
LEMMA AscendingIsByNumber ==
    ASSUME NEW S \in SUBSET DayIds, NEW num \in [DayIds -> Int],
           NEW list, Lists(list, S), Ascending(list, num)
    PROVE  ByNumber(S, num) = list
<1> DEFINE n == Cardinality(S)
           rank(i) == Cardinality(Below(S, num, i))
<1>1. /\ Len(list) = n /\ n \in Nat /\ list \in Seq(S) /\ DOMAIN list = 1 .. n
      /\ \A k \in 1 .. n : list[k] \in S
      /\ \A i \in S : \E k \in 1 .. n : list[k] = i
      /\ \A k, l \in 1 .. n : list[k] = list[l] => k = l
  BY ListFacts, ListLength DEF Lists
<1>2. ASSUME NEW k \in 1 .. n
      PROVE  rank(list[k]) = k - 1
  <2> DEFINE B == Below(S, num, list[k])
             f == [l \in 1 .. k - 1 |-> list[l]]
  <2>1. \A l \in 1 .. n : Before(num, list[l], list[k]) <=> l < k
    <3> SUFFICES ASSUME NEW l \in 1 .. n
                 PROVE  Before(num, list[l], list[k]) <=> l < k
      OBVIOUS
    <3>1. l < k => Before(num, list[l], list[k])
      BY <1>1 DEF Ascending
    <3>2. k < l => Before(num, list[k], list[l])
      BY <1>1 DEF Ascending
    <3>3. list[l] \in DayIds /\ list[k] \in DayIds
      BY <1>1
    <3>4. ~(Before(num, list[l], list[k]) /\ Before(num, list[k], list[l]))
      BY <3>3, BeforeTotal
    <3>5. k = l => ~Before(num, list[l], list[k])
      BY <3>4
    <3> QED
      BY <1>1, <3>1, <3>2, <3>4, <3>5
  <2>2. \A l \in 1 .. k - 1 : f[l] \in B
    BY <1>1, <2>1 DEF Below
  <2>3. \A j \in B : \E l \in 1 .. k - 1 : f[l] = j
    BY <1>1, <2>1 DEF Below
  <2>4. f \in Bijection(1 .. k - 1, B)
    <3>1. f \in [1 .. k - 1 -> B]
      BY <2>2
    <3>2. \A a, b \in 1 .. k - 1 : f[a] = f[b] => a = b
      BY <1>1
    <3> QED
      BY <2>3, <3>1, <3>2 DEF Bijection, Injection, Surjection, IsInjective
  <2>5. ExistsBijection(1 .. k - 1, B) /\ k - 1 \in Nat
    BY <1>1, <2>4 DEF ExistsBijection
  <2> QED
    BY <2>5, FS_CountingElements
<1>3. ByNumber(S, num) = [k \in 1 .. n |-> CHOOSE i \in S : rank(i) = k - 1]
  BY DEF ByNumber, Below, Before
<1>4. ASSUME NEW k \in 1 .. n
      PROVE  (CHOOSE i \in S : rank(i) = k - 1) = list[k]
  <2>1. \A i \in S : rank(i) = k - 1 => i = list[k]
    <3> SUFFICES ASSUME NEW i \in S, rank(i) = k - 1 PROVE i = list[k]
      OBVIOUS
    <3>1. PICK l \in 1 .. n : list[l] = i
      BY <1>1
    <3>2. l - 1 = k - 1
      BY <1>2, <3>1
    <3> QED
      BY <1>1, <3>1, <3>2
  <2>2. list[k] \in S /\ rank(list[k]) = k - 1
    BY <1>1, <1>2
  <2> HIDE DEF rank
  <2> QED
    BY <2>1, <2>2
<1>5. list = [k \in 1 .. n |-> list[k]]
  BY <1>1
<1> QED
  <2> HIDE DEF rank
  <2> QED
    BY <1>3, <1>4, <1>5

(* The first rows of a list, and the rest. *)
LEMMA FirstOf ==
    ASSUME NEW S, NEW list, Lists(list, S), NEW n \in Int
    PROVE  /\ Lists(First(list, n), Range(First(list, n)))
           /\ Range(First(list, n)) \subseteq S
           /\ Len(First(list, n)) = IF n < 0 THEN 0 ELSE Least(n, Len(list))
           /\ \A k \in 1 .. Len(First(list, n)) : First(list, n)[k] = list[k]
<1> DEFINE m == IF n < Len(list) THEN n ELSE Len(list)
           F == First(list, n)
<1>1. /\ Len(list) \in Nat /\ m \in Int /\ m <= Len(list)
      /\ \A k \in 1 .. m : list[k] \in S
      /\ \A k, l \in 1 .. Len(list) : list[k] = list[l] => k = l
  BY ListFacts DEF Lists
<1>2. F = SubSeq(list, 1, m)
  BY DEF First
<1>3. /\ F \in Seq(S) /\ Len(F) = IF 1 <= m THEN m - 1 + 1 ELSE 0
      /\ \A k \in 1 .. m - 1 + 1 : F[k] = list[1 + k - 1]
  <2> HIDE DEF m, F
  <2> QED
    BY <1>1, <1>2, SubSeqProperties
<1>4. /\ Len(F) = IF n < 0 THEN 0 ELSE Least(n, Len(list))
      /\ \A k \in 1 .. Len(F) : F[k] = list[k] /\ F[k] \in S /\ k \in 1 .. Len(list)
  BY <1>1, <1>3 DEF Least
<1>5. Range(F) \subseteq S /\ F \in Seq(Range(F))
  <2> HIDE DEF F
  <2> QED
    BY <1>3, <1>4 DEF Range
<1>6. \A k, l \in 1 .. Len(F) : F[k] = F[l] => k = l
  <2> HIDE DEF F
  <2> QED
    BY <1>1, <1>4
<1>7. Lists(F, Range(F))
  <2> HIDE DEF F
  <2> QED
    BY <1>5, <1>6 DEF Lists
<1> QED
  BY <1>4, <1>5, <1>7

(* AfterFirst is the list without its first element, in the same order. *)
LEMMA AfterOf ==
    ASSUME NEW S, NEW list, Lists(list, S), NEW n \in Nat
    PROVE  /\ Lists(After(list, n), Range(After(list, n)))
           /\ Range(After(list, n)) \subseteq S
           /\ Len(After(list, n)) = IF n <= Len(list) THEN Len(list) - n ELSE 0
           /\ \A k \in 1 .. Len(After(list, n)) :
                n + k \in 1 .. Len(list) /\ After(list, n)[k] = list[n + k]
<1> DEFINE F == After(list, n)
<1>1. /\ Len(list) \in Nat /\ n + 1 \in Int
      /\ \A k \in n + 1 .. Len(list) : list[k] \in S
      /\ \A k, l \in 1 .. Len(list) : list[k] = list[l] => k = l
  BY ListFacts DEF Lists
<1>2. F = SubSeq(list, n + 1, Len(list))
  BY DEF After
<1>3. /\ F \in Seq(S)
      /\ Len(F) = IF n + 1 <= Len(list) THEN Len(list) - (n + 1) + 1 ELSE 0
      /\ \A k \in 1 .. Len(list) - (n + 1) + 1 : F[k] = list[(n + 1) + k - 1]
  <2> HIDE DEF F
  <2> QED
    BY <1>1, <1>2, SubSeqProperties
<1>4. /\ Len(F) = IF n <= Len(list) THEN Len(list) - n ELSE 0
      /\ \A k \in 1 .. Len(F) : F[k] = list[n + k] /\ F[k] \in S /\ n + k \in 1 .. Len(list)
  <2> HIDE DEF F
  <2>1. Len(F) = IF n <= Len(list) THEN Len(list) - n ELSE 0
    BY <1>1, <1>3
  <2>2. ASSUME NEW k \in 1 .. Len(F)
        PROVE  F[k] = list[n + k] /\ F[k] \in S /\ n + k \in 1 .. Len(list)
    <3>1. k \in 1 .. Len(list) - (n + 1) + 1 /\ (n + 1) + k - 1 = n + k /\ n + k \in n + 1 .. Len(list)
      BY <1>1, <2>1
    <3> QED
      BY <1>1, <1>3, <3>1
  <2> QED
    BY <2>1, <2>2
<1>5. Range(F) \subseteq S /\ F \in Seq(Range(F))
  <2> HIDE DEF F
  <2> QED
    BY <1>3, <1>4 DEF Range
<1>6. \A k, l \in 1 .. Len(F) : F[k] = F[l] => k = l
  <2> HIDE DEF F
  <2>1. ASSUME NEW k \in 1 .. Len(F), NEW l \in 1 .. Len(F), F[k] = F[l]
        PROVE  k = l
    <3>1. list[n + k] = list[n + l] /\ n + k \in 1 .. Len(list) /\ n + l \in 1 .. Len(list)
      BY <1>4, <2>1
    <3>2. n + k = n + l
      BY <1>1, <3>1
    <3> QED
      BY <1>3, <3>2
  <2> QED
    BY <2>1
<1>7. Lists(F, Range(F))
  <2> HIDE DEF F
  <2> QED
    BY <1>5, <1>6 DEF Lists
<1> QED
  BY <1>4, <1>5, <1>7

(* The two parts have all the rows of the list and none in common, and the  *)
(* order of the list puts those of the first part first.                    *)
LEMMA SplitOf ==
    ASSUME NEW S, NEW list, Lists(list, S), NEW n \in Nat
    PROVE  /\ Range(First(list, n)) \cup Range(After(list, n)) = S
           /\ Range(First(list, n)) \cap Range(After(list, n)) = {}
           /\ \A num : Ascending(list, num) =>
                \A i \in Range(First(list, n)), j \in Range(After(list, n)) : Before(num, i, j)
<1> DEFINE F == First(list, n)
           A == After(list, n)
<1>1. /\ Len(list) \in Nat
      /\ \A k, l \in 1 .. Len(list) : list[k] = list[l] => k = l
      /\ \A i \in S : \E k \in 1 .. Len(list) : list[k] = i
  BY ListFacts DEF Lists
<1>2. /\ Lists(F, Range(F)) /\ Range(F) \subseteq S
      /\ Len(F) = IF n < 0 THEN 0 ELSE Least(n, Len(list))
      /\ \A k \in 1 .. Len(F) : F[k] = list[k]
  BY FirstOf
<1>3. /\ Lists(A, Range(A)) /\ Range(A) \subseteq S
      /\ Len(A) = IF n <= Len(list) THEN Len(list) - n ELSE 0
      /\ \A k \in 1 .. Len(A) : n + k \in 1 .. Len(list) /\ A[k] = list[n + k]
  BY AfterOf
<1> HIDE DEF F, A
<1>4. \A i \in Range(F) : \E k \in 1 .. Len(list) : k <= n /\ list[k] = i
  <2> SUFFICES ASSUME NEW i \in Range(F) PROVE \E k \in 1 .. Len(list) : k <= n /\ list[k] = i
    OBVIOUS
  <2>1. PICK k \in 1 .. Len(F) : F[k] = i
    BY <1>2, ListFacts
  <2>2. k \in 1 .. Len(list) /\ k <= n
    BY <1>1, <1>2, <2>1 DEF Least
  <2> QED
    BY <1>2, <2>1, <2>2
<1>5. \A i \in Range(A) : \E k \in 1 .. Len(list) : k > n /\ list[k] = i
  <2> SUFFICES ASSUME NEW i \in Range(A) PROVE \E k \in 1 .. Len(list) : k > n /\ list[k] = i
    OBVIOUS
  <2>1. PICK k \in 1 .. Len(A) : A[k] = i
    BY <1>3, ListFacts
  <2>2. n + k \in 1 .. Len(list) /\ n + k > n /\ list[n + k] = i
    BY <1>3, <2>1
  <2> QED
    BY <2>2
<1>6. ASSUME NEW i \in S
      PROVE  i \in Range(F) \cup Range(A)
  <2>1. PICK k \in 1 .. Len(list) : list[k] = i
    BY <1>1
  <2>2. CASE k <= n
    <3>1. k \in 1 .. Len(F) /\ F[k] = i
      BY <1>1, <1>2, <2>1, <2>2 DEF Least
    <3> QED
      BY <1>2, <3>1, ListFacts
  <2>3. CASE k > n
    <3>1. k - n \in 1 .. Len(A) /\ n + (k - n) = k
      BY <1>1, <1>3, <2>3
    <3>2. A[k - n] = i
      BY <1>3, <2>1, <3>1
    <3> QED
      BY <1>3, <3>1, <3>2, ListFacts
  <2> QED
    BY <1>1, <2>2, <2>3
<1>7. Range(F) \cap Range(A) = {}
  BY <1>1, <1>4, <1>5
<1>8. ASSUME NEW num, Ascending(list, num), NEW i \in Range(F), NEW j \in Range(A)
      PROVE  Before(num, i, j)
  <2>1. PICK k \in 1 .. Len(list) : k <= n /\ list[k] = i
    BY <1>4
  <2>2. PICK l \in 1 .. Len(list) : l > n /\ list[l] = j
    BY <1>5
  <2> QED
    BY <1>8, <2>1, <2>2 DEF Ascending
<1> QED
  BY <1>2, <1>3, <1>6, <1>7, <1>8 DEF F, A

(* Two lists without a row in common, one behind the other. *)
LEMMA ConcatLists ==
    ASSUME NEW S, NEW T, NEW s, NEW t, Lists(s, S), Lists(t, T), S \cap T = {}
    PROVE  /\ Lists(s \o t, S \cup T)
           /\ Len(s \o t) = Len(s) + Len(t)
           /\ \A k \in 1 .. Len(s) + Len(t) :
                (s \o t)[k] = IF k <= Len(s) THEN s[k] ELSE t[k - Len(s)]
<1> DEFINE u == s \o t
<1>1. /\ Len(s) \in Nat /\ Len(t) \in Nat
      /\ \A k \in 1 .. Len(s) : s[k] \in S
      /\ \A k \in 1 .. Len(t) : t[k] \in T
      /\ s \in Seq(S \cup T) /\ t \in Seq(S \cup T)
      /\ \A k, l \in 1 .. Len(s) : s[k] = s[l] => k = l
      /\ \A k, l \in 1 .. Len(t) : t[k] = t[l] => k = l
      /\ \A i \in S : \E k \in 1 .. Len(s) : s[k] = i
      /\ \A i \in T : \E k \in 1 .. Len(t) : t[k] = i
  BY ListFacts DEF Lists
<1>2. /\ u \in Seq(S \cup T) /\ Len(u) = Len(s) + Len(t)
      /\ \A k \in 1 .. Len(s) + Len(t) : u[k] = IF k <= Len(s) THEN s[k] ELSE t[k - Len(s)]
  BY <1>1, ConcatProperties
<1>3. Range(u) = S \cup T
  <2> HIDE DEF u
  <2>1. ASSUME NEW i \in S PROVE \E k \in 1 .. Len(u) : u[k] = i
    BY <1>1, <1>2
  <2>2. ASSUME NEW i \in T PROVE \E k \in 1 .. Len(u) : u[k] = i
    <3>1. PICK k \in 1 .. Len(t) : t[k] = i
      BY <1>1
    <3>2. u[Len(s) + k] = i /\ Len(s) + k \in 1 .. Len(u)
      BY <1>1, <1>2, <3>1
    <3> QED
      BY <3>2
  <2>3. DOMAIN u = 1 .. Len(u)
    BY <1>2
  <2> QED
    BY <1>2, <2>1, <2>2, <2>3 DEF Range
<1>4. \A k, l \in 1 .. Len(u) : u[k] = u[l] => k = l
  <2> HIDE DEF u
  <2> SUFFICES ASSUME NEW k \in 1 .. Len(u), NEW l \in 1 .. Len(u), u[k] = u[l] PROVE k = l
    OBVIOUS
  <2>1. CASE k <= Len(s) /\ l <= Len(s)
    BY <1>1, <1>2, <2>1
  <2>5. \A m \in 1 .. Len(u) : m > Len(s) => m - Len(s) \in 1 .. Len(t) /\ u[m] = t[m - Len(s)]
    BY <1>1, <1>2
  <2>2. CASE k > Len(s) /\ l > Len(s)
    <3>1. k - Len(s) = l - Len(s)
      BY <1>1, <2>2, <2>5
    <3> QED
      BY <1>1, <3>1
  <2>3. CASE k <= Len(s) /\ l > Len(s)
    <3>1. k \in 1 .. Len(s) /\ u[k] = s[k] /\ u[l] = t[l - Len(s)] /\ l - Len(s) \in 1 .. Len(t)
      BY <1>1, <1>2, <2>3, <2>5
    <3>2. u[k] \in S /\ u[l] \in T
      BY <1>1, <3>1
    <3> QED
      BY <3>2
  <2>4. CASE k > Len(s) /\ l <= Len(s)
    <3>1. l \in 1 .. Len(s) /\ u[l] = s[l] /\ u[k] = t[k - Len(s)] /\ k - Len(s) \in 1 .. Len(t)
      BY <1>1, <1>2, <2>4, <2>5
    <3>2. u[k] \in T /\ u[l] \in S
      BY <1>1, <3>1
    <3> QED
      BY <3>2
  <2> QED
    BY <1>1, <1>2, <2>1, <2>2, <2>3, <2>4
<1> QED
  BY <1>2, <1>3, <1>4 DEF Lists

-----------------------------------------------------------------------------
(* Slots and dates. *)

(* Numbering a list: the rows of the list are the days, each in its slot. *)
LEMMA NumberedRows ==
    ASSUME NEW S \in SUBSET DayIds, NEW list, Lists(list, S), Numbered(list)
    PROVE  /\ number' \in [DayIds -> Nat] /\ Existing' = S
           /\ \A k \in 1 .. Len(list) : number'[list[k]] = k
           /\ \A i \in S : number'[i] \in 1 .. Len(list) /\ list[number'[i]] = i
<1>1. /\ Len(list) \in Nat /\ DOMAIN list = 1 .. Len(list)
      /\ \A k \in 1 .. Len(list) : list[k] \in S
      /\ \A i \in S : \E k \in 1 .. Len(list) : list[k] = i
      /\ \A k, l \in 1 .. Len(list) : list[k] = list[l] => k = l
  BY ListFacts DEF Lists
<1>2. number' = [i \in DayIds |-> IF \E k \in 1 .. Len(list) : list[k] = i
                                  THEN CHOOSE k \in 1 .. Len(list) : list[k] = i ELSE 0]
  BY <1>1 DEF Numbered
<1>3. ASSUME NEW i \in S
      PROVE  number'[i] \in 1 .. Len(list) /\ list[number'[i]] = i
  BY <1>1, <1>2
<1>4. ASSUME NEW i \in DayIds \ S
      PROVE  number'[i] = 0
  BY <1>1, <1>2
<1>5. \A k \in 1 .. Len(list) : number'[list[k]] = k
  BY <1>1, <1>3
<1>6. number' \in [DayIds -> Nat]
  BY <1>1, <1>2, <1>3, <1>4
<1>7. Existing' = S
  BY <1>1, <1>3, <1>4 DEF Existing
<1> QED
  BY <1>3, <1>5, <1>6, <1>7

(* The row in a slot gets the date of the slot, the others none. *)
LEMMA DateOfSlot ==
    ASSUME NEW S, NEW g, Lists(g.list, S)
    PROVE  /\ \A k \in 1 .. Len(g.list) :
                DateOf(g, g.list[k]) = IF k \in DOMAIN g.dates THEN g.dates[k] ELSE 0
           /\ \A i : i \notin S => DateOf(g, i) = 0
<1> DEFINE list == g.list
           at(i) == CHOOSE k \in DOMAIN list : list[k] = i
<1>1. /\ DOMAIN list = 1 .. Len(list)
      /\ \A k \in 1 .. Len(list) : list[k] \in S
      /\ \A k, l \in 1 .. Len(list) : list[k] = list[l] => k = l
  BY ListFacts DEF Lists
<1>2. \A k \in 1 .. Len(list) : at(list[k]) = k
  BY <1>1
<1>3. \A i : DateOf(g, i) = IF \E k \in DOMAIN g.dates : k \in DOMAIN list /\ list[k] = i
                            THEN g.dates[at(i)] ELSE 0
  BY DEF DateOf
<1> HIDE DEF list, at
<1>4. ASSUME NEW k \in 1 .. Len(list)
      PROVE  DateOf(g, list[k]) = IF k \in DOMAIN g.dates THEN g.dates[k] ELSE 0
  <2>1. (\E l \in DOMAIN g.dates : l \in DOMAIN list /\ list[l] = list[k]) <=> k \in DOMAIN g.dates
    BY <1>1
  <2> QED
    BY <1>2, <1>3, <2>1
<1>5. ASSUME NEW i, i \notin S
      PROVE  DateOf(g, i) = 0
  BY <1>1, <1>3, <1>5
<1> QED
  BY <1>4, <1>5 DEF list

(* The rows to be inserted: free ones, as many as asked for and as there are. *)
LEMMA NewRowsOf ==
    ASSUME number \in [DayIds -> Nat], NEW m \in Int
    PROVE  /\ Lists(NewRows(m), Range(NewRows(m)))
           /\ Range(NewRows(m)) \subseteq Free
           /\ Len(NewRows(m)) = IF m < 0 THEN 0 ELSE Least(m, MaxDayRows - Cardinality(Existing))
<1> DEFINE list == ByNumber(Free, [i \in DayIds |-> i])
<1>1. Free \in SUBSET DayIds /\ [i \in DayIds |-> i] \in [DayIds -> Int]
  BY DEF Free, DayIds
<1>2. Lists(list, Free) /\ Len(list) = Cardinality(Free)
  BY <1>1, ByNumberLists
<1>3. Cardinality(Free) = MaxDayRows - Cardinality(Existing)
  <2>1. IsFiniteSet(DayIds) /\ Cardinality(DayIds) = MaxDayRows
    BY TripDaysAssumption, FS_Interval DEF DayIds
  <2>2. DayIds \cap Existing = Existing
    BY DEF Existing
  <2> QED
    BY <2>1, <2>2, FS_Difference DEF Free
<1>4. NewRows(m) = First(list, m)
  BY DEF NewRows
<1> HIDE DEF list
<1> QED
  BY <1>2, <1>3, <1>4, FirstOf

(* Where there is room, the next row is a free one. *)
LEMMA NewRow ==
    ASSUME number \in [DayIds -> Nat], Free # {}
    PROVE  NewRows(1)[1] \in Free
<1>1. Existing \in SUBSET DayIds /\ Existing # DayIds
  BY DEF Free, Existing
<1>2. Cardinality(Existing) \in Nat /\ Cardinality(Existing) < MaxDayRows
  <2>1. IsFiniteSet(DayIds) /\ Cardinality(DayIds) = MaxDayRows
    BY TripDaysAssumption, FS_Interval DEF DayIds
  <2>2. Cardinality(Existing) <= MaxDayRows /\ Cardinality(Existing) # MaxDayRows
    BY <1>1, <2>1, FS_Subset
  <2> QED
    BY <1>1, <2>2, RowsFinite, TripDaysAssumption
<1>3. Len(NewRows(1)) = 1
  <2>1. Len(NewRows(1)) = IF 1 < 0 THEN 0 ELSE Least(1, MaxDayRows - Cardinality(Existing))
    BY NewRowsOf
  <2> DEFINE room == MaxDayRows - Cardinality(Existing)
  <2>2. room \in Int /\ ~(room < 1)
    BY <1>2, TripDaysAssumption
  <2>3. Least(1, room) = 1
    <3> HIDE DEF room
    <3> QED
      BY <2>2 DEF Least
  <2>4. ~(1 < 0)
    OBVIOUS
  <2> QED
    BY <2>1, <2>3, <2>4
<1>4. NewRows(1)[1] \in Range(NewRows(1))
  BY <1>3, NewRowsOf, ListFacts
<1> QED
  BY <1>4, NewRowsOf

-----------------------------------------------------------------------------
(* Generating the days. *)

(* The days deleted and the rows listed are apart, and no other day is lost. *)
Keeps(g) ==
    /\ g.gone \in SUBSET Existing
    /\ Range(g.list) \in SUBSET DayIds /\ Lists(g.list, Range(g.list))
    /\ Range(g.list) \cap g.gone = {}
    /\ Existing \ g.gone \subseteq Range(g.list)

(* The days that were there keep their order. *)
InNumberOrder(list) ==
    \A k, l \in 1 .. Len(list) :
        k < l /\ list[k] \in Existing /\ list[l] \in Existing
            => number[list[k]] <= number[list[l]]

(* The reverse of an enumeration enumerates the same set. *)
LEMMA ReverseLists ==
    ASSUME NEW S, NEW list, Lists(list, S)
    PROVE  Lists(Reverse(list), S)
<1> DEFINE n == Len(list)
           rev == Reverse(list)
<1>1. /\ n \in Nat /\ \A k \in 1 .. n : list[k] \in S
      /\ \A i \in S : \E k \in 1 .. n : list[k] = i
      /\ \A k, l \in 1 .. n : list[k] = list[l] => k = l
  BY ListFacts DEF Lists
<1>2. rev = [k \in 1 .. n |-> list[(n - k) + 1]]
  BY DEF Reverse
<1> HIDE DEF n, rev
<1>3. \A k \in 1 .. n : (n - k) + 1 \in 1 .. n
  BY <1>1
<1>4. rev \in Seq(S) /\ Len(rev) = n /\ DOMAIN rev = 1 .. n /\ \A k \in 1 .. n : rev[k] \in S
  BY <1>1, <1>2, <1>3
<1>5. ASSUME NEW i \in S
      PROVE  \E k \in 1 .. n : rev[k] = i
  <2>1. PICK l \in 1 .. n : list[l] = i
    BY <1>1
  <2>2. (n - l) + 1 \in 1 .. n /\ (n - ((n - l) + 1)) + 1 = l
    BY <1>1
  <2>3. rev[(n - l) + 1] = list[l]
    BY <1>2, <2>2
  <2> QED
    BY <2>1, <2>2, <2>3
<1>6. ASSUME NEW k \in 1 .. n, NEW l \in 1 .. n, rev[k] = rev[l]
      PROVE  k = l
  <2>1. (n - k) + 1 = (n - l) + 1
    BY <1>1, <1>2, <1>3, <1>6
  <2> QED
    BY <1>1, <2>1
<1>7. Range(rev) = S
  BY <1>4, <1>5 DEF Range
<1> QED
  BY <1>4, <1>6, <1>7 DEF Lists, rev

(* Without dates.  While the slots have no gap a number is never taken. *)
LEMMA UndatedKeeps ==
    ASSUME TripDaysTypeOK, RowsSound, NEW count \in Nat
    PROVE  /\ Keeps(Undated(count)) /\ Undated(count).dates = << >>
           /\ InNumberOrder(Undated(count).list)
           /\ tidy = "yes" => Undated(count).ok
<1> DEFINE n == Cardinality(Existing)
           target == Least(Most(IF count # 0 THEN count ELSE IF n = 0 THEN 7 ELSE n, 1), MaxTripDays)
           added == NewRows(target - n)
           num == [i \in DayIds |->
                     IF i \in Range(added) THEN n + (CHOOSE k \in DOMAIN added : added[k] = i)
                     ELSE number[i]]
           empty == {i \in Existing : Empty(i, stay)}
           trimmed == Range(First(Reverse(ByNumber(empty, number)), n - target))
<1>1. Undated(count) =
        IF target > n
        THEN [ok |-> \A i \in Existing, j \in Range(added) : num[i] # num[j],
              list |-> ByNumber(Existing \cup Range(added), num),
              dates |-> << >>, gone |-> {}]
        ELSE [ok |-> TRUE, list |-> ByNumber(Existing \ trimmed, number),
              dates |-> << >>, gone |-> trimmed]
  BY DEF Undated
<1>2. /\ Existing \in SUBSET DayIds /\ empty \in SUBSET Existing /\ n \in Nat
      /\ number \in [DayIds -> Nat] /\ number \in [DayIds -> Int]
  BY RowsFinite DEF Existing, TripDaysTypeOK
<1>3. target \in Int
  BY <1>2, TripDaysAssumption DEF Least, Most
<1>4. Lists(added, Range(added)) /\ Range(added) \subseteq Free
  BY <1>2, <1>3, NewRowsOf
<1> HIDE DEF target, added, n
<1>5. \A i \in Range(added) : num[i] \in Nat /\ num[i] > n /\ i \in DayIds
  <2> SUFFICES ASSUME NEW i \in Range(added) PROVE num[i] \in Nat /\ num[i] > n /\ i \in DayIds
    OBVIOUS
  <2>1. (CHOOSE k \in DOMAIN added : added[k] = i) \in 1 .. Len(added) /\ Len(added) \in Nat
    BY <1>4, ListFacts
  <2>2. i \in DayIds
    BY <1>4 DEF Free
  <2> QED
    BY <1>2, <2>1, <2>2
<1>6. \A i \in Existing : num[i] = number[i]
  BY <1>2, <1>4 DEF Free
<1>7. num \in [DayIds -> Int]
  <2>1. \A i \in DayIds : num[i] \in Int
    <3> SUFFICES ASSUME NEW i \in DayIds PROVE num[i] \in Int
      OBVIOUS
    <3>1. CASE i \in Range(added)
      <4> HIDE DEF num
      <4> QED
        BY <1>5, <3>1
    <3>2. CASE i \notin Range(added)
      <4>1. num[i] = number[i]
        BY <3>2
      <4>2. number[i] \in Int
        BY <1>2
      <4> QED
        BY <4>1, <4>2
    <3> QED
      BY <3>1, <3>2
  <2> QED
    BY <2>1
<1> HIDE DEF num
<1>8. CASE target > n
  <2> DEFINE S == Existing \cup Range(added)
             list == ByNumber(S, num)
  <2>1. S \in SUBSET DayIds
    BY <1>2, <1>4 DEF Free
  <2>2. Lists(list, S) /\ Ascending(list, num)
    BY <1>7, <2>1, ByNumberLists
  <2>3. Undated(count) = [ok |-> \A i \in Existing, j \in Range(added) : num[i] # num[j],
                          list |-> list, dates |-> << >>, gone |-> {}]
    BY <1>1, <1>8
  <2> HIDE DEF list
  <2>4. Keeps(Undated(count))
    BY <2>1, <2>2, <2>3 DEF Keeps, Lists
  <2>5. InNumberOrder(Undated(count).list)
    <3> SUFFICES ASSUME NEW k \in 1 .. Len(list), NEW l \in 1 .. Len(list),
                        k < l, list[k] \in Existing, list[l] \in Existing
                 PROVE  number[list[k]] <= number[list[l]]
      BY <2>3 DEF InNumberOrder
    <3>1. num[list[k]] <= num[list[l]]
      BY <1>7, <2>1, <2>2 DEF Ascending, Before
    <3> QED
      BY <1>6, <3>1
  <2>6. ASSUME tidy = "yes", NEW i \in Existing, NEW j \in Range(added)
        PROVE  num[i] # num[j]
    <3>1. number[i] <= n /\ number[i] \in Nat
      BY <1>2, <2>6 DEF RowsSound, n
    <3> QED
      BY <1>2, <1>5, <1>6, <3>1
  <2> QED
    BY <2>3, <2>4, <2>5, <2>6
<1>9. CASE ~(target > n)
  <2> DEFINE list == ByNumber(Existing \ trimmed, number)
  <2>1. trimmed \subseteq Existing
    <3>1. Lists(Reverse(ByNumber(empty, number)), empty)
      BY <1>2, ByNumberLists, ReverseLists
    <3>2. n - target \in Int
      BY <1>2, <1>3
    <3> QED
      BY <1>2, <3>1, <3>2, FirstOf
  <2> HIDE DEF trimmed
  <2>2. Lists(list, Existing \ trimmed) /\ Ascending(list, number)
    BY <1>2, ByNumberLists
  <2>3. Undated(count) = [ok |-> TRUE, list |-> list, dates |-> << >>, gone |-> trimmed]
    BY <1>1, <1>9 DEF trimmed
  <2> HIDE DEF list
  <2>4. Keeps(Undated(count))
    BY <1>2, <2>1, <2>2, <2>3 DEF Keeps, Lists
  <2>5. InNumberOrder(Undated(count).list)
    <3> SUFFICES ASSUME NEW k \in 1 .. Len(list), NEW l \in 1 .. Len(list),
                        k < l, list[k] \in Existing, list[l] \in Existing
                 PROVE  number[list[k]] <= number[list[l]]
      BY <2>3 DEF InNumberOrder
    <3>1. number[list[k]] \in Int /\ number[list[l]] \in Int
      BY <1>2
    <3> QED
      BY <2>2, <3>1 DEF Ascending, Before
  <2> QED
    BY <2>3, <2>4, <2>5
<1> QED
  BY <1>8, <1>9

(* Lists in order, behind one another. *)
LEMMA ConcatInOrder ==
    ASSUME NEW S, NEW T, NEW s, NEW t, Lists(s, S), Lists(t, T), S \cap T = {},
           InNumberOrder(s), InNumberOrder(t),
           \A i \in S \cap Existing, j \in T \cap Existing : number[i] <= number[j]
    PROVE  InNumberOrder(s \o t)
<1> DEFINE u == s \o t
<1>1. /\ Len(s) \in Nat /\ Len(t) \in Nat
      /\ \A k \in 1 .. Len(s) : s[k] \in S
      /\ \A k \in 1 .. Len(t) : t[k] \in T
  BY ListFacts
<1>2. /\ Len(u) = Len(s) + Len(t)
      /\ \A k \in 1 .. Len(s) + Len(t) : u[k] = IF k <= Len(s) THEN s[k] ELSE t[k - Len(s)]
  BY ConcatLists
<1> HIDE DEF u
<1>3. \A k \in 1 .. Len(u) : k <= Len(s) => k \in 1 .. Len(s) /\ u[k] = s[k]
  BY <1>1, <1>2
<1>4. \A k \in 1 .. Len(u) : ~(k <= Len(s)) => k - Len(s) \in 1 .. Len(t) /\ u[k] = t[k - Len(s)]
  BY <1>1, <1>2
<1>5. ASSUME NEW k \in 1 .. Len(u), NEW l \in 1 .. Len(u), k < l,
             u[k] \in Existing, u[l] \in Existing
      PROVE  number[u[k]] <= number[u[l]]
  <2>1. CASE l <= Len(s)
    <3>1. k <= Len(s)
      BY <1>1, <1>5, <2>1
    <3> QED
      BY <1>3, <1>5, <2>1, <3>1 DEF InNumberOrder
  <2>2. CASE k <= Len(s) /\ ~(l <= Len(s))
    BY <1>1, <1>3, <1>4, <1>5, <2>2
  <2>3. CASE ~(k <= Len(s))
    <3>1. ~(l <= Len(s)) /\ k - Len(s) < l - Len(s)
      BY <1>1, <1>2, <1>5, <2>3
    <3> QED
      BY <1>4, <1>5, <2>3, <3>1 DEF InNumberOrder
  <2> QED
    BY <2>1, <2>2, <2>3
<1> QED
  BY <1>5 DEF InNumberOrder, u

(* An ascending list is in order, and so is what is first in it. *)
LEMMA AscendingInOrder ==
    ASSUME number \in [DayIds -> Nat], NEW S \in SUBSET DayIds, NEW list, Lists(list, S),
           Ascending(list, number), NEW n \in Nat
    PROVE  InNumberOrder(list) /\ InNumberOrder(First(list, n))
<1>1. InNumberOrder(list)
  <2> SUFFICES ASSUME NEW k \in 1 .. Len(list), NEW l \in 1 .. Len(list), k < l
               PROVE  number[list[k]] <= number[list[l]]
    BY DEF InNumberOrder
  <2>1. number[list[k]] \in Int /\ number[list[l]] \in Int
    BY ListFacts
  <2> QED
    BY <2>1 DEF Ascending, Before
<1>2. /\ Len(First(list, n)) <= Len(list) /\ Len(First(list, n)) \in Nat
      /\ \A k \in 1 .. Len(First(list, n)) : First(list, n)[k] = list[k]
  <2>1. /\ Len(First(list, n)) = IF n < 0 THEN 0 ELSE Least(n, Len(list))
        /\ \A k \in 1 .. Len(First(list, n)) : First(list, n)[k] = list[k]
    BY FirstOf
  <2>2. Len(list) \in Nat
    BY ListFacts
  <2> QED
    BY <2>1, <2>2 DEF Least
<1>3. Len(list) \in Nat
  BY ListFacts
<1> QED
  BY <1>1, <1>2, <1>3 DEF InNumberOrder

(* With dates.  As many rows as there are dates come first. *)
LEMMA DatedKeeps ==
    ASSUME TripDaysTypeOK, RowsSound, NEW start \in Nat, NEW end \in Nat
    PROVE  LET g == Dated(start, end)
               n == Most(Least(end - start + 1, MaxTripDays), 0)
           IN  /\ Keeps(g) /\ g.ok
               /\ n \in Nat /\ n <= Len(g.list)
               /\ g.dates = [k \in 1 .. n |-> start + k - 1]
               /\ DatedFirst => InNumberOrder(g.list)
<1> DEFINE n == Most(Least(end - start + 1, MaxTripDays), 0)
           D == {i \in Existing : date[i] # 0}
           E == {i \in Existing : date[i] = 0}
           dated == ByNumber(D, number)
           dateless == ByNumber(E, number)
           part == First(dated, n)
           reused == First(dateless, Most(n - Len(dated), 0))
           overflow == Range(After(dated, n))
           left == After(dateless, Len(reused))
           K == {i \in Range(left) : ~Empty(i, Without(overflow).stay)}
           kept == ByNumber(K, number)
           added == NewRows(n - Len(dated) - Len(dateless))
           gone == overflow \cup (Range(left) \ Range(kept))
           list == part \o reused \o added \o kept
<1>1. Dated(start, end) = [ok |-> TRUE, list |-> list,
                           dates |-> [k \in 1 .. n |-> start + k - 1], gone |-> gone]
  BY DEF Dated
<1>2. n \in Nat /\ n <= MaxDayRows
  BY TripDaysAssumption DEF Most, Least
<1> HIDE DEF n
<1>3. /\ Existing \in SUBSET DayIds /\ D \in SUBSET DayIds /\ E \in SUBSET DayIds
      /\ number \in [DayIds -> Nat] /\ number \in [DayIds -> Int]
      /\ D \cap E = {} /\ D \cup E = Existing
  BY DEF Existing, TripDaysTypeOK
<1>4. /\ Lists(dated, D) /\ Ascending(dated, number) /\ Len(dated) \in Nat
      /\ Lists(dateless, E) /\ Ascending(dateless, number) /\ Len(dateless) \in Nat
      /\ Len(dated) + Len(dateless) = Cardinality(Existing)
      /\ Cardinality(Existing) \in Nat /\ Cardinality(Existing) <= MaxDayRows
  <2>1. /\ Lists(dated, D) /\ Ascending(dated, number) /\ Len(dated) = Cardinality(D)
        /\ Lists(dateless, E) /\ Ascending(dateless, number) /\ Len(dateless) = Cardinality(E)
    BY <1>3, ByNumberLists
  <2> HIDE DEF D, E, dated, dateless
  <2>2. IsFiniteSet(D) /\ IsFiniteSet(E) /\ Cardinality(D) \in Nat /\ Cardinality(E) \in Nat
    BY <1>3, RowsFinite
  <2>3. Cardinality(Existing) = Cardinality(D) + Cardinality(E) - Cardinality(D \cap E)
    BY <1>3, <2>2, FS_Union
  <2>4. Cardinality(D \cap E) = 0
    BY <1>3, FS_EmptySet
  <2>5. Cardinality(Existing) \in Nat /\ Cardinality(Existing) <= MaxDayRows
    <3>1. IsFiniteSet(DayIds) /\ Cardinality(DayIds) = MaxDayRows
      BY TripDaysAssumption, FS_Interval DEF DayIds
    <3> QED
      BY <1>3, <3>1, FS_Subset, RowsFinite
  <2> QED
    BY <2>1, <2>2, <2>3, <2>4, <2>5
<1>5. D \subseteq Existing /\ E \subseteq Existing
  OBVIOUS
<1>6. DatedFirst => \A i \in D, j \in E : number[i] <= number[j]
  BY <1>3 DEF DatedFirst
<1> HIDE DEF D, E, dated, dateless
<1>7. /\ Lists(part, Range(part)) /\ Range(part) \subseteq D
      /\ Len(part) = IF n < 0 THEN 0 ELSE Least(n, Len(dated))
      /\ Range(part) \cup overflow = D /\ Range(part) \cap overflow = {}
      /\ InNumberOrder(part)
  BY <1>2, <1>3, <1>4, FirstOf, SplitOf, AscendingInOrder
<1>8. Most(n - Len(dated), 0) \in Nat
  BY <1>2, <1>4 DEF Most
<1>9. /\ Lists(reused, Range(reused)) /\ Range(reused) \subseteq E
      /\ Len(reused) = IF Most(n - Len(dated), 0) < 0 THEN 0
                       ELSE Least(Most(n - Len(dated), 0), Len(dateless))
      /\ InNumberOrder(reused)
  BY <1>3, <1>4, <1>8, FirstOf, AscendingInOrder
<1>10. Len(reused) \in Nat
  BY <1>9, ListFacts
<1>11. reused = First(dateless, Len(reused))
  <2>1. Len(reused) = Least(Most(n - Len(dated), 0), Len(dateless))
    BY <1>8, <1>9
  <2> QED
    BY <1>4, <1>8, <2>1 DEF First, Least
<1> HIDE DEF reused
<1>12. /\ Lists(left, Range(left)) /\ Range(left) \subseteq E
       /\ Range(reused) \cup Range(left) = E /\ Range(reused) \cap Range(left) = {}
       /\ \A i \in Range(reused), j \in Range(left) : Before(number, i, j)
  BY <1>4, <1>10, <1>11, AfterOf, SplitOf
<1> HIDE DEF part, overflow, left
<1>13. K \subseteq Range(left) /\ K \in SUBSET DayIds
  BY <1>3, <1>12
<1>14. Lists(kept, K) /\ Range(kept) = K /\ InNumberOrder(kept)
  <2>1. Lists(kept, K) /\ Ascending(kept, number)
    BY <1>3, <1>13, ByNumberLists
  <2> QED
    BY <1>3, <1>13, <2>1, AscendingInOrder DEF Lists
<1>15. n - Len(dated) - Len(dateless) \in Int
  BY <1>2, <1>4
<1>16. /\ Lists(added, Range(added)) /\ Range(added) \subseteq Free
       /\ Len(added) = IF n - Len(dated) - Len(dateless) < 0 THEN 0
                       ELSE Least(n - Len(dated) - Len(dateless), MaxDayRows - Cardinality(Existing))
  BY <1>3, <1>15, NewRowsOf
<1>17. Range(added) \cap Existing = {} /\ InNumberOrder(added) /\ Range(added) \subseteq DayIds
  BY <1>16, ListFacts DEF Free, InNumberOrder
<1> HIDE DEF K, kept, added
<1> DEFINE a == part \o reused
           b == a \o added
           RA == Range(part) \cup Range(reused)
           RB == RA \cup Range(added)
           RL == RB \cup K
<1>a. /\ Range(part) \cap Range(reused) = {} /\ RA \subseteq Existing
      /\ RA \cap Range(added) = {} /\ RB \cap K = {}
  BY <1>3, <1>5, <1>7, <1>9, <1>12, <1>13, <1>17
<1>18. Lists(a, RA) /\ Len(a) = Len(part) + Len(reused)
  <2>1. /\ Lists(part, Range(part)) /\ Lists(reused, Range(reused))
        /\ Range(part) \cap Range(reused) = {}
    BY <1>7, <1>9, <1>a
  <2>2. Lists(part \o reused, Range(part) \cup Range(reused))
    BY <2>1, ConcatLists
  <2>3. Len(part \o reused) = Len(part) + Len(reused)
    BY <2>1, ConcatLists
  <2> QED
    BY <2>2, <2>3
<1> HIDE DEF a
<1>19. Lists(b, RB) /\ Len(b) = Len(a) + Len(added)
  <2>1. Lists(a, RA) /\ Lists(added, Range(added)) /\ RA \cap Range(added) = {}
    BY <1>16, <1>18, <1>a
  <2> HIDE DEF RA
  <2>2. Lists(a \o added, RA \cup Range(added))
    BY <2>1, ConcatLists
  <2>3. Len(a \o added) = Len(a) + Len(added)
    BY <2>1, ConcatLists
  <2> QED
    BY <2>2, <2>3
<1> HIDE DEF b
<1>20. list = b \o kept
  BY DEF a, b
<1>21. Lists(b \o kept, RL) /\ Len(b \o kept) = Len(b) + Len(kept)
  <2>1. Lists(b, RB) /\ Lists(kept, K) /\ RB \cap K = {}
    BY <1>14, <1>19, <1>a
  <2> HIDE DEF RB
  <2>2. Lists(b \o kept, RB \cup K)
    BY <2>1, ConcatLists
  <2>3. Len(b \o kept) = Len(b) + Len(kept)
    BY <2>1, ConcatLists
  <2> QED
    BY <2>2, <2>3
<1>22. n <= Len(list)
  <2>1. Len(part) + Len(reused) + Len(added) = n
    <3>1. CASE Len(dated) >= n
      <4>1. Len(part) = n
        BY <1>2, <1>4, <1>7, <3>1 DEF Least
      <4>2. Most(n - Len(dated), 0) = 0
        BY <1>2, <1>4, <3>1 DEF Most
      <4>3. Len(reused) = 0
        BY <1>4, <1>9, <4>2 DEF Least
      <4>4. Len(added) = 0
        BY <1>2, <1>4, <1>16, TripDaysAssumption, <3>1 DEF Least
      <4> QED
        BY <1>2, <4>1, <4>3, <4>4
    <3>2. CASE Len(dated) < n
      <4>1. Len(part) = Len(dated) /\ Most(n - Len(dated), 0) = n - Len(dated)
        BY <1>2, <1>4, <1>7, <3>2 DEF Most, Least
      <4>2. CASE Len(dateless) >= n - Len(dated)
        BY <1>2, <1>4, <1>9, <1>16, <3>2, <4>1, <4>2 DEF Least
      <4>3. CASE Len(dateless) < n - Len(dated)
        <5>1. Len(reused) = Len(dateless)
          BY <1>2, <1>4, <1>9, <3>2, <4>1, <4>3 DEF Least
        <5>2. Len(added) = n - Len(dated) - Len(dateless)
          BY <1>2, <1>4, <1>16, TripDaysAssumption, <4>3 DEF Least
        <5> QED
          BY <1>2, <1>4, <4>1, <5>1, <5>2
      <4> QED
        BY <1>2, <1>4, <4>2, <4>3
    <3> QED
      BY <1>2, <1>4, <3>1, <3>2
  <2>2. Len(kept) \in Nat
    BY <1>14, ListFacts
  <2> QED
    BY <1>2, <1>18, <1>19, <1>20, <1>21, <2>1, <2>2
<1>23. Keeps(Dated(start, end))
  <2>1. Range(b \o kept) = RL /\ Lists(b \o kept, RL)
    BY <1>21 DEF Lists
  <2>2. gone \subseteq Existing /\ RL \cap gone = {} /\ Existing \ gone \subseteq RL
    BY <1>3, <1>5, <1>7, <1>9, <1>12, <1>13, <1>14, <1>16, <1>17
  <2>3. RL \in SUBSET DayIds
    BY <1>3, <1>7, <1>9, <1>13, <1>17
  <2>4. Dated(start, end).gone = gone /\ Dated(start, end).list = b \o kept
    BY <1>1, <1>20
  <2> HIDE DEF gone, RL
  <2> QED
    BY <2>1, <2>2, <2>3, <2>4 DEF Keeps
<1>24. ASSUME DatedFirst
       PROVE  InNumberOrder(list)
  <2>1. InNumberOrder(a)
    BY <1>6, <1>7, <1>9, <1>24, <1>a, ConcatInOrder DEF a
  <2>2. InNumberOrder(b)
    <3> HIDE DEF RA
    <3> QED
      BY <1>16, <1>17, <1>18, <1>a, <2>1, ConcatInOrder DEF b
  <2>3. ASSUME NEW i \in RB \cap Existing, NEW j \in K \cap Existing
        PROVE  number[i] <= number[j]
    <3>1. j \in Range(left) /\ j \in E
      BY <1>12, <1>13
    <3>2. CASE i \in Range(part)
      BY <1>6, <1>7, <1>24, <3>1, <3>2
    <3>3. CASE i \in Range(reused)
      <4>1. Before(number, i, j) /\ number[i] \in Nat /\ number[j] \in Nat
        BY <1>3, <1>12, <3>1, <3>3
      <4> QED
        BY <4>1 DEF Before
    <3> QED
      BY <1>17, <3>2, <3>3
  <2> HIDE DEF RB
  <2> QED
    BY <1>14, <1>19, <1>20, <1>a, <2>2, <2>3, ConcatInOrder
<1> QED
  BY <1>1, <1>2, <1>22, <1>23, <1>24 DEF n

-----------------------------------------------------------------------------
(* What a list of rows with dates makes of the days. *)

Pinned(g) ==
    /\ Numbered(g.list)
    /\ date' = [i \in DayIds |-> DateOf(g, i)]

(* The dated rows after generateDays: the k-th date of the range is on the k-th row. *)
LEMMA Slots ==
    ASSUME NEW S \in SUBSET DayIds, NEW g, Lists(g.list, S), g.dates \in Seq(Nat \ {0}), Pinned(g)
    PROVE  /\ number' \in [DayIds -> Nat] /\ date' \in [DayIds -> Nat] /\ Existing' = S
           /\ \A i, j \in S : number'[i] = number'[j] => i = j
           /\ \A i \in DayIds : date'[i] # 0 => i \in S
           /\ \A i \in S : number'[i] <= Cardinality(S)
           /\ \A k \in 1 .. Len(g.list) :
                /\ number'[g.list[k]] = k
                /\ date'[g.list[k]] = IF k <= Len(g.dates) THEN g.dates[k] ELSE 0
<1>1. /\ number' \in [DayIds -> Nat] /\ Existing' = S
      /\ \A k \in 1 .. Len(g.list) : number'[g.list[k]] = k
      /\ \A i \in S : number'[i] \in 1 .. Len(g.list) /\ g.list[number'[i]] = i
  BY NumberedRows DEF Pinned
<1>2. /\ Len(g.list) = Cardinality(S) /\ Len(g.list) \in Nat
      /\ \A k \in 1 .. Len(g.list) : g.list[k] \in S
  BY ListLength, ListFacts
<1>3. /\ \A k \in 1 .. Len(g.list) :
            date'[g.list[k]] = IF k \in DOMAIN g.dates THEN g.dates[k] ELSE 0
      /\ \A i \in DayIds : i \notin S => date'[i] = 0
  BY <1>2, DateOfSlot DEF Pinned
<1>4. /\ DOMAIN g.dates = 1 .. Len(g.dates) /\ Len(g.dates) \in Nat
      /\ \A k \in 1 .. Len(g.dates) : g.dates[k] \in Nat \ {0}
  OBVIOUS
<1>5. \A k \in 1 .. Len(g.list) : date'[g.list[k]] = IF k <= Len(g.dates) THEN g.dates[k] ELSE 0
  BY <1>2, <1>3, <1>4
<1>6. \A i \in DayIds : date'[i] \in Nat
  <2>1. \A i \in S : date'[i] \in Nat
    BY <1>1, <1>2, <1>4, <1>5
  <2> QED
    BY <1>3, <2>1
<1>7. date' \in [DayIds -> Nat]
  BY <1>6 DEF Pinned
<1> QED
  BY <1>1, <1>2, <1>3, <1>5, <1>7

(* The dated days, in order, are the first ones of the list. *)
LEMMA SlotsDated ==
    ASSUME NEW S \in SUBSET DayIds, NEW g, Lists(g.list, S), g.dates \in Seq(Nat \ {0}), Pinned(g),
           Len(g.dates) <= Len(g.list)
    PROVE  LET dated == ByNumber({i \in Existing' : date'[i] # 0}, number')
           IN  /\ Len(dated) = Len(g.dates) /\ DOMAIN dated = 1 .. Len(g.dates)
               /\ \A k \in 1 .. Len(g.dates) : date'[dated[k]] = g.dates[k]
<1> DEFINE D == {i \in Existing' : date'[i] # 0}
           m == Len(g.dates)
           L == First(g.list, m)
<1>1. /\ number' \in [DayIds -> Int] /\ Existing' = S
      /\ \A k \in 1 .. Len(g.list) :
           /\ number'[g.list[k]] = k
           /\ date'[g.list[k]] = IF k <= Len(g.dates) THEN g.dates[k] ELSE 0
  <2>1. number' \in [DayIds -> Nat]
    BY Slots
  <2>2. number' \in [DayIds -> Int]
    BY <2>1
  <2>3. Existing' = S
    BY Slots
  <2>4. \A k \in 1 .. Len(g.list) :
           /\ number'[g.list[k]] = k
           /\ date'[g.list[k]] = IF k <= Len(g.dates) THEN g.dates[k] ELSE 0
    BY Slots
  <2> QED
    BY <2>2, <2>3, <2>4
<1>2. /\ Len(g.list) \in Nat /\ m \in Nat /\ m <= Len(g.list)
      /\ \A k \in 1 .. m : g.dates[k] # 0
      /\ \A k \in 1 .. Len(g.list) : g.list[k] \in S
      /\ \A i \in S : \E k \in 1 .. Len(g.list) : g.list[k] = i
  BY ListFacts
<1>3. /\ Lists(L, Range(L)) /\ Len(L) = m
      /\ \A k \in 1 .. m : L[k] = g.list[k]
  <2>1. /\ Lists(L, Range(L)) /\ Len(L) = IF m < 0 THEN 0 ELSE Least(m, Len(g.list))
        /\ \A k \in 1 .. Len(L) : L[k] = g.list[k]
    BY <1>2, FirstOf
  <2>2. Len(L) = m
    BY <1>2, <2>1 DEF Least
  <2> QED
    BY <2>1, <2>2
<1> HIDE DEF L
<1>4. \A k \in 1 .. m : L[k] \in D /\ number'[L[k]] = k /\ date'[L[k]] = g.dates[k]
  BY <1>1, <1>2, <1>3
<1>5. \A i \in D : \E k \in 1 .. m : L[k] = i
  <2> SUFFICES ASSUME NEW i \in D PROVE \E k \in 1 .. m : L[k] = i
    OBVIOUS
  <2>1. PICK k \in 1 .. Len(g.list) : g.list[k] = i
    BY <1>1, <1>2
  <2>2. k <= m
    BY <1>1, <2>1
  <2> QED
    BY <1>2, <1>3, <2>1, <2>2
<1>6. Range(L) = D
  <2>1. DOMAIN L = 1 .. m
    BY <1>3, ListFacts
  <2>2. \A k \in 1 .. m : L[k] \in D
    BY <1>4
  <2> HIDE DEF D, m
  <2> QED
    BY <1>5, <2>1, <2>2 DEF Range
<1>7. Ascending(L, number')
  BY <1>2, <1>3, <1>4 DEF Ascending, Before
<1>8. ByNumber(D, number') = L
  <2>1. D \in SUBSET DayIds /\ Lists(L, D)
    BY <1>1, <1>3, <1>6
  <2> HIDE DEF D
  <2> QED
    BY <1>1, <1>7, <2>1, AscendingIsByNumber
<1>9. DOMAIN L = 1 .. m
  BY <1>3, ListFacts
<1> QED
  BY <1>3, <1>4, <1>8, <1>9

(* Where the dated days keep their dates and slots, so does the list of them. *)
LEMMA SameDated ==
    ASSUME TripDaysTypeOK, DatesMatchTrip, number' \in [DayIds -> Nat],
           {i \in Existing' : date'[i] # 0} = {i \in Existing : date[i] # 0},
           \A i \in Existing : date[i] # 0 => number'[i] = number[i] /\ date'[i] = date[i],
           tidy' = tidy, range' = range
    PROVE  DatesMatchTrip'
<1> DEFINE D == {i \in Existing : date[i] # 0}
           L == ByNumber(D, number)
           E == {i \in Existing' : date'[i] # 0}
<1>1. number \in [DayIds -> Int] /\ number' \in [DayIds -> Int] /\ D \in SUBSET DayIds
  BY DEF TripDaysTypeOK, Existing
<1>2. Lists(L, D) /\ Ascending(L, number)
  BY <1>1, ByNumberLists
<1>3. \A i \in D : number'[i] = number[i] /\ date'[i] = date[i]
  OBVIOUS
<1>4. DOMAIN L = 1 .. Len(L) /\ \A k \in 1 .. Len(L) : L[k] \in D
  BY <1>2, ListFacts
<1>5. E = D
  OBVIOUS
<1> HIDE DEF D, L, E
<1>6. Ascending(L, number')
  BY <1>2, <1>3, <1>4 DEF Ascending, Before
<1>7. ByNumber(E, number') = L
  BY <1>1, <1>2, <1>5, <1>6, AscendingIsByNumber
<1>8. \A k \in DOMAIN L : date'[L[k]] = date[L[k]]
  BY <1>3, <1>4
<1> SUFFICES ASSUME tidy' = "yes"
             PROVE  IF range'[1] = 0 \/ range'[2] = 0 THEN ByNumber(E, number') = << >>
                    ELSE LET n == Most(range'[2] - range'[1] + 1, 0)
                         IN  /\ \A k \in DOMAIN ByNumber(E, number') :
                                  date'[ByNumber(E, number')[k]] = range'[1] + k - 1
                             /\ \/ Len(ByNumber(E, number')) = n
                                \/ /\ Len(ByNumber(E, number')) < n
                                   /\ Len(ByNumber(E, number')) = MaxTripDays
  BY DEF DatesMatchTrip, E
<1>9. IF range[1] = 0 \/ range[2] = 0 THEN L = << >>
      ELSE LET n == Most(range[2] - range[1] + 1, 0)
           IN  /\ \A k \in DOMAIN L : date[L[k]] = range[1] + k - 1
               /\ Len(L) = n \/ (Len(L) < n /\ Len(L) = MaxTripDays)
  BY DEF DatesMatchTrip, D, L
<1> QED
  BY <1>7, <1>8, <1>9

-----------------------------------------------------------------------------
(* The calls. *)

StayKept == DatedFirst /\ InOrder(stay) => InOrder(stay)'

StayPut == \E i, j \in DayIds : PutStay(i, j)
Booked == \E day \in 0 .. MaxDayRows, d \in 0 .. MaxDate : Book(day, d)

BookingKept ==
    OnItsDay => \/ OnItsDay' \/ booking'.day = 0
                \/ date'[booking'.day] = 0
                \/ \A i \in DayIds : date'[i] # booking'.date

StepGood ==
    /\ TripDaysTypeOK' /\ RowsSound' /\ DatesMatchTrip'
    /\ StayKept \/ StayPut
    /\ BookingKept \/ Booked

(* A stay that is in use names two rows. *)
LEMMA StayRows ==
    ASSUME NEW st \in {<< >>} \cup (DayIds \X DayIds)
    PROVE  /\ st = << >> => Range(st) = {}
           /\ st # << >> => Range(st) = {st[1], st[2]} /\ st[1] \in DayIds /\ st[2] \in DayIds
<1>1. CASE st = << >>
  BY <1>1 DEF Range
<1>2. CASE st \in DayIds \X DayIds
  <2>1. st = <<st[1], st[2]>> /\ DOMAIN st = 1 .. 2
    BY <1>2
  <2>2. Range(st) = {st[1], st[2]}
    BY <2>1 DEF Range
  <2> QED
    BY <1>2, <2>1, <2>2
<1> QED
  BY <1>1, <1>2

(* What is left of the stay and the booking's day when rows are deleted. *)
LEMMA WithoutRows ==
    ASSUME TripDaysTypeOK, RowsSound, NEW gone
    PROVE  /\ Without(gone).stay = << >> \/ Without(gone).stay = stay
           /\ Range(Without(gone).stay) \subseteq Existing \ gone
           /\ Without(gone).day = 0 \/ Without(gone).day = booking.day
           /\ Without(gone).day # 0 => Without(gone).day \in Existing \ gone
<1>1. Range(<< >>) = {}
  BY StayRows
<1> QED
  BY <1>1 DEF Without, RowsSound, TripDaysTypeOK

(* shift_all: the booking gets the new date of its day. *)
LEMMA RestampedBooking ==
    ASSUME TripDaysTypeOK, date' \in [DayIds -> Nat],
           NEW day, day = 0 \/ day = booking.day, booking' = Restamped(day, date')
    PROVE  booking' \in [day : {0} \cup DayIds, date : Nat] /\ booking'.day = day /\ BookingKept
<1>1. booking.day \in {0} \cup DayIds /\ booking.date \in Nat /\ day \in {0} \cup DayIds
  BY DEF TripDaysTypeOK
<1>2. booking'.day = day
  BY DEF Restamped
<1>3. CASE day # 0 /\ booking.date # 0 /\ date[day] # 0 /\ date'[day] # 0
  <2>1. booking' = [day |-> day, date |-> IF date[day] = date'[day] THEN booking.date ELSE date'[day]]
    BY <1>3 DEF Restamped
  <2>2. date'[day] \in Nat
    BY <1>1, <1>3
  <2>3. booking' \in [day : {0} \cup DayIds, date : Nat]
    BY <1>1, <2>1, <2>2
  <2>4. OnItsDay => OnItsDay'
    BY <1>3, <2>1 DEF OnItsDay
  <2> QED
    BY <1>2, <2>3, <2>4 DEF BookingKept
<1>4. CASE ~(day # 0 /\ booking.date # 0 /\ date[day] # 0 /\ date'[day] # 0)
  <2>1. booking' = [day |-> day, date |-> booking.date]
    BY <1>4 DEF Restamped
  <2>2. OnItsDay => day = 0 \/ date'[day] = 0
    BY <1>4 DEF OnItsDay
  <2> QED
    BY <1>1, <1>2, <2>1, <2>2 DEF BookingKept
<1> QED
  BY <1>3, <1>4

(* Otherwise: it goes to the day that has its date, if there is one. *)
LEMMA ReanchoredBooking ==
    ASSUME TripDaysTypeOK, date' \in [DayIds -> Nat],
           NEW day, day = 0 \/ day = booking.day, Reanchored(day)
    PROVE  /\ booking' \in [day : {0} \cup DayIds, date : Nat]
           /\ booking'.day = day \/ (booking'.day \in DayIds /\ date'[booking'.day] # 0)
           /\ BookingKept
<1> DEFINE on == {i \in DayIds : booking.date # 0 /\ date'[i] = booking.date}
<1>1. PICK i \in IF on = {} THEN {day} ELSE on : booking' = [booking EXCEPT !.day = i]
  BY DEF Reanchored
<1>2. /\ booking.day \in {0} \cup DayIds /\ booking.date \in Nat /\ day \in {0} \cup DayIds
      /\ booking = [day |-> booking.day, date |-> booking.date]
  BY DEF TripDaysTypeOK
<1>3. booking' = [day |-> i, date |-> booking.date]
  BY <1>1, <1>2
<1>4. CASE on = {}
  <2>1. i = day
    BY <1>1, <1>4
  <2>2. OnItsDay => \A j \in DayIds : date'[j] # booking'.date
    BY <1>3, <1>4 DEF OnItsDay
  <2> QED
    BY <1>2, <1>3, <2>1, <2>2 DEF BookingKept
<1>5. CASE on # {}
  <2>1. i \in DayIds /\ booking.date # 0 /\ date'[i] = booking.date
    BY <1>1, <1>5
  <2>2. OnItsDay' /\ booking'.day = i
    <3>1. 0 \notin DayIds
      BY DEF DayIds
    <3> QED
      BY <1>3, <2>1, <3>1 DEF OnItsDay
  <2> QED
    BY <1>2, <1>3, <2>1, <2>2 DEF BookingKept
<1> QED
  BY <1>4, <1>5

(* A stay that is left is in order still, the rows keeping theirs. *)
LEMMA StayLeft ==
    ASSUME TripDaysTypeOK, RowsSound, NEW g, Keeps(g), InNumberOrder(g.list), Numbered(g.list),
           InOrder(stay), NEW st, st = Without(g.gone).stay
    PROVE  InOrder(st)'
<1>1. CASE st = << >>
  BY <1>1 DEF InOrder
<1>2. CASE st # << >>
  <2> DEFINE i == stay[1]
             j == stay[2]
  <2>1. st = stay /\ Range(stay) \subseteq Existing \ g.gone
    BY <1>2, WithoutRows
  <2>2. i \in Existing \ g.gone /\ j \in Existing \ g.gone
    BY <1>2, <2>1, StayRows DEF TripDaysTypeOK
  <2>3. i \in Range(g.list) /\ j \in Range(g.list)
    BY <2>2 DEF Keeps
  <2> HIDE DEF i, j
  <2>4. /\ Lists(g.list, Range(g.list)) /\ Range(g.list) \in SUBSET DayIds
        /\ \A k \in Range(g.list) : number'[k] \in 1 .. Len(g.list) /\ g.list[number'[k]] = k
    BY NumberedRows DEF Keeps
  <2>5. number[i] <= number[j] /\ number[i] \in Nat /\ number[j] \in Nat
    BY <1>2, <2>1, <2>2 DEF InOrder, TripDaysTypeOK, Existing, i, j
  <2>6. number'[i] <= number'[j]
    <3>1. CASE i = j
      BY <2>3, <2>4, <3>1
    <3>2. CASE number'[j] < number'[i]
      <4>1. number[j] <= number[i]
        BY <2>2, <2>3, <2>4, <3>2 DEF InNumberOrder
      <4>2. number[j] = number[i]
        BY <2>5, <4>1
      <4>3. i = j
        BY <2>2, <4>2 DEF RowsSound
      <4> QED
        BY <3>1, <4>3
    <3> QED
      BY <2>3, <2>4, <3>1, <3>2
  <2> QED
    BY <2>1, <2>6 DEF InOrder, i, j
<1> QED
  BY <1>1, <1>2

(* So is one brought to the days that now have its dates. *)
LEMMA StayResynced ==
    ASSUME TripDaysTypeOK, NEW st, st = << >> \/ st = stay, ResyncedStay(st)
    PROVE  /\ stay' \in {<< >>} \cup (DayIds \X DayIds)
           /\ stay' = st \/ (stay' # << >> /\ date'[stay'[1]] # 0 /\ date'[stay'[2]] # 0)
           /\ InOrder(st)' => InOrder(stay)'
<1> DEFINE on(i) == {j \in DayIds : date[i] # 0 /\ date'[j] = date[i]}
           found == IF st = << >> THEN {} ELSE on(st[1]) \X on(st[2])
<1>1. stay' \in IF found = {} THEN {st}
                ELSE {IF number'[new[1]] <= number'[new[2]] THEN new ELSE st : new \in found}
  BY DEF ResyncedStay
<1>2. \A new \in found : /\ new \in DayIds \X DayIds /\ new # << >>
                         /\ date'[new[1]] # 0 /\ date'[new[2]] # 0
  OBVIOUS
<1> HIDE DEF found
<1>3. CASE stay' = st
  BY <1>3 DEF TripDaysTypeOK, InOrder
<1>4. CASE stay' \in found /\ number'[stay'[1]] <= number'[stay'[2]]
  BY <1>2, <1>4 DEF InOrder
<1> QED
  BY <1>1, <1>3, <1>4

(* The new days, of the dates given or without dates. *)
LEMMA GeneratedKeeps ==
    ASSUME TripDaysTypeOK, RowsSound, NEW start \in Nat, NEW end \in Nat, NEW count \in Nat
    PROVE  LET g == Generated(start, end, count)
               n == Most(Least(end - start + 1, MaxTripDays), 0)
           IN  /\ Keeps(g) /\ (DatedFirst => InNumberOrder(g.list))
               /\ g.dates \in Seq(Nat \ {0}) /\ Len(g.dates) <= Len(g.list)
               /\ start = 0 \/ end = 0 => g.dates = << >> /\ (tidy = "yes" => g.ok)
               /\ start # 0 /\ end # 0 =>
                    g.ok /\ Len(g.dates) = n /\ \A k \in 1 .. n : g.dates[k] = start + k - 1
<1> DEFINE n == Most(Least(end - start + 1, MaxTripDays), 0)
<1>1. CASE start = 0 \/ end = 0
  <2>1. Generated(start, end, count) = Undated(count)
    BY <1>1 DEF Generated
  <2> DEFINE g == Undated(count)
  <2>2. Keeps(g) /\ g.dates = << >> /\ InNumberOrder(g.list) /\ (tidy = "yes" => g.ok)
    BY UndatedKeeps
  <2> HIDE DEF g
  <2>3. Len(g.list) \in Nat
    BY <2>2, ListFacts DEF Keeps
  <2>4. g.dates \in Seq(Nat \ {0}) /\ Len(g.dates) = 0
    BY <2>2
  <2>5. Len(g.dates) <= Len(g.list)
    BY <2>3, <2>4
  <2>6. Generated(start, end, count) = g
    BY <2>1 DEF g
  <2> QED
    BY <1>1, <2>2, <2>4, <2>5, <2>6
<1>2. CASE ~(start = 0 \/ end = 0)
  <2>1. Generated(start, end, count) = Dated(start, end)
    BY <1>2 DEF Generated
  <2> DEFINE g == Dated(start, end)
  <2>2. /\ Keeps(g) /\ g.ok /\ n \in Nat /\ n <= Len(g.list)
        /\ g.dates = [k \in 1 .. n |-> start + k - 1]
        /\ DatedFirst => InNumberOrder(g.list)
    BY DatedKeeps
  <2> HIDE DEF g, n
  <2>3. Len(g.dates) = n /\ g.dates \in Seq(Nat \ {0}) /\ \A k \in 1 .. n : g.dates[k] = start + k - 1
    <3>1. \A k \in 1 .. n : start + k - 1 \in Nat \ {0}
      BY <1>2, <2>2
    <3>2. g.dates \in [1 .. n -> Nat \ {0}]
      BY <2>2, <3>1
    <3> QED
      BY <2>2, <3>2
  <2>4. Len(g.dates) <= Len(g.list)
    BY <2>2, <2>3
  <2>5. Generated(start, end, count) = g
    BY <2>1 DEF g
  <2> QED
    BY <1>2, <2>2, <2>3, <2>4, <2>5 DEF n
<1> QED
  BY <1>1, <1>2

(* updateTrip with a new range keeps the invariant, and the stay and the booking. *)
LEMMA UpdateTripStep ==
    ASSUME TripDaysInv, NEW start \in 0 .. MaxDate, NEW end \in 0 .. MaxDate,
           NEW count \in Nat, NEW mode, UpdateTrip(start, end, count, mode)
    PROVE  StepGood
<1> USE DEF TripDaysInv
<1>0. start \in Nat /\ end \in Nat
  BY TripDaysAssumption
<1>1. PICK g : g = Generated(start, end, count)
  OBVIOUS
<1>2. /\ Keeps(g) /\ (DatedFirst => InNumberOrder(g.list))
      /\ g.dates \in Seq(Nat \ {0}) /\ Len(g.dates) <= Len(g.list)
      /\ start = 0 \/ end = 0 => g.dates = << >> /\ (tidy = "yes" => g.ok)
      /\ start # 0 /\ end # 0 =>
           LET n == Most(Least(end - start + 1, MaxTripDays), 0)
           IN  g.ok /\ Len(g.dates) = n /\ \A k \in 1 .. n : g.dates[k] = start + k - 1
  BY <1>0, <1>1, GeneratedKeeps
<1>3. range' = <<start, end>> /\ range' \in Nat \X Nat /\ calls' \in Nat
  BY <1>0 DEF UpdateTrip, Call, TripDaysTypeOK
<1> DEFINE changed == range # <<start, end>> \/ count # 0
<1>4. CASE ~changed \/ ~g.ok
  <2>1. UNCHANGED <<number, date, full, stay, booking, tidy>>
    BY <1>1, <1>4 DEF UpdateTrip
  <2>2. TripDaysTypeOK' /\ RowsSound'
    BY <1>3, <2>1 DEF TripDaysTypeOK, RowsSound, Existing
  <2>3. DatesMatchTrip'
    <3>1. CASE ~changed
      BY <1>3, <2>1, <3>1 DEF DatesMatchTrip, Existing
    <3>2. CASE ~g.ok
      <4>1. tidy # "yes"
        BY <1>2, <3>2
      <4> QED
        BY <2>1, <4>1 DEF DatesMatchTrip
    <3> QED
      BY <1>4, <3>1, <3>2
  <2>4. StayKept /\ BookingKept
    BY <2>1 DEF StayKept, BookingKept, InOrder, OnItsDay
  <2> QED
    BY <2>2, <2>3, <2>4 DEF StepGood
<1>5. CASE changed /\ g.ok
  <2>1. PICK st, day : st = Without(g.gone).stay /\ day = Without(g.gone).day
    OBVIOUS
  <2>2. /\ Pinned(g) /\ full' = full \ g.gone /\ tidy' = "yes"
        /\ \/ stay' = st /\ booking' = Restamped(day, date')
           \/ ResyncedStay(st) /\ Reanchored(day)
    BY <1>1, <1>5, <2>1 DEF UpdateTrip, Pinned
  <2>3. PICK S \in SUBSET DayIds : S = Range(g.list)
    BY <1>2 DEF Keeps
  <2>4. Lists(g.list, S) /\ Existing \ g.gone \subseteq S
    BY <1>2, <2>3 DEF Keeps
  <2>5. /\ number' \in [DayIds -> Nat] /\ date' \in [DayIds -> Nat] /\ Existing' = S
        /\ \A i, j \in S : number'[i] = number'[j] => i = j
        /\ \A i \in DayIds : date'[i] # 0 => i \in S
        /\ \A i \in S : number'[i] <= Cardinality(S)
    BY <1>2, <2>2, <2>4, Slots
  <2>6. /\ st = << >> \/ st = stay
        /\ Range(st) \subseteq S
        /\ day = 0 \/ day = booking.day
        /\ day # 0 => day \in S
    BY <2>1, <2>4, WithoutRows
  <2>7. /\ booking' \in [day : {0} \cup DayIds, date : Nat]
        /\ booking'.day # 0 => booking'.day \in S
        /\ BookingKept
    BY <2>2, <2>5, <2>6, RestampedBooking, ReanchoredBooking
  <2>8. /\ stay' \in {<< >>} \cup (DayIds \X DayIds)
        /\ Range(stay') \subseteq S
        /\ InOrder(st)' => InOrder(stay)'
    <3>1. CASE stay' = st
      BY <2>6, <3>1 DEF TripDaysTypeOK, InOrder
    <3>2. CASE ResyncedStay(st)
      <4>1. /\ stay' \in {<< >>} \cup (DayIds \X DayIds)
            /\ stay' = st \/ (stay' # << >> /\ date'[stay'[1]] # 0 /\ date'[stay'[2]] # 0)
            /\ InOrder(st)' => InOrder(stay)'
        BY <2>6, <3>2, StayResynced
      <4>2. stay' # << >> => Range(stay') = {stay'[1], stay'[2]} /\ stay'[1] \in DayIds /\ stay'[2] \in DayIds
        BY <4>1, StayRows
      <4>3. Range(stay') \subseteq S
        BY <2>5, <2>6, <4>1, <4>2
      <4> QED
        BY <4>1, <4>3
    <3> QED
      BY <2>2, <3>1, <3>2
  <2>9. TripDaysTypeOK'
    BY <1>3, <2>2, <2>5, <2>7, <2>8 DEF TripDaysTypeOK
  <2>10. RowsSound'
    BY <2>5, <2>7, <2>8 DEF RowsSound
  <2>11. DatesMatchTrip'
    <3> DEFINE dated == ByNumber({i \in Existing' : date'[i] # 0}, number')
               n == Most(Least(end - start + 1, MaxTripDays), 0)
    <3>1. /\ Len(dated) = Len(g.dates) /\ DOMAIN dated = 1 .. Len(g.dates)
          /\ \A k \in 1 .. Len(g.dates) : date'[dated[k]] = g.dates[k]
      BY <1>2, <2>2, <2>4, SlotsDated
    <3>2. CASE start = 0 \/ end = 0
      <4>1. Len(dated) = 0 /\ dated = << >>
        <5>1. Len(dated) = 0
          BY <1>2, <3>1, <3>2
        <5>2. PICK D : D = {i \in Existing' : date'[i] # 0}
          OBVIOUS
        <5>3. D \in SUBSET DayIds /\ number' \in [DayIds -> Int]
          BY <2>5, <5>2
        <5>4. Lists(ByNumber(D, number'), D)
          BY <5>3, ByNumberLists
        <5>5. dated \in Seq(D)
          BY <5>2, <5>4 DEF Lists
        <5> QED
          BY <5>1, <5>5
      <4> QED
        BY <1>3, <3>2, <4>1 DEF DatesMatchTrip
    <3>3. CASE start # 0 /\ end # 0
      <4>1. Len(dated) = n /\ DOMAIN dated = 1 .. n
            /\ \A k \in 1 .. n : date'[dated[k]] = start + k - 1
        BY <1>2, <3>1, <3>3
      <4>2. range'[1] = start /\ range'[2] = end
        BY <1>3
      <4>3. LET m == Most(end - start + 1, 0) IN n = m \/ (n < m /\ n = MaxTripDays)
        BY <1>0, TripDaysAssumption DEF Most, Least
      <4> HIDE DEF n
      <4> QED
        BY <3>3, <4>1, <4>2, <4>3 DEF DatesMatchTrip
    <3> QED
      BY <3>2, <3>3
  <2>12. StayKept
    <3> SUFFICES ASSUME DatedFirst, InOrder(stay) PROVE InOrder(stay)'
      BY DEF StayKept
    <3>1. Numbered(g.list)
      BY <2>2 DEF Pinned
    <3>2. InOrder(st)'
      BY <1>2, <2>1, <3>1, StayLeft
    <3> QED
      BY <2>8, <3>2
  <2> QED
    BY <2>7, <2>9, <2>10, <2>11, <2>12 DEF StepGood
<1> QED
  BY <1>4, <1>5

(* Dates pinned to the slots of a list that leaves no day out. *)
LEMMA RepinnedStep ==
    ASSUME TripDaysInv, NEW S \in SUBSET DayIds, NEW list, NEW dates, Lists(list, S), Existing \subseteq S,
           dates \in Seq(Nat \ {0}), Len(dates) <= Len(list), Repinned(list, dates),
           UNCHANGED <<full, stay, tidy>>, range' \in Nat \X Nat, calls' \in Nat
    PROVE  /\ TripDaysTypeOK' /\ RowsSound' /\ StayKept /\ BookingKept
           /\ LET dated == ByNumber({i \in Existing' : date'[i] # 0}, number')
              IN  /\ Len(dated) = Len(dates) /\ DOMAIN dated = 1 .. Len(dates)
                  /\ \A k \in 1 .. Len(dates) : date'[dated[k]] = dates[k]
<1> USE DEF TripDaysInv
<1>1. PICK g : g = [list |-> list, dates |-> dates]
  OBVIOUS
<1>2. Pinned(g) /\ g.list = list /\ g.dates = dates
  BY <1>1 DEF Repinned, Pinned
<1>3. /\ number' \in [DayIds -> Nat] /\ date' \in [DayIds -> Nat] /\ Existing' = S
      /\ \A i, j \in S : number'[i] = number'[j] => i = j
      /\ \A i \in DayIds : date'[i] # 0 => i \in S
      /\ \A i \in S : number'[i] <= Cardinality(S)
      /\ \A k \in 1 .. Len(list) :
           /\ number'[list[k]] = k
           /\ date'[list[k]] = IF k <= Len(dates) THEN dates[k] ELSE 0
  <2>1. Lists(g.list, S) /\ g.dates \in Seq(Nat \ {0}) /\ Pinned(g)
    BY <1>2
  <2>2. /\ number' \in [DayIds -> Nat] /\ date' \in [DayIds -> Nat] /\ Existing' = S
        /\ \A i, j \in S : number'[i] = number'[j] => i = j
        /\ \A i \in DayIds : date'[i] # 0 => i \in S
    BY <2>1, Slots
  <2>3. /\ \A i \in S : number'[i] <= Cardinality(S)
        /\ \A k \in 1 .. Len(g.list) :
             /\ number'[g.list[k]] = k
             /\ date'[g.list[k]] = IF k <= Len(g.dates) THEN g.dates[k] ELSE 0
    BY <2>1, Slots
  <2> QED
    BY <1>2, <2>2, <2>3
<1>4. LET dated == ByNumber({i \in Existing' : date'[i] # 0}, number')
      IN  /\ Len(dated) = Len(dates) /\ DOMAIN dated = 1 .. Len(dates)
          /\ \A k \in 1 .. Len(dates) : date'[dated[k]] = dates[k]
  BY <1>2, SlotsDated
<1>5. booking' \in [day : {0} \cup DayIds, date : Nat] /\ booking'.day = booking.day /\ BookingKept
  <2>1. CASE dates = << >>
    <3>1. \A i \in DayIds : date'[i] = 0
      <4>1. \A k \in 1 .. Len(list) : date'[list[k]] = 0
        <5>1. Len(dates) = 0 /\ Len(list) \in Nat
          BY <2>1, ListFacts
        <5>2. \A k \in 1 .. Len(list) : ~(k <= Len(dates))
          BY <5>1
        <5> QED
          BY <1>3, <5>2
      <4>2. \A i \in S : \E k \in 1 .. Len(list) : list[k] = i
        BY ListFacts
      <4> QED
        BY <1>3, <4>1, <4>2
    <3>2. booking' = booking
      BY <2>1 DEF Repinned
    <3> QED
      BY <3>1, <3>2 DEF TripDaysTypeOK, BookingKept
  <2>2. CASE dates # << >>
    <3>1. PICK day : day = booking.day
      OBVIOUS
    <3>2. booking' = Restamped(day, date')
      BY <2>2, <3>1 DEF Repinned
    <3> QED
      BY <1>3, <3>1, <3>2, RestampedBooking
  <2> QED
    BY <2>1, <2>2
<1>6. TripDaysTypeOK'
  BY <1>3, <1>5 DEF TripDaysTypeOK
<1>7. RowsSound'
  BY <1>3, <1>5 DEF RowsSound
<1>8. StayKept
  BY DEF StayKept, InOrder, Repinned
<1> QED
  BY <1>4, <1>5, <1>6, <1>7, <1>8

(* While the trip is tidy the dates ascend with the slots. *)
LEMMA DatesAscend ==
    ASSUME TripDaysInv
    PROVE  LET D == {i \in Existing : date[i] # 0}
               byDate == ByNumber(D, date)
               dates == [k \in DOMAIN byDate |-> date[byDate[k]]]
           IN  /\ dates \in Seq(Nat \ {0}) /\ Len(dates) = Cardinality(D)
               /\ \A k \in 1 .. Len(dates) : \A d \in {date[i] : i \in D} : dates[1] <= d
               /\ \A k \in 1 .. Len(dates) : dates[k] \in {date[i] : i \in D}
               /\ tidy = "yes" =>
                    /\ byDate = ByNumber(D, number)
                    /\ \A k \in 1 .. Len(dates) : dates[k] = range[1] + k - 1
<1> USE DEF TripDaysInv
<1> DEFINE D == {i \in Existing : date[i] # 0}
           L == ByNumber(D, date)
           M == ByNumber(D, number)
           dates == [k \in DOMAIN L |-> date[L[k]]]
<1>1. /\ D \in SUBSET DayIds /\ number \in [DayIds -> Int] /\ date \in [DayIds -> Int]
      /\ date \in [DayIds -> Nat] /\ \A i \in D : date[i] \in Nat \ {0}
      /\ range \in Nat \X Nat
  BY DEF Existing, TripDaysTypeOK
<1>2. Lists(L, D) /\ Ascending(L, date) /\ Len(L) = Cardinality(D)
  BY <1>1, ByNumberLists
<1>3. Lists(M, D) /\ Ascending(M, number)
  BY <1>1, ByNumberLists
<1> DEFINE R == {date[i] : i \in D}
<1>4. \A i \in D : date[i] \in R
  OBVIOUS
<1>5. \A d \in R : \E i \in D : d = date[i]
  OBVIOUS
<1>6. tidy = "yes" =>
        IF range[1] = 0 \/ range[2] = 0 THEN M = << >>
        ELSE \A k \in DOMAIN M : date[M[k]] = range[1] + k - 1
  BY DEF DatesMatchTrip
<1> HIDE DEF L, M, D, R
<1>7. /\ Len(L) \in Nat /\ DOMAIN L = 1 .. Len(L) /\ \A k \in 1 .. Len(L) : L[k] \in D
      /\ \A i \in D : \E k \in 1 .. Len(L) : L[k] = i
      /\ Len(M) \in Nat /\ DOMAIN M = 1 .. Len(M) /\ \A k \in 1 .. Len(M) : M[k] \in D
  BY <1>2, <1>3, ListFacts
<1>8. dates \in Seq(Nat \ {0}) /\ Len(dates) = Len(L) /\ \A k \in 1 .. Len(L) : dates[k] = date[L[k]]
  <2>1. dates \in [1 .. Len(L) -> Nat \ {0}]
    BY <1>1, <1>7
  <2> QED
    BY <1>7, <2>1
<1> HIDE DEF dates
<1>9. ASSUME NEW k \in 1 .. Len(L), NEW d \in R
      PROVE  dates[1] <= d
  <2>1. PICK i \in D : d = date[i]
    BY <1>5
  <2>2. PICK l \in 1 .. Len(L) : L[l] = i
    BY <1>7
  <2>3. 1 \in 1 .. Len(L) /\ dates[1] = date[L[1]] /\ date[L[1]] \in Nat /\ date[L[l]] \in Nat
    <3>1. 1 \in 1 .. Len(L)
      BY <1>7, <2>2
    <3>2. L[1] \in D /\ L[l] \in D /\ dates[1] = date[L[1]]
      BY <1>7, <1>8, <3>1
    <3> QED
      BY <1>1, <3>1, <3>2
  <2>4. CASE l = 1
    BY <2>1, <2>2, <2>3, <2>4
  <2>5. CASE l # 1
    <3>1. l \in Nat /\ 1 < l
      BY <1>7, <2>5
    <3>2. Ascending(L, date)
      BY <1>2
    <3>3. Before(date, L[1], L[l])
      BY <2>3, <3>1, <3>2 DEF Ascending
    <3> QED
      BY <2>1, <2>2, <2>3, <3>3 DEF Before
  <2> QED
    BY <2>4, <2>5
<1>10. \A k \in 1 .. Len(L) : dates[k] \in R
  BY <1>4, <1>7, <1>8
<1>11. ASSUME tidy = "yes"
       PROVE  L = M /\ \A k \in 1 .. Len(L) : dates[k] = range[1] + k - 1
  <2>1. \A k \in 1 .. Len(M) : date[M[k]] = range[1] + k - 1
    <3>1. CASE M = << >>
      BY <3>1
    <3>2. CASE ~(range[1] = 0 \/ range[2] = 0)
      BY <1>6, <1>7, <1>11, <3>2
    <3> QED
      BY <1>6, <1>11, <3>1, <3>2
  <2>2. Ascending(M, date)
    <3> SUFFICES ASSUME NEW k \in 1 .. Len(M), NEW l \in 1 .. Len(M), k < l
                 PROVE  date[M[k]] < date[M[l]]
      BY DEF Ascending, Before
    <3> QED
      BY <1>1, <2>1
  <2>3. L = M
    BY <1>1, <1>3, <2>2, AscendingIsByNumber DEF L
  <2> QED
    BY <1>8, <2>1, <2>3
<1> QED
  BY <1>2, <1>8, <1>9, <1>10, <1>11 DEF L, M, D, R, dates

(* reorderDays keeps the invariant, and restamps stay and booking in order. *)
LEMMA ReorderDaysStep ==
    ASSUME TripDaysInv, NEW list \in SetToSeqs(Existing), ReorderDays(list)
    PROVE  StepGood
<1> USE DEF TripDaysInv
<1> DEFINE D == {i \in Existing : date[i] # 0}
           byDate == ByNumber(D, date)
<1>1. PICK dates : dates = [k \in DOMAIN byDate |-> date[byDate[k]]]
  OBVIOUS
<1>2. /\ Repinned(list, dates) /\ UNCHANGED <<full, stay, range, tidy>>
      /\ range' \in Nat \X Nat /\ calls' \in Nat
  BY <1>1 DEF ReorderDays, Call, TripDaysTypeOK
<1>3. /\ dates \in Seq(Nat \ {0}) /\ Len(dates) = Cardinality(D)
      /\ tidy = "yes" =>
           /\ byDate = ByNumber(D, number)
           /\ \A k \in 1 .. Len(dates) : dates[k] = range[1] + k - 1
  BY <1>1, DatesAscend
<1>4. PICK S \in SUBSET DayIds : S = Existing
  BY DEF Existing
<1>5. IsFiniteSet(S) /\ Cardinality(S) \in Nat
  BY RowsFinite
<1>6. Lists(list, S)
  <2> DEFINE n == Cardinality(S)
  <2>1. list \in [1 .. n -> S] /\ \A k, l \in 1 .. n : k # l => list[k] # list[l]
    BY <1>4 DEF SetToSeqs
  <2>2. list \in Injection(1 .. n, S)
    BY <2>1 DEF Injection, IsInjective
  <2>3. IsFiniteSet(1 .. n) /\ Cardinality(1 .. n) = n
    BY <1>5, FS_Interval
  <2>4. list \in Surjection(1 .. n, S)
    BY <1>5, <2>2, <2>3, FS_Injection
  <2>5. \A i \in S : \E k \in 1 .. n : list[k] = i
    BY <2>4 DEF Surjection
  <2>6. list \in Seq(S) /\ Len(list) = n /\ DOMAIN list = 1 .. n
    BY <1>5, <2>1
  <2> HIDE DEF n
  <2> QED
    BY <2>1, <2>5, <2>6 DEF Lists, Range
<1>7. Len(dates) <= Len(list)
  <2>1. Len(list) = Cardinality(S)
    BY <1>6, ListLength
  <2>2. Cardinality(D) <= Cardinality(S)
    BY <1>4, <1>5, FS_Subset
  <2> QED
    BY <1>3, <2>1, <2>2
<1>8. /\ TripDaysTypeOK' /\ RowsSound' /\ StayKept /\ BookingKept
      /\ LET dated == ByNumber({i \in Existing' : date'[i] # 0}, number')
         IN  /\ Len(dated) = Len(dates) /\ DOMAIN dated = 1 .. Len(dates)
             /\ \A k \in 1 .. Len(dates) : date'[dated[k]] = dates[k]
  BY <1>2, <1>3, <1>4, <1>6, <1>7, RepinnedStep
<1>9. DatesMatchTrip'
  <2> SUFFICES ASSUME tidy = "yes" PROVE DatesMatchTrip'
    BY <1>2 DEF DatesMatchTrip
  <2>1. PICK M : M = ByNumber({i \in Existing' : date'[i] # 0}, number')
    OBVIOUS
  <2>2. PICK L : L = ByNumber(D, number)
    OBVIOUS
  <2>3. /\ Len(M) = Len(dates) /\ DOMAIN M = 1 .. Len(dates)
        /\ \A k \in 1 .. Len(dates) : date'[M[k]] = range[1] + k - 1
    BY <1>3, <1>8, <2>1
  <2>4. Len(dates) = Len(L) /\ L \in Seq(D) /\ Lists(L, D)
    <3>1. D \in SUBSET DayIds /\ number \in [DayIds -> Int]
      BY DEF Existing, TripDaysTypeOK
    <3> HIDE DEF D
    <3> QED
      BY <1>3, <2>2, <3>1, ByNumberLists DEF Lists
  <2>5. IF range[1] = 0 \/ range[2] = 0 THEN L = << >>
        ELSE LET n == Most(range[2] - range[1] + 1, 0)
             IN  Len(L) = n \/ (Len(L) < n /\ Len(L) = MaxTripDays)
    BY <2>2 DEF DatesMatchTrip
  <2>6. L = << >> => M = << >>
    <3>1. M \in Seq({i \in Existing' : date'[i] # 0})
      <4>1. PICK E : E = {i \in Existing' : date'[i] # 0}
        OBVIOUS
      <4>2. E \in SUBSET DayIds /\ number' \in [DayIds -> Int]
        BY <1>8, <4>1 DEF TripDaysTypeOK, Existing
      <4> QED
        BY <2>1, <4>1, <4>2, ByNumberLists DEF Lists
    <3> QED
      BY <2>3, <2>4, <3>1
  <2> QED
    BY <1>2, <2>1, <2>3, <2>4, <2>5, <2>6 DEF DatesMatchTrip
<1> QED
  BY <1>8, <1>9 DEF StepGood

(* A list with one new row inserted enumerates the rows and the new one. *)
LEMMA InsertedLists ==
    ASSUME NEW S, NEW list, Lists(list, S), NEW pos \in 1 .. Len(list) + 1, NEW new, new \notin S
    PROVE  /\ Lists(InsertAt(list, pos, new), S \cup {new})
           /\ Len(InsertAt(list, pos, new)) = Len(list) + 1
<1> DEFINE F == First(list, pos - 1)
           A == After(list, pos - 1)
           N == <<new>>
<1>1. Len(list) \in Nat /\ pos - 1 \in Nat /\ pos - 1 <= Len(list) /\ (pos - 1) + 1 = pos
  BY ListFacts
<1>2. F = SubSeq(list, 1, pos - 1) /\ A = SubSeq(list, pos, Len(list))
  <2>1. (IF pos - 1 < Len(list) THEN pos - 1 ELSE Len(list)) = pos - 1
    BY <1>1
  <2> QED
    BY <1>1, <2>1 DEF First, After
<1>3. /\ Lists(F, Range(F)) /\ Lists(A, Range(A)) /\ Range(F) \subseteq S /\ Range(A) \subseteq S
      /\ Len(F) = IF pos - 1 < 0 THEN 0 ELSE Least(pos - 1, Len(list))
      /\ Len(A) = IF pos - 1 <= Len(list) THEN Len(list) - (pos - 1) ELSE 0
      /\ Range(F) \cup Range(A) = S /\ Range(F) \cap Range(A) = {}
  <2>1. PICK n \in Nat : n = pos - 1
    BY <1>1
  <2>2. /\ Lists(First(list, n), Range(First(list, n))) /\ Range(First(list, n)) \subseteq S
        /\ Len(First(list, n)) = IF n < 0 THEN 0 ELSE Least(n, Len(list))
    BY FirstOf
  <2>3. /\ Lists(After(list, n), Range(After(list, n))) /\ Range(After(list, n)) \subseteq S
        /\ Len(After(list, n)) = IF n <= Len(list) THEN Len(list) - n ELSE 0
    BY AfterOf
  <2>4. /\ Range(First(list, n)) \cup Range(After(list, n)) = S
        /\ Range(First(list, n)) \cap Range(After(list, n)) = {}
    BY SplitOf
  <2> QED
    BY <2>1, <2>2, <2>3, <2>4
<1>4. Len(F) + 1 + Len(A) = Len(list) + 1
  BY <1>1, <1>3 DEF Least
<1>5. Lists(N, {new}) /\ Len(N) = 1
  BY DEF Lists, Range
<1> HIDE DEF F, A, N
<1>13. Range(F) \cap {new} = {}
  BY <1>3
<1>14. Lists(F, Range(F)) /\ Lists(N, {new})
  BY <1>3, <1>5
<1>6. Lists(F \o N, Range(F) \cup {new})
  BY <1>13, <1>14, ConcatLists
<1>7. Len(F \o N) = Len(F) + 1
  <2>1. Len(F \o N) = Len(F) + Len(N)
    BY <1>13, <1>14, ConcatLists
  <2> QED
    BY <1>5, <2>1
<1>8. (Range(F) \cup {new}) \cap Range(A) = {}
  BY <1>3
<1>9. Lists((F \o N) \o A, (Range(F) \cup {new}) \cup Range(A))
  BY <1>3, <1>6, <1>8, ConcatLists
<1>10. Len((F \o N) \o A) = Len(F \o N) + Len(A)
  BY <1>3, <1>6, <1>8, ConcatLists
<1>11. (Range(F) \cup {new}) \cup Range(A) = S \cup {new}
  BY <1>3
<1>12. InsertAt(list, pos, new) = (F \o N) \o A
  BY <1>2 DEF InsertAt, N
<1> QED
  BY <1>4, <1>7, <1>9, <1>10, <1>11, <1>12

(* One more row. *)
LEMMA OneMore ==
    ASSUME NEW S \in SUBSET DayIds, NEW new \in DayIds, new \notin S
    PROVE  S \cup {new} \in SUBSET DayIds /\ Cardinality(S \cup {new}) = Cardinality(S) + 1
BY RowsFinite, FS_AddElement

(* insertDay keeps the invariant, and restamps stay and booking in order. *)
LEMMA InsertDayStep ==
    ASSUME TripDaysInv, NEW pos \in Nat, InsertDay(pos)
    PROVE  StepGood
<1> USE DEF TripDaysInv
<1>1. PICK list, new : list = ByNumber(Existing, number) /\ new = NewRows(1)[1]
  OBVIOUS
<1>2. PICK S \in SUBSET DayIds : S = Existing
  BY DEF Existing
<1>3. number \in [DayIds -> Nat] /\ number \in [DayIds -> Int] /\ range \in Nat \X Nat /\ calls' \in Nat
  BY DEF TripDaysTypeOK, InsertDay, Call
<1>4. /\ Lists(list, S) /\ Len(list) = Cardinality(S) /\ Cardinality(S) \in Nat
      /\ pos \in 1 .. Len(list) + 1
  BY <1>1, <1>2, <1>3, ByNumberLists, RowsFinite DEF InsertDay
<1>5. new \in DayIds /\ new \notin S /\ number[new] = 0
  <2>1. Free # {}
    BY DEF InsertDay
  <2>2. new \in Free
    BY <1>1, <1>3, <2>1, NewRow
  <2> QED
    BY <1>2, <2>2 DEF Free, Existing
<1>6. S \cup {new} \in SUBSET DayIds /\ Cardinality(S \cup {new}) = Cardinality(S) + 1
  BY <1>5, OneMore
<1> DEFINE D == {i \in Existing : date[i] # 0}
           dates == {date[i] : i \in Existing} \ {0}
           earliest == CHOOSE d \in dates : \A e \in dates : d <= e
<1>7. dates = {date[i] : i \in D}
  OBVIOUS
<1>8. UNCHANGED <<full, stay, tidy>>
  BY DEF InsertDay
<1>9. CASE dates = {}
  <2>1. /\ number' = [i \in DayIds |-> IF i = new THEN pos
                                       ELSE IF number[i] >= pos THEN number[i] + 1 ELSE number[i]]
        /\ UNCHANGED <<date, booking, range>>
    BY <1>1, <1>9 DEF InsertDay
  <2>2. number' \in [DayIds -> Nat]
    BY <1>3, <2>1
  <2>3. Existing' = S \cup {new}
    <3> SUFFICES ASSUME NEW i \in DayIds PROVE number'[i] # 0 <=> (number[i] # 0 \/ i = new)
      BY <1>2, <1>5 DEF Existing
    <3> QED
      BY <1>3, <1>4, <2>1
  <2>4. TripDaysTypeOK'
    BY <1>3, <1>8, <2>1, <2>2 DEF TripDaysTypeOK
  <2>5. \A i, j \in S \cup {new} : number'[i] = number'[j] => i = j
    <3>1. \A i, j \in S : number[i] = number[j] => i = j
      BY <1>2 DEF RowsSound
    <3> QED
      BY <1>3, <1>4, <1>6, <2>1, <3>1
  <2>6. RowsSound'
    <3>1. tidy = "yes" => \A i \in S \cup {new} : number'[i] <= Cardinality(S) + 1
      <4>1. tidy = "yes" => \A i \in S : number[i] <= Cardinality(S)
        BY <1>2 DEF RowsSound
      <4> QED
        BY <1>3, <1>4, <1>6, <2>1, <4>1
    <3>2. S \subseteq Existing'
      BY <2>3
    <3> QED
      BY <1>2, <1>6, <1>8, <2>1, <2>3, <2>5, <3>1, <3>2 DEF RowsSound
  <2>7. \A i \in DayIds : date[i] = 0
    <3>1. \A i \in Existing : date[i] = 0
      BY <1>9
    <3> QED
      BY <3>1 DEF RowsSound
  <2>8. DatesMatchTrip'
    BY <1>8, <2>1, <2>2, <2>7, SameDated DEF Existing
  <2>9. StayKept
    <3> SUFFICES ASSUME stay # << >>, number[stay[1]] <= number[stay[2]]
                 PROVE  number'[stay[1]] <= number'[stay[2]]
      BY <1>8 DEF StayKept, InOrder
    <3>1. stay[1] \in S /\ stay[2] \in S
      BY <1>2, StayRows DEF TripDaysTypeOK, RowsSound
    <3> QED
      BY <1>3, <1>4, <1>5, <2>1, <3>1
  <2>10. BookingKept
    BY <2>1 DEF BookingKept, OnItsDay
  <2> QED
    BY <2>4, <2>6, <2>8, <2>9, <2>10 DEF StepGood
<1>10. CASE dates # {}
  <2>1. PICK ds : ds = [k \in 1 .. Len(list) + 1 |-> earliest + k - 1]
    OBVIOUS
  <2>2. PICK full2 : full2 = InsertAt(list, pos, new)
    OBVIOUS
  <2>3. Repinned(full2, ds) /\ range' = [range EXCEPT ![2] = earliest + Len(list)]
    BY <1>1, <1>10, <2>1, <2>2 DEF InsertDay
  <2>4. PICK byDate : byDate = ByNumber(D, date)
    OBVIOUS
  <2>5. PICK sorted : sorted = [k \in DOMAIN byDate |-> date[byDate[k]]]
    OBVIOUS
  <2>6. /\ sorted \in Seq(Nat \ {0}) /\ Len(sorted) = Cardinality(D)
        /\ \A k \in 1 .. Len(sorted) : \A d \in dates : sorted[1] <= d
        /\ \A k \in 1 .. Len(sorted) : sorted[k] \in dates
        /\ tidy = "yes" => \A k \in 1 .. Len(sorted) : sorted[k] = range[1] + k - 1
    <3>1. LET E == {i \in Existing : date[i] # 0}
          IN  /\ sorted \in Seq(Nat \ {0}) /\ Len(sorted) = Cardinality(E)
              /\ \A k \in 1 .. Len(sorted) : \A d \in {date[i] : i \in E} : sorted[1] <= d
              /\ \A k \in 1 .. Len(sorted) : sorted[k] \in {date[i] : i \in E}
              /\ tidy = "yes" => \A k \in 1 .. Len(sorted) : sorted[k] = range[1] + k - 1
      BY <2>4, <2>5, DatesAscend
    <3> HIDE DEF dates
    <3> QED
      BY <1>7, <3>1
  <2>7. D # {} /\ D \in SUBSET DayIds
    BY <1>7, <1>10 DEF Existing
  <2>8. 1 \in 1 .. Len(sorted)
    <3>1. IsFiniteSet(D) /\ Cardinality(D) \in Nat /\ Cardinality(D) # 0
      BY <2>7, RowsFinite, FS_EmptySet
    <3> QED
      BY <2>6, <3>1
  <2>9. \A d \in dates : d \in Nat
    BY DEF TripDaysTypeOK, Existing
  <2>10. earliest = sorted[1] /\ earliest \in Nat \ {0}
    <3> HIDE DEF dates
    <3>1. sorted[1] \in dates /\ sorted[1] \in Nat \ {0} /\ \A d \in dates : sorted[1] <= d
      BY <2>6, <2>8
    <3>2. earliest \in dates /\ \A d \in dates : earliest <= d
      BY <3>1
    <3> HIDE DEF earliest
    <3> QED
      BY <2>9, <3>1, <3>2
  <2>11. PICK first : first = earliest
    OBVIOUS
  <2>12. /\ ds \in Seq(Nat \ {0}) /\ Len(ds) = Len(list) + 1
         /\ \A k \in 1 .. Len(ds) : ds[k] = first + k - 1
    <3> HIDE DEF earliest
    <3>1. \A k \in 1 .. Len(list) + 1 : first + k - 1 \in Nat \ {0}
      BY <1>4, <2>10, <2>11
    <3>2. ds \in [1 .. Len(list) + 1 -> Nat \ {0}]
      BY <2>1, <2>11, <3>1
    <3>3. Len(list) + 1 \in Nat
      BY <1>4
    <3> QED
      BY <2>1, <2>11, <3>2, <3>3
  <2>13. Lists(full2, S \cup {new}) /\ Len(full2) = Len(list) + 1
    BY <1>4, <1>5, <2>2, InsertedLists
  <2>14. range' = <<range[1], first + Len(list)>> /\ range' \in Nat \X Nat
    <3> HIDE DEF earliest
    <3> QED
      BY <1>3, <1>4, <2>3, <2>10, <2>11
  <2>15. /\ TripDaysTypeOK' /\ RowsSound' /\ StayKept /\ BookingKept
         /\ LET dated == ByNumber({i \in Existing' : date'[i] # 0}, number')
            IN  /\ Len(dated) = Len(ds) /\ DOMAIN dated = 1 .. Len(ds)
                /\ \A k \in 1 .. Len(ds) : date'[dated[k]] = ds[k]
    <3>1. Existing \subseteq S \cup {new} /\ Len(ds) <= Len(full2)
      BY <1>2, <1>4, <2>12, <2>13
    <3>2. PICK T \in SUBSET DayIds : T = S \cup {new}
      BY <1>6
    <3>3. /\ Lists(full2, T) /\ Existing \subseteq T /\ ds \in Seq(Nat \ {0})
          /\ Repinned(full2, ds) /\ UNCHANGED <<full, stay, tidy>>
          /\ range' \in Nat \X Nat /\ calls' \in Nat
      BY <1>3, <1>8, <2>3, <2>12, <2>13, <2>14, <3>1, <3>2
    <3>4. TripDaysTypeOK' /\ RowsSound' /\ StayKept /\ BookingKept
      BY <3>1, <3>3, RepinnedStep
    <3>5. LET dated == ByNumber({i \in Existing' : date'[i] # 0}, number')
          IN  /\ Len(dated) = Len(ds) /\ DOMAIN dated = 1 .. Len(ds)
              /\ \A k \in 1 .. Len(ds) : date'[dated[k]] = ds[k]
      BY <3>1, <3>3, RepinnedStep
    <3> QED
      BY <3>4, <3>5
  <2>16. DatesMatchTrip'
    <3> SUFFICES ASSUME tidy = "yes" PROVE DatesMatchTrip'
      BY <1>8 DEF DatesMatchTrip
    <3>1. first = range[1]
      BY <1>3, <2>6, <2>8, <2>10, <2>11
    <3>2. PICK M : M = ByNumber({i \in Existing' : date'[i] # 0}, number')
      OBVIOUS
    <3>3. /\ Len(M) = Len(list) + 1 /\ DOMAIN M = 1 .. Len(list) + 1
          /\ \A k \in 1 .. Len(list) + 1 : date'[M[k]] = range'[1] + k - 1
      BY <2>12, <2>14, <2>15, <3>1, <3>2
    <3>4. range'[1] # 0 /\ range'[2] # 0 /\ Len(list) + 1 = Most(range'[2] - range'[1] + 1, 0)
      <4>1. first \in Nat \ {0} /\ Len(list) \in Nat
        <5> HIDE DEF earliest
        <5> QED
          BY <1>4, <2>10, <2>11
      <4> QED
        BY <2>14, <3>1, <4>1 DEF Most
    <3> QED
      BY <3>2, <3>3, <3>4 DEF DatesMatchTrip
  <2> QED
    BY <2>15, <2>16 DEF StepGood
<1> QED
  BY <1>9, <1>10

(* createDay appends a row with a free number, and leaves stay and booking. *)
LEMMA CreateDayStep ==
    ASSUME TripDaysInv, NEW d \in 0 .. MaxDate, CreateDay(d)
    PROVE  StepGood
<1> USE DEF TripDaysInv
<1>0. d \in Nat
  BY TripDaysAssumption
<1>1. PICK S \in SUBSET DayIds : S = Existing
  BY DEF Existing
<1>2. number \in [DayIds -> Nat] /\ number \in [DayIds -> Int] /\ calls' \in Nat
  BY DEF TripDaysTypeOK, CreateDay, Call
<1> DEFINE nums == {0} \cup {number[i] : i \in Existing}
           highest == CHOOSE n \in nums : \A i \in Existing : number[i] <= n
<1>3. PICK new, top : new = NewRows(1)[1] /\ top = highest
  OBVIOUS
<1>4. new \in DayIds /\ new \notin S /\ number[new] = 0
  <2>1. Free # {}
    BY DEF CreateDay
  <2>2. new \in Free
    BY <1>2, <1>3, <2>1, NewRow
  <2> QED
    BY <1>1, <2>2 DEF Free, Existing
<1>5. top \in nums /\ \A i \in S : number[i] <= top
  <2>1. \E n \in nums : \A i \in Existing : number[i] <= n
    <3>1. CASE Existing = {}
      BY <3>1
    <3>2. CASE Existing # {}
      <4>1. PICK L : L = ByNumber(S, number)
        OBVIOUS
      <4>2. Lists(L, S) /\ Ascending(L, number)
        BY <1>2, <4>1, ByNumberLists
      <4>3. /\ Len(L) \in Nat /\ \A k \in 1 .. Len(L) : L[k] \in S
            /\ \A i \in S : \E k \in 1 .. Len(L) : L[k] = i
        BY <4>2, ListFacts
      <4>4. Len(L) \in 1 .. Len(L)
        BY <1>1, <3>2, <4>3
      <4>5. ASSUME NEW i \in S PROVE number[i] <= number[L[Len(L)]]
        <5>1. PICK k \in 1 .. Len(L) : L[k] = i
          BY <4>3
        <5>2. number[i] \in Nat /\ number[L[Len(L)]] \in Nat
          BY <1>2, <4>3, <4>4
        <5>3. CASE k = Len(L)
          BY <5>1, <5>2, <5>3
        <5>4. CASE k # Len(L)
          <6>1. k < Len(L)
            BY <4>3, <5>4
          <6>2. Before(number, i, L[Len(L)])
            BY <4>2, <4>4, <5>1, <6>1 DEF Ascending
          <6> QED
            BY <5>2, <6>2 DEF Before
        <5> QED
          BY <5>3, <5>4
      <4> QED
        BY <1>1, <4>3, <4>4, <4>5
    <3> QED
      BY <3>1, <3>2
  <2> HIDE DEF nums
  <2>2. highest \in nums /\ \A i \in Existing : number[i] <= highest
    BY <2>1
  <2> HIDE DEF highest
  <2> QED
    BY <1>1, <1>3, <2>2
<1>6. top \in Nat /\ (top = 0 \/ \E i \in S : top = number[i])
  <2> HIDE DEF highest
  <2> QED
    BY <1>1, <1>2, <1>5
<1>7. /\ number' = [number EXCEPT ![new] = 1 + top] /\ date' = [date EXCEPT ![new] = d]
      /\ tidy' = (IF d = 0 THEN tidy ELSE "no")
      /\ UNCHANGED <<full, stay, booking, range>>
  BY <1>3 DEF CreateDay
<1> HIDE DEF highest, nums
<1>8. /\ \A i \in S : number'[i] = number[i] /\ date'[i] = date[i]
      /\ number'[new] = 1 + top /\ date'[new] = d
      /\ \A i \in DayIds \ {new} : number'[i] = number[i] /\ date'[i] = date[i]
  BY <1>1, <1>2, <1>4, <1>7 DEF TripDaysTypeOK
<1>9. Existing' = S \cup {new}
  <2> SUFFICES ASSUME NEW i \in DayIds PROVE number'[i] # 0 <=> (number[i] # 0 \/ i = new)
    BY <1>1, <1>4 DEF Existing
  <2> QED
    BY <1>6, <1>8
<1>10. TripDaysTypeOK'
  <2>1. 1 + top \in Nat /\ d \in Nat
    BY <1>0, <1>6
  <2>2. number' \in [DayIds -> Nat]
    BY <1>2, <1>7, <2>1 DEF TripDaysTypeOK
  <2>3. date' \in [DayIds -> Nat]
    BY <1>2, <1>7, <2>1 DEF TripDaysTypeOK
  <2> QED
    BY <1>2, <1>7, <2>2, <2>3 DEF TripDaysTypeOK
<1>11. Cardinality(S \cup {new}) = Cardinality(S) + 1 /\ Cardinality(S) \in Nat
  BY <1>4, OneMore, RowsFinite
<1>12. RowsSound'
  <2>1. \A i, j \in S \cup {new} : number'[i] = number'[j] => i = j
    <3>1. \A i, j \in S : number[i] = number[j] => i = j
      BY <1>1 DEF RowsSound
    <3>2. \A i \in S : number[i] # 1 + top
      BY <1>2, <1>5, <1>6
    <3> QED
      BY <1>8, <3>1, <3>2
  <2>2. tidy' = "yes" => \A i \in S \cup {new} : number'[i] <= Cardinality(S) + 1
    <3>1. tidy = "yes" => \A i \in S : number[i] <= Cardinality(S)
      BY <1>1 DEF RowsSound
    <3> QED
      BY <1>2, <1>6, <1>7, <1>8, <1>11, <3>1
  <2>3. S \subseteq Existing' /\ \A i \in DayIds : date'[i] # 0 => i \in Existing'
    BY <1>1, <1>8, <1>9 DEF RowsSound
  <2> QED
    BY <1>1, <1>7, <1>9, <1>11, <2>1, <2>2, <2>3 DEF RowsSound
<1>13. DatesMatchTrip'
  <2>1. CASE d = 0
    <3>1. {i \in Existing' : date'[i] # 0} = {i \in Existing : date[i] # 0}
      BY <1>1, <1>8, <1>9, <2>1
    <3>2. number' \in [DayIds -> Nat]
      BY <1>10 DEF TripDaysTypeOK
    <3> QED
      BY <1>1, <1>7, <1>8, <2>1, <3>1, <3>2, SameDated
  <2>2. CASE d # 0
    BY <1>7, <2>2 DEF DatesMatchTrip
  <2> QED
    BY <2>1, <2>2
<1>14. StayKept
  <2> SUFFICES ASSUME stay # << >>, number[stay[1]] <= number[stay[2]]
               PROVE  number'[stay[1]] <= number'[stay[2]]
    BY <1>7 DEF StayKept, InOrder
  <2>1. stay[1] \in S /\ stay[2] \in S
    BY <1>1, StayRows DEF TripDaysTypeOK, RowsSound
  <2> QED
    BY <1>8, <2>1
<1>15. BookingKept
  <2>1. OnItsDay => booking.day \in S
    BY <1>1 DEF OnItsDay, RowsSound
  <2> QED
    BY <1>7, <1>8, <2>1 DEF BookingKept, OnItsDay
<1> QED
  BY <1>10, <1>12, <1>13, <1>14, <1>15 DEF StepGood

(* deleteDay renumbers nothing, and clears the stay and the booking of its row. *)
LEMMA DeleteDayStep ==
    ASSUME TripDaysInv, NEW i \in DayIds, DeleteDay(i)
    PROVE  StepGood
<1> USE DEF TripDaysInv
<1>1. PICK st, day : st = Without({i}).stay /\ day = Without({i}).day
  OBVIOUS
<1>2. /\ number' = [number EXCEPT ![i] = 0] /\ date' = [date EXCEPT ![i] = 0]
      /\ full' = full \ {i} /\ stay' = st /\ booking' = [booking EXCEPT !.day = day]
      /\ tidy' = "no" /\ range' = range /\ calls' \in Nat
  BY <1>1 DEF DeleteDay, Call, TripDaysTypeOK
<1>3. /\ st = << >> \/ st = stay
      /\ Range(st) \subseteq Existing \ {i}
      /\ day = 0 \/ day = booking.day
      /\ day # 0 => day \in Existing \ {i}
  BY <1>1, WithoutRows
<1>4. Existing' = Existing \ {i} /\ \A j \in Existing \ {i} : number'[j] = number[j] /\ date'[j] = date[j]
  BY <1>2 DEF Existing, TripDaysTypeOK
<1>5. booking' = [day |-> day, date |-> booking.date] /\ day \in {0} \cup DayIds
  BY <1>2, <1>3 DEF TripDaysTypeOK
<1>6. TripDaysTypeOK'
  BY <1>2, <1>3, <1>5 DEF TripDaysTypeOK
<1>7. RowsSound'
  <2>1. \A j \in DayIds : date'[j] # 0 => j \in Existing'
    BY <1>2, <1>4 DEF RowsSound, TripDaysTypeOK
  <2> QED
    BY <1>2, <1>3, <1>4, <1>5, <2>1 DEF RowsSound
<1>8. DatesMatchTrip'
  BY <1>2 DEF DatesMatchTrip
<1>9. StayKept
  <2> SUFFICES ASSUME st # << >>, InOrder(stay) PROVE number'[st[1]] <= number'[st[2]]
    BY <1>2 DEF StayKept, InOrder
  <2>1. st[1] \in Existing \ {i} /\ st[2] \in Existing \ {i}
    BY <1>3, StayRows DEF TripDaysTypeOK
  <2> QED
    BY <1>3, <1>4, <2>1 DEF InOrder
<1>10. BookingKept
  BY <1>3, <1>4, <1>5 DEF BookingKept, OnItsDay
<1> QED
  BY <1>6, <1>7, <1>8, <1>9, <1>10 DEF StepGood

(* What hangs on the days changes, the days do not. *)
LEMMA ContentStep ==
    ASSUME TripDaysInv, UNCHANGED <<number, date, range, tidy>>,
           \/ \E i \in DayIds : Fill(i)
           \/ Booked \/ StayPut \/ UNCHANGED tripDaysVars
    PROVE  StepGood
<1> USE DEF TripDaysInv
<1>1. DatesMatchTrip' /\ Existing' = Existing
  BY DEF DatesMatchTrip, Existing
<1>2. ASSUME NEW i \in DayIds, Fill(i)
      PROVE  StepGood
  <2>1. UNCHANGED <<stay, booking>> /\ full' = full \cup {i} /\ calls' \in Nat
    BY <1>2 DEF Fill, Call, TripDaysTypeOK
  <2>2. TripDaysTypeOK' /\ RowsSound' /\ StayKept /\ BookingKept
    BY <1>1, <2>1 DEF TripDaysTypeOK, RowsSound, StayKept, InOrder, BookingKept, OnItsDay
  <2> QED
    BY <1>1, <2>2 DEF StepGood
<1>3. ASSUME NEW day \in 0 .. MaxDayRows, NEW d \in 0 .. MaxDate, Book(day, d)
      PROVE  StepGood
  <2>1. UNCHANGED <<stay, full>> /\ calls' \in Nat /\ day \in {0} \cup Existing
    BY <1>3 DEF Book, Call, TripDaysTypeOK
  <2>2. \E i \in {0} \cup Existing : booking' = [day |-> i, date |-> d]
    BY <1>3 DEF Book, DaysFor
  <2>3. d \in Nat /\ Existing \subseteq DayIds
    BY TripDaysAssumption DEF Existing
  <2>4. TripDaysTypeOK' /\ RowsSound'
    BY <1>1, <2>1, <2>2, <2>3 DEF TripDaysTypeOK, RowsSound
  <2>5. StayKept
    BY <2>1 DEF StayKept, InOrder
  <2> QED
    BY <1>1, <1>3, <2>4, <2>5 DEF StepGood, Booked
<1>4. ASSUME NEW i \in DayIds, NEW j \in DayIds, PutStay(i, j)
      PROVE  StepGood
  <2>1. /\ UNCHANGED <<booking, full>> /\ stay' = <<i, j>> /\ calls' \in Nat
        /\ i \in Existing /\ j \in Existing
    BY <1>4 DEF PutStay, Call, TripDaysTypeOK
  <2>2. stay' \in {<< >>} \cup (DayIds \X DayIds) /\ stay' # << >>
    BY <2>1
  <2>3. Range(stay') = {i, j}
    BY <2>1, <2>2, StayRows
  <2>4. TripDaysTypeOK' /\ RowsSound'
    BY <1>1, <2>1, <2>2, <2>3 DEF TripDaysTypeOK, RowsSound
  <2>5. BookingKept
    BY <2>1 DEF BookingKept, OnItsDay
  <2> QED
    BY <1>1, <1>4, <2>4, <2>5 DEF StepGood, StayPut
<1>5. CASE UNCHANGED tripDaysVars
  <2>1. TripDaysTypeOK' /\ RowsSound' /\ StayKept /\ BookingKept
    BY <1>1, <1>5 DEF tripDaysVars, TripDaysTypeOK, RowsSound, StayKept, InOrder, BookingKept, OnItsDay
  <2> QED
    BY <1>1, <2>1 DEF StepGood
<1> QED
  BY <1>2, <1>3, <1>4, <1>5 DEF Booked, StayPut

(* Every call. *)
LEMMA TripDaysStep == TripDaysInv /\ [TripDaysNext]_tripDaysVars => StepGood
<1> SUFFICES ASSUME TripDaysInv, [TripDaysNext]_tripDaysVars PROVE StepGood
  OBVIOUS
<1>1. ASSUME NEW start \in 0 .. MaxDate, NEW end \in 0 .. MaxDate, NEW mode,
             NEW count \in 0 .. (IF start = 0 \/ end = 0 THEN MaxTripDays ELSE 1),
             UpdateTrip(start, end, count, mode)
      PROVE  StepGood
  <2>1. count \in Nat
    BY TripDaysAssumption
  <2> QED
    BY <1>1, <2>1, UpdateTripStep
<1>2. ASSUME NEW pos \in 1 .. MaxDayRows + 1, InsertDay(pos)
      PROVE  StepGood
  <2>1. pos \in Nat
    BY TripDaysAssumption
  <2> QED
    BY <1>2, <2>1, InsertDayStep
<1>3. ASSUME (\E i \in DayIds : Fill(i)) \/ Booked \/ StayPut
      PROVE  StepGood
  <2>1. UNCHANGED <<number, date, range, tidy>>
    BY <1>3 DEF Booked, StayPut, Fill, Book, PutStay
  <2> QED
    BY <1>3, <2>1, ContentStep
<1>5. CASE UNCHANGED tripDaysVars
  BY <1>5, ContentStep DEF tripDaysVars
<1> QED
  BY <1>1, <1>2, <1>3, <1>5, ReorderDaysStep, CreateDayStep, DeleteDayStep
     DEF TripDaysNext, Booked, StayPut

(* The trip starts with its invariant. *)
LEMMA TripDaysStart == TripDaysInit => TripDaysInv
<1> SUFFICES ASSUME TripDaysInit PROVE TripDaysInv
  OBVIOUS
<1>1. PICK start \in 0 .. MaxDate, end \in 0 .. MaxDate, count \in 0 .. MaxTripDays :
        /\ \/ start \in Calendar /\ end \in start .. MaxDate /\ count = 0
           \/ start = 0 /\ end = 0 /\ count # 0
        /\ LET n == IF start = 0 THEN count ELSE Least(end - start + 1, MaxTripDays)
           IN  /\ number = [i \in DayIds |-> IF i <= n THEN i ELSE 0]
               /\ date = [i \in DayIds |-> IF i <= n /\ start # 0 THEN start + i - 1 ELSE 0]
        /\ range = <<start, end>>
        /\ full = {} /\ stay = << >> /\ booking = [day |-> 0, date |-> 0]
        /\ tidy = "yes" /\ calls = 0
  BY DEF TripDaysInit
<1>2. PICK n : n = IF start = 0 THEN count ELSE Least(end - start + 1, MaxTripDays)
  OBVIOUS
<1>3. n \in Nat /\ n <= MaxDayRows /\ start \in Nat /\ end \in Nat
  BY <1>1, <1>2, TripDaysAssumption DEF Least, Calendar
<1>4. /\ number = [i \in DayIds |-> IF i <= n THEN i ELSE 0]
      /\ date = [i \in DayIds |-> IF i <= n /\ start # 0 THEN start + i - 1 ELSE 0]
  BY <1>1, <1>2
<1>5. /\ number \in [DayIds -> Nat] /\ date \in [DayIds -> Nat] /\ DayIds \subseteq Nat
  BY <1>3, <1>4 DEF DayIds
<1>6. TripDaysTypeOK
  BY <1>1, <1>3, <1>5 DEF TripDaysTypeOK
<1>7. Existing = 1 .. n
  BY <1>3, <1>4, TripDaysAssumption DEF Existing, DayIds
<1>8. RowsSound
  <2>1. Cardinality(Existing) = n
    BY <1>3, <1>7, FS_Interval
  <2>2. Range(stay) = {}
    BY <1>1, StayRows
  <2>3. \A i \in 1 .. n : i \in DayIds /\ number[i] = i
    BY <1>3, <1>4, TripDaysAssumption DEF DayIds
  <2>4. \A i \in DayIds : date[i] # 0 => i \in 1 .. n
    BY <1>3, <1>4 DEF DayIds
  <2> QED
    BY <1>1, <1>3, <1>7, <2>1, <2>2, <2>3, <2>4 DEF RowsSound
<1>9. DatesMatchTrip
  <2> DEFINE D == {i \in Existing : date[i] # 0}
  <2>1. D \in SUBSET DayIds /\ number \in [DayIds -> Int]
    BY <1>5 DEF Existing
  <2>2. CASE start = 0
    <3>1. D = {}
      BY <1>4, <2>2 DEF Existing
    <3>2. Lists(ByNumber(D, number), {})
      BY <2>1, <3>1, ByNumberLists
    <3>3. ByNumber(D, number) = << >>
      BY <3>2 DEF Lists
    <3> QED
      BY <1>1, <2>2, <3>3 DEF DatesMatchTrip
  <2>3. CASE start # 0
    <3> DEFINE L == [k \in 1 .. n |-> k]
    <3>1. \A i \in 1 .. n : i \in DayIds /\ number[i] = i /\ date[i] = start + i - 1 /\ date[i] # 0
      BY <1>3, <1>4, <2>3, TripDaysAssumption DEF DayIds
    <3>2. D = 1 .. n
      BY <1>7, <3>1
    <3>3. L \in Seq(1 .. n) /\ Len(L) = n /\ DOMAIN L = 1 .. n /\ Range(L) = 1 .. n
      BY <1>3 DEF Range
    <3>4. Lists(L, 1 .. n)
      BY <3>3 DEF Lists
    <3>5. Ascending(L, number)
      BY <1>3, <3>1, <3>3 DEF Ascending, Before
    <3> HIDE DEF L, D
    <3>6. ByNumber(D, number) = L
      BY <2>1, <3>2, <3>4, <3>5, AscendingIsByNumber
    <3>7. \A k \in 1 .. n : date[L[k]] = start + k - 1
      BY <3>1 DEF L
    <3>8. end \in start .. MaxDate /\ n = Least(end - start + 1, MaxTripDays) /\ end # 0
      BY <1>1, <1>2, <1>3, <2>3 DEF Calendar
    <3>9. LET m == Most(end - start + 1, 0) IN n = m \/ (n < m /\ n = MaxTripDays)
      BY <1>3, <3>8, TripDaysAssumption DEF Most, Least
    <3> QED
      BY <1>1, <2>3, <3>3, <3>6, <3>7, <3>8, <3>9 DEF DatesMatchTrip, D
  <2> QED
    BY <2>2, <2>3
<1> QED
  BY <1>6, <1>8, <1>9 DEF TripDaysInv

-----------------------------------------------------------------------------

(* After any calls: the types, no two days in one slot, dates, stays and    *)
(* bookings on days that exist, and the trip's dates on its days.           *)
THEOREM TripDaysInvariant == TripDaysSpec => []TripDaysInv
<1>1. TripDaysInv /\ [TripDaysNext]_tripDaysVars => TripDaysInv'
  BY TripDaysStep DEF StepGood, TripDaysInv
<1> QED
  BY <1>1, TripDaysStart, PTL DEF TripDaysSpec

(* The dated days are the trip's dates, in order, while no day was created  *)
(* with a date of its own or deleted since the dates were last set.         *)
THEOREM DaysMatchTrip == TripDaysSpec => []DatesMatchTrip
BY TripDaysInvariant, PTL DEF TripDaysInv

(* No call that renumbers or redates the days inverts a stay, as long as    *)
(* the dated days come first.                                               *)
THEOREM StayNotInverted == TripDaysSpec => StaysKeepOrder
<1>1. TripDaysInv /\ [TripDaysNext]_tripDaysVars =>
        [DatedFirst /\ InOrder(stay) => InOrder(stay)' \/ StayPut]_tripDaysVars
  BY TripDaysStep DEF StepGood, StayKept
<1>2. TripDaysInv /\ [TripDaysNext]_tripDaysVars =>
        [DatedFirst /\ InOrder(stay) =>
           InOrder(stay)' \/ \E i, j \in DayIds : PutStay(i, j)]_tripDaysVars
  BY <1>1 DEF StayPut
<1> QED
  BY <1>2, TripDaysInvariant, PTL DEF TripDaysSpec, StaysKeepOrder

(* A booking on the day of its date stays on such a day, if there is one,   *)
(* until a call on the booking itself.                                      *)
THEOREM BookingFollowsDay == TripDaysSpec => BookingKeepsItsDay
<1>1. TripDaysInv /\ [TripDaysNext]_tripDaysVars =>
        [OnItsDay => \/ OnItsDay' \/ booking'.day = 0
                     \/ date'[booking'.day] = 0
                     \/ \A i \in DayIds : date'[i] # booking'.date
                     \/ Booked]_tripDaysVars
  BY TripDaysStep DEF StepGood, BookingKept
<1>2. TripDaysInv /\ [TripDaysNext]_tripDaysVars =>
        [OnItsDay => \/ OnItsDay' \/ booking'.day = 0
                     \/ date'[booking'.day] = 0
                     \/ \A i \in DayIds : date'[i] # booking'.date
                     \/ \E day \in 0 .. MaxDayRows, d \in 0 .. MaxDate : Book(day, d)]_tripDaysVars
  BY <1>1 DEF Booked
<1> QED
  BY <1>2, TripDaysInvariant, PTL DEF TripDaysSpec, BookingKeepsItsDay

=============================================================================
