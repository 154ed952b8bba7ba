----------------------------- MODULE PagingProofs -----------------------------
(* Pages of one list follow each other: each but the last is full, and no    *)
(* row is missed or repeated, as long as the order of the rows is settled.   *)
EXTENDS Paging, FiniteSetTheorems, TLAPS

(* Places are a numbering of the rows.                                       *)
LEMMA PlacesAreBijections ==
  ASSUME NEW Rows, IsFiniteSet(Rows), NEW column, DOMAIN column = Rows,
         NEW d, NEW place \in Orders(column, d)
  PROVE  /\ Cardinality(Rows) \in Nat
         /\ place \in [Rows -> 1..Cardinality(Rows)]
         /\ \A p, q \in Rows : place[p] = place[q] => p = q
         /\ \A i \in 1..Cardinality(Rows) : \E p \in Rows : place[p] = i
<1> DEFINE n == Cardinality(Rows)
<1>1. n \in Nat
  BY FS_CardinalityType
<1>2. place \in [Rows -> 1..n] /\ \A p, q \in Rows : place[p] = place[q] => p = q
  BY DEF Orders
<1>3. IsFiniteSet(1..n) /\ Cardinality(1..n) = n
  BY <1>1, FS_Interval
<1>4. place \in Injection(Rows, 1..n)
  BY <1>2 DEF Injection, IsInjective
<1>5. place \in Surjection(Rows, 1..n)
  BY <1>3, <1>4, FS_Injection
<1> QED BY <1>1, <1>2, <1>5 DEF Surjection

(* The rows that have a place in an interval.                                *)
Between(place, a, b) == {p \in DOMAIN place : place[p] \in a..b}

LEMMA RowsBetween ==
  ASSUME NEW Rows, NEW n \in Nat, NEW place \in [Rows -> 1..n],
         \A p, q \in Rows : place[p] = place[q] => p = q,
         \A i \in 1..n : \E p \in Rows : place[p] = i,
         NEW a \in Nat \ {0}, NEW b \in 0..n, a <= b + 1
  PROVE  Cardinality(Between(place, a, b)) = b - a + 1
<1> DEFINE S == Between(place, a, b)
           f == [p \in S |-> place[p]]
<1>1. f \in Injection(S, a..b)
  BY DEF Injection, IsInjective, Between
<1>2. f \in Surjection(S, a..b)
  <2>1. f \in [S -> a..b]
    BY DEF Between
  <2>2. ASSUME NEW i \in a..b PROVE \E p \in S : f[p] = i
    <3>1. PICK p \in Rows : place[p] = i
      OBVIOUS
    <3> QED BY <3>1 DEF Between
  <2> QED BY <2>1, <2>2 DEF Surjection
<1>0. a \in Int /\ b \in Int
  OBVIOUS
<1>3. IsFiniteSet(a..b) /\ Cardinality(a..b) = b - a + 1
  <2>1. /\ IsFiniteSet(a..b)
        /\ Cardinality(a..b) = IF a > b THEN 0 ELSE b - a + 1
    BY <1>0, FS_Interval
  <2> QED BY <1>0, <2>1
<1> HIDE DEF S, f
<1>4. IsFiniteSet(S) /\ Cardinality(S) = Cardinality(a..b)
  BY <1>1, <1>2, <1>3, FS_Injection
<1> QED BY <1>3, <1>4 DEF S

(* The rows that come before one in every order.                             *)
Ahead(column, d, p) == {q \in DOMAIN column : Before(column[q], column[p], d)}

(* Where every two rows differ in the column, their order is the only one.   *)
LEMMA OneOrder ==
  ASSUME NEW Rows, IsFiniteSet(Rows), NEW column \in [Rows -> Int],
         \A p, q \in Rows : column[p] = column[q] => p = q,
         NEW d \in BOOLEAN, NEW one \in Orders(column, d), NEW other \in Orders(column, d)
  PROVE  one = other
<1> DEFINE n == Cardinality(Rows)
<1>1. ASSUME NEW place \in Orders(column, d), NEW p \in Rows
      PROVE  place[p] = Cardinality(Ahead(column, d, p)) + 1
  <2>1. /\ n \in Nat /\ place \in [Rows -> 1..n]
        /\ \A q, s \in Rows : place[q] = place[s] => q = s
        /\ \A i \in 1..n : \E q \in Rows : place[q] = i
    BY PlacesAreBijections
  <2>2. \A q, s \in Rows : Before(column[q], column[s], d) => place[q] < place[s]
    BY DEF Orders
  <2>3. \A q \in Rows : Before(column[q], column[p], d) <=> place[q] < place[p]
    <3>1. ASSUME NEW q \in Rows, place[q] < place[p] PROVE Before(column[q], column[p], d)
      <4>1. q # p /\ ~Before(column[p], column[q], d)
        BY <2>1, <2>2, <3>1
      <4> QED BY <4>1 DEF Before
    <3> QED BY <2>2, <3>1
  <2>4. Ahead(column, d, p) = Between(place, 1, place[p] - 1)
    BY <2>1, <2>3 DEF Between, Ahead
  <2>5. place[p] - 1 \in 0..n
    BY <2>1
  <2>6. Cardinality(Between(place, 1, place[p] - 1)) = place[p] - 1 - 1 + 1
    <3>1. 1 \in Nat \ {0} /\ 1 <= place[p] - 1 + 1
      BY <2>5
    <3> QED BY <2>1, <2>5, <3>1, RowsBetween
  <2> HIDE DEF n
  <2>7. place[p] \in Int
    BY <2>1
  <2> QED BY <2>4, <2>6, <2>7
<1>2. one \in [Rows -> 1..n] /\ other \in [Rows -> 1..n]
  BY PlacesAreBijections
<1>3. \A p \in Rows : one[p] = other[p]
  BY <1>1
<1> QED BY <1>2, <1>3

(* A page before the last is full, and a page has rows just when it is not   *)
(* after the last.                                                           *)
LEMMA PagesAreFull ==
  ASSUME NEW Rows, IsFiniteSet(Rows), NEW column, DOMAIN column = Rows,
         NEW d, NEW place \in Orders(column, d),
         NEW page \in Nat \ {0}, NEW size \in Nat \ {0}
  PROVE  LET last == TotalPages(Cardinality(Rows), size)
         IN  /\ page < last => Cardinality(Slice(place, page, size)) = size
             /\ Slice(place, page, size) # {} <=> page <= last
<1> DEFINE n == Cardinality(Rows)
           last == TotalPages(n, size)
           o == (page - 1) * size
<1>1. /\ n \in Nat /\ place \in [Rows -> 1..n]
      /\ \A p, q \in Rows : place[p] = place[q] => p = q
      /\ \A i \in 1..n : \E p \in Rows : place[p] = i
  BY PlacesAreBijections
<1>2. Slice(place, page, size) = Between(place, o + 1, o + size)
  BY DEF Slice, Offset, Between
<1>3. o \in Nat /\ page * size = o + size
  OBVIOUS
<1>4. /\ last \in Int
      /\ last * size <= n + size - 1 /\ n + size - 1 < last * size + size
  BY <1>1 DEF TotalPages
<1>5. page < last => o + size <= n
  <2>1. page < last => page * size + size <= last * size
    BY <1>4
  <2> QED BY <1>1, <1>3, <1>4, <2>1
<1>6. page <= last <=> o < n
  <2>1. page <= last => page * size <= last * size
    BY <1>4
  <2>2. page > last => page * size >= last * size + size
    BY <1>4
  <2> QED BY <1>1, <1>3, <1>4, <2>1, <2>2
<1>7. ASSUME page < last PROVE Cardinality(Slice(place, page, size)) = size
  <2>1. o + 1 \in Nat \ {0} /\ o + size \in 0..n /\ o + 1 <= o + size + 1
    BY <1>1, <1>3, <1>5, <1>7
  <2>2. Cardinality(Between(place, o + 1, o + size)) = o + size - (o + 1) + 1
    BY <1>1, <2>1, RowsBetween
  <2> QED BY <1>2, <1>3, <2>2
<1>8. Slice(place, page, size) # {} <=> o < n
  <2>1. ASSUME o < n PROVE \E p \in Rows : place[p] \in (o + 1)..(o + size)
    <3>1. o + 1 \in 1..n /\ o + 1 \in (o + 1)..(o + size)
      BY <1>1, <1>3, <2>1
    <3> QED BY <1>1, <3>1
  <2>2. ASSUME NEW p \in Rows, place[p] \in (o + 1)..(o + size) PROVE o < n
    BY <1>1, <1>3, <2>2
  <2>3. DOMAIN place = Rows
    BY <1>1
  <2> HIDE DEF o, n
  <2> QED BY <1>2, <2>1, <2>2, <2>3 DEF Between
<1> QED BY <1>6, <1>7, <1>8

(* A row of an earlier page comes before a row of a later one.               *)
LEMMA PagesFollow ==
  ASSUME NEW Rows, IsFiniteSet(Rows), NEW column \in [Rows -> Int],
         \A p, q \in Rows : column[p] = column[q] => p = q,
         NEW d \in BOOLEAN, NEW one \in Orders(column, d), NEW other \in Orders(column, d),
         NEW i \in Nat \ {0}, NEW j \in Nat \ {0}, i < j, NEW size \in Nat \ {0},
         NEW p \in Slice(one, i, size), NEW q \in Slice(other, j, size)
  PROVE  p \in Rows /\ q \in Rows /\ Before(column[p], column[q], d)
<1>1. one = other
  BY OneOrder
<1>2. one \in [Rows -> 1..Cardinality(Rows)] /\ Cardinality(Rows) \in Nat
  BY PlacesAreBijections
<1>3. /\ p \in Rows /\ one[p] \in ((i - 1) * size + 1)..((i - 1) * size + size)
      /\ q \in Rows /\ one[q] \in ((j - 1) * size + 1)..((j - 1) * size + size)
  BY <1>1, <1>2 DEF Slice, Offset
<1>4. (i - 1) * size + size <= (j - 1) * size
  OBVIOUS
<1>5. one[p] < one[q]
  BY <1>2, <1>3, <1>4
<1>6. p # q /\ ~Before(column[q], column[p], d)
  BY <1>2, <1>3, <1>5 DEF Orders
<1> QED BY <1>3, <1>6 DEF Before
=============================================================================
