-------------------------------- MODULE Paging --------------------------------
(* pagination.py: the rows of a list are counted, sorted by one column and   *)
(* sliced. Rows that are equal in that column come in any order, a different *)
(* one for each statement.                                                   *)
EXTENDS Integers, FiniteSets

Before(a, b, descending) == IF descending THEN a > b ELSE a < b

(* The places rows may come in, by their value in the column.                *)
Orders(column, descending) ==
  LET Rows == DOMAIN column
  IN  {place \in [Rows -> 1..Cardinality(Rows)] :
         \A p, q \in Rows :
           /\ place[p] = place[q] => p = q
           /\ Before(column[p], column[q], descending) => place[p] < place[q]}

(* Mutant: pages counted from zero.                                          *)
OffsetFromZero(page, size) == page * size

Offset(page, size) == (page - 1) * size

Slice(place, page, size) ==
  {p \in DOMAIN place : place[p] \in (Offset(page, size) + 1)..(Offset(page, size) + size)}

TotalPages(total, size) == (total + size - 1) \div size
=============================================================================
