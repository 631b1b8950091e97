--------------------------- MODULE TableOperators ---------------------------
(***************************************************************************)
(* What the requests of the server promise about rows, for whole tables:    *)
(* src/server/DataSeriesServer.thrift, with the expressions and comparisons *)
(* that the modules under src/server use.  A table is the sequence of its   *)
(* rows.  How the rows are cut into extents is left to ServerModules.tla.   *)
(*                                                                          *)
(* A row has a key k, which is also what is joined and sorted on, a value v *)
(* and the update column u.  Row expressions are fixed: a select keeps the  *)
(* rows with v = 1, a transform sums v up over the rows, through prev.v.    *)
(***************************************************************************)
EXTENDS Integers, Sequences, SequencesExt

Null == 0                     \* a null key, and what is in a missing column

UpdateInsert  == 1            \* the values of the update column
UpdateReplace == 2
UpdateDelete  == 3

Row == [k : Nat, v : Nat, u : Nat]

Keys(rows) == {rows[i].k : i \in DOMAIN rows}

\* SelectSeq, which has no definition that could be reasoned about.
Only(rows, Test(_)) ==
  FlattenSeq([i \in DOMAIN rows |-> IF Test(rows[i]) THEN <<rows[i]>> ELSE << >>])

\* Is r to be sorted strictly before s?
Before(r, s, by) ==
  IF (r.k = Null) # (s.k = Null)
    THEN (r.k = Null) = by.nulls_first
    ELSE r.k # s.k /\ (r.k < s.k) = by.less

Sorted(rows, by) == \A i, j \in DOMAIN rows : i < j => ~Before(rows[j], rows[i], by)

\* A row goes behind those of sorted rows that it is not before.
Place(r, rows, by) ==
  CHOOSE n \in 0..Len(rows) : /\ \A i \in 1..n : ~Before(r, rows[i], by)
                             /\ \A i \in (n + 1)..Len(rows) : Before(r, rows[i], by)

StableSort(rows, by) ==
  LET sorted[n \in 0..Len(rows)] ==
        IF n = 0 THEN << >>
        ELSE InsertAt(sorted[n - 1], Place(rows[n], sorted[n - 1], by) + 1, rows[n])
  IN  sorted[Len(rows)]

Selected(r)  == r.v = 1
Projected(r) == [r EXCEPT !.v = Null]
Joined(a, b) == [k |-> b.k, v |-> a.v, u |-> b.v]

Transformed(r, previous) == [r EXCEPT !.v = @ + previous.v]

NoPrevious == [k |-> Null, v |-> 0, u |-> 0]

Matches(r, rows) == Only(rows, LAMBDA s : s.k = r.k)

\* The row of the base table that an update leaves.
Updated(r) == [r EXCEPT !.u = 0]

----------------------------------------------------------------------------
\* The requests

Project(rows) == [i \in DOMAIN rows |-> Projected(rows[i])]

Transform(rows) ==
  LET sum[i \in 0..Len(rows)] ==
        IF i = 0 THEN NoPrevious ELSE Transformed(rows[i], sum[i - 1])
  IN  [i \in DOMAIN rows |-> sum[i]]

HashJoin(a, b) ==
  FlattenSeq([i \in DOMAIN b |->
    LET found == Matches(b[i], a) IN [j \in DOMAIN found |-> Joined(found[j], b[i])]])

\* Each fact row finds the last row of the dimension with its key.
StarJoin(dimension, fact) ==
  [i \in DOMAIN fact |-> Joined(Last(Matches(fact[i], dimension)), fact[i])]

Ascending == [less |-> TRUE, nulls_first |-> TRUE]

UniquelySorted(rows) == \A i, j \in DOMAIN rows : i < j => rows[i].k < rows[j].k

\* sortedUpdateTable, of tables sorted uniquely on the key.
CanUpdate(base, update) ==
  /\ UniquelySorted(base) /\ UniquelySorted(update)
  /\ \A i \in DOMAIN update :
       /\ update[i].u \in {UpdateInsert, UpdateReplace, UpdateDelete}
       /\ update[i].u = UpdateInsert => update[i].k \notin Keys(base)

SortedUpdate(base, update) ==
  LET deleted == {update[i].k : i \in {n \in DOMAIN update : update[n].u = UpdateDelete}}
      kept    == Only(base, LAMBDA r : r.k \notin Keys(update))
      changed == Only(update, LAMBDA r : r.k \notin deleted)
  IN  StableSort(kept \o [i \in DOMAIN changed |-> Updated(changed[i])], Ascending)
=============================================================================
