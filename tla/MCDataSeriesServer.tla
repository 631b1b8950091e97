------------------------- MODULE MCDataSeriesServer -------------------------
(***************************************************************************)
(* DataSeriesServer for TLC: three tables of two types with one name, rows    *)
(* with a few keys and null, and requests of every kind on them.              *)
(***************************************************************************)
EXTENDS DataSeriesServer

CONSTANTS A, B, C, Fields, OtherFields

R(k, v, u) == [k |-> k, v |-> v, u |-> u]

\* The rows of the imported tables, in extents of at most two rows.
Stored == {
  << >>,
  << <<R(1, 1, 1)>> >>,
  << <<R(1, 0, 0), R(2, 1, 0)>>, <<R(3, 1, 0)>> >>,
  << <<R(2, 1, 3), R(3, 0, 2)>>, <<R(4, 1, 1), R(5, 0, 1)>> >>,
  << <<R(2, 0, 2), R(0, 1, 4)>>, <<R(1, 1, 1)>> >> }

RowType   == [name |-> <<"row">>, fields |-> Fields]
OtherType == [name |-> <<"row">>, fields |-> OtherFields]

MCRowTypes == {RowType, OtherType}

FileWith(type, extents) == [type |-> type, extents |-> extents, whole |-> TRUE]

\* Table B may have the other type, or not be there.
MCImported == { [t \in Tables |-> IF t = A THEN FileWith(RowType, a)
                                  ELSE IF t = B THEN b ELSE NoFile]
                : a \in Stored,
                  b \in {FileWith(RowType, s) : s \in Stored}
                        \cup {FileWith(OtherType, << <<R(2, 1, 1)>> >>), NoFile} }

MCRequests ==
  [op : {"merge", "star"}, in : {<<A, B>>, <<B, A>>, <<A, C>>}, out : {C}]
  \cup [op : {"merge"}, in : {<<A, C>>, <<C, A, B>>}, out : {B}]
  \cup [op : {"merge"}, in : {<<C, B>>}, out : {A}]
  \cup [op : {"hash"}, in : {<<A, B>>, <<C, A>>}, out : {C, B}, max_rows : {4}]
  \cup [op : {"select", "project", "transform"}, in : {<<A>>, <<C>>}, out : {C, B}]
  \cup [op : {"select"}, in : {<<B>>}, out : {C}]
  \cup [op : {"sort"}, in : {<<A>>, <<C>>}, out : {C}, by : Orders]
  \cup [op : {"union"}, in : {<<A, B>>, <<C, A>>}, out : {C}, by : {Ascending}]
  \cup [op : {"update"}, in : {<<A, B>>, <<C, B>>, <<A, A>>}, out : {A}]
  \cup [op : {"get"}, in : {<<A>>, <<C>>}, out : {C}, max_rows : {0, 1, 3}]
  \cup [op : {"import"}, out : {C}, type : {OtherType}, extents : {<< <<R(1, 1, 2)>>, <<R(2, 0, 1), R(4, 1, 3)>> >>}]
  \cup [op : {"rows"}, out : {B, C}, type : {OtherType},
        rows : {<<R(3, 1, 1), R(1, 1, 1)>>}, bad_row : BOOLEAN]
  \cup [op : {"child"}, out : {B, C}, type : {RowType},
        extents : {<< <<R(2, 0, 1)>> >>}, fails : BOOLEAN]
=============================================================================
