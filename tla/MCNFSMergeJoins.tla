--------------------------- MODULE MCNFSMergeJoins ---------------------------
(***************************************************************************)
(* NFSMergeJoins for TLC.                                                   *)
(***************************************************************************)
EXTENDS NFSMergeJoins

\* Equal times, replies within the interval (2) and after it, rotations between a
\* request and its reply
Times == <<1, 4, 5, 6, 7, 7>>

\* How many rows of attr-ops the replies have
Replied == [read |-> {0, 1}, readdirplus |-> {2}]

Small == [common |-> 1, attrops |-> 1, rw |-> 1]
Mixed == [common |-> 3, attrops |-> 2, rw |-> 2]

Option(join123, pruned, by, range, rows) ==
  [pulled |-> IF join123 THEN "merge123" ELSE "merge12", prune |-> pruned,
   by |-> by, range |-> range, rows |-> rows]

\* Both sizes of extents, each with and without pruning, and with and without a bound
\* of time; the first join alone, and what nfssubset copied:
\* a range that starts after the first reply there can be
Chosen == {Option(TRUE,  TRUE,  "nothing",   {},   Small),
           Option(TRUE,  FALSE, "nothing",   {},   Mixed),
           Option(TRUE,  FALSE, "time",      2..9, Small),
           Option(FALSE, TRUE,  "time",      2..9, Mixed),
           Option(TRUE,  TRUE,  "nfssubset", 3..5, Small)}
=============================================================================
