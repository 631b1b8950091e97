--------------------------- MODULE MCExtentPacking ---------------------------
(***************************************************************************)
(* Types of extents for ExtentPacking, each with what its fields are given.  *)
(***************************************************************************)
EXTENDS ExtentPacking, TLC

Plain(kind, values) ==
  [kind |-> kind, nullable |-> FALSE, relative |-> 0, scale |-> 0, unique |-> FALSE,
   size |-> 0, values |-> values]

Null(field)          == [field EXCEPT !.nullable = TRUE]
RelativeTo(i, field) == [field EXCEPT !.relative = i]
InUnits(s, field)    == [field EXCEPT !.scale = s]
Unique(field)        == [field EXCEPT !.unique = TRUE]

Int32  == Plain("int32", {1, 3})
Int64  == Plain("int64", {1, 2})
Byte   == Plain("byte", {5})
Double == Plain("double", {0, 4})
Fixed  == [Plain("fixedwidth", {2, 770}) EXCEPT !.size = 2]
String(values) == Plain("variable32", values)

Type(compact, order, pad, fields) ==
  [compact |-> compact, order |-> order, pad |-> pad, fields |-> fields]

Small == "small_to_big_sep_var32"
Big   == "big_to_small_sep_var32"

\* A field relative to one that is relative to one, each of which may be null.
Chain == <<RelativeTo(1, Null(Int32)), RelativeTo(1, Null(Int32)), RelativeTo(2, Int32)>>

\* A null may be between two values of a self-relative field.
Delta == <<RelativeTo(1, Null(Int64)), Null(Byte)>>

\* Every width, null or not.
Widths == <<Null(Plain("int64", {2})), Null(Byte), Null(Plain("int32", {3})), Plain("bool", {1}),
            Plain("int64", {1}), Byte>>

Names == <<Unique(Null(String({0, 1, 2}))), Unique(String({1, 2})), String({0, 1})>>

\* A scaled double, one relative to it, one relative to itself.
Reals == <<InUnits(3, Double), RelativeTo(1, Plain("double", {2})),
           RelativeTo(3, InUnits(3, Null(Plain("double", {1, 4}))))>>

\* The rounding errors of a delta add up.
Drifting == <<RelativeTo(1, InUnits(3, Plain("double", {0, 1, 2, 6})))>>

Octets == <<Null(Fixed), Null(Int32)>>

Pads == {"original", "max_column_size"}

Limits ==
  [t \in {Type(c, Small, "original", f) : c \in BOOLEAN, f \in {Delta, Reals}} |-> 3]
  @@ [t \in {Type(TRUE, o, p, Octets) : o \in {Small, Big}, p \in Pads} |-> 2]
  @@ [t \in {Type(c, Small, "max_column_size", Chain) : c \in BOOLEAN} |-> 2]
  @@ [t \in {Type(c, Small, "original", Names) : c \in BOOLEAN} |-> 2]
  @@ [t \in {Type(c, o, p, Widths) : c \in BOOLEAN, o \in {Small, Big}, p \in Pads} |-> 3]
  @@ [t \in {Type(FALSE, Small, "original", Drifting)} |-> 3]

MCTypes   == DOMAIN Limits
MCMaxRows == Limits

MCLength == [s \in 0..2 |-> <<0, 3, 5>>[s + 1]]
=============================================================================
