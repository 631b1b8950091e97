---------------------------- MODULE ExtentLayout ----------------------------
(***************************************************************************)
(* The fixed-size records of an extent type: src/base/ExtentType.cpp.       *)
(*                                                                          *)
(* A type has fields, an order and a padding of the record, and may ask for *)
(* null compaction.  A field has a kind, may be nullable, and has packing   *)
(* options: relative is 0, the field's own number, or that of an earlier    *)
(* field; scale is 0 or the unit of a double; unique asks for each string   *)
(* to be stored once.  size is the width of a fixedwidth field.  values is  *)
(* what the programs considered put into the field.                         *)
(***************************************************************************)
EXTENDS Integers, Sequences, SequencesExt, FiniteSetsExt

Size1 == {"byte", "fixedwidth"}
Size4 == {"int32", "variable32"}
Size8 == {"int64", "double"}

OfKind(t, kinds) ==
  SelectSeq([i \in DOMAIN t.fields |-> i], LAMBDA i : t.fields[i].kind \in kinds)

Has(t, kinds) == OfKind(t, kinds) # <<>>

Nullable(t) == {i \in DOMAIN t.fields : t.fields[i].nullable}

Width(f) ==
  CASE f.kind = "bool"       -> 0          \* counted as a bit
    [] f.kind = "byte"       -> 1
    [] f.kind = "fixedwidth" -> f.size
    [] f.kind \in Size4      -> 4
    [] f.kind \in Size8      -> 8

Bytes(t, kinds) == MapThenSumSet(LAMBDA i : Width(t.fields[i]), ToSet(OfKind(t, kinds)))

\* A nullable field has a hidden bool of its own.
Bits(t)     == Len(OfKind(t, {"bool"})) + Cardinality(Nullable(t))
BitBytes(t) == (Bits(t) + 7) \div 8

Align(position, width) == position + ((width - (position % width)) % width)

SmallToBig(t) == t.order = "small_to_big_sep_var32"
Original(t)   == t.pad = "original"

SmallToBigSize(t) ==
  LET small == BitBytes(t) + Bytes(t, Size1)
      start == IF Original(t) \/ Has(t, Size4) THEN Align(small, 4) ELSE small
      four  == start + Bytes(t, Size4)
  IN  (IF Original(t) \/ Has(t, Size8) THEN Align(four, 8) ELSE four) + Bytes(t, Size8)

BigToSmallSize(t) ==
  Align(Bytes(t, Size8) + Bytes(t, Size4) + Bytes(t, Size1) + BitBytes(t),
        IF Has(t, Size8) \/ Original(t) THEN 8 ELSE IF Has(t, Size4) THEN 4 ELSE 1)

RecordSize(t) == IF SmallToBig(t) THEN SmallToBigSize(t) ELSE BigToSmallSize(t)

\* Everything up to the last bool counts as the bools, whatever comes before.
BoolBytes(t) ==
  IF Bits(t) = 0 THEN 0
  ELSE BitBytes(t) + IF SmallToBig(t) THEN 0 ELSE Bytes(t, Size1 \cup Size4 \cup Size8)

\* The fields in the bytes that count as the bools.
InBoolBytes(t) ==
  IF SmallToBig(t) \/ Bits(t) = 0 THEN ToSet(OfKind(t, {"bool"})) ELSE DOMAIN t.fields

\* The order in which null compaction goes through the others: by width, then
\* by position in the record.
CompactOrder(t) ==
  OfKind(t, Size1) \o OfKind(t, {"int32"}) \o OfKind(t, {"variable32"}) \o OfKind(t, Size8)

\* What parseXML asserts of a type.
WellFormed(t) ==
  /\ t.compact => Bits(t) > 0
  /\ \A i \in DOMAIN t.fields :
       LET f == t.fields[i] IN
       /\ f.unique => f.kind = "variable32"
       /\ f.scale # 0 => f.kind = "double"
       /\ f.kind = "fixedwidth" => f.size > 0
       /\ f.relative # 0 =>
            /\ f.kind \in {"int32", "int64", "double"}
            /\ f.relative \in 1..i
            /\ t.fields[f.relative].kind = f.kind
            /\ f.relative = i /\ f.kind = "double" => f.scale # 0
=============================================================================
