--------------------------- MODULE ExtentPacking ---------------------------
(***************************************************************************)
(* An extent from the rows a program put into it to the packed extent and   *)
(* back: packData, compactNulls, uncompactNulls and unpackData of           *)
(* src/base/Extent.cpp, with what the fields do to store a string.          *)
(*                                                                          *)
(* A record has its null bits and the values of its fields.  An integer is  *)
(* modulo 2^IntBits, a double a whole number, a fixedwidth its first byte   *)
(* plus 256 times the rest, a string its number with its length in Length;  *)
(* the value of a variable32 in a record is the offset of the string in the *)
(* variable data.  Compression returns what it was given, and the packed    *)
(* extent is taken to be read as it was written: damage is the subject of   *)
(* FileRecovery.tla.                                                        *)
(***************************************************************************)
EXTENDS ExtentLayout, FiniteSets

CONSTANTS
  Types,          \* the types of extents considered
  MaxRows,        \* rows of an extent, for each type
  IntBits,        \* width of an int32 and of an int64
  Length          \* length of each string; string 0 is the empty one

ASSUME TypesAssumption ==
  /\ \A t \in Types : WellFormed(t) /\ MaxRows[t] \in Nat
  /\ IntBits \in Nat \ {0}
  /\ DOMAIN Length \subseteq Nat /\ Length[0] = 0
  /\ \A s \in DOMAIN Length : s # 0 => Length[s] \in Nat \ {0}

VARIABLES
  type,
  phase,          \* "fill", "pack", "compact", "uncompact", "unpack", "done"
  rows,           \* history: the rows the program put in, with strings
  fixeddata,      \* the extent's records
  variabledata,   \* the extent's strings
  coded,          \* fixed_coded: the records packed so far
  pool,           \* variable_coded and the hash table of unique strings
  prev,           \* psr_copy: the previous value of each self-relative field
  next,           \* how many records the current loop is through with
  hashed,         \* what the hash in the header was taken of
  stream,         \* into of compactNulls and from of uncompactNulls, by byte
  cur,            \* the position in it
  length,         \* the bytes of it
  unpacked,       \* the records read back, unpacked up to next
  failed          \* the assertion that failed, or "no"

inputs   == <<type, rows, fixeddata, variabledata>>
packing  == <<coded, pool, hashed>>
bytes    == <<stream, cur, length>>
vars     == <<phase, inputs, packing, prev, next, bytes, unpacked, failed>>

Init ==
  /\ type \in Types
  /\ phase = "fill"
  /\ rows = <<>>
  /\ fixeddata = <<>>
  /\ variabledata = [size |-> 4, at |-> [o \in {0} |-> 0]]
  /\ coded = <<>>
  /\ pool = [strings |-> variabledata, unique |-> {}]
  /\ hashed = <<>>
  /\ prev = <<>>
  /\ next = 0
  /\ stream = <<>>
  /\ cur = 0
  /\ length = 0
  /\ unpacked = <<>>
  /\ failed = "no"

Fields   == DOMAIN type.fields
Field(i) == type.fields[i]

Columns(t)       == OfKind(t, {"variable32"})
SelfRelative(t)  == {i \in DOMAIN t.fields : t.fields[i].relative = i}
OtherRelative(t) == SelectSeq([i \in DOMAIN t.fields |-> i],
                              LAMBDA i : t.fields[i].relative \in 1..(i - 1))

----------------------------------------------------------------------------
\* Variable data

RoundUp(size) == size + ((12 - (size % 8)) % 8)

\* s goes to the end, after its length.
Store(strings, s) ==
  [size |-> strings.size + 4 + RoundUp(Length[s]),
   at   |-> [o \in DOMAIN strings.at \cup {strings.size} |->
               IF o = strings.size THEN s ELSE strings.at[o]]]

\* Variable32Field::selfcheck
GoodOffset(strings, o) ==
  /\ o \in DOMAIN strings.at
  /\ \/ o = 0
     \/ (o + 4) % 8 = 0 /\ o + 4 + RoundUp(Length[strings.at[o]]) <= strings.size

----------------------------------------------------------------------------
\* The program fills the extent

\* A field may have been set and then made null.
Records(t) ==
  LET Choose(vals, f) == {Append(v, x) : v \in vals, x \in f.values}
  IN  [null : SUBSET Nullable(t), val : FoldLeft(Choose, {<<>>}, t.fields)]

\* newRecord, and set of each field; set of an empty string clears the field.
AddRecord(row) ==
  LET Set(sofar, i) ==
        IF row.val[i] = 0 THEN sofar
        ELSE [record  |-> [sofar.record EXCEPT !.val[i] = sofar.strings.size],
              strings |-> Store(sofar.strings, row.val[i])]
      set == FoldLeft(Set, [record |-> row, strings |-> variabledata], Columns(type))
  IN  /\ Len(rows) < MaxRows[type]
      /\ rows' = Append(rows, row)
      /\ fixeddata' = Append(fixeddata, set.record)
      /\ variabledata' = set.strings
      /\ UNCHANGED <<phase, type, packing, prev, next, bytes, unpacked, failed>>

----------------------------------------------------------------------------
\* packData

Skipped(row, i) == type.compact /\ i \in row.null

Plus(i, a, b)  == IF Field(i).kind = "double" THEN a + b ELSE (a + b) % 2^IntBits
Minus(i, a, b) == IF Field(i).kind = "double" THEN a - b ELSE (a - b) % 2^IntBits

\* round(x / scale): away from zero in the middle
Round(x, scale) ==
  IF x >= 0 THEN (2 * x + scale) \div (2 * scale) ELSE -((scale - 2 * x) \div (2 * scale))

\* Field i with b stored as its only byte, or first byte if it is fixedwidth.
FirstByte(i, v, b) == IF Field(i).kind = "fixedwidth" THEN 256 * (v \div 256) + b ELSE b

ZeroNulls(row) ==
  [row EXCEPT !.val = [i \in Fields |->
     IF Skipped(row, i) THEN FirstByte(i, row.val[i], 0) ELSE row.val[i]]]

PackString_any(sofar, i) ==
  LET s    == variabledata.at[sofar.row.val[i]]
      end  == sofar.pool.strings.size
      same == {o \in sofar.pool.unique : sofar.pool.strings.at[o] = s}
  IN  IF s = 0 THEN sofar
      ELSE IF same # {}
        THEN [sofar EXCEPT !.row.val[i] = CHOOSE o \in same : TRUE]
        ELSE [row  |-> [sofar.row EXCEPT !.val[i] = end],
              pool |-> [strings |-> Store(sofar.pool.strings, s),
                        unique  |-> sofar.pool.unique
                                    \cup (IF Field(i).unique THEN {end} ELSE {})]]

\* A unique string is stored once.
PackString(sofar, i) ==
  LET s    == variabledata.at[sofar.row.val[i]]
      end  == sofar.pool.strings.size
      same == {o \in sofar.pool.unique : sofar.pool.strings.at[o] = s}
  IN  IF s = 0 THEN sofar
      ELSE IF Field(i).unique /\ same # {}
        THEN [sofar EXCEPT !.row.val[i] = CHOOSE o \in same : TRUE]
        ELSE [row  |-> [sofar.row EXCEPT !.val[i] = end],
              pool |-> [strings |-> Store(sofar.pool.strings, s),
                        unique  |-> sofar.pool.unique
                                    \cup (IF Field(i).unique THEN {end} ELSE {})]]

PackOther_forward(row) ==
  LET Pack(r, i) == IF Skipped(r, i) THEN r
                    ELSE [r EXCEPT !.val[i] = Minus(i, @, r.val[Field(i).relative])]
  IN  FoldLeft(Pack, row, OtherRelative(type))

\* Last field first, so that each base is still what it was.
PackOther(row) ==
  LET Pack(r, i) == IF Skipped(r, i) THEN r
                    ELSE [r EXCEPT !.val[i] = Minus(i, @, r.val[Field(i).relative])]
  IN  FoldLeft(Pack, row, Reverse(OtherRelative(type)))

PackSelf(row) ==
  [row EXCEPT !.val = [i \in Fields |->
     IF i \notin DOMAIN prev \/ Skipped(row, i) THEN row.val[i]
     ELSE Minus(i, row.val[i], prev[i])]]

PackScaled(row) ==
  [row EXCEPT !.val = [i \in Fields |->
     IF Field(i).scale = 0 THEN row.val[i] ELSE Round(row.val[i], Field(i).scale)]]

NextPrev(row) == [i \in DOMAIN prev |-> IF Skipped(row, i) THEN prev[i] ELSE row.val[i]]

NoPrev == [i \in SelfRelative(type) |-> 0]

PackStart ==
  /\ phase = "fill"
  /\ phase' = "pack"
  /\ prev' = NoPrev
  /\ UNCHANGED <<inputs, packing, next, bytes, unpacked, failed>>

PackRecord ==
  LET zeroed == ZeroNulls(fixeddata[Len(coded) + 1])
      stored == FoldLeft(PackString, [row |-> zeroed, pool |-> pool], Columns(type))
      based  == PackOther(stored.row)
  IN  /\ phase = "pack"
      /\ Len(coded) < Len(fixeddata)
      /\ coded' = Append(coded, PackScaled(PackSelf(based)))
      /\ pool' = stored.pool
      /\ prev' = NextPrev(based)
      /\ failed' = IF \A i \in ToSet(Columns(type)) : GoodOffset(variabledata, zeroed.val[i])
                   THEN failed ELSE "selfcheck"
      /\ UNCHANGED <<phase, inputs, hashed, next, bytes, unpacked>>

\* The hash is of the records as they are before compaction, and of the strings.
PackEnd ==
  /\ phase = "pack"
  /\ Len(coded) = Len(fixeddata)
  /\ hashed' = <<coded, pool.strings>>
  /\ phase' = IF type.compact THEN "compact" ELSE "check"
  /\ unpacked' = IF type.compact THEN <<>> ELSE coded
  /\ UNCHANGED <<inputs, coded, pool, prev, next, bytes, failed>>

----------------------------------------------------------------------------
\* compactNulls and uncompactNulls

\* The bytes that are copied of a field that is not null.
CopiedWidth(i) == IF Field(i).kind \in Size1 THEN 1 ELSE Width(Field(i))

Present(row) == SelectSeq(CompactOrder(type), LAMBDA i : i \notin row.null)

\* Where each of these fields ends when compactNulls starts the record at p.
CompactEnds(order, p) ==
  LET ends[k \in 0..Len(order)] ==
        IF k = 0 THEN p + BoolBytes(type)
        ELSE Align(ends[k - 1], CopiedWidth(order[k])) + CopiedWidth(order[k])
  IN  ends

CompactRecord ==
  LET row   == coded[next + 1]
      order == Present(row)
      ends  == CompactEnds(order, cur)
      At(k) == ends[k] - CopiedWidth(order[k])
      Item(i) == IF Field(i).kind = "fixedwidth" THEN row.val[i] % 256 ELSE row.val[i]
      items == [p \in {At(k) : k \in DOMAIN order} |->
                  Item(order[CHOOSE k \in DOMAIN order : At(k) = p])]
      bools == [null |-> row.null, val |-> [i \in InBoolBytes(type) |-> row.val[i]]]
  IN  /\ phase = "compact"
      /\ next < Len(coded)
      /\ IF cur + RecordSize(type) <= Len(coded) * RecordSize(type)
           THEN /\ stream' = [p \in DOMAIN stream \cup DOMAIN items \cup {cur} |->
                                IF p = cur THEN bools
                                ELSE IF p \in DOMAIN items THEN items[p] ELSE stream[p]]
                /\ cur' = ends[Len(order)]
                /\ next' = next + 1
                /\ UNCHANGED failed
           ELSE failed' = "bad" /\ UNCHANGED <<stream, cur, next>>
      /\ UNCHANGED <<phase, inputs, packing, prev, length, unpacked>>

CompactEnd ==
  /\ phase = "compact"
  /\ next = Len(coded)
  /\ IF cur <= Len(coded) * RecordSize(type)
       THEN /\ phase' = "uncompact"
            /\ length' = cur
            /\ cur' = 0
            /\ next' = 0
            /\ UNCHANGED failed
       ELSE failed' = "internal" /\ UNCHANGED <<phase, length, cur, next>>
  /\ UNCHANGED <<inputs, packing, prev, stream, unpacked>>

UncompactEnds_unaligned(order, p) ==
  LET ends[k \in 0..Len(order)] ==
        IF k = 0 THEN p + BoolBytes(type) ELSE ends[k - 1] + CopiedWidth(order[k])
  IN  ends

\* uncompactCopy aligns only before the first field of a width.
UncompactEnds(order, p) ==
  LET ends[k \in 0..Len(order)] ==
        IF k = 0 THEN p + BoolBytes(type)
        ELSE IF k = 1 \/ CopiedWidth(order[k]) # CopiedWidth(order[k - 1])
          THEN Align(ends[k - 1], CopiedWidth(order[k])) + CopiedWidth(order[k])
          ELSE ends[k - 1] + CopiedWidth(order[k])
  IN  ends

Garbage == -1

UncompactRecord ==
  LET bools == stream[cur]
      order == Present(bools)
      ends  == UncompactEnds(order, cur)
      item  == [k \in DOMAIN order |->
                  LET p == ends[k] - CopiedWidth(order[k])
                  IN  IF p \in DOMAIN stream THEN stream[p] ELSE Garbage]
      start == [i \in Fields |-> IF i \in DOMAIN bools.val THEN bools.val[i] ELSE 0]
      val   == [i \in Fields |->
                  IF \E k \in DOMAIN order : order[k] = i
                    THEN FirstByte(i, start[i], item[CHOOSE k \in DOMAIN order : order[k] = i])
                    ELSE start[i]]
  IN  /\ phase = "uncompact"
      /\ cur < length /\ next < Len(coded)
      /\ unpacked' = Append(unpacked, [null |-> bools.null, val |-> val])
      /\ cur' = ends[Len(order)]
      /\ next' = next + 1
      /\ UNCHANGED <<phase, inputs, packing, prev, stream, length, failed>>

UncompactEnd ==
  /\ phase = "uncompact"
  /\ cur >= length \/ next = Len(coded)
  /\ IF cur = length /\ next = Len(coded)
       THEN phase' = "check" /\ UNCHANGED failed
       ELSE failed' = "internal" /\ UNCHANGED phase
  /\ UNCHANGED <<inputs, packing, prev, next, bytes, unpacked>>

----------------------------------------------------------------------------
\* unpackData

CheckHash ==
  /\ phase = "check"
  /\ IF <<unpacked, pool.strings>> = hashed
       THEN phase' = "unpack" /\ prev' = NoPrev /\ next' = 0 /\ UNCHANGED failed
       ELSE failed' = "hash" /\ UNCHANGED <<phase, prev, next>>
  /\ UNCHANGED <<inputs, packing, bytes, unpacked>>

UnpackScaled(row) ==
  [row EXCEPT !.val = [i \in Fields |->
     IF Field(i).scale = 0 THEN row.val[i] ELSE row.val[i] * Field(i).scale]]

\* A double is rounded again once the previous value is added.
UnpackSelf(row) ==
  LET sum(i) == Plus(i, row.val[i], prev[i])
  IN  [row EXCEPT !.val = [i \in Fields |->
         IF i \notin DOMAIN prev \/ Skipped(row, i) THEN row.val[i]
         ELSE IF Field(i).scale = 0 THEN sum(i)
         ELSE Round(sum(i), Field(i).scale) * Field(i).scale]]

UnpackOther(row) ==
  LET Unpack(r, i) == IF Skipped(r, i) THEN r
                      ELSE [r EXCEPT !.val[i] = Plus(i, @, r.val[Field(i).relative])]
  IN  FoldLeft(Unpack, row, OtherRelative(type))

UnpackRecord ==
  LET row  == UnpackSelf(UnpackScaled(unpacked[next + 1]))
  IN  /\ phase = "unpack"
      /\ next < Len(unpacked)
      /\ IF \A i \in ToSet(Columns(type)) : GoodOffset(pool.strings, row.val[i])
           THEN /\ unpacked' = [unpacked EXCEPT ![next + 1] = UnpackOther(row)]
                /\ prev' = NextPrev(row)
                /\ next' = next + 1
                /\ UNCHANGED failed
           ELSE failed' = "selfcheck" /\ UNCHANGED <<unpacked, prev, next>>
      /\ UNCHANGED <<phase, inputs, packing, bytes>>

UnpackEnd ==
  /\ phase = "unpack"
  /\ next = Len(unpacked)
  /\ phase' = "done"
  /\ UNCHANGED <<inputs, packing, prev, next, bytes, unpacked, failed>>

Finished == (phase = "done" \/ failed # "no") /\ UNCHANGED vars

Next ==
  \/ failed = "no" /\ \/ phase = "fill" /\ \E row \in Records(type) : AddRecord(row)
                      \/ PackStart \/ PackRecord \/ PackEnd
                      \/ CompactRecord \/ CompactEnd
                      \/ UncompactRecord \/ UncompactEnd
                      \/ CheckHash \/ UnpackRecord \/ UnpackEnd
  \/ Finished

Spec == Init /\ [][Next]_vars

----------------------------------------------------------------------------
\* Properties

\* By how much, doubled, the field may come back different in record n.
\* Rounding to the scale costs half of it, once for each record if the field
\* is packed relative to itself, and what is relative to a field inherits.
Slack(n) ==
  LET slack[i \in Fields] ==
        CASE Field(i).relative = 0 -> Field(i).scale
          [] Field(i).relative = i -> n * Field(i).scale
          [] OTHER -> Field(i).scale + slack[Field(i).relative]
  IN  slack

Within(a, b, double) == 2 * (a - b) <= double /\ 2 * (b - a) <= double

\* What is in field i of a record, whatever the offset of a string.
Value(row, strings, i) ==
  IF Field(i).kind = "variable32" THEN strings.at[row.val[i]] ELSE row.val[i]

(* The row the program put in and record n of the extent read back say the   *)
(* same: the same fields are null, and what is not null, or was not removed  *)
(* as null, is the same string or number, a scaled double within its slack.  *)
SameRow(n) ==
  /\ unpacked[n].null = rows[n].null
  /\ \A i \in Fields : ~Skipped(rows[n], i) =>
       LET before == rows[n].val[i]
           after  == Value(unpacked[n], pool.strings, i)
       IN  IF Field(i).kind = "double" THEN Within(before, after, Slack(n)[i])
           ELSE before = after

\* A packed extent unpacks to the rows that were put into it.
RoundTrip ==
  phase = "done" => Len(unpacked) = Len(rows) /\ \A n \in DOMAIN rows : SameRow(n)

(* The assertions of packing and unpacking hold (the sizes of compactNulls,  *)
(* the hash, the checks of offsets), except where null compaction meets a    *)
(* fixedwidth field, of which it keeps one byte, or the order big to small,  *)
(* in which nearly the whole record counts as the bools and is stored twice. *)
AssertionsHold ==
  failed # "no" =>
    /\ type.compact
    /\ \/ Has(type, {"fixedwidth"}) /\ failed = "hash"
       \/ ~SmallToBig(type) /\ failed \in {"bad", "internal"}

(* Two fields share the storage of a string exactly if both are unique and   *)
(* hold equal strings, and the packed strings are those in use, no others.   *)
StringsShared ==
  LET used == {<<n, i>> : n \in DOMAIN coded, i \in ToSet(Columns(type))}
      At(u) == coded[u[1]].val[u[2]]
      Unique(u) == Field(u[2]).unique
      String(u) == variabledata.at[ZeroNulls(fixeddata[u[1]]).val[u[2]]]
  IN  phase \in {"pack", "compact", "uncompact"} =>
        /\ DOMAIN pool.strings.at = {At(u) : u \in used} \cup {0}
        /\ \A u \in used : pool.strings.at[At(u)] = String(u)
        /\ \A u, v \in used : u # v /\ String(u) # 0 =>
             (At(u) = At(v) <=> String(u) = String(v) /\ Unique(u) /\ Unique(v))
=============================================================================
