----------------------- MODULE DataSeriesServerProofs -----------------------
(***************************************************************************)
(* Theorems about DataSeriesServer for every value of its constants: any    *)
(* tables, extents, rows and requests.  First the inductive invariant, then  *)
(* that each module and each action of the server keeps it, then what        *)
(* follows from it.                                                          *)
(***************************************************************************)
EXTENDS DataSeriesServer, OperatorTheorems

----------------------------------------------------------------------------
\* What the variables hold

RowSeq == Seq(Row)

FullRows == RowSeq \ {<< >>}

Optional == RowSeq \cup {NoExtent}

\* The empty table that createTable makes, of the type it gives it
NewType == TypeOf("created", request.in[1], <<before.info[request.in[2]]>>)
Created == [type |-> NewType, extents |-> << << >> >>, whole |-> TRUE]

IsTable(f) == /\ f = [type |-> f.type, extents |-> f.extents, whole |-> f.whole]
              /\ f.type # MissingType /\ f.whole \in BOOLEAN
              /\ f.extents \in Seq(FullRows) \cup {<< << >> >>}

IsTee(t) == /\ t = [type |-> t.type, extents |-> t.extents, rows |-> t.rows]
            /\ t.type # MissingType
            /\ t.extents \in Seq(FullRows) /\ t.rows \in RowSeq /\ Len(t.rows) <= Limit

\* Sources of tables, of whatever types they are
TypesIn(s) == {s[i].type : i \in DOMAIN s}

IsSources(s) ==
  s \in Seq([table : Tables, type : TypesIn(s), left : Seq(RowSeq) \cup {NotOpened}])

TypeInv ==
  /\ status \in {"idle", "write", "run", "returned", "rename", "error", "dead", "killed"}
  /\ request \in Requests \cup {NoRequest}
  /\ DOMAIN files = Tables /\ DOMAIN info = Tables
  /\ DOMAIN before.files = Tables /\ DOMAIN before.info = Tables
  /\ \A t \in Tables : IsTable(files[t]) /\ IsTable(before.files[t])
  /\ IsTable(tmp) /\ tmp.extents \in Seq(FullRows) /\ IsTee(tee)
  /\ reply.ok \in BOOLEAN /\ served \in 0..MaxServed /\ damaged \subseteq Tables
  /\ IsSources(source) /\ series \in Seq(Optional) /\ Len(series) = Len(source)
  /\ output \in Optional /\ returned \in Optional /\ output_type # MissingType

----------------------------------------------------------------------------
\* The tables while a request is served

Busy == status \in {"run", "returned", "error"}

Truncates == request.op \notin {"get", "update"}

FilesNow ==
  IF Truncates THEN [before.files EXCEPT ![request.out] = NoFile]
  ELSE IF New THEN [before.files EXCEPT ![request.in[1]] = Created]
  ELSE before.files

InfoNow == IF New THEN [before.info EXCEPT ![request.in[1]] = NewType] ELSE before.info

Opened(i) == source[i].left # NotOpened

\* The type that is read of a table
ReadType(i) == IF New /\ i = 1 THEN NewType
               ELSE Found(before.files[request.in[i]], before.info[request.in[i]])

\* The file that is being made by createTable or an import
Target == IF request.op = "update" THEN request.in[1] ELSE request.out

ServingInv ==
  /\ Busy \/ status = "rename" =>
       /\ request # NoRequest
       /\ request.op \in Reading \cup {"import"}
       /\ files = FilesNow /\ info = InfoNow
       /\ request.op \in Reading => Typable(request)
       /\ New => request.in[1] # request.in[2]
  /\ Busy /\ request.op \in Reading =>
       /\ Len(source) = Len(request.in)
       /\ \A i \in DOMAIN source : /\ source[i].table = request.in[i]
                                   /\ source[i].type = ReadType(i)
  /\ Busy /\ request.op = "import" =>
       /\ Len(source) = 1 /\ Opened(1)
       /\ source[1].type = request.type /\ output_type = request.type
  /\ status = "write" =>
       /\ request # NoRequest
       /\ request.op \in {"update", "rows", "child"}
       /\ files = [before.files EXCEPT ![Target] = NoFile] /\ info = before.info
       /\ request.op = "update" => New /\ Typable(request)

Written(t) ==
  \/ status = "write" /\ t = Target
  \/ Busy /\ Truncates /\ t = request.out
  \/ (Busy \/ status = "rename") /\ New /\ t = request.in[1]

Fine(t) == /\ files[t].whole
           /\ files[t].type \in {info[t], NullType}
           /\ files[t].type = NullType => files[t].extents = << >>
           /\ files[t].extents \in Seq(FullRows)

\* Every table that is listed, and not being written, is finished.
TablesInv == status \notin {"dead", "killed"} =>
  \A t \in Tables \ damaged : info[t] # MissingType /\ ~Written(t) => Fine(t)

\* No extent of a table that is listed is empty.
FullInv == status \notin {"dead", "killed"} =>
  \A t \in Tables : info[t] # MissingType /\ ~Written(t) => files[t].extents \in Seq(FullRows)

----------------------------------------------------------------------------
\* What is still to be read, and what has been made of the rest

RowsOf(extent) == IF extent = NoExtent THEN << >> ELSE extent

Unread(i) == IF Opened(i) THEN FlattenSeq(source[i].left) ELSE In(i)

Rest(i) == RowsOf(series[i]) \o Unread(i)

Returns == status = "returned" /\ returned # NoExtent
Ends    == status = "returned" /\ returned = NoExtent

Sent == Rows(FileOf(tee)) \o (IF status = "returned" THEN RowsOf(returned) ELSE << >>)

Done == Sent \o RowsOf(output)

Starts(s) == {SubSeq(s, 1, n) : n \in 0..Len(s)}

\* Has anything left the module?
Begun == Returns \/ tee.type # NullType

TeeInv == Busy /\ request.op # "get" =>
  /\ tee.type \in {NullType, ExtentType}
  /\ tee.type = NullType => tee.rows = << >> /\ tee.extents = << >>
  /\ Begun => ExtentType # NullType

Serving(op) == status \in {"run", "returned"} /\ request.op = op

ImportInv == Serving("import") =>
  /\ Sent \o Unread(1) = FlattenSeq(request.extents)
  /\ output = NoExtent
  /\ Ends => source[1].left = << >>

MergeInv == Serving("merge") =>
  /\ Sent \o FlattenSeq([i \in DOMAIN source |-> Unread(i)])
       = FlattenSeq([i \in DOMAIN request.in |-> In(i)])
  /\ output = NoExtent
  /\ output_type \in {NullType} \cup TypesIn(source)
  /\ Begun \/ (\E i \in DOMAIN source : source[i].left \notin {NotOpened, << >>}) =>
       output_type # NullType
  /\ Ends => \A i \in DOMAIN source : source[i].left = << >>

\* reply has the rows p, or as many as were asked for.
IsData(p) ==
  /\ reply = [ok |-> TRUE, rows |-> SubSeq(p, 1, Min({request.max_rows, Len(p)})),
              more |-> Len(p) > request.max_rows]

GetInv == Serving("get") =>
  /\ \E p \in Starts(In(1)) :
       IsData(p) /\ (p \o (IF status = "returned" THEN RowsOf(returned) ELSE << >>)) \o Unread(1) = In(1)
  /\ ~Opened(1) => output_type = NullType
  /\ Ends => source[1].left = << >>

SelectInv == Serving("select") =>
  /\ Done \o Only(Unread(1), Selected) = Only(In(1), Selected)
  /\ Ends => source[1].left = << >> /\ output = NoExtent

ProjectInv == Serving("project") =>
  /\ Done \o Project(Unread(1)) = Project(In(1))
  /\ Begun \/ output # NoExtent => output_type # NullType
  /\ Ends => source[1].left = << >> /\ output = NoExtent

TransformInv == Serving("transform") =>
  /\ \E p \in Starts(In(1)) :
       /\ p \o Rest(1) = In(1) /\ Done = Transform(p)
       /\ IF output_type = NullType THEN p = << >> ELSE mem = Previous(Done)
  /\ Begun \/ output # NoExtent \/ series[1] # NoExtent => output_type # NullType
  /\ output # NoExtent \/ series[1] # NoExtent => Opened(1)
  /\ Opened(1) /\ source[1].left # << >> =>
       Len(source[1].left) < Len(before.files[request.in[1]].extents)
  /\ Ends => source[1].left = << >> /\ series[1] = NoExtent /\ output = NoExtent

HashInv == Serving("hash") =>
  /\ Done \o HashJoin(In(1), Rest(2)) = HashJoin(In(1), In(2))
  /\ IF output_type = NullType THEN ~Opened(1) /\ ~Begun /\ output = NoExtent ELSE mem = In(1)
  /\ Ends => Rest(2) = << >> /\ output = NoExtent

StarInv == Serving("star") =>
  /\ \E p \in Starts(In(1)) : /\ p \o Rest(1) = In(1) /\ Keys(p) \subseteq Keys(In(2))
                              /\ Sent = StarJoin(In(2), p)
  /\ output = NoExtent
  /\ IF output_type = NullType THEN ~Opened(2) /\ ~Begun ELSE mem = In(2)
  /\ Ends => Rest(1) = << >>

SortInv == Serving("sort") =>
  /\ mem \in Seq(RowSeq) /\ \A j \in DOMAIN mem : Sorted(mem[j], request.by)
  /\ Done \o StableSort(FlattenSeq(mem) \o Unread(1), request.by) = StableSort(In(1), request.by)
  /\ mem # << >> => Opened(1) /\ Unread(1) = << >>
  /\ mem = << >> => output = NoExtent
  /\ Begun \/ mem # << >> => output_type # NullType
  /\ output_type \in {NullType, source[1].type}
  /\ Ends => mem = << >> /\ source[1].left = << >>

\* Where UnionModule is with a source, and what it may hold of it
UnionPlace(i) ==
  IF i <= mem THEN Opened(i) /\ (series[i] = NoExtent => source[i].left = << >>)
              ELSE ~Opened(i) /\ series[i] = NoExtent

UnionFull(i) ==
  request.in[i] \notin damaged =>
    series[i] # << >> /\ (Opened(i) => source[i].left \in Seq(FullRows))

AllSorted == \A i \in DOMAIN request.in : Sorted(In(i), request.by)

Rests == [i \in DOMAIN source |-> Rest(i)]

Ins == [i \in DOMAIN request.in |-> In(i)]

UnionProgress ==
  /\ \A i \in DOMAIN source : Sorted(Rest(i), request.by)
  /\ Done \o StableSort(FlattenSeq(Rests), request.by) = StableSort(FlattenSeq(Ins), request.by)

UnionInv == Serving("union") =>
  /\ mem \in 0..Len(source)
  /\ \A i \in DOMAIN source : UnionPlace(i) /\ UnionFull(i)
  /\ IF mem < Len(source) THEN output_type = NullType /\ ~Begun /\ output = NoExtent /\ ~Ends
                          ELSE output_type # NullType
  /\ AllSorted => UnionProgress
  /\ Ends => output = NoExtent /\ Queue = {}

Exhausted(i) == series[i] = NoExtent /\ source[i].left = << >>

\* What SortedUpdateModule may hold of a source
UpdatePlace(i) ==
  /\ ToSet(Rest(i)) \subseteq ToSet(In(i))
  /\ series[i] # NoExtent => Opened(i)
  /\ mem = "merge" \/ (mem = "update" /\ i = 1) => series[i] # NoExtent \/ Exhausted(i)
  /\ Opened(i) => source[i].left \in Seq(FullRows)
  /\ series[i] = << >> => i = 1 /\ New /\ output = NoExtent /\ mem \in {"base", "update", "merge"}

\* Where it is, and that a base table just created has nothing to give
UpdateControl ==
  /\ mem \in {"base", "update", "merge", "base only", "update only"}
  /\ status = "returned" => mem = "base"
  /\ UpdatePlace(1) /\ UpdatePlace(2)
  /\ ~Opened(1) => mem = "base" /\ output = NoExtent
  /\ mem = "base only" => output # NoExtent /\ Exhausted(2)
  /\ mem = "update only" => output # NoExtent /\ Exhausted(1)
  /\ New => /\ request.in[1] # request.in[2]
            /\ Begun => output = NoExtent /\ Exhausted(1)
            /\ Opened(1) => source[1].left = << >> /\ series[1] \in {NoExtent, << >>}

\* Nothing was made yet, or an extent is full, or all was read, when the
\* module has no output; it stops when one of its inputs has ended.
UpdateOutput ==
  /\ output = NoExtent => \/ Rest(1) = In(1) /\ Rest(2) = In(2)
                          \/ Len(Done) >= Limit
                          \/ Exhausted(1) /\ Exhausted(2)
  /\ Ends => output = NoExtent /\ (Exhausted(1) \/ Exhausted(2))

\* What was used up of X, of which x is left, comes before all of y.
Passed(X, x, y) == \A r \in ToSet(X) : r \in ToSet(x) \/ Above(y, r.k)

\* d was made of B and U, of which b and u are left.
Progress(B, U, b, u, d) ==
  /\ CanUpdate(b, u)
  /\ d \o SortedUpdate(b, u) = SortedUpdate(B, U)
  /\ Passed(B, b, u) /\ Passed(U, u, b)

UpdateInv == Serving("update") =>
  /\ UpdateControl /\ UpdateOutput
  /\ CanUpdate(In(1), In(2)) => Progress(In(1), In(2), Rest(1), Rest(2), Done)

ErrorInv == status = "error" =>
  /\ request.op \in {"hash", "update"}
  /\ Fatal(request)
  /\ request.op = "hash" \/ New => tee.type = NullType

RenameInv == status = "rename" =>
  /\ request.op = "update"
  /\ tmp.whole
  /\ request.in[1] \notin damaged => tmp.type \in {info[request.in[1]], NullType}
  /\ tmp.type = NullType => tmp.extents = << >>
  /\ CanUpdate(In(1), In(2)) => UpdateWrote(Rows(tmp))

AtomicInv == request.op = "update" =>
  LET f == files[request.in[1]] IN
  \/ f = before.files[request.in[1]]
  \/ New /\ f = NoFile /\ status \in {"write", "killed"}
  \/ f.extents = << << >> >> /\ f.whole /\ f.type = info[request.in[1]]
  \/ /\ f.whole
     /\ CanUpdate(In(1), In(2)) => UpdateWrote(Rows(f))

OpInv == /\ ImportInv /\ MergeInv /\ GetInv /\ SelectInv /\ ProjectInv /\ TransformInv
         /\ HashInv /\ StarInv /\ SortInv /\ UnionInv /\ UpdateInv

Inv == /\ TypeInv /\ ServingInv /\ TablesInv /\ FullInv /\ TeeInv /\ OpInv
       /\ ErrorInv /\ RenameInv /\ AtomicInv /\ ResultIsCorrect /\ DiesOnlyAsKnown

LEMMA Constants ==
  /\ Limit \in Nat /\ Limit > 0 /\ MaxServed \in Nat
  /\ NoExtent \notin RowSeq /\ NotOpened \notin Seq(RowSeq)
  /\ Requests \subseteq Requestable
  BY ServerAssumption DEF RowSeq

LEMMA RequestOps ==
  ASSUME NEW r \in Requests
  PROVE  /\ r.op \in {"merge", "union", "select", "project", "transform", "sort", "get", "star",
                      "update", "hash", "import", "rows", "child"}
         /\ r.out \in Tables
  BY Constants DEF Requestable

LEMMA RequestIn ==
  ASSUME NEW r \in Requests, r.op \in Reading
  PROVE  /\ r.in \in Seq(Tables) /\ r.in # << >>
         /\ r.op \in {"select", "project", "transform", "sort", "get"} => Len(r.in) = 1
         /\ r.op \in {"star", "update", "hash"} => Len(r.in) = 2
<1>1. \/ r.op \in {"merge", "union"} /\ r.in \in Some
      \/ r.op \in {"select", "project", "transform", "sort", "get"} /\ r.in \in One
      \/ r.op \in {"star", "update", "hash"} /\ r.in \in Two
  BY Constants DEF Requestable, Reading
<1>2. ASSUME r.in \in One PROVE r.in \in Seq(Tables) /\ Len(r.in) = 1 /\ r.in # << >>
  <2>1. PICK t \in Tables : r.in = <<t>>
    BY <1>2 DEF One
  <2> QED
    BY <2>1
<1>3. ASSUME r.in \in Two PROVE r.in \in Seq(Tables) /\ Len(r.in) = 2 /\ r.in # << >>
  <2>1. PICK t \in Tables, w \in Tables : r.in = <<t, w>>
    BY <1>3 DEF Two
  <2> QED
    BY <2>1
<1>4. ASSUME r.in \in Some PROVE r.in \in Seq(Tables) /\ r.in # << >>
  BY <1>4 DEF Some
<1> QED
  BY <1>1, <1>2, <1>3, <1>4

LEMMA RequestFields ==
  ASSUME NEW r \in Requests
  PROVE  /\ r.op \in {"sort", "union"} => r.by \in Order
         /\ r.op \in {"get", "hash"} => r.max_rows \in Nat
         /\ r.op = "import" => r.extents \in Seq(RowSeq)
         /\ r.op = "rows" => r.rows \in RowSeq /\ r.bad_row \in BOOLEAN
         /\ r.op = "child" => r.extents \in Seq(FullRows) /\ r.fails \in BOOLEAN
<1>1. r \in Requestable
  BY Constants
<1>2. r.op \in {"sort", "union"} => r.by \in Order
  BY <1>1 DEF Requestable, Orders, Order
<1>3. r.op \in {"get", "hash"} => r.max_rows \in Nat
  BY <1>1 DEF Requestable
<1>4. r.op = "import" => r.extents \in Seq(RowSeq)
  BY <1>1 DEF Requestable, RowSeq
<1>5. r.op = "rows" => r.rows \in RowSeq /\ r.bad_row \in BOOLEAN
  BY <1>1 DEF Requestable, RowSeq
<1>6. r.op = "child" => r.extents \in Seq(FullRows) /\ r.fails \in BOOLEAN
  BY <1>1 DEF Requestable, FullRows, RowSeq
<1> QED
  BY <1>2, <1>3, <1>4, <1>5, <1>6

LEMMA RequestTypes ==
  ASSUME NEW r \in Requests, r.op \in {"import", "rows", "child"}
  PROVE  r.type \in RowTypes /\ r.type # NullType /\ r.type # MissingType
<1>1. r \in Requestable
  BY Constants
<1>2. r.type \in RowTypes
  BY <1>1 DEF Requestable
<1> QED
  BY <1>2, ServerAssumption

\* Sequences of extents
LEMMA FlattenRows ==
  ASSUME NEW ss \in Seq(RowSeq)
  PROVE  /\ FlattenSeq(ss) \in RowSeq
         /\ ss # << >> => /\ Head(ss) \in RowSeq /\ Tail(ss) \in Seq(RowSeq)
                          /\ FlattenSeq(ss) = Head(ss) \o FlattenSeq(Tail(ss))
  BY FlattenType, FlattenHead DEF RowSeq

LEMMA FullIsRows ==
  /\ \A ss \in Seq(FullRows) : ss \in Seq(RowSeq)
  /\ << >> \in Seq(RowSeq) /\ << >> \in RowSeq /\ << << >> >> \in Seq(RowSeq) /\ << >> \in Seq(FullRows)
  /\ FlattenSeq(<< >>) = << >> /\ FlattenSeq(<< << >> >>) = << >>
<1>1. FullRows \subseteq RowSeq /\ << >> \in RowSeq
  BY DEF FullRows, RowSeq
<1>2. \A ss \in Seq(FullRows) : ss \in Seq(RowSeq)
  BY <1>1
<1>3. << << >> >> \in Seq(RowSeq)
  BY <1>1
<1>4. FlattenSeq(<< << >> >>) = << >>
  BY <1>1, FlattenOne DEF RowSeq
<1> QED
  BY <1>1, <1>2, <1>3, <1>4, FlattenEmpty

LEMMA FullHead ==
  ASSUME NEW ss \in Seq(FullRows), ss # << >>
  PROVE  Head(ss) \in FullRows /\ Head(ss) # << >> /\ Tail(ss) \in Seq(FullRows)
<1>1. Head(ss) \in FullRows /\ Tail(ss) \in Seq(FullRows)
  OBVIOUS
<1> QED
  BY <1>1 DEF FullRows

LEMMA RowsJoin ==
  ASSUME NEW x \in RowSeq, NEW y \in RowSeq
  PROVE  x \o y \in RowSeq /\ << >> \in RowSeq /\ x \o << >> = x /\ << >> \o x = x
  BY DEF RowSeq

LEMMA RowsAssoc ==
  ASSUME NEW x \in RowSeq, NEW y \in RowSeq, NEW z \in RowSeq
  PROVE  (x \o y) \o z = x \o (y \o z)
  BY Assoc DEF RowSeq

LEMMA RowsOfType ==
  ASSUME NEW e \in Optional
  PROVE  RowsOf(e) \in RowSeq /\ (e # NoExtent => e \in RowSeq /\ RowsOf(e) = e)
  BY FullIsRows DEF RowsOf, Optional

----------------------------------------------------------------------------
\* The files

LEMMA ExtentsAreRows ==
  ASSUME NEW f, IsTable(f)
  PROVE  f.extents \in Seq(RowSeq) /\ Rows(f) \in RowSeq
<1>1. f.extents \in Seq(RowSeq)
  BY FullIsRows DEF IsTable
<1> QED
  BY <1>1, FlattenRows DEF Rows

LEMMA NoFileIs == IsTable(NoFile) /\ NoFile.extents \in Seq(FullRows) /\ ~NoFile.whole
  BY FullIsRows DEF IsTable, NoFile, NullType, MissingType

LEMMA OperationTypes ==
  \A op, t, from : TypeOf(op, t, from) # MissingType /\ TypeOf(op, t, from) # NullType
<1> SUFFICES ASSUME NEW op, NEW t, NEW from
             PROVE  TypeOf(op, t, from) # MissingType /\ TypeOf(op, t, from) # NullType
  OBVIOUS
<1>1. Len(TypeOf(op, t, from).name) = 2
  BY DEF TypeOf
<1>2. Len(MissingType.name) = 1 /\ Len(NullType.name) = 1
  BY DEF MissingType, NullType
<1> QED
  BY <1>1, <1>2

LEMMA CreatedIs ==
  /\ IsTable(Created) /\ NewType # NullType /\ NewType # MissingType
  /\ Created.whole /\ Created.type = NewType
<1>1. NewType # NullType /\ NewType # MissingType
  BY OperationTypes DEF NewType
<1> HIDE DEF NewType
<1> QED
  BY <1>1 DEF IsTable, Created

\* The type that is found for a table that is listed with a type
LEMMA FoundIs ==
  ASSUME NEW f, IsTable(f), NEW t, t # NullType, t # MissingType
  PROVE  /\ Found(f, t) # NullType /\ Found(f, t) # MissingType
         /\ f.type = t => Has(f, t)
         /\ (IF f.type = Found(f, t) THEN f.extents ELSE << >>) = IF Has(f, t) THEN f.extents ELSE << >>
         /\ f.type \in {t, NullType} => Found(f, t) = t
  BY DEF Found, Has, IsTable

\* What is known of the tables of a request that is not refused
LEMMA TypableIs ==
  ASSUME NEW r, r.in \in Seq(Tables), Typable(r), NEW i \in DOMAIN r.in
  PROVE  /\ info[r.in[i]] # NullType
         /\ ~(r.op = "update" /\ i = 1) => info[r.in[i]] # MissingType
         /\ r.op = "merge" => r.in[i] # r.out /\ info[r.in[i]].name = info[r.in[1]].name
<1>1. \A j \in DOMAIN r.in : ~Typeless(r, j)
  BY DEF Typable
<1>2. \A j \in 1..(i - 1) : j \in DOMAIN r.in
  OBVIOUS
<1>3. ~Rejected(r, i)
  BY <1>1, <1>2 DEF Typable, Refused
<1> QED
  BY <1>1, <1>3 DEF Rejected, Typeless, SameName

----------------------------------------------------------------------------
\* TeeModule writes all rows, and no extent without rows.

Tees(type) == [type : {type}, extents : Seq(FullRows), rows : {x \in RowSeq : Len(x) <= Limit}]

LEMMA TeeIs ==
  ASSUME NEW t, NEW y, y # MissingType, t \in Tees(y)
  PROVE  IsTee(t) /\ t.type = y
  BY DEF IsTee, Tees

LEMMA IsTeeIn ==
  ASSUME NEW t, IsTee(t), NEW y
  PROVE  [t EXCEPT !.type = y] \in Tees(y)
  BY DEF IsTee, Tees

LEMMA AppendFull ==
  ASSUME NEW ss \in Seq(FullRows), NEW x \in FullRows
  PROVE  Append(ss, x) \in Seq(FullRows) /\ FlattenSeq(Append(ss, x)) = FlattenSeq(ss) \o x
<1>1. ss \in Seq(RowSeq) /\ x \in RowSeq
  BY FullIsRows DEF FullRows
<1>2. FlattenSeq(Append(ss, x)) = FlattenSeq(ss) \o x
  BY <1>1, FlattenAppend DEF RowSeq
<1>3. Append(ss, x) \in Seq(FullRows)
  OBVIOUS
<1> QED
  BY <1>2, <1>3

LEMMA FlushedRows ==
  ASSUME NEW y, NEW t \in Tees(y)
  PROVE  /\ Flushed(t) \in Seq(FullRows) /\ FlattenSeq(t.extents) \in RowSeq /\ t.rows \in RowSeq
         /\ Rows(FileOf(t)) = FlattenSeq(t.extents) \o t.rows
         /\ Rows(FileOf(t)) \in RowSeq
<1>1. t.extents \in Seq(FullRows) /\ t.extents \in Seq(RowSeq) /\ t.rows \in RowSeq
  BY FullIsRows DEF Tees
<1>2. FlattenSeq(t.extents) \in RowSeq
  BY <1>1, FlattenRows
<1>3. Rows(FileOf(t)) = FlattenSeq(Flushed(t))
  BY DEF Rows, FileOf
<1>4. CASE t.rows = << >>
  <2>1. Flushed(t) = t.extents
    BY <1>4 DEF Flushed
  <2>2. FlattenSeq(t.extents) \o << >> = FlattenSeq(t.extents)
    BY <1>2, RowsJoin
  <2> QED
    BY <1>1, <1>2, <1>3, <1>4, <2>1, <2>2
<1>5. CASE t.rows # << >>
  <2>1. t.rows \in FullRows
    BY <1>1, <1>5 DEF FullRows
  <2>2. Flushed(t) = Append(t.extents, t.rows)
    BY <1>5 DEF Flushed
  <2>3. Flushed(t) \in Seq(FullRows) /\ FlattenSeq(Flushed(t)) = FlattenSeq(t.extents) \o t.rows
    BY <1>1, <2>1, <2>2, AppendFull
  <2>4. FlattenSeq(t.extents) \o t.rows \in RowSeq
    BY <1>1, <1>2, RowsJoin
  <2> QED
    BY <1>1, <1>2, <1>3, <2>3, <2>4
<1> QED
  BY <1>4, <1>5

LEMMA RowsAppend ==
  ASSUME NEW x \in RowSeq, NEW z \in RowSeq, NEW r \in Row
  PROVE  /\ Append(x \o z, r) = x \o Append(z, r) /\ Append(x, r) = x \o <<r>>
         /\ Append(x, r) \in RowSeq /\ <<r>> \in RowSeq
<1>1. x \o Append(z, r) = Append(x \o z, r)
  BY ConcatFacts DEF RowSeq
<1>2. Append(x, r) = x \o <<r>> /\ <<r>> \in Seq(Row)
  BY ConcatFacts DEF RowSeq
<1> QED
  BY <1>1, <1>2 DEF RowSeq

LEMMA WriteOne ==
  ASSUME NEW y, NEW t \in Tees(y), NEW row \in Row
  PROVE  Write(t, row) \in Tees(y) /\ Rows(FileOf(Write(t, row))) = Append(Rows(FileOf(t)), row)
<1>0. PICK E \in Seq(FullRows), a \in RowSeq : Len(a) <= Limit /\ t = [type |-> y, extents |-> E, rows |-> a]
  BY DEF Tees
<1> DEFINE w == Write(t, row)
           f == FlattenSeq(E)
           o == <<row>>
           d == Append(a, row)
           D == Append(E, a)
<1>1. Len(a) \in Nat
  BY DEF RowSeq
<1>2. f \in RowSeq /\ Rows(FileOf(t)) = f \o a
  <2>1. t.extents = E /\ t.rows = a
    BY <1>0
  <2>2. FlattenSeq(t.extents) \in RowSeq /\ Rows(FileOf(t)) = FlattenSeq(t.extents) \o t.rows
    BY FlushedRows
  <2> QED
    BY <2>1, <2>2
<1>3. o \in RowSeq /\ Len(o) = 1 /\ d \in RowSeq /\ Len(d) = Len(a) + 1
  BY <1>1 DEF RowSeq
<1> HIDE DEF f
<1>4. Append(f \o a, row) = (f \o a) \o o /\ Append(f \o a, row) = f \o d
  <2>1. f \o a \in RowSeq
    BY <1>2, RowsJoin
  <2> QED
    BY <1>2, <2>1, RowsAppend
<1>5. CASE Len(a) + 1 > Limit
  <2>1. a \in FullRows
    BY <1>1, <1>5, Constants DEF FullRows
  <2>2. D \in Seq(FullRows) /\ FlattenSeq(D) = f \o a
    BY <2>1, AppendFull DEF f
  <2>3. w = [type |-> y, extents |-> D, rows |-> o]
    BY <1>0, <1>5 DEF Write
  <2> HIDE DEF D, o, w
  <2>4. w \in Tees(y) /\ w.extents = D /\ w.rows = o
    <3>1. o \in RowSeq /\ Len(o) <= Limit /\ D \in Seq(FullRows)
      BY <1>3, <2>2, Constants
    <3> QED
      BY <2>3, <3>1 DEF Tees
  <2>5. Rows(FileOf(w)) = FlattenSeq(D) \o o
    BY <2>4, FlushedRows
  <2> QED
    BY <1>2, <1>4, <2>2, <2>4, <2>5 DEF w
<1>6. CASE ~(Len(a) + 1 > Limit)
  <2>1. w = [type |-> y, extents |-> E, rows |-> d]
    BY <1>0, <1>6 DEF Write
  <2> HIDE DEF d, w
  <2>2. w \in Tees(y) /\ w.extents = E /\ w.rows = d
    BY <1>1, <1>3, <1>6, <2>1, Constants DEF Tees
  <2>3. Rows(FileOf(w)) = f \o d
    BY <2>2, FlushedRows DEF f
  <2> QED
    BY <1>2, <1>4, <2>2, <2>3 DEF w
<1> QED
  BY <1>5, <1>6

LEMMA WriteAllWrites ==
  ASSUME NEW y, NEW t \in Tees(y), NEW rows \in RowSeq
  PROVE  /\ WriteAll(t, rows) \in Tees(y)
         /\ Rows(FileOf(WriteAll(t, rows))) = Rows(FileOf(t)) \o rows
<1> DEFINE m == Len(rows)
           V == Tees(y)
           g == [w \in V \X Row |-> Write(w[1], w[2])]
           F(u) == [n \in 0..m |-> IF n = 0 THEN t ELSE Write(u[n - 1], rows[n])]
           written == CHOOSE u : u = F(u)
           a == Rows(FileOf(t))
           K == {w \in V \X Seq(Row) : Rows(FileOf(w[1])) = a \o w[2]}
<1>1. m \in Nat /\ rows \in Seq(Row) /\ \A n \in 1..m : rows[n] \in Row
  BY DEF RowSeq
<1>2. g \in [V \X Row -> V]
  BY WriteOne
<1>3. \A x \in V, r \in Row : g[<<x, r>>] = Write(x, r)
  OBVIOUS
<1>4. t \in V
  OBVIOUS
<1> HIDE DEF g, V
<1>5. PICK f : f \in [0..m -> V] /\ f[0] = t
               /\ \A n \in 1..m : f[n - 1] \in V /\ f[n] = g[<<f[n - 1], rows[n]>>]
  <2>1. \E f : IsLoop(f, rows, t, g, V)
    BY <1>1, <1>2, <1>4, LoopExists
  <2> QED
    BY <2>1 DEF IsLoop
<1>6. f = F(f)
  <2> SUFFICES ASSUME NEW n \in 0..m PROVE f[n] = IF n = 0 THEN t ELSE Write(f[n - 1], rows[n])
    BY <1>5
  <2>1. n # 0 => n \in 1..m
    BY <1>1
  <2> QED
    BY <1>1, <1>3, <1>5, <2>1
<1>7. written = F(written)
  <2> HIDE DEF F
  <2> QED
    BY <1>6
<1>8. WriteAll(t, rows) = written[m]
  BY DEF WriteAll
<1>9. written[0] = t /\ \A n \in 1..m : written[n] = Write(written[n - 1], rows[n])
  <2>1. ASSUME NEW n \in 0..m PROVE written[n] = IF n = 0 THEN t ELSE Write(written[n - 1], rows[n])
    <3> HIDE DEF written
    <3> QED
      BY <1>7
  <2> HIDE DEF written
  <2> QED
    BY <1>1, <2>1
<1> HIDE DEF written, F
<1>10. a \in RowSeq
  BY FlushedRows
<1>11. <<written[0], << >> >> \in K
  <2>1. a \o << >> = a
    BY <1>10, RowsJoin
  <2>2. << >> \in Seq(Row)
    OBVIOUS
  <2> QED
    BY <1>4, <1>9, <2>1, <2>2
<1>12. ASSUME NEW n \in 0..(m - 1), NEW p \in Seq(Row), <<written[n], p>> \in K
       PROVE  <<written[n + 1], Append(p, rows[n + 1])>> \in K
  <2> DEFINE w == written[n]
             r == rows[n + 1]
  <2>1. n + 1 \in 1..m /\ (n + 1) - 1 = n /\ r \in Row
    BY <1>1
  <2>2. w \in V /\ Rows(FileOf(w)) = a \o p
    BY <1>12
  <2>3. written[n + 1] = Write(w, r)
    BY <1>9, <2>1
  <2>4. Write(w, r) \in V /\ Rows(FileOf(Write(w, r))) = Append(a \o p, r)
    BY <2>1, <2>2, WriteOne DEF V
  <2>5. Append(a \o p, r) = a \o Append(p, r) /\ Append(p, r) \in Seq(Row)
    <3>1. p \in RowSeq
      BY DEF RowSeq
    <3> QED
      BY <1>10, <2>1, <3>1, RowsAppend DEF RowSeq
  <2> QED
    BY <2>3, <2>4, <2>5
<1>13. <<written[m], rows>> \in K
  <2> HIDE DEF K
  <2> QED
    BY <1>1, <1>11, <1>12, LoopKeeps
<1> QED
  BY <1>8, <1>13 DEF V

\* An empty TeeModule
LEMMA NoTeeIs ==
  ASSUME NEW y
  PROVE  /\ NoTee \in Tees(NullType) /\ [NoTee EXCEPT !.type = y] \in Tees(y)
         /\ Rows(FileOf(NoTee)) = << >> /\ Rows(FileOf([NoTee EXCEPT !.type = y])) = << >>
<1>1. << >> \in Seq(FullRows) /\ << >> \in RowSeq /\ Len(<< >>) = 0 /\ 0 <= Limit
  BY Constants, FullIsRows
<1>2. NoTee \in Tees(NullType) /\ [NoTee EXCEPT !.type = y] \in Tees(y)
  BY <1>1 DEF NoTee, Tees
<1> QED
  BY <1>2, FullIsRows DEF NoTee, FileOf, Rows, Flushed

LEMMA FileOfIs ==
  ASSUME NEW y, y # MissingType, NEW t \in Tees(y)
  PROVE  /\ IsTable(FileOf(t)) /\ FileOf(t).whole /\ FileOf(t).type = y
         /\ FileOf(t).extents \in Seq(FullRows)
<1>1. Flushed(t) \in Seq(FullRows) /\ t.type = y
  BY FlushedRows DEF Tees
<1> QED
  BY <1>1 DEF IsTable, FileOf

----------------------------------------------------------------------------
\* What is known while a request is served

LEMMA Run ==
  ASSUME TypeInv, ServingInv, status \in {"run", "returned"}
  PROVE  /\ Busy /\ request \in Requests /\ request.op \in Reading \cup {"import"}
         /\ files = FilesNow /\ info = InfoNow /\ (New => request.in[1] # request.in[2])
         /\ request.op \in Reading => /\ Typable(request) /\ request.in \in Seq(Tables) /\ request.in # << >>
                                      /\ Len(source) = Len(request.in)
                                      /\ DOMAIN source = DOMAIN request.in
<1>1. Busy /\ request \in Requests /\ request.op \in Reading \cup {"import"}
  BY DEF TypeInv, ServingInv, Busy
<1>2. /\ files = FilesNow /\ info = InfoNow /\ (request.op \in Reading => Typable(request))
      /\ New => request.in[1] # request.in[2]
  BY <1>1 DEF ServingInv
<1>3. ASSUME request.op \in Reading
      PROVE  /\ request.in \in Seq(Tables) /\ request.in # << >>
             /\ Len(source) = Len(request.in) /\ DOMAIN source = DOMAIN request.in
  <2>1. request.in \in Seq(Tables) /\ request.in # << >>
    BY <1>1, <1>3, RequestIn
  <2>2. Len(source) = Len(request.in)
    BY <1>1, <1>3 DEF ServingInv
  <2>3. DOMAIN source = 1..Len(source)
    BY DEF TypeInv, IsSources
  <2> QED
    BY <2>1, <2>2, <2>3
<1> QED
  BY <1>1, <1>2, <1>3

LEMMA Source ==
  ASSUME TypeInv, NEW i \in DOMAIN source
  PROVE  /\ source[i] = [table |-> source[i].table, type |-> source[i].type, left |-> source[i].left]
         /\ source[i].table \in Tables /\ source[i].type \in TypesIn(source)
         /\ source[i].left \in Seq(RowSeq) \cup {NotOpened}
         /\ Opened(i) => source[i].left \in Seq(RowSeq)
         /\ i \in DOMAIN series /\ series[i] \in Optional
<1> DEFINE T == TypesIn(source)
           L == Seq(RowSeq) \cup {NotOpened}
           R == [table : Tables, type : T, left : L]
<1>1. source \in Seq(R)
  BY DEF TypeInv, IsSources
<1>2. i \in DOMAIN series /\ series[i] \in Optional
  <2>1. series \in Seq(Optional) /\ Len(series) = Len(source) /\ DOMAIN source = 1..Len(source)
    BY <1>1 DEF TypeInv
  <2> QED
    BY <2>1
<1> HIDE DEF T, L
<1>3. source[i] \in R
  <2> HIDE DEF R
  <2> QED
    BY <1>1
<1>4. /\ source[i] = [table |-> source[i].table, type |-> source[i].type, left |-> source[i].left]
      /\ source[i].table \in Tables /\ source[i].type \in T /\ source[i].left \in L
  BY <1>3
<1> QED
  BY <1>2, <1>4 DEF T, L, Opened

LEMMA InRows ==
  ASSUME TypeInv, NEW i, request.in[i] \in Tables
  PROVE  In(i) \in RowSeq
<1>1. IsTable(before.files[request.in[i]])
  BY DEF TypeInv
<1>2. Rows(before.files[request.in[i]]) \in RowSeq
  BY <1>1, ExtentsAreRows
<1> QED
  BY <1>2, FullIsRows DEF In

LEMMA InRun ==
  ASSUME TypeInv, ServingInv, status \in {"run", "returned"}, request.op \in Reading, NEW i \in DOMAIN source
  PROVE  i \in DOMAIN request.in /\ request.in[i] \in Tables /\ In(i) \in RowSeq
         /\ source[i].table = request.in[i] /\ source[i].type = ReadType(i)
<1>1. i \in DOMAIN request.in /\ request.in \in Seq(Tables)
  BY Run
<1>2. request.in[i] \in Tables
  BY <1>1
<1>3. source[i].table = request.in[i] /\ source[i].type = ReadType(i)
  BY Run DEF ServingInv
<1> QED
  BY <1>1, <1>2, <1>3, InRows

LEMMA UnreadRows ==
  ASSUME TypeInv, ServingInv, status \in {"run", "returned"}, NEW i \in DOMAIN source
  PROVE  /\ request.op = "import" => i = 1 /\ Opened(1)
         /\ Unread(i) \in RowSeq /\ Rest(i) \in RowSeq /\ RowsOf(series[i]) \in RowSeq
<1>1. request.op = "import" => i = 1 /\ Opened(1)
  <2>1. DOMAIN source = 1..Len(source)
    BY DEF TypeInv, IsSources
  <2>2. request.op = "import" => Len(source) = 1 /\ Opened(1)
    BY Run DEF ServingInv
  <2> QED
    BY <2>1, <2>2
<1>2. Unread(i) \in RowSeq
  <2>1. CASE Opened(i)
    <3>1. source[i].left \in Seq(RowSeq)
      BY <2>1, Source
    <3> QED
      BY <2>1, <3>1, FlattenRows DEF Unread
  <2>2. CASE ~Opened(i)
    <3>1. request.op \in Reading
      BY <1>1, <2>2, Run
    <3> QED
      BY <2>2, <3>1, InRun DEF Unread
  <2> QED
    BY <2>1, <2>2
<1>3. RowsOf(series[i]) \in RowSeq
  BY Source, RowsOfType
<1> QED
  BY <1>1, <1>2, <1>3, RowsJoin DEF Rest

\* How the tables that are read are listed
LEMMA SourceListed ==
  ASSUME TypeInv, ServingInv, status \in {"run", "returned"}, request.op \in Reading, NEW i \in DOMAIN source
  PROVE  /\ info[request.in[i]] # NullType /\ info[request.in[i]] # MissingType
         /\ New /\ request.in[i] = request.in[1] => i = 1
         /\ New /\ i = 1 => /\ source[i].type = NewType /\ info[request.in[i]] = NewType
                           /\ files[request.in[i]] = Created /\ before.info[request.in[i]] = MissingType
         /\ ~(New /\ i = 1) => /\ info[request.in[i]] = before.info[request.in[i]]
                              /\ source[i].type = Found(before.files[request.in[i]], info[request.in[i]])
                              /\ \/ files[request.in[i]] = before.files[request.in[i]]
                                 \/ Truncates /\ request.in[i] = request.out
                                    /\ files[request.in[i]] = NoFile
<1> DEFINE t == request.in[i]
<1>1. i \in DOMAIN request.in /\ t \in Tables /\ source[i].type = ReadType(i)
  BY InRun
<1>2. /\ request \in Requests /\ Typable(request) /\ files = FilesNow /\ info = InfoNow
      /\ request.in \in Seq(Tables) /\ (New => request.in[1] # request.in[2])
  BY Run
<1>3. t \in DOMAIN before.files /\ t \in DOMAIN before.info
  BY <1>1 DEF TypeInv
<1>4. New => request.op = "update" /\ ~Truncates /\ DOMAIN request.in = 1..2
  <2>1. New => request.op = "update" /\ ~Truncates
    BY DEF New, Truncates
  <2>2. request.op = "update" => Len(request.in) = 2
    BY <1>2, RequestIn DEF Reading
  <2> QED
    BY <1>2, <2>1, <2>2
<1>5. New /\ t = request.in[1] => i = 1
  BY <1>1, <1>2, <1>4
<1>6. /\ info[t] # NullType
      /\ ~(request.op = "update" /\ i = 1) => info[t] # MissingType
  BY <1>1, <1>2, TypableIs
<1>7. CASE New /\ i = 1
  <2>1. files[t] = Created /\ info[t] = NewType
    BY <1>2, <1>3, <1>4, <1>7 DEF FilesNow, InfoNow
  <2>2. source[i].type = NewType /\ before.info[t] = MissingType
    BY <1>1, <1>7 DEF ReadType, New
  <2> QED
    BY <1>7, <2>1, <2>2, CreatedIs
<1>8. CASE ~(New /\ i = 1)
  <2>1. info[t] = before.info[t]
    BY <1>2, <1>3, <1>5, <1>8 DEF InfoNow
  <2>2. source[i].type = Found(before.files[t], info[t])
    BY <1>1, <1>8, <2>1 DEF ReadType
  <2>3. \/ files[t] = before.files[t]
        \/ Truncates /\ t = request.out /\ files[t] = NoFile
    BY <1>2, <1>3, <1>5, <1>8 DEF FilesNow
  <2>4. info[t] # MissingType
    BY <1>6, <1>8, <2>1 DEF New
  <2> QED
    BY <1>5, <1>6, <1>8, <2>1, <2>2, <2>3, <2>4
<1> QED
  BY <1>7, <1>8

\* The types of tables that are read
LEMMA SourceTyped ==
  ASSUME TypeInv, ServingInv, status \in {"run", "returned"}, NEW i \in DOMAIN source
  PROVE  source[i].type # MissingType /\ source[i].type # NullType
<1>1. CASE request.op = "import"
  <2>1. i = 1 /\ source[1].type = request.type /\ request \in Requests
    BY <1>1, UnreadRows, Run DEF ServingInv
  <2> QED
    BY <1>1, <2>1, RequestTypes
<1>2. CASE request.op \in Reading
  <2> DEFINE t == request.in[i]
  <2>1. t \in Tables /\ IsTable(before.files[t])
    BY <1>2, InRun DEF TypeInv
  <2>2. CASE New /\ i = 1
    BY <1>2, <2>2, SourceListed, CreatedIs
  <2>3. CASE ~(New /\ i = 1)
    <3>1. source[i].type = Found(before.files[t], info[t]) /\ info[t] # NullType /\ info[t] # MissingType
      BY <1>2, <2>3, SourceListed
    <3> QED
      BY <2>1, <3>1, FoundIs
  <2> QED
    BY <2>2, <2>3
<1> QED
  BY <1>1, <1>2, Run

----------------------------------------------------------------------------
\* What a source that is read for the first time has to give

LEMMA FirstRead ==
  ASSUME TypeInv, ServingInv, status \in {"run", "returned"}, NEW i \in DOMAIN source,
         ~Opened(i), Readable(i)
  PROVE  FlattenSeq(Extents(i)) = In(i) /\ Extents(i) \in Seq(RowSeq)
<1>1. request.op \in Reading
  BY UnreadRows, Run
<1> DEFINE t == request.in[i]
           f == files[t]
           b == before.files[t]
<1>2. t \in Tables /\ source[i].table = t
  BY <1>1, InRun
<1>3. f.whole
  BY <1>2 DEF Readable, Opened
<1>4. Extents(i) = IF f.type = source[i].type THEN f.extents ELSE << >>
  BY <1>2 DEF Extents, Opened
<1>5. IsTable(f) /\ IsTable(b)
  BY <1>2 DEF TypeInv
<1>6. f.extents \in Seq(RowSeq) /\ b.extents \in Seq(RowSeq)
  BY <1>5, ExtentsAreRows
<1>7. CASE New /\ i = 1
  <2>1. f = Created /\ source[i].type = NewType /\ before.info[t] = MissingType
    BY <1>1, <1>7, SourceListed
  <2>2. Extents(i) = << << >> >>
    BY <1>4, <2>1 DEF Created
  <2>3. In(i) = << >>
    BY <2>1 DEF In, Has
  <2> QED
    BY <2>2, <2>3, FullIsRows
<1>8. CASE ~(New /\ i = 1)
  <2>1. /\ info[t] = before.info[t] /\ source[i].type = Found(b, info[t]) /\ (f = b \/ f = NoFile)
        /\ info[t] # NullType /\ info[t] # MissingType
    BY <1>1, <1>8, SourceListed
  <2>2. f = b
    BY <1>3, <2>1, NoFileIs
  <2>3. Extents(i) = IF Has(b, info[t]) THEN b.extents ELSE << >>
    BY <1>4, <1>5, <2>1, <2>2, FoundIs
  <2>4. In(i) = IF Has(b, info[t]) THEN Rows(b) ELSE << >>
    BY <2>1 DEF In
  <2> QED
    BY <1>6, <2>3, <2>4, FullIsRows DEF Rows
<1> QED
  BY <1>7, <1>8

LEMMA ToRead ==
  ASSUME TypeInv, ServingInv, status \in {"run", "returned"}, NEW i \in DOMAIN source, Readable(i)
  PROVE  /\ Extents(i) \in Seq(RowSeq) /\ FlattenSeq(Extents(i)) = Unread(i)
         /\ Opened(i) => Extents(i) = source[i].left
<1>1. CASE Opened(i)
  BY <1>1, Source DEF Extents, Opened, Unread
<1>2. CASE ~Opened(i)
  BY <1>2, FirstRead DEF Unread
<1> QED
  BY <1>1, <1>2

LEMMA InSame ==
  ASSUME request' = request, before' = before
  PROVE  \A i : In(i)' = In(i)
  BY DEF In, Rows

SameSources ==
  /\ IsSources(source') /\ Len(source') = Len(source) /\ DOMAIN source' = DOMAIN source
  /\ \A j \in DOMAIN source : /\ source'[j].table = source[j].table
                              /\ source'[j].type = source[j].type
                              /\ Opened(j) => Opened(j)'

LEMMA NothingRead ==
  ASSUME TypeInv, request' = request, before' = before, source' = source
  PROVE  SameSources /\ \A j : Unread(j)' = Unread(j) /\ Opened(j)' = Opened(j)
<1>1. SameSources
  BY DEF SameSources, TypeInv, IsSources, TypesIn, Opened
<1> QED
  BY <1>1, InSame DEF Unread, Opened

LEMMA LeftSet ==
  ASSUME TypeInv, NEW i \in DOMAIN source, NEW x \in Seq(RowSeq), request' = request, before' = before,
         source' = [source EXCEPT ![i].left = x]
  PROVE  /\ SameSources /\ source'[i].left = x /\ Opened(i)' /\ Unread(i)' = FlattenSeq(x)
         /\ \A j \in DOMAIN source : j # i => /\ source'[j] = source[j] /\ Opened(j)' = Opened(j)
                                             /\ Unread(j)' = Unread(j)
<1> DEFINE T == TypesIn(source)
           L == Seq(RowSeq) \cup {NotOpened}
           R == [table : Tables, type : T, left : L]
<1>1. source \in Seq(R)
  BY DEF TypeInv, IsSources
<1>2. PICK a \in Tables, y \in T, l \in L : source[i] = [table |-> a, type |-> y, left |-> l]
  BY Source
<1>3. DOMAIN source = 1..Len(source) /\ Len(source) \in Nat
  BY <1>1
<1>4. source' = [source EXCEPT ![i] = [table |-> a, type |-> y, left |-> x]]
  <2>1. [source[i] EXCEPT !.left = x] = [table |-> a, type |-> y, left |-> x]
    BY <1>2
  <2>2. source' = [source EXCEPT ![i] = [source[i] EXCEPT !.left = x]]
    OBVIOUS
  <2> QED
    BY <2>1, <2>2
<1> DEFINE r == [table |-> a, type |-> y, left |-> x]
<1>5. r \in R
  OBVIOUS
<1>6. r.table = source[i].table /\ r.type = source[i].type /\ r.left = x
  BY <1>2
<1>7. source' = [source EXCEPT ![i] = r]
  BY <1>4
<1> HIDE DEF r, R
<1>16. Replaced(source, i, r, source', R)
  <2>1. i \in 1..Len(source)
    BY <1>3
  <2> QED
    BY <2>1, <1>1, <1>5, <1>7, ReplaceOne
<1>8. source' \in Seq(R) /\ Len(source') = Len(source) /\ DOMAIN source' = DOMAIN source
  BY <1>16 DEF Replaced
<1>9. source'[i] = r /\ \A j \in DOMAIN source : j # i => source'[j] = source[j]
  BY <1>16 DEF Replaced
<1>10. TypesIn(source') = TypesIn(source)
  BY <1>6, <1>8, <1>9 DEF TypesIn
<1>11. IsSources(source')
  BY <1>8, <1>10 DEF IsSources, R
<1>12. NotOpened # x
  BY Constants
<1>13. source'[i].left = x /\ Opened(i)' /\ Unread(i)' = FlattenSeq(x)
  BY <1>6, <1>9, <1>12 DEF Opened, Unread
<1>14. \A j \in DOMAIN source : j # i => /\ source'[j] = source[j] /\ Opened(j)' = Opened(j)
                                         /\ Unread(j)' = Unread(j)
  BY <1>9, InSame DEF Opened, Unread
<1>15. SameSources
  BY <1>6, <1>8, <1>9, <1>11, <1>13, <1>14 DEF SameSources
<1> QED
  BY <1>13, <1>14, <1>15

\* Pull gives the extent e of source i.
Taken(i, e) ==
  /\ Readable(i)
  /\ \/ Extents(i) = << >> /\ e = NoExtent /\ source' = [source EXCEPT ![i].left = << >>]
     \/ /\ Extents(i) # << >> /\ e = Head(Extents(i))
        /\ source' = [source EXCEPT ![i].left = Tail(Extents(i))]

LEMMA TakenFacts ==
  ASSUME TypeInv, ServingInv, status = "run", NEW i \in DOMAIN source, NEW e, Taken(i, e),
         request' = request, before' = before
  PROVE  /\ e \in Optional /\ RowsOf(e) \in RowSeq /\ SameSources /\ Opened(i)'
         /\ Unread(i) \in RowSeq /\ Unread(i)' \in RowSeq /\ Unread(i) = RowsOf(e) \o Unread(i)'
         /\ e = NoExtent => source'[i].left = << >> /\ Unread(i)' = << >> /\ Unread(i) = << >>
         /\ \A j \in DOMAIN source : j # i => /\ source'[j] = source[j] /\ Opened(j)' = Opened(j)
                                             /\ Unread(j)' = Unread(j)
         /\ e # NoExtent => /\ Extents(i) # << >> /\ e = Head(Extents(i)) /\ source'[i].left = Tail(Extents(i))
                            /\ e \in RowSeq /\ RowsOf(e) = e
         /\ Extents(i) \in Seq(FullRows) =>
              source'[i].left \in Seq(FullRows) /\ (e # NoExtent => e # << >>)
<1> DEFINE x == Extents(i)
<1>1. x \in Seq(RowSeq) /\ FlattenSeq(x) = Unread(i)
  BY ToRead DEF Taken
<1>2. CASE x = << >>
  <2>1. e = NoExtent /\ source' = [source EXCEPT ![i].left = << >>] /\ << >> \in Seq(RowSeq)
    BY <1>2, FullIsRows DEF Taken
  <2>2. SameSources /\ source'[i].left = << >> /\ Opened(i)' /\ Unread(i)' = FlattenSeq(<< >>)
    BY <2>1, LeftSet
  <2>3. \A j \in DOMAIN source : j # i => /\ source'[j] = source[j] /\ Opened(j)' = Opened(j)
                                          /\ Unread(j)' = Unread(j)
    BY <2>1, LeftSet
  <2>4. RowsOf(e) = << >> /\ << >> \in RowSeq /\ << >> \o << >> = << >> /\ FlattenSeq(<< >>) = << >>
    BY <2>1, FullIsRows, RowsJoin DEF RowsOf
  <2>5. Unread(i) = << >> /\ Unread(i)' = << >>
    BY <1>1, <1>2, <2>2, <2>4
  <2>6. e \in Optional /\ << >> \in Seq(FullRows)
    BY <2>1, FullIsRows DEF Optional
  <2> QED
    BY <1>2, <2>1, <2>2, <2>3, <2>4, <2>5, <2>6
<1>3. CASE x # << >>
  <2>1. e = Head(x) /\ source' = [source EXCEPT ![i].left = Tail(x)]
    BY <1>3 DEF Taken
  <2>2. Head(x) \in RowSeq /\ Tail(x) \in Seq(RowSeq) /\ FlattenSeq(x) = Head(x) \o FlattenSeq(Tail(x))
    BY <1>1, <1>3, FlattenRows
  <2>3. SameSources /\ source'[i].left = Tail(x) /\ Opened(i)' /\ Unread(i)' = FlattenSeq(Tail(x))
    BY <2>1, <2>2, LeftSet
  <2>4. \A j \in DOMAIN source : j # i => /\ source'[j] = source[j] /\ Opened(j)' = Opened(j)
                                          /\ Unread(j)' = Unread(j)
    BY <2>1, <2>2, LeftSet
  <2>5. e # NoExtent /\ e \in Optional /\ RowsOf(e) = e /\ RowsOf(e) \in RowSeq
    BY <2>1, <2>2, Constants DEF Optional, RowsOf
  <2>6. Unread(i) \in RowSeq /\ Unread(i)' \in RowSeq
    BY <1>1, <2>2, <2>3, FlattenRows
  <2>7. x \in Seq(FullRows) => Tail(x) \in Seq(FullRows) /\ Head(x) # << >>
    BY <1>3, FullHead
  <2>8. Unread(i) = RowsOf(e) \o Unread(i)'
    BY <1>1, <2>1, <2>2, <2>3, <2>5
  <2> QED
    BY <1>3, <2>1, <2>2, <2>3, <2>4, <2>5, <2>6, <2>7, <2>8
<1> QED
  BY <1>2, <1>3

\* Drain gives all that is left of source i.
LEMMA Drained ==
  ASSUME TypeInv, ServingInv, status = "run", NEW i \in DOMAIN source, Readable(i),
         request' = request, before' = before, source' = [source EXCEPT ![i].left = << >>]
  PROVE  /\ SameSources /\ Opened(i)' /\ source'[i].left = << >> /\ Unread(i)' = << >>
         /\ Extents(i) \in Seq(RowSeq) /\ FlattenSeq(Extents(i)) = Unread(i)
         /\ \A j \in DOMAIN source : j # i => /\ source'[j] = source[j] /\ Opened(j)' = Opened(j)
                                             /\ Unread(j)' = Unread(j)
<1>1. << >> \in Seq(RowSeq) /\ FlattenSeq(<< >>) = << >>
  BY FullIsRows
<1>2. SameSources /\ Opened(i)' /\ source'[i].left = << >> /\ Unread(i)' = FlattenSeq(<< >>)
  BY <1>1, LeftSet
<1>3. \A j \in DOMAIN source : j # i => /\ source'[j] = source[j] /\ Opened(j)' = Opened(j)
                                        /\ Unread(j)' = Unread(j)
  BY <1>1, LeftSet
<1>4. Extents(i) \in Seq(RowSeq) /\ FlattenSeq(Extents(i)) = Unread(i)
  BY ToRead
<1> QED
  BY <1>1, <1>2, <1>3, <1>4

----------------------------------------------------------------------------
\* What no step of a module touches

Steady ==
  /\ status = "run" /\ status' \in {"run", "returned", "error", "dead"}
  /\ UNCHANGED <<files, request, serverVars>>
  /\ SameSources
  /\ series' \in Seq(Optional) /\ Len(series') = Len(series)
  /\ output' \in Optional /\ returned' \in Optional
  /\ output_type' # MissingType /\ (output_type # NullType => output_type' = output_type)

LEMMA SteadyVars ==
  ASSUME Steady
  PROVE  /\ status = "run" /\ status' \in {"run", "returned", "error", "dead"}
         /\ files' = files /\ request' = request /\ info' = info /\ tmp' = tmp /\ tee' = tee
         /\ reply' = reply /\ before' = before /\ served' = served /\ damaged' = damaged
         /\ Len(source') = Len(source) /\ DOMAIN source' = DOMAIN source
         /\ \A i : In(i)' = In(i)
  BY InSame DEF Steady, serverVars, SameSources

LEMMA SteadyTypes ==
  ASSUME TypeInv, Steady
  PROVE  TypeInv'
<1>1. IsSources(source') /\ Len(source') = Len(source)
  BY DEF Steady, SameSources
<1>2. Len(series') = Len(source')
  BY <1>1 DEF Steady, TypeInv
<1> QED
  BY <1>1, <1>2, SteadyVars DEF Steady, TypeInv

\* A request is still what it was when neither it nor the tables have changed.
LEMMA SameVerdict ==
  ASSUME request' = request, info' = info
  PROVE  Typable(request)' = Typable(request)
<1>1. \A i : Rejected(request, i)' = Rejected(request, i) /\ Typeless(request, i)' = Typeless(request, i)
  BY DEF Rejected, Typeless, SameName
<1> QED
  BY <1>1 DEF Typable, Refused, InTurn

LEMMA SameNow ==
  ASSUME request' = request, before' = before
  PROVE  /\ FilesNow' = FilesNow /\ InfoNow' = InfoNow /\ New' = New /\ Truncates' = Truncates
         /\ NewType' = NewType /\ \A i : ReadType(i)' = ReadType(i)
<1>1. New' = New /\ Truncates' = Truncates /\ NewType' = NewType
  BY DEF New, Truncates, NewType, TypeOf
<1>2. Created' = Created
  BY <1>1 DEF Created
<1> QED
  BY <1>1, <1>2 DEF FilesNow, InfoNow, ReadType, Found, Has

LEMMA SteadyServing ==
  ASSUME TypeInv, ServingInv, Steady
  PROVE  ServingInv'
<1>1. /\ Busy /\ request \in Requests /\ request.op \in Reading \cup {"import"}
      /\ files = FilesNow /\ info = InfoNow
      /\ request.op \in Reading => Typable(request)
      /\ New => request.in[1] # request.in[2]
  BY Run, SteadyVars
<1>2. /\ FilesNow' = FilesNow /\ InfoNow' = InfoNow /\ New' = New
      /\ Typable(request)' = Typable(request) /\ \A i : ReadType(i)' = ReadType(i)
  BY SteadyVars, SameVerdict, SameNow
<1>3. /\ request' # NoRequest /\ request'.op \in Reading \cup {"import"}
      /\ files' = FilesNow' /\ info' = InfoNow'
      /\ request'.op \in Reading => Typable(request)'
      /\ New' => request'.in[1] # request'.in[2]
  BY <1>1, <1>2, SteadyVars DEF ServingInv
<1>4. ASSUME request.op \in Reading
      PROVE  /\ Len(source') = Len(request'.in)
             /\ \A i \in DOMAIN source' : /\ source'[i].table = request'.in[i]
                                          /\ source'[i].type = ReadType(i)'
  BY <1>1, <1>2, <1>4, SteadyVars DEF ServingInv, Steady, SameSources
<1>5. ASSUME request.op = "import"
      PROVE  /\ Len(source') = 1 /\ Opened(1)' /\ source'[1].type = request'.type /\ output_type' = request'.type
  <2>1. Len(source) = 1 /\ Opened(1) /\ source[1].type = request.type /\ output_type = request.type
    BY <1>1, <1>5 DEF ServingInv
  <2>2. 1 \in DOMAIN source
    BY <2>1 DEF TypeInv, IsSources
  <2>3. request.type # NullType
    BY <1>1, <1>5, RequestTypes
  <2> QED
    BY <2>1, <2>2, <2>3, SteadyVars DEF Steady, SameSources
<1> QED
  BY <1>3, <1>4, <1>5, SteadyVars DEF ServingInv

LEMMA SteadyRest ==
  ASSUME TypeInv, ServingInv, TablesInv, FullInv, AtomicInv, Steady
  PROVE  TablesInv' /\ FullInv' /\ AtomicInv' /\ RenameInv' /\ ResultIsCorrect'
<1>1. Busy
  BY Run, SteadyVars
<1>2. TablesInv' /\ FullInv'
  <2>1. status' \notin {"dead", "killed"} => Busy'
    BY SteadyVars DEF Busy
  <2>2. \A t : Fine(t)' = Fine(t) /\ New' = New /\ Truncates' = Truncates
    BY SteadyVars DEF Fine, New, Truncates
  <2>3. status' \notin {"dead", "killed"} => \A t : Written(t)' = Written(t)
    BY <1>1, <2>1, <2>2, SteadyVars DEF Written
  <2>4. status \notin {"dead", "killed"}
    BY SteadyVars
  <2> QED
    BY <2>2, <2>3, <2>4, SteadyVars DEF TablesInv, FullInv
<1>3. AtomicInv'
  <2>1. \A rows : UpdateWrote(rows)' = UpdateWrote(rows)
    <3>1. In(1)' = In(1) /\ In(2)' = In(2)
      BY SteadyVars
    <3> QED
      BY <3>1, Zenon DEF UpdateWrote
  <2> QED
    BY <2>1, SteadyVars DEF AtomicInv, Rows
<1>4. status' # "rename" /\ status' # "idle"
  BY SteadyVars
<1> QED
  BY <1>2, <1>3, <1>4 DEF RenameInv, ResultIsCorrect, Answered

LEMMA SteadyTee ==
  ASSUME TypeInv, ServingInv, TeeInv, Steady,
         (Returns' \/ tee.type # NullType) /\ request.op \notin {"import", "select", "update", "get"} =>
            output_type' # NullType
  PROVE  TeeInv'
<1>1. Busy /\ request.op \in Reading \cup {"import"} /\ request \in Requests
  BY Run, SteadyVars
<1>2. CASE request.op \in {"select", "update"}
  <2>1. 1 \in DOMAIN source
    <3>1. Len(source) \in Nat /\ DOMAIN source = 1..Len(source)
      BY DEF TypeInv, IsSources
    <3>2. Len(source) # 0
      BY <1>2, Run, SteadyVars DEF Reading
    <3> QED
      BY <3>1, <3>2
  <2>2. ExtentType' = source[1].type /\ ExtentType = source[1].type
    BY <1>2, <2>1, SteadyVars DEF ExtentType, Steady, SameSources
  <2>3. source[1].type # NullType
    BY <2>1, SourceTyped, SteadyVars
  <2> QED
    BY <1>1, <2>2, <2>3, SteadyVars DEF TeeInv
<1>3. CASE request.op \notin {"select", "update", "get"}
  <2>0. Returns' \/ tee.type # NullType => output_type' # NullType
    <3>1. request.op = "import" => output_type = request.type /\ request.type # NullType
      BY <1>1, RequestTypes DEF ServingInv
    <3> QED
      BY <1>3, <3>1 DEF Steady
  <2>1. ExtentType = output_type /\ ExtentType' = output_type'
    BY <1>3, SteadyVars DEF ExtentType
  <2>2. /\ tee.type \in {NullType, output_type}
        /\ tee.type = NullType => tee.rows = << >> /\ tee.extents = << >>
        /\ tee.type # NullType => output_type # NullType
    BY <1>1, <1>3, <2>1 DEF TeeInv, Begun
  <2>3. tee.type \in {NullType, output_type'}
    BY <2>2 DEF Steady
  <2>4. Begun' => output_type' # NullType
    BY <2>0, SteadyVars DEF Begun
  <2> QED
    BY <2>1, <2>2, <2>3, <2>4, SteadyVars DEF TeeInv
<1>4. CASE request.op = "get"
  BY <1>4, SteadyVars DEF TeeInv
<1> QED
  BY <1>2, <1>3, <1>4

----------------------------------------------------------------------------
\* What has been sent and made so far

Sofar == Rows(FileOf(tee))

LEMMA SofarRows ==
  ASSUME TypeInv
  PROVE  /\ Sofar \in RowSeq /\ Started = RowsOf(output) /\ RowsOf(output) \in RowSeq
         /\ status = "run" => Sent = Sofar /\ Done = Sofar \o RowsOf(output) /\ Sent \in RowSeq /\ Done \in RowSeq
<1>1. tee \in Tees(tee.type)
  BY DEF TypeInv, IsTee, Tees
<1>2. Sofar \in RowSeq
  BY <1>1, FlushedRows DEF Sofar
<1>3. RowsOf(output) \in RowSeq /\ Started = RowsOf(output)
  BY RowsOfType DEF TypeInv, RowsOf, Started
<1>4. status = "run" => Sent = Sofar /\ Done = Sofar \o RowsOf(output)
  <2>1. status = "run" => Sent = Sofar \o << >>
    BY DEF Sent, Sofar
  <2>2. status = "run" => Sent = Sofar
    BY <1>2, <2>1, RowsJoin
  <2> QED
    BY <2>2 DEF Done
<1> QED
  BY <1>2, <1>3, <1>4, RowsJoin

\* The module goes on.
LEMMA DoneKept ==
  ASSUME TypeInv, status = "run", status' = "run", tee' = tee
  PROVE  Sent' = Sent /\ Done' = Sent \o RowsOf(output') /\ ~Ends' /\ ~Returns'
<1>1. Sent' = Sofar \o << >>
  BY DEF Sent, Sofar, Rows, FileOf, Flushed
<1>2. Sent' = Sofar
  BY <1>1, SofarRows, RowsJoin
<1>3. Done' = Sent' \o RowsOf(output')
  BY DEF Done, RowsOf
<1> QED
  BY <1>2, <1>3, SofarRows DEF Ends, Returns

\* The module returns an extent, or NULL.
LEMMA SentReturned ==
  ASSUME TypeInv, status = "run", tee' = tee, NEW e \in Optional, Return(e)
  PROVE  /\ Sent' = Sent \o RowsOf(e) /\ Sent' \in RowSeq /\ Done' = Sent' \o RowsOf(output')
         /\ status' = "returned" /\ (Ends' <=> e = NoExtent) /\ (Returns' <=> e # NoExtent)
<1>1. status' = "returned" /\ returned' = e
  BY DEF Return
<1>2. Sent' = Sofar \o RowsOf(e)
  BY <1>1 DEF Sent, Sofar, Rows, FileOf, Flushed, RowsOf
<1>3. Done' = Sent' \o RowsOf(output')
  BY DEF Done, RowsOf
<1> QED
  BY <1>1, <1>2, <1>3, SofarRows, RowsOfType, RowsJoin DEF Ends, Returns

LEMMA OutputReturned ==
  ASSUME TypeInv, status = "run", tee' = tee, ReturnOutput
  PROVE  /\ Done' = Done /\ output' = NoExtent /\ status' = "returned" /\ returned' = output
         /\ Ends' <=> output = NoExtent
         /\ Returns' <=> output # NoExtent
<1>1. output \in Optional /\ Return(output) /\ output' = NoExtent
  BY DEF TypeInv, ReturnOutput
<1>2. /\ Sent' = Sent \o RowsOf(output) /\ Sent' \in RowSeq /\ Done' = Sent' \o RowsOf(output')
      /\ status' = "returned" /\ (Ends' <=> output = NoExtent) /\ (Returns' <=> output # NoExtent)
  BY <1>1, SentReturned
<1>3. Done = Sent \o RowsOf(output)
  BY DEF Done
<1>4. Done' = Sent'
  BY <1>1, <1>2, RowsJoin DEF RowsOf
<1> QED
  BY <1>1, <1>2, <1>3, <1>4 DEF Return

LEMMA DoneGrows ==
  ASSUME TypeInv, status = "run", tee' = tee, NEW x \in RowSeq, ReturnWhenFull(Started \o x)
  PROVE  /\ Done' = Done \o x /\ ~Ends' /\ status' \in {"run", "returned"}
         /\ output' \in Optional
         /\ returned' = returned \/ returned' \in RowSeq
         /\ status' = "run" => output' = Started \o x /\ output' # NoExtent /\ ~Returns'
         /\ status' = "returned" => output' = NoExtent /\ Returns'
<1> DEFINE w == Started \o x
<1>1. w \in RowSeq /\ w # NoExtent /\ RowsOf(w) = w /\ w \in Optional
  <2>1. w \in RowSeq
    BY SofarRows, RowsJoin
  <2> QED
    BY <2>1, Constants DEF RowsOf, Optional
<1>2. Done \o x = Sofar \o w /\ Sent = Sofar
  <2>1. Done = Sofar \o Started /\ Sent = Sofar /\ Sofar \in RowSeq /\ Started \in RowSeq
    BY SofarRows
  <2>2. (Sofar \o Started) \o x = Sofar \o (Started \o x)
    BY <2>1, RowsAssoc
  <2> QED
    BY <2>1, <2>2
<1> HIDE DEF w
<1>3. ReturnWhenFull(w)
  BY DEF w
<1>4. CASE Full(w)
  <2>1. Return(w) /\ output' = NoExtent
    BY <1>3, <1>4 DEF ReturnWhenFull
  <2>2. /\ Sent' = Sent \o RowsOf(w) /\ Sent' \in RowSeq /\ Done' = Sent' \o RowsOf(output')
        /\ status' = "returned" /\ ~Ends' /\ Returns'
    BY <1>1, <2>1, SentReturned
  <2>3. Done' = Sent'
    BY <2>1, <2>2, RowsJoin DEF RowsOf
  <2> QED
    BY <1>1, <1>2, <2>1, <2>2, <2>3 DEF Return, Optional
<1>5. CASE ~Full(w)
  <2>1. status' = "run" /\ output' = w /\ returned' = returned
    BY <1>3, <1>5 DEF ReturnWhenFull, GoOn
  <2>2. Done' = Sent \o RowsOf(output') /\ ~Ends' /\ ~Returns'
    BY <2>1, DoneKept
  <2> QED
    BY <1>1, <1>2, <2>1, <2>2 DEF w
<1> QED
  BY <1>4, <1>5

----------------------------------------------------------------------------
\* A step of a module keeps the invariant if it keeps what the invariant says of it.

LEMMA OtherOps ==
  /\ ~Serving("import")' => ImportInv'
  /\ ~Serving("merge")' => MergeInv'
  /\ ~Serving("get")' => GetInv'
  /\ ~Serving("select")' => SelectInv'
  /\ ~Serving("project")' => ProjectInv'
  /\ ~Serving("transform")' => TransformInv'
  /\ ~Serving("hash")' => HashInv'
  /\ ~Serving("star")' => StarInv'
  /\ ~Serving("sort")' => SortInv'
  /\ ~Serving("union")' => UnionInv'
  /\ ~Serving("update")' => UpdateInv'
<1>1. ~Serving("import")' => ImportInv'
  BY Zenon DEF ImportInv
<1>2. ~Serving("merge")' => MergeInv'
  BY Zenon DEF MergeInv
<1>3. ~Serving("get")' => GetInv'
  BY Zenon DEF GetInv
<1>4. ~Serving("select")' => SelectInv'
  BY Zenon DEF SelectInv
<1>5. ~Serving("project")' => ProjectInv'
  BY Zenon DEF ProjectInv
<1>6. ~Serving("transform")' => TransformInv'
  BY Zenon DEF TransformInv
<1>7. ~Serving("hash")' => HashInv'
  BY Zenon DEF HashInv
<1>8. ~Serving("star")' => StarInv'
  BY Zenon DEF StarInv
<1>9. ~Serving("sort")' => SortInv'
  BY Zenon DEF SortInv
<1>10. ~Serving("union")' => UnionInv'
  BY Zenon DEF UnionInv
<1>11. ~Serving("update")' => UpdateInv'
  BY Zenon DEF UpdateInv
<1> QED
  BY <1>1, <1>2, <1>3, <1>4, <1>5, <1>6, <1>7, <1>8, <1>9, <1>10, <1>11

\* What the invariant says of the operation that is served
ThisOp == /\ request.op = "import" => ImportInv
          /\ request.op = "merge" => MergeInv
          /\ request.op = "get" => GetInv
          /\ request.op = "select" => SelectInv
          /\ request.op = "project" => ProjectInv
          /\ request.op = "transform" => TransformInv
          /\ request.op = "hash" => HashInv
          /\ request.op = "star" => StarInv
          /\ request.op = "sort" => SortInv
          /\ request.op = "union" => UnionInv
          /\ request.op = "update" => UpdateInv

LEMMA FatalSame ==
  ASSUME Steady
  PROVE  Fatal(request) => Fatal(request)'
<1>1. In(1)' = In(1) /\ In(2)' = In(2)
  BY SteadyVars
<1> QED
  BY <1>1, SteadyVars DEF Fatal

LEMMA StepKeeps ==
  ASSUME Inv, Steady,
         (Returns' \/ tee.type # NullType) /\ request.op \notin {"import", "select", "update", "get"} =>
            output_type' # NullType,
         status' \in {"run", "returned"} => ThisOp',
         status' = "error" => ErrorInv',
         status' = "dead" => Fatal(request)
  PROVE  Inv'
<1>1. TypeInv /\ ServingInv /\ TablesInv /\ FullInv /\ TeeInv /\ AtomicInv
  BY DEF Inv
<1>2. TypeInv' /\ ServingInv' /\ TablesInv' /\ FullInv' /\ AtomicInv' /\ RenameInv' /\ ResultIsCorrect'
  BY <1>1, SteadyTypes, SteadyServing, SteadyRest
<1>3. TeeInv'
  BY <1>1, SteadyTee
<1>4. OpInv'
  <2>1. CASE status' \in {"run", "returned"}
    <3>1. ThisOp'
      BY <2>1
    <3>2. \A op : Serving(op)' => request'.op = op
      BY DEF Serving
    <3> QED
      BY <3>1, <3>2, OtherOps, Zenon DEF OpInv, ThisOp
  <2>2. CASE status' \notin {"run", "returned"}
    <3>1. \A op : ~Serving(op)'
      BY <2>2 DEF Serving
    <3> QED
      BY <3>1, OtherOps, Zenon DEF OpInv
  <2> QED
    BY <2>1, <2>2
<1>5. ErrorInv' /\ DiesOnlyAsKnown'
  <2>1. status' = "dead" => Fatal(request)'
    BY FatalSame, SteadyVars
  <2> QED
    BY <2>1, Zenon DEF ErrorInv, DiesOnlyAsKnown
<1> QED
  BY <1>2, <1>3, <1>4, <1>5, Zenon DEF Inv

----------------------------------------------------------------------------
\* The server dies

StaysWhole == UNCHANGED <<files, request, serverVars>>

LEMMA Standing ==
  ASSUME Inv, status = "run", StaysWhole, status' \in {"run", "returned", "error", "dead"},
         source' = source, series' = series, output' = output, output_type' = output_type,
         returned' = returned
  PROVE  Steady
<1>1. TypeInv
  BY DEF Inv
<1>2. SameSources
  BY <1>1, NothingRead DEF StaysWhole, serverVars
<1> QED
  BY <1>1, <1>2 DEF Steady, TypeInv, StaysWhole

LEMMA DiesFatally ==
  ASSUME Inv, status = "run", StaysWhole, Die, Fatal(request)
  PROVE  Inv'
<1>1. Steady /\ status' = "dead"
  BY Standing DEF Die
<1>2. ~Returns'
  BY <1>1 DEF Returns
<1>3. tee.type # NullType /\ request.op \notin {"import", "select", "update", "get"} =>
         output_type # NullType
  <2>1. Busy
    BY <1>1, SteadyVars DEF Busy
  <2> QED
    BY <2>1 DEF Inv, TeeInv, ExtentType, Begun
<1> QED
  BY <1>1, <1>2, <1>3, StepKeeps DEF Die

LEMMA Unreadable ==
  ASSUME TypeInv, ServingInv, status = "run", NEW i \in DOMAIN source, ~Readable(i)
  PROVE  Fatal(request)
<1>1. ~Opened(i) /\ ~files[source[i].table].whole
  BY DEF Readable, Opened
<1>2. request.op \in Reading
  BY <1>1, UnreadRows, Run
<1>3. i \in DOMAIN request.in /\ source[i].table = request.in[i]
  BY <1>2, InRun
<1> QED
  BY <1>1, <1>3 DEF Fatal

----------------------------------------------------------------------------
\* SelectModule and ProjectModule

LEMMA AtWork ==
  ASSUME Inv, NEW op, Running(op)
  PROVE  /\ TypeInv /\ ServingInv /\ TeeInv /\ ThisOp /\ status = "run" /\ request.op = op
         /\ StaysWhole => /\ request' = request /\ before' = before /\ tee' = tee /\ \A i : In(i)' = In(i)
         /\ op \in Reading => 1 \in DOMAIN source
         /\ op \in {"select", "project", "transform", "sort", "get"} => DOMAIN source = {1}
         /\ op \in {"star", "update", "hash"} => DOMAIN source = {1, 2} /\ Len(source) = 2
<1>1. /\ TypeInv /\ ServingInv /\ TeeInv /\ status = "run" /\ request.op = op
  BY DEF Inv, Running
<1>2. ThisOp
  BY DEF Inv, OpInv, ThisOp
<1>3. StaysWhole => /\ request' = request /\ before' = before /\ tee' = tee /\ \A i : In(i)' = In(i)
  BY InSame DEF StaysWhole, serverVars
<1>4. op \in Reading => /\ Len(source) = Len(request.in) /\ request \in Requests /\ request.in \in Seq(Tables)
                        /\ request.in # << >> /\ DOMAIN source = 1..Len(source)
  BY <1>1, Run DEF TypeInv, IsSources
<1>5. op \in {"select", "project", "transform", "sort", "get"} => op \in Reading /\ Len(source) = 1
  BY <1>1, <1>4, RequestIn DEF Reading
<1>6. op \in {"star", "update", "hash"} => op \in Reading /\ Len(source) = 2
  BY <1>1, <1>4, RequestIn DEF Reading
<1> QED
  BY <1>1, <1>2, <1>3, <1>4, <1>5, <1>6

LEMMA SelectStep ==
  ASSUME Inv, SelectExtent, StaysWhole
  PROVE  Inv'
<1>0. Running("select") /\ Filter(SelectRows)
  BY DEF SelectExtent
<1>1. /\ TypeInv /\ ServingInv /\ TeeInv /\ ThisOp /\ status = "run" /\ request.op = "select"
      /\ request' = request /\ before' = before /\ tee' = tee /\ In(1)' = In(1)
      /\ 1 \in DOMAIN source
  BY <1>0, AtWork
<1>2. Done \o Only(Unread(1), Selected) = Only(In(1), Selected) /\ Done \in RowSeq
  BY <1>1, SofarRows DEF ThisOp, SelectInv, Serving
<1>3. CASE ~Readable(1)
  <2>1. Die
    BY <1>0, <1>3 DEF Filter, Pull
  <2> QED
    BY <1>1, <1>3, <2>1, Unreadable, DiesFatally
<1>4. CASE Readable(1)
  <2>1. PICK e : /\ Taken(1, e)
                 /\ IF e = NoExtent THEN ReturnOutput /\ UNCHANGED <<series, output_type, mem>>
                    ELSE /\ ReturnWhenFull(Started \o SelectRows(e))
                         /\ Typed(source[1].type)
                         /\ UNCHANGED <<series, mem>>
    BY <1>0, <1>1, <1>4 DEF Filter, Pull, Taken
  <2>2. /\ e \in Optional /\ RowsOf(e) \in RowSeq /\ SameSources /\ Opened(1)'
        /\ Unread(1) \in RowSeq /\ Unread(1)' \in RowSeq /\ Unread(1) = RowsOf(e) \o Unread(1)'
        /\ e = NoExtent => source'[1].left = << >> /\ Unread(1)' = << >> /\ Unread(1) = << >>
        /\ e # NoExtent => e \in RowSeq /\ RowsOf(e) = e
    BY <1>1, <2>1, TakenFacts
  <2>3. series' = series /\ series \in Seq(Optional) /\ returned \in Optional /\ output_type # MissingType
    BY <1>1, <2>1 DEF TypeInv
  <2>4. CASE e = NoExtent
    <3>1. /\ Done' = Done /\ output' = NoExtent /\ status' = "returned" /\ returned' = output
          /\ output_type' = output_type /\ output \in Optional
      BY <1>1, <2>1, <2>4, OutputReturned DEF TypeInv
    <3>2. Steady
      BY <1>1, <2>2, <2>3, <3>1 DEF Steady, StaysWhole, Optional
    <3>3. SelectInv'
      <4>1. Done' \o Only(Unread(1)', Selected) = Only(In(1)', Selected)
        BY <1>1, <1>2, <2>2, <2>4, <3>1
      <4> QED
        BY <2>2, <2>4, <3>1, <4>1 DEF SelectInv
    <3> QED
      BY <1>1, <3>1, <3>2, <3>3, StepKeeps DEF ThisOp
  <2>5. CASE e # NoExtent
    <3> DEFINE x == SelectRows(e)
               y == Only(Unread(1)', Selected)
    <3>1. x \in RowSeq /\ y \in RowSeq /\ Only(Unread(1), Selected) = x \o y
      BY <2>2, <2>5, SelectConcat DEF RowSeq, SelectRows
    <3>2. ReturnWhenFull(Started \o x)
      BY <2>1, <2>5
    <3> HIDE DEF x, y
    <3>3. /\ Done' = Done \o x /\ ~Ends' /\ status' \in {"run", "returned"} /\ output' \in Optional
          /\ returned' = returned \/ returned' \in RowSeq
      BY <1>1, <3>1, <3>2, DoneGrows
    <3>4. Done' \o y = Only(In(1)', Selected)
      <4>1. (Done \o x) \o y = Done \o (x \o y)
        BY <1>2, <3>1, RowsAssoc
      <4>2. Done \o (x \o y) = Only(In(1), Selected)
        BY <1>2, <3>1
      <4> QED
        BY <1>1, <3>3, <4>1, <4>2
    <3>5. SelectInv'
      BY <3>3, <3>4 DEF SelectInv, y
    <3>6. output_type' # MissingType /\ (output_type # NullType => output_type' = output_type)
      BY <1>1, <2>1, <2>3, <2>5, SourceTyped DEF Typed
    <3>7. Steady
      BY <1>1, <2>2, <2>3, <3>3, <3>6 DEF Steady, StaysWhole, Optional
    <3> QED
      BY <1>1, <3>3, <3>5, <3>7, StepKeeps DEF ThisOp
  <2> QED
    BY <2>4, <2>5
<1> QED
  BY <1>3, <1>4

LEMMA ProjectStep ==
  ASSUME Inv, ProjectExtent, StaysWhole
  PROVE  Inv'
<1>0. Running("project") /\ Filter(ProjectRows)
  BY DEF ProjectExtent
<1>1. /\ TypeInv /\ ServingInv /\ TeeInv /\ ThisOp /\ status = "run" /\ request.op = "project"
      /\ request' = request /\ before' = before /\ tee' = tee /\ In(1)' = In(1)
      /\ 1 \in DOMAIN source
  BY <1>0, AtWork
<1>2. /\ Done \o Project(Unread(1)) = Project(In(1)) /\ Done \in RowSeq
      /\ Begun \/ output # NoExtent => output_type # NullType
  BY <1>1, SofarRows DEF ThisOp, ProjectInv, Serving
<1>3. CASE ~Readable(1)
  <2>1. Die
    BY <1>0, <1>3 DEF Filter, Pull
  <2> QED
    BY <1>1, <1>3, <2>1, Unreadable, DiesFatally
<1>4. CASE Readable(1)
  <2>1. PICK e : /\ Taken(1, e)
                 /\ IF e = NoExtent THEN ReturnOutput /\ UNCHANGED <<series, output_type, mem>>
                    ELSE /\ ReturnWhenFull(Started \o ProjectRows(e))
                         /\ Typed(TypeOf("project", source[1].type.name, SourceTypes))
                         /\ UNCHANGED <<series, mem>>
    BY <1>0, <1>1, <1>4 DEF Filter, Pull, Taken
  <2>2. /\ e \in Optional /\ RowsOf(e) \in RowSeq /\ SameSources /\ Opened(1)'
        /\ Unread(1) \in RowSeq /\ Unread(1)' \in RowSeq /\ Unread(1) = RowsOf(e) \o Unread(1)'
        /\ e = NoExtent => source'[1].left = << >> /\ Unread(1)' = << >> /\ Unread(1) = << >>
        /\ e # NoExtent => e \in RowSeq /\ RowsOf(e) = e
    BY <1>1, <2>1, TakenFacts
  <2>3. series' = series /\ series \in Seq(Optional) /\ returned \in Optional /\ output_type # MissingType
    BY <1>1, <2>1 DEF TypeInv
  <2>4. CASE e = NoExtent
    <3>1. /\ Done' = Done /\ output' = NoExtent /\ status' = "returned" /\ returned' = output
          /\ output_type' = output_type /\ output \in Optional /\ (Returns' <=> output # NoExtent)
      BY <1>1, <2>1, <2>4, OutputReturned DEF TypeInv
    <3>2. Steady
      BY <1>1, <2>2, <2>3, <3>1 DEF Steady, StaysWhole, Optional
    <3>3. Begun' \/ output' # NoExtent => output_type' # NullType
      BY <1>1, <1>2, <3>1 DEF Begun
    <3>4. ProjectInv'
      <4>1. Done' \o Project(Unread(1)') = Project(In(1)')
        BY <1>1, <1>2, <2>2, <2>4, <3>1
      <4> QED
        BY <2>2, <2>4, <3>1, <3>3, <4>1 DEF ProjectInv
    <3> QED
      BY <1>1, <3>1, <3>2, <3>3, <3>4, StepKeeps DEF ThisOp, Begun
  <2>5. CASE e # NoExtent
    <3> DEFINE x == ProjectRows(e)
               y == Project(Unread(1)')
    <3>1. x \in RowSeq /\ y \in RowSeq /\ Project(Unread(1)) = x \o y
      <4>1. x = Project(e)
        BY DEF ProjectRows, Project
      <4>2. e \in Seq(Row) /\ Unread(1)' \in Seq(Row) /\ Unread(1) = e \o Unread(1)'
        BY <2>2, <2>5 DEF RowSeq
      <4>3. Project(e) \in Seq(Row) /\ y \in Seq(Row)
        BY <4>2, ProjectConcat
      <4>4. Project(e \o Unread(1)') = Project(e) \o y
        BY <4>2, ProjectConcat
      <4> QED
        BY <4>1, <4>2, <4>3, <4>4 DEF RowSeq
    <3>2. ReturnWhenFull(Started \o x)
      BY <2>1, <2>5
    <3> HIDE DEF x, y
    <3>3. /\ Done' = Done \o x /\ ~Ends' /\ status' \in {"run", "returned"} /\ output' \in Optional
          /\ returned' = returned \/ returned' \in RowSeq
      BY <1>1, <3>1, <3>2, DoneGrows
    <3>4. Done' \o y = Project(In(1)')
      <4>1. (Done \o x) \o y = Done \o (x \o y)
        BY <1>2, <3>1, RowsAssoc
      <4>2. Done \o (x \o y) = Project(In(1))
        BY <1>2, <3>1
      <4> QED
        BY <1>1, <3>3, <4>1, <4>2
    <3>6. /\ output_type' # MissingType /\ (output_type # NullType => output_type' = output_type)
          /\ output_type' # NullType
      BY <1>1, <2>1, <2>3, <2>5, OperationTypes DEF Typed
    <3>5. ProjectInv'
      BY <3>3, <3>4, <3>6 DEF ProjectInv, y
    <3>7. Steady
      BY <1>1, <2>2, <2>3, <3>3, <3>6 DEF Steady, StaysWhole, Optional
    <3> QED
      BY <1>1, <3>3, <3>5, <3>6, <3>7, StepKeeps DEF ThisOp
  <2> QED
    BY <2>4, <2>5
<1> QED
  BY <1>3, <1>4

LEMMA SeriesSet ==
  ASSUME TypeInv, NEW i \in DOMAIN source, NEW x \in Optional, series' = [series EXCEPT ![i] = x]
  PROVE  /\ series' \in Seq(Optional) /\ Len(series') = Len(series) /\ series'[i] = x
         /\ \A j \in DOMAIN source : j # i => series'[j] = series[j]
<1>1. series \in Seq(Optional) /\ Len(series) = Len(source) /\ DOMAIN source = 1..Len(source)
  BY SMTT(30) DEF TypeInv, IsSources
<1>2. i \in 1..Len(series) /\ DOMAIN series = 1..Len(series)
  BY <1>1, SMTT(30)
<1>3. Replaced(series, i, x, series', Optional)
  BY <1>1, <1>2, ReplaceOne
<1> QED
  BY <1>1, <1>2, <1>3 DEF Replaced

LEMMA StartsOf ==
  ASSUME NEW p \in RowSeq, NEW r \in RowSeq
  PROVE  p \in Starts(p \o r)
<1> DEFINE s == p \o r
<1>1. s \in Seq(Row) /\ Len(p) \in 0..Len(s) /\ Len(p) \in Nat
  BY DEF RowSeq
<1>2. SubSeq(s, 1, Len(p)) = p
  BY DEF RowSeq
<1> QED
  BY <1>1, <1>2 DEF Starts

LEMMA StartsRows ==
  ASSUME NEW s \in RowSeq, NEW p \in Starts(s)
  PROVE  p \in RowSeq
<1>1. PICK n \in 0..Len(s) : p = SubSeq(s, 1, n)
  BY DEF Starts
<1> QED
  BY <1>1, PrefixFacts DEF RowSeq

\* The first extents of a table that is not made by this request
LEMMA FirstExtents ==
  ASSUME TypeInv, ServingInv, status = "run", NEW i \in DOMAIN source, ~Opened(i), request.op # "update"
  PROVE  Extents(i) = << >> \/ Extents(i) = before.files[request.in[i]].extents
<1>1. request.op \in Reading
  BY UnreadRows, Run
<1> DEFINE t == request.in[i]
<1>2. t \in Tables /\ source[i].table = t
  BY <1>1, InRun
<1>3. Extents(i) = << >> \/ Extents(i) = files[t].extents
  BY <1>2 DEF Extents, Opened
<1>4. files = FilesNow /\ t \in DOMAIN before.files
  BY <1>2, Run DEF TypeInv
<1>5. files[t] = before.files[t] \/ files[t] = NoFile
  BY <1>4 DEF FilesNow, New
<1> QED
  BY <1>3, <1>5 DEF NoFile

----------------------------------------------------------------------------
\* ExprTransformModule

TransformFits(p) ==
  /\ p \in RowSeq /\ p \o Rest(1) = In(1) /\ Done = Transform(p)
  /\ IF output_type = NullType THEN p = << >> ELSE mem = Previous(Done)

LEMMA TransformKnown ==
  ASSUME Inv, Running("transform")
  PROVE  /\ \E p : TransformFits(p)
         /\ Begun \/ output # NoExtent \/ series[1] # NoExtent => output_type # NullType
         /\ output # NoExtent \/ series[1] # NoExtent => Opened(1)
         /\ Opened(1) /\ source[1].left # << >> =>
              Len(source[1].left) < Len(before.files[request.in[1]].extents)
<1>1. /\ TypeInv /\ ServingInv /\ ThisOp /\ status = "run" /\ request.op = "transform" /\ 1 \in DOMAIN source
  BY AtWork DEF Reading
<1>2. TransformInv /\ Serving("transform")
  BY <1>1 DEF ThisOp, Serving
<1>3. In(1) \in RowSeq
  BY <1>1, InRun DEF Reading
<1>4. PICK p \in Starts(In(1)) : /\ p \o Rest(1) = In(1) /\ Done = Transform(p)
                                 /\ IF output_type = NullType THEN p = << >> ELSE mem = Previous(Done)
  BY <1>2 DEF TransformInv
<1>5. TransformFits(p)
  BY <1>3, <1>4, StartsRows DEF TransformFits
<1> QED
  BY <1>2, <1>5 DEF TransformInv

LEMMA TransformNow ==
  ASSUME NEW p, TransformFits(p)', Rest(1)' \in RowSeq,
         Begun' \/ output' # NoExtent \/ series'[1] # NoExtent => output_type' # NullType,
         output' # NoExtent \/ series'[1] # NoExtent => Opened(1)',
         Opened(1)' /\ source'[1].left # << >> =>
              Len(source'[1].left) < Len(before'.files[request'.in[1]].extents),
         Ends' => source'[1].left = << >> /\ series'[1] = NoExtent /\ output' = NoExtent
  PROVE  TransformInv'
<1>1. p \in RowSeq /\ p \o Rest(1)' = In(1)'
  BY DEF TransformFits
<1>2. p \in Starts(In(1)')
  BY <1>1, StartsOf
<1>3. /\ p \o Rest(1)' = In(1)' /\ Done' = Transform(p)
      /\ IF output_type' = NullType THEN p = << >> ELSE mem' = Previous(Done')
  BY DEF TransformFits
<1> QED
  BY <1>2, <1>3 DEF TransformInv

LEMMA TransformStartStep ==
  ASSUME Inv, TransformStart, StaysWhole
  PROVE  Inv'
<1>0. /\ Running("transform") /\ output = NoExtent /\ series[1] # NoExtent /\ output' = << >>
      /\ UNCHANGED <<status, source, series, output_type, mem, returned>>
  BY DEF TransformStart
<1>1. /\ TypeInv /\ ServingInv /\ status = "run" /\ request.op = "transform"
      /\ request' = request /\ before' = before /\ tee' = tee /\ In(1)' = In(1)
      /\ 1 \in DOMAIN source
  BY <1>0, AtWork DEF Reading
<1>2. PICK p : TransformFits(p)
  BY <1>0, TransformKnown
<1>3. SameSources /\ Unread(1)' = Unread(1) /\ Opened(1)' = Opened(1)
  BY <1>0, <1>1, NothingRead
<1>4. Sent' = Sent /\ Done' = Sent \o RowsOf(output') /\ ~Ends' /\ ~Returns'
  BY <1>0, <1>1, DoneKept
<1>5. RowsOf(output') = << >> /\ RowsOf(output) = << >> /\ output' # NoExtent /\ output' \in Optional
  BY <1>0, Constants, FullIsRows DEF RowsOf, Optional
<1>6. Done' = Done
  BY <1>4, <1>5 DEF Done
<1>7. Rest(1)' = Rest(1) /\ Rest(1) \in RowSeq
  BY <1>0, <1>1, <1>3, UnreadRows DEF Rest, RowsOf
<1>8. TransformFits(p)'
  BY <1>0, <1>1, <1>2, <1>6, <1>7 DEF TransformFits
<1>9. TransformInv'
  BY <1>0, <1>1, <1>3, <1>4, <1>7, <1>8, TransformKnown, TransformNow DEF Begun
<1>10. Steady
  BY <1>0, <1>1, <1>3, <1>5 DEF Steady, StaysWhole, TypeInv
<1> QED
  BY <1>0, <1>1, <1>4, <1>9, <1>10, StepKeeps, TransformKnown DEF ThisOp

LEMMA TransformNextExtentStep ==
  ASSUME Inv, TransformNextExtent, StaysWhole
  PROVE  Inv'
<1>0. /\ Running("transform") /\ output # NoExtent /\ series[1] = << >>
      /\ series' = [series EXCEPT ![1] = NoExtent]
      /\ UNCHANGED <<status, source, output, output_type, mem, returned>>
  BY DEF TransformNextExtent
<1>1. /\ TypeInv /\ ServingInv /\ status = "run" /\ request.op = "transform"
      /\ request' = request /\ before' = before /\ tee' = tee /\ In(1)' = In(1)
      /\ 1 \in DOMAIN source
  BY <1>0, AtWork DEF Reading
<1>2. PICK p : TransformFits(p)
  BY <1>0, TransformKnown
<1>3. SameSources /\ Unread(1)' = Unread(1) /\ Opened(1)' = Opened(1)
  BY <1>0, <1>1, NothingRead
<1>4. Sent' = Sent /\ Done' = Sent \o RowsOf(output') /\ ~Ends' /\ ~Returns'
  BY <1>0, <1>1, DoneKept
<1>5. series' \in Seq(Optional) /\ Len(series') = Len(series) /\ series'[1] = NoExtent
  BY <1>0, <1>1, SeriesSet DEF Optional
<1>6. Done' = Done
  BY <1>0, <1>4 DEF Done
<1>7. Rest(1)' = Rest(1) /\ Rest(1) \in RowSeq
  <2>1. RowsOf(series[1]) = << >> /\ RowsOf(series'[1]) = << >>
    BY <1>0, <1>5 DEF RowsOf
  <2> QED
    BY <1>1, <1>3, <2>1, UnreadRows DEF Rest, RowsOf
<1>8. TransformFits(p)'
  BY <1>0, <1>1, <1>2, <1>6, <1>7 DEF TransformFits
<1>9. TransformInv'
  BY <1>0, <1>1, <1>3, <1>4, <1>5, <1>7, <1>8, TransformKnown, TransformNow DEF Begun
<1>10. Steady
  BY <1>0, <1>1, <1>3, <1>5 DEF Steady, StaysWhole, TypeInv
<1> QED
  BY <1>0, <1>1, <1>4, <1>9, <1>10, StepKeeps, TransformKnown DEF ThisOp

LEMMA TransformPullStep ==
  ASSUME Inv, TransformPull, StaysWhole
  PROVE  Inv'
<1>0. Running("transform") /\ series[1] = NoExtent
  BY DEF TransformPull
<1>1. /\ TypeInv /\ ServingInv /\ TeeInv /\ status = "run" /\ request.op = "transform"
      /\ request' = request /\ before' = before /\ tee' = tee /\ In(1)' = In(1)
      /\ 1 \in DOMAIN source
  BY <1>0, AtWork DEF Reading
<1>2. PICK p : TransformFits(p)
  BY <1>0, TransformKnown
<1>3. CASE ~Readable(1)
  <2>1. Die
    BY <1>3 DEF TransformPull, Pull
  <2> QED
    BY <1>1, <1>3, <2>1, Unreadable, DiesFatally
<1>4. CASE Readable(1)
  <2>1. PICK e : /\ Taken(1, e)
                 /\ IF e = NoExtent THEN ReturnOutput /\ UNCHANGED <<series, output_type, mem>>
                    ELSE IF output # NoExtent
                      THEN /\ status' = "dead"
                           /\ UNCHANGED <<series, output, output_type, mem, returned>>
                      ELSE /\ series' = [series EXCEPT ![1] = e]
                           /\ output' = << >>
                           /\ Typed(TypeOf("transform", request.out, << >>))
                           /\ mem' = IF output_type = NullType THEN NoPrevious ELSE mem
                           /\ GoOn
    BY <1>4 DEF TransformPull, Pull, Taken
  <2>2. /\ e \in Optional /\ RowsOf(e) \in RowSeq /\ SameSources /\ Opened(1)'
        /\ Unread(1) \in RowSeq /\ Unread(1)' \in RowSeq /\ Unread(1) = RowsOf(e) \o Unread(1)'
        /\ e = NoExtent => source'[1].left = << >> /\ Unread(1)' = << >> /\ Unread(1) = << >>
        /\ e # NoExtent => /\ e \in RowSeq /\ RowsOf(e) = e /\ Extents(1) # << >>
                           /\ source'[1].left = Tail(Extents(1))
    BY <1>1, <2>1, TakenFacts
  <2>3. Extents(1) \in Seq(RowSeq) /\ (Opened(1) => Extents(1) = source[1].left)
    BY <1>1, <1>4, ToRead
  <2>4. Rest(1) = Unread(1) /\ RowsOf(NoExtent) = << >>
    BY <1>0, <2>2, RowsJoin DEF Rest, RowsOf
  <2>5. CASE e = NoExtent
    <3>1. /\ Done' = Done /\ output' = NoExtent /\ status' = "returned" /\ returned' = output
          /\ output_type' = output_type /\ series' = series /\ mem' = mem
          /\ output \in Optional /\ (Returns' <=> output # NoExtent)
      BY <1>1, <2>1, <2>5, OutputReturned DEF TypeInv
    <3>2. Steady
      BY <1>1, <2>2, <3>1 DEF Steady, StaysWhole, Optional, TypeInv
    <3>3. Rest(1)' = Rest(1) /\ Rest(1)' \in RowSeq
      BY <1>0, <2>2, <2>4, <2>5, <3>1, RowsJoin DEF Rest, RowsOf
    <3>4. TransformFits(p)'
      BY <1>1, <1>2, <3>1, <3>3 DEF TransformFits
    <3>5. Begun' \/ output' # NoExtent => output_type' # NullType
      BY <1>0, <1>1, <3>1, TransformKnown DEF Begun
    <3>6. TransformInv'
      BY <1>0, <2>2, <2>5, <3>1, <3>3, <3>4, <3>5, TransformNow
    <3> QED
      BY <1>1, <3>1, <3>2, <3>5, <3>6, StepKeeps DEF ThisOp, Begun
  <2>6. CASE e # NoExtent /\ output # NoExtent
    <3>1. status' = "dead" /\ UNCHANGED <<series, output, output_type, mem, returned>>
      BY <2>1, <2>6
    <3>2. Steady
      BY <1>1, <2>2, <3>1 DEF Steady, StaysWhole, TypeInv
    <3>3. Opened(1) /\ output_type # NullType
      BY <1>0, <2>6, TransformKnown
    <3>4. Fatal(request)
      <4>1. source[1].left \in Seq(RowSeq) /\ source[1].left # << >>
        BY <2>2, <2>3, <2>6, <3>3
      <4>2. Len(source[1].left) > 0 /\ Len(source[1].left) \in Nat
        BY <4>1
      <4>3. Len(source[1].left) < Len(before.files[request.in[1]].extents)
        BY <1>0, <3>3, <4>1, TransformKnown
      <4>4. before.files[request.in[1]].extents \in Seq(RowSeq)
        BY <1>1, InRun, ExtentsAreRows DEF TypeInv, Reading
      <4>5. Len(before.files[request.in[1]].extents) > 1
        <5>1. Len(before.files[request.in[1]].extents) \in Nat
          BY <4>4, LenRows
        <5> QED
          BY <4>2, <4>3, <5>1
      <4> QED
        BY <1>1, <4>5 DEF Fatal
    <3> QED
      BY <1>1, <3>1, <3>2, <3>3, <3>4, StepKeeps
  <2>7. CASE e # NoExtent /\ output = NoExtent
    <3>1. /\ series' = [series EXCEPT ![1] = e] /\ output' = << >> /\ status' = "run" /\ returned' = returned
          /\ Typed(TypeOf("transform", request.out, << >>))
          /\ mem' = IF output_type = NullType THEN NoPrevious ELSE mem
      BY <1>1, <2>1, <2>7 DEF GoOn
    <3>2. series' \in Seq(Optional) /\ Len(series') = Len(series) /\ series'[1] = e
      BY <1>1, <2>2, <3>1, SeriesSet
    <3>3. /\ output_type' # MissingType /\ (output_type # NullType => output_type' = output_type)
          /\ output_type' # NullType
      BY <1>1, <3>1, OperationTypes DEF Typed, TypeInv
    <3>4. Sent' = Sent /\ Done' = Sent \o RowsOf(output') /\ ~Ends' /\ ~Returns'
      BY <1>1, <3>1, DoneKept
    <3>5. RowsOf(output') = << >> /\ RowsOf(output) = << >> /\ output' \in Optional
      BY <2>7, <3>1, Constants, FullIsRows DEF RowsOf, Optional
    <3>6. Done' = Done
      BY <3>4, <3>5 DEF Done
    <3>7. Steady
      BY <1>1, <2>2, <3>1, <3>2, <3>3, <3>5 DEF Steady, StaysWhole, TypeInv
    <3>8. Rest(1)' = Rest(1) /\ Rest(1)' \in RowSeq
      <4>1. Rest(1)' = RowsOf(e) \o Unread(1)'
        BY <3>2 DEF Rest, RowsOf
      <4> QED
        BY <2>2, <2>4, <4>1
    <3>9. TransformFits(p)'
      <4>1. p \in RowSeq /\ p \o Rest(1) = In(1) /\ Done = Transform(p)
            /\ (output_type = NullType => p = << >>) /\ (output_type # NullType => mem = Previous(Done))
        BY <1>2 DEF TransformFits
      <4>2. Previous(<< >>) = NoPrevious /\ Transform(<< >>) = << >>
        BY TransformEmpty DEF Previous
      <4>3. mem' = Previous(Done)
        BY <3>1, <4>1, <4>2
      <4> QED
        BY <1>1, <3>3, <3>6, <3>8, <4>1, <4>3 DEF TransformFits
    <3>10. Len(source'[1].left) < Len(before'.files[request'.in[1]].extents)
      <4>1. Len(Tail(Extents(1))) < Len(Extents(1)) /\ Len(Extents(1)) \in Nat /\ Len(Tail(Extents(1))) \in Nat
        BY <2>2, <2>3, <2>7
      <4>2. Len(Extents(1)) \leq Len(before.files[request.in[1]].extents)
        <5>1. before.files[request.in[1]].extents \in Seq(RowSeq)
          BY <1>1, InRun, ExtentsAreRows DEF TypeInv, Reading
        <5>2. Len(before.files[request.in[1]].extents) \in Nat
          BY <5>1, LenRows
        <5>3. CASE Opened(1)
          BY <1>0, <2>2, <2>3, <2>7, <4>1, <5>2, <5>3, TransformKnown
        <5>4. CASE ~Opened(1)
          BY <1>1, <2>2, <2>7, <4>1, <5>2, <5>4, FirstExtents
        <5> QED
          BY <5>3, <5>4
      <4>3. Len(before.files[request.in[1]].extents) \in Nat
        <5>1. before.files[request.in[1]].extents \in Seq(RowSeq)
          BY <1>1, InRun, ExtentsAreRows DEF TypeInv, Reading
        <5> QED
          BY <5>1, LenRows
      <4>4. source'[1].left = Tail(Extents(1)) /\ before' = before /\ request' = request
        BY <1>1, <2>2, <2>7
      <4> HIDE DEF Extents
      <4> QED
        BY <4>1, <4>2, <4>3, <4>4
    <3>11. TransformInv'
      BY <2>2, <3>3, <3>4, <3>8, <3>9, <3>10, TransformNow
    <3> QED
      BY <1>1, <3>1, <3>3, <3>7, <3>11, StepKeeps DEF ThisOp
  <2> QED
    BY <2>5, <2>6, <2>7
<1> QED
  BY <1>3, <1>4

LEMMA TransformRowStep ==
  ASSUME Inv, TransformRow, StaysWhole
  PROVE  Inv'
<1> DEFINE s == series[1]
           h == Head(s)
           row == Transformed(h, mem)
<1>0. /\ Running("transform") /\ output # NoExtent /\ s # NoExtent /\ s # << >>
      /\ mem' = row /\ ReturnWhenFull(Append(output, row))
      /\ series' = [series EXCEPT ![1] = Tail(s)]
      /\ source' = source /\ output_type' = output_type
  BY DEF TransformRow
<1>1. /\ TypeInv /\ ServingInv /\ TeeInv /\ status = "run" /\ request.op = "transform"
      /\ request' = request /\ before' = before /\ tee' = tee /\ In(1)' = In(1)
      /\ 1 \in DOMAIN source
  BY <1>0, AtWork DEF Reading
<1>2. PICK p : TransformFits(p)
  BY <1>0, TransformKnown
<1>3. /\ p \in RowSeq /\ p \o Rest(1) = In(1) /\ Done = Transform(p) /\ output_type # NullType
      /\ mem = Previous(Done)
  BY <1>0, <1>2, TransformKnown DEF TransformFits
<1>4. SameSources /\ Unread(1)' = Unread(1) /\ Opened(1)' = Opened(1) /\ Unread(1) \in RowSeq
  BY <1>0, <1>1, NothingRead, UnreadRows
<1>5. /\ s \in Seq(Row) /\ h \in Row /\ Tail(s) \in RowSeq /\ s = <<h>> \o Tail(s) /\ <<h>> \in RowSeq
      /\ RowsOf(s) = s /\ Tail(s) \in Optional /\ RowsOf(Tail(s)) = Tail(s)
  <2>1. s \in Optional
    BY <1>1, Source
  <2>2. s \in Seq(Row)
    BY <1>0, <2>1 DEF Optional, RowSeq
  <2>3. h \in Row /\ Tail(s) \in Seq(Row) /\ s = <<h>> \o Tail(s)
    BY <1>0, <2>2, HeadFacts
  <2>4. <<h>> \in Seq(Row)
    BY <2>3
  <2>5. Tail(s) # NoExtent
    BY <2>3, Constants DEF RowSeq
  <2> QED
    BY <1>0, <2>2, <2>3, <2>4, <2>5 DEF Optional, RowSeq, RowsOf
<1> HIDE DEF h, s
<1>6. /\ mem \in Row /\ row \in Row /\ Transform(Append(p, h)) = Append(Done, row)
  <2>1. p \in Seq(Row)
    BY <1>3 DEF RowSeq
  <2>2. Previous(Transform(p)) \in Row /\ Transform(Append(p, h)) = Append(Transform(p), Transformed(h, Previous(Transform(p))))
    BY <1>5, <2>1, TransformAppend
  <2>3. mem \in Row
    BY <1>3, <2>2
  <2> QED
    BY <1>3, <1>5, <2>2, <2>3, TransformedRow
<1> HIDE DEF row
<1>7. output \in RowSeq /\ Started = output /\ Append(output, row) = Started \o <<row>> /\ <<row>> \in RowSeq
  <2>1. output \in RowSeq /\ Started = output
    BY <1>0, <1>1 DEF Optional, Started, TypeInv
  <2> QED
    BY <1>6, <2>1, RowsAppend
<1>8. /\ Done' = Done \o <<row>> /\ ~Ends' /\ status' \in {"run", "returned"} /\ output' \in Optional
      /\ returned' = returned \/ returned' \in RowSeq
  <2> DEFINE o == <<row>>
  <2>1. o \in RowSeq /\ ReturnWhenFull(Started \o o)
    BY <1>0, <1>7
  <2> HIDE DEF o
  <2>2. /\ Done' = Done \o o /\ ~Ends' /\ status' \in {"run", "returned"} /\ output' \in Optional
        /\ returned' = returned \/ returned' \in RowSeq
    BY <1>1, <2>1, DoneGrows
  <2> QED
    BY <2>2 DEF o
<1>9. Done \in RowSeq
  BY <1>1, SofarRows
<1>10. Done' = Append(Done, row) /\ Previous(Done') = row
  BY <1>6, <1>8, <1>9, RowsAppend, PreviousAppend DEF RowSeq
<1>11. series' \in Seq(Optional) /\ Len(series') = Len(series) /\ series'[1] = Tail(s)
  BY <1>0, <1>1, <1>5, SeriesSet
<1>17. Append(p, h) \in RowSeq /\ Append(p, h) = p \o <<h>>
  BY <1>3, <1>5, RowsAppend
<1>12. PICK q : q = Append(p, h) /\ q \in RowSeq /\ q = p \o <<h>>
  BY <1>17
<1>13. q \o Rest(1)' = In(1)' /\ Rest(1)' \in RowSeq
  <2> DEFINE o == <<h>>
             t == Tail(s)
             u == Unread(1)
  <2>1. Rest(1)' = t \o u /\ Rest(1) = s \o u /\ s = o \o t
    BY <1>4, <1>5, <1>11 DEF Rest, RowsOf, s
  <2>2. o \in RowSeq /\ t \in RowSeq /\ u \in RowSeq /\ q = p \o o
    BY <1>4, <1>5, <1>12
  <2> HIDE DEF o, t, u
  <2>3. (p \o o) \o (t \o u) = p \o (o \o (t \o u)) /\ (o \o t) \o u = o \o (t \o u) /\ t \o u \in RowSeq
    <3>1. t \o u \in RowSeq
      BY <2>2, RowsJoin
    <3>2. (o \o t) \o u = o \o (t \o u)
      BY <2>2, RowsAssoc
    <3>3. (p \o o) \o (t \o u) = p \o (o \o (t \o u))
      BY <1>3, <2>2, <3>1, RowsAssoc
    <3> QED
      BY <3>1, <3>2, <3>3
  <2> QED
    BY <1>1, <1>3, <2>1, <2>2, <2>3
<1>14. TransformFits(q)'
  <2>1. Done' = Transform(q)
    BY <1>6, <1>10, <1>12
  <2>2. output_type' # NullType /\ mem' = Previous(Done')
    BY <1>0, <1>3, <1>10
  <2> QED
    BY <1>12, <1>13, <2>1, <2>2 DEF TransformFits
<1>15. TransformInv'
  <2>1. output_type' # NullType /\ Opened(1)'
    BY <1>0, <1>3, <1>4, TransformKnown
  <2>2. Opened(1)' /\ source'[1].left # << >> =>
              Len(source'[1].left) < Len(before'.files[request'.in[1]].extents)
    BY <1>0, <1>1, <1>4, TransformKnown
  <2> QED
    BY <1>8, <1>13, <1>14, <2>1, <2>2, TransformNow
<1>16. Steady
  BY <1>0, <1>1, <1>4, <1>8, <1>11 DEF Steady, StaysWhole, TypeInv, Optional
<1> QED
  BY <1>0, <1>1, <1>3, <1>8, <1>15, <1>16, StepKeeps DEF ThisOp

----------------------------------------------------------------------------
\* The inputs of a request that is not known to end the server

LEMMA Sound ==
  ASSUME Inv, status = "run", request.op \in Reading, NEW i \in DOMAIN source, ~Fatal(request)
  PROVE  /\ files[request.in[i]].type = source[i].type /\ source[i].table = request.in[i]
         /\ request.in[i] \notin damaged
         /\ ~Written(request.in[i]) => files[request.in[i]].extents \in Seq(FullRows)
         /\ Written(request.in[i]) => New /\ request.in[i] = request.in[1]
         /\ request.op # "update" => /\ files[request.in[i]] = before.files[request.in[i]]
                                     /\ source[i].type = before.info[request.in[i]]
<1> DEFINE t == request.in[i]
<1>1. TypeInv /\ ServingInv /\ TablesInv
  BY DEF Inv
<1>2. i \in DOMAIN request.in /\ t \in Tables /\ source[i].table = t
  BY <1>1, InRun
<1>3. /\ t \notin damaged /\ files[t].type # NullType
      /\ request.op \notin {"update", "get"} => t # request.out
  BY <1>2 DEF Fatal
<1>4. CASE New /\ i = 1
  <2>1. files[t] = Created /\ source[i].type = NewType /\ request.op = "update"
    BY <1>1, <1>4, SourceListed DEF New
  <2>2. Written(t)
    BY <1>4 DEF Written, Busy
  <2> QED
    BY <1>2, <1>3, <1>4, <2>1, <2>2, CreatedIs
<1>5. CASE ~(New /\ i = 1)
  <2>1. /\ info[t] # MissingType /\ info[t] # NullType /\ info[t] = before.info[t]
        /\ source[i].type = Found(before.files[t], info[t])
        /\ files[t] = before.files[t] \/ (Truncates /\ t = request.out)
        /\ ~(New /\ t = request.in[1])
    BY <1>1, <1>5, SourceListed
  <2>2. ~Written(t) /\ files[t] = before.files[t]
    BY <1>3, <2>1 DEF Written, Truncates
  <2>3. Fine(t)
    BY <1>1, <1>2, <1>3, <2>1, <2>2 DEF TablesInv
  <2>4. files[t].type = info[t] /\ files[t].extents \in Seq(FullRows)
    BY <1>3, <2>3 DEF Fine
  <2>5. source[i].type = info[t]
    BY <2>1, <2>2, <2>4 DEF Found
  <2> QED
    BY <1>2, <1>3, <2>1, <2>2, <2>4, <2>5
<1> QED
  BY <1>4, <1>5

----------------------------------------------------------------------------
\* HashJoinModule

LEMMA HashKnown ==
  ASSUME Inv, Running("hash")
  PROVE  /\ TypeInv /\ ServingInv /\ TeeInv /\ status = "run" /\ request.op = "hash"
         /\ 1 \in DOMAIN source /\ 2 \in DOMAIN source
         /\ StaysWhole => /\ request' = request /\ before' = before /\ tee' = tee
                          /\ In(1)' = In(1) /\ In(2)' = In(2)
         /\ Done \o HashJoin(In(1), Rest(2)) = HashJoin(In(1), In(2))
         /\ In(1) \in RowSeq /\ Done \in RowSeq /\ Rest(2) \in RowSeq /\ Unread(2) \in RowSeq
         /\ IF output_type = NullType THEN ~Opened(1) /\ ~Begun /\ output = NoExtent ELSE mem = In(1)
<1>1. /\ TypeInv /\ ServingInv /\ TeeInv /\ ThisOp /\ status = "run" /\ request.op = "hash"
      /\ DOMAIN source = {1, 2}
      /\ StaysWhole => request' = request /\ before' = before /\ tee' = tee /\ \A i : In(i)' = In(i)
  BY AtWork
<1>2. HashInv /\ Serving("hash")
  BY <1>1 DEF ThisOp, Serving
<1>3. In(1) \in RowSeq /\ Rest(2) \in RowSeq /\ Unread(2) \in RowSeq /\ Done \in RowSeq
  BY <1>1, InRun, UnreadRows, SofarRows DEF Reading
<1> QED
  BY <1>1, <1>2, <1>3 DEF HashInv

LEMMA HashBuildStep ==
  ASSUME Inv, HashBuild, StaysWhole
  PROVE  Inv'
<1>0. Running("hash") /\ series[2] # NoExtent /\ output_type = NullType
  BY DEF HashBuild
<1>1. /\ TypeInv /\ ServingInv /\ TeeInv /\ status = "run" /\ request.op = "hash"
      /\ 1 \in DOMAIN source /\ 2 \in DOMAIN source
      /\ request' = request /\ before' = before /\ tee' = tee /\ In(1)' = In(1) /\ In(2)' = In(2)
      /\ Done \o HashJoin(In(1), Rest(2)) = HashJoin(In(1), In(2))
      /\ ~Opened(1) /\ ~Begun /\ output = NoExtent
  BY <1>0, HashKnown
<1>2. CASE ~Readable(1)
  <2>1. Die
    BY <1>2 DEF HashBuild, Drain
  <2> QED
    BY <1>1, <1>2, <2>1, Unreadable, DiesFatally
<1>3. CASE Readable(1)
  <2> DEFINE x == Extents(1)
  <2>1. /\ source' = [source EXCEPT ![1].left = << >>]
        /\ IF x = << >> \/ TooManyRows(FlattenSeq(x))
             THEN /\ status' = "error"
                  /\ UNCHANGED <<series, output, output_type, mem, returned>>
             ELSE /\ mem' = FlattenSeq(x)
                  /\ output_type' = TypeOf("hash", request.out, SourceTypes)
                  /\ GoOn /\ UNCHANGED <<series, output>>
    BY <1>3 DEF HashBuild, Drain
  <2>6. SameSources /\ Opened(1)' /\ x \in Seq(RowSeq)
    BY <1>1, <1>3, <2>1, Drained
  <2>7. \A j \in DOMAIN source : j # 1 => Opened(j)' = Opened(j) /\ Unread(j)' = Unread(j)
    BY <1>1, <1>3, <2>1, Drained
  <2>2. /\ SameSources /\ Opened(1)' /\ x \in Seq(RowSeq)
        /\ Opened(2)' = Opened(2) /\ Unread(2)' = Unread(2)
    BY <1>1, <2>6, <2>7
  <2>3. FlattenSeq(x) = In(1)
    BY <1>1, <1>3, FirstRead
  <2>4. CASE x = << >> \/ TooManyRows(FlattenSeq(x))
    <3>1. status' = "error" /\ UNCHANGED <<series, output, output_type, mem, returned>>
      BY <2>1, <2>4
    <3>2. Fatal(request)
      <4> SUFFICES ASSUME ~Fatal(request) PROVE FALSE
        OBVIOUS
      <4>1. files[request.in[1]].type = source[1].type /\ source[1].table = request.in[1]
            /\ files[request.in[1]] = before.files[request.in[1]]
        BY <1>1, Sound DEF Reading
      <4>2. x = before.files[request.in[1]].extents
        BY <1>1, <4>1 DEF Extents, Opened
      <4>3. Len(In(1)) >= request.max_rows \/ before.files[request.in[1]].extents = << >>
        BY <2>3, <2>4, <4>2 DEF TooManyRows
      <4> QED
        BY <1>1, <4>3 DEF Fatal
    <3>3. Steady
      BY <1>1, <2>2, <3>1 DEF Steady, StaysWhole, TypeInv
    <3>4. tee.type = NullType
      BY <1>1 DEF Begun
    <3>5. ErrorInv'
      BY <1>1, <3>2, <3>3, <3>4, FatalSame DEF ErrorInv
    <3>6. ~Returns'
      BY <3>1 DEF Returns
    <3> QED
      BY <3>1, <3>3, <3>4, <3>5, <3>6, StepKeeps
  <2>5. CASE ~(x = << >> \/ TooManyRows(FlattenSeq(x)))
    <3>1. /\ mem' = In(1) /\ output_type' = TypeOf("hash", request.out, SourceTypes) /\ status' = "run"
          /\ UNCHANGED <<series, output, returned>>
      BY <1>1, <2>1, <2>3, <2>5 DEF GoOn
    <3>2. Sent' = Sent /\ Done' = Sent \o RowsOf(output') /\ ~Ends' /\ ~Returns'
      BY <1>1, <3>1, DoneKept
    <3>3. Done' = Done /\ Rest(2)' = Rest(2)
      BY <2>2, <3>1, <3>2 DEF Done, Rest, RowsOf
    <3>4. Steady
      BY <1>0, <1>1, <2>2, <3>1, OperationTypes DEF Steady, StaysWhole, TypeInv
    <3>5. output_type' # NullType
      BY <3>1, OperationTypes
    <3>6. HashInv'
      BY <1>1, <3>1, <3>2, <3>3, <3>5 DEF HashInv
    <3> QED
      BY <1>1, <3>1, <3>4, <3>5, <3>6, StepKeeps DEF ThisOp
  <2> QED
    BY <2>4, <2>5
<1> QED
  BY <1>2, <1>3

LEMMA HashPullStep ==
  ASSUME Inv, HashPull, StaysWhole
  PROVE  Inv'
<1>0. Running("hash") /\ series[2] = NoExtent
  BY DEF HashPull
<1>1. /\ TypeInv /\ ServingInv /\ TeeInv /\ status = "run" /\ request.op = "hash"
      /\ 1 \in DOMAIN source /\ 2 \in DOMAIN source
      /\ request' = request /\ before' = before /\ tee' = tee /\ In(1)' = In(1) /\ In(2)' = In(2)
      /\ Done \o HashJoin(In(1), Rest(2)) = HashJoin(In(1), In(2))
      /\ IF output_type = NullType THEN ~Opened(1) /\ ~Begun /\ output = NoExtent ELSE mem = In(1)
  BY <1>0, HashKnown
<1>2. CASE ~Readable(2)
  <2>1. Die
    BY <1>2 DEF HashPull, Pull
  <2> QED
    BY <1>1, <1>2, <2>1, Unreadable, DiesFatally
<1>3. CASE Readable(2)
  <2>1. PICK e : /\ Taken(2, e)
                 /\ IF e = NoExtent THEN ReturnOutput /\ UNCHANGED <<series, output_type, mem>>
                    ELSE /\ series' = [series EXCEPT ![2] = e]
                         /\ GoOn /\ UNCHANGED <<output, output_type, mem>>
    BY <1>3 DEF HashPull, Pull, Taken
  <2>2. /\ e \in Optional /\ RowsOf(e) \in RowSeq /\ SameSources /\ Opened(1)' = Opened(1)
        /\ Unread(2) \in RowSeq /\ Unread(2)' \in RowSeq /\ Unread(2) = RowsOf(e) \o Unread(2)'
        /\ e = NoExtent => Unread(2)' = << >> /\ Unread(2) = << >>
        /\ e # NoExtent => RowsOf(e) = e
    BY <1>1, <2>1, TakenFacts
  <2>3. Rest(2) = Unread(2) /\ RowsOf(NoExtent) = << >>
    BY <1>0, <2>2, RowsJoin DEF Rest, RowsOf
  <2>4. tee.type # NullType => output_type # NullType
    BY <1>1 DEF Begun
  <2>5. CASE e = NoExtent
    <3>1. /\ Done' = Done /\ output' = NoExtent /\ status' = "returned" /\ returned' = output
          /\ output_type' = output_type /\ series' = series /\ mem' = mem
          /\ output \in Optional /\ (Returns' <=> output # NoExtent)
      BY <1>1, <2>1, <2>5, OutputReturned DEF TypeInv
    <3>2. Steady
      BY <1>1, <2>2, <3>1 DEF Steady, StaysWhole, Optional, TypeInv
    <3>3. Rest(2)' = Rest(2) /\ Rest(2)' = << >>
      BY <1>0, <2>2, <2>3, <2>5, <3>1, RowsJoin DEF Rest, RowsOf
    <3>4. Begun' => output_type' # NullType
      BY <1>1, <3>1 DEF Begun
    <3>5. HashInv'
      BY <1>1, <2>2, <3>1, <3>3, <3>4 DEF HashInv
    <3> QED
      BY <1>1, <3>1, <3>2, <3>4, <3>5, StepKeeps DEF ThisOp, Begun
  <2>6. CASE e # NoExtent
    <3>1. /\ series' = [series EXCEPT ![2] = e] /\ status' = "run" /\ returned' = returned
          /\ UNCHANGED <<output, output_type, mem>>
      BY <1>1, <2>1, <2>6 DEF GoOn
    <3>2. series' \in Seq(Optional) /\ Len(series') = Len(series) /\ series'[2] = e
      BY <1>1, <2>2, <3>1, SeriesSet
    <3>3. Sent' = Sent /\ Done' = Sent \o RowsOf(output') /\ ~Ends' /\ ~Returns'
      BY <1>1, <3>1, DoneKept
    <3>4. Done' = Done
      BY <3>1, <3>3 DEF Done, RowsOf
    <3>5. Steady
      BY <1>1, <2>2, <3>1, <3>2 DEF Steady, StaysWhole, TypeInv
    <3>6. Rest(2)' = Rest(2)
      <4>1. Rest(2)' = RowsOf(e) \o Unread(2)'
        BY <3>2 DEF Rest, RowsOf
      <4> QED
        BY <2>2, <2>3, <4>1
    <3>7. Begun' = Begun
      BY <1>1, <3>3 DEF Begun, Returns
    <3>8. HashInv'
      BY <1>1, <2>2, <3>1, <3>3, <3>4, <3>6, <3>7 DEF HashInv
    <3> QED
      BY <1>1, <2>4, <3>1, <3>3, <3>5, <3>8, StepKeeps DEF ThisOp
  <2> QED
    BY <2>5, <2>6
<1> QED
  BY <1>2, <1>3

LEMMA HashExtentStep ==
  ASSUME Inv, HashExtent, StaysWhole
  PROVE  Inv'
<1>0. /\ Running("hash") /\ series[2] # NoExtent /\ output_type # NullType
      /\ ReturnWhenFull(Started \o HashJoin(mem, series[2]))
      /\ series' = [series EXCEPT ![2] = NoExtent]
      /\ UNCHANGED <<source, output_type, mem>>
  BY DEF HashExtent
<1>1. /\ TypeInv /\ ServingInv /\ TeeInv /\ status = "run" /\ request.op = "hash"
      /\ 1 \in DOMAIN source /\ 2 \in DOMAIN source
      /\ request' = request /\ before' = before /\ tee' = tee /\ In(1)' = In(1) /\ In(2)' = In(2)
      /\ Done \o HashJoin(In(1), Rest(2)) = HashJoin(In(1), In(2))
      /\ In(1) \in RowSeq /\ Done \in RowSeq /\ Unread(2) \in RowSeq
      /\ mem = In(1)
  BY <1>0, HashKnown
<1>2. SameSources /\ Unread(2)' = Unread(2) /\ Opened(1)' = Opened(1)
  BY <1>0, <1>1, NothingRead
<1>3. series' \in Seq(Optional) /\ Len(series') = Len(series) /\ series'[2] = NoExtent
  BY <1>0, <1>1, SeriesSet DEF Optional
<1> DEFINE s == series[2]
           x == HashJoin(mem, s)
           y == HashJoin(In(1), Unread(2))
<1>4. s \in RowSeq /\ RowsOf(s) = s
  BY <1>0, <1>1, Source DEF Optional, RowsOf
<1>5. Rest(2) = s \o Unread(2) /\ Rest(2)' = Unread(2)
  <2>1. Rest(2)' = RowsOf(NoExtent) \o Unread(2)
    BY <1>2, <1>3 DEF Rest, RowsOf
  <2> QED
    BY <1>1, <1>4, <2>1, RowsJoin DEF Rest, RowsOf
<1>6. x \in RowSeq /\ y \in RowSeq /\ HashJoin(In(1), Rest(2)) = x \o y
  <2>1. In(1) \in Seq(Row) /\ s \in Seq(Row) /\ Unread(2) \in Seq(Row)
    BY <1>1, <1>4 DEF RowSeq
  <2>2. x \in Seq(Row) /\ y \in Seq(Row)
    BY <1>1, <2>1, HashJoinConcat
  <2>3. HashJoin(In(1), s \o Unread(2)) = x \o y
    BY <1>1, <2>1, HashJoinConcat
  <2> QED
    BY <1>5, <2>2, <2>3 DEF RowSeq
<1>7. ReturnWhenFull(Started \o x)
  BY <1>0
<1> HIDE DEF x, y
<1>8. /\ Done' = Done \o x /\ ~Ends' /\ status' \in {"run", "returned"} /\ output' \in Optional
      /\ returned' = returned \/ returned' \in RowSeq
  BY <1>1, <1>6, <1>7, DoneGrows
<1>9. Done' \o y = HashJoin(In(1), In(2))
  <2>1. (Done \o x) \o y = Done \o (x \o y)
    BY <1>1, <1>6, RowsAssoc
  <2>2. Done \o (x \o y) = HashJoin(In(1), In(2))
    BY <1>1, <1>6
  <2> QED
    BY <1>8, <2>1, <2>2
<1>10. HashInv'
  <2>1. Done' \o HashJoin(In(1)', Rest(2)') = HashJoin(In(1)', In(2)')
    BY <1>1, <1>5, <1>9 DEF y
  <2> QED
    BY <1>0, <1>1, <1>8, <2>1 DEF HashInv
<1>11. Steady
  BY <1>0, <1>1, <1>2, <1>3, <1>8 DEF Steady, StaysWhole, TypeInv, Optional
<1> QED
  BY <1>0, <1>1, <1>8, <1>10, <1>11, StepKeeps DEF ThisOp

----------------------------------------------------------------------------
\* StarJoinModule

StarFits(p) ==
  /\ p \in RowSeq /\ p \o Rest(1) = In(1) /\ Keys(p) \subseteq Keys(In(2)) /\ Sent = StarJoin(In(2), p)

LEMMA StarKnown ==
  ASSUME Inv, Running("star")
  PROVE  /\ TypeInv /\ ServingInv /\ TeeInv /\ status = "run" /\ request.op = "star"
         /\ 1 \in DOMAIN source /\ 2 \in DOMAIN source
         /\ StaysWhole => /\ request' = request /\ before' = before /\ tee' = tee
                          /\ In(1)' = In(1) /\ In(2)' = In(2)
         /\ \E p : StarFits(p)
         /\ In(1) \in RowSeq /\ In(2) \in RowSeq /\ Rest(1) \in RowSeq /\ Unread(1) \in RowSeq /\ Sent \in RowSeq
         /\ output = NoExtent
         /\ IF output_type = NullType THEN ~Opened(2) /\ ~Begun ELSE mem = In(2)
<1>1. /\ TypeInv /\ ServingInv /\ TeeInv /\ ThisOp /\ status = "run" /\ request.op = "star"
      /\ DOMAIN source = {1, 2}
      /\ StaysWhole => request' = request /\ before' = before /\ tee' = tee /\ \A i : In(i)' = In(i)
  BY AtWork
<1>2. StarInv /\ Serving("star")
  BY <1>1 DEF ThisOp, Serving
<1>3. In(1) \in RowSeq /\ In(2) \in RowSeq /\ Rest(1) \in RowSeq /\ Unread(1) \in RowSeq /\ Sent \in RowSeq
  BY <1>1, InRun, UnreadRows, SofarRows DEF Reading
<1>4. \E p : StarFits(p)
  BY <1>2, <1>3, StartsRows DEF StarInv, StarFits
<1> QED
  BY <1>1, <1>2, <1>3, <1>4 DEF StarInv

LEMMA StarNow ==
  ASSUME NEW p, StarFits(p)', Rest(1)' \in RowSeq, output' = NoExtent,
         IF output_type' = NullType THEN ~Opened(2)' /\ ~Begun' ELSE mem' = In(2)',
         Ends' => Rest(1)' = << >>
  PROVE  StarInv'
<1>1. p \in Starts(In(1)')
  BY StartsOf DEF StarFits
<1> QED
  BY <1>1 DEF StarInv, StarFits

LEMMA StarBuildStep ==
  ASSUME Inv, StarBuild, StaysWhole
  PROVE  Inv'
<1>0. Running("star") /\ series[1] # NoExtent /\ output_type = NullType
  BY DEF StarBuild
<1>1. /\ TypeInv /\ ServingInv /\ TeeInv /\ status = "run" /\ request.op = "star"
      /\ 1 \in DOMAIN source /\ 2 \in DOMAIN source
      /\ request' = request /\ before' = before /\ tee' = tee /\ In(1)' = In(1) /\ In(2)' = In(2)
      /\ ~Opened(2) /\ ~Begun /\ output = NoExtent /\ Rest(1) \in RowSeq
  BY <1>0, StarKnown
<1>2. CASE ~Readable(2)
  <2>1. Die
    BY <1>2 DEF StarBuild, Drain
  <2> QED
    BY <1>1, <1>2, <2>1, Unreadable, DiesFatally
<1>3. CASE Readable(2)
  <2> DEFINE x == Extents(2)
  <2>1. /\ source' = [source EXCEPT ![2].left = << >>]
        /\ IF x = << >>
             THEN /\ status' = "dead"
                  /\ UNCHANGED <<series, output, output_type, mem, returned>>
             ELSE /\ mem' = FlattenSeq(x)
                  /\ output_type' = TypeOf("star", request.out, SourceTypes)
                  /\ GoOn /\ UNCHANGED <<series, output>>
    BY <1>3 DEF StarBuild, Drain
  <2>6. SameSources /\ x \in Seq(RowSeq)
    BY <1>1, <1>3, <2>1, Drained
  <2>7. \A j \in DOMAIN source : j # 2 => Opened(j)' = Opened(j) /\ Unread(j)' = Unread(j)
    BY <1>1, <1>3, <2>1, Drained
  <2>2. /\ SameSources /\ x \in Seq(RowSeq) /\ Unread(1)' = Unread(1)
    BY <1>1, <2>6, <2>7
  <2>3. FlattenSeq(x) = In(2)
    BY <1>1, <1>3, FirstRead
  <2>4. CASE x = << >>
    <3>1. status' = "dead" /\ UNCHANGED <<series, output, output_type, mem, returned>>
      BY <2>1, <2>4
    <3>2. Fatal(request)
      <4> SUFFICES ASSUME ~Fatal(request) PROVE FALSE
        OBVIOUS
      <4>1. files[request.in[2]].type = source[2].type /\ source[2].table = request.in[2]
            /\ files[request.in[2]] = before.files[request.in[2]]
        BY <1>1, Sound DEF Reading
      <4>2. before.files[request.in[2]].extents = << >>
        BY <1>1, <2>4, <4>1 DEF Extents, Opened
      <4> QED
        BY <1>1, <4>2 DEF Fatal
    <3>3. Steady
      BY <1>1, <2>2, <3>1 DEF Steady, StaysWhole, TypeInv
    <3>4. tee.type = NullType
      BY <1>1 DEF Begun
    <3>5. ~Returns'
      BY <3>1 DEF Returns
    <3> QED
      BY <3>1, <3>2, <3>3, <3>4, <3>5, StepKeeps
  <2>5. CASE x # << >>
    <3>1. /\ mem' = In(2) /\ output_type' = TypeOf("star", request.out, SourceTypes) /\ status' = "run"
          /\ UNCHANGED <<series, output, returned>>
      BY <1>1, <2>1, <2>3, <2>5 DEF GoOn
    <3>2. Sent' = Sent /\ ~Ends' /\ ~Returns'
      BY <1>1, <3>1, DoneKept
    <3>3. Rest(1)' = Rest(1)
      BY <2>2, <3>1 DEF Rest, RowsOf
    <3>4. Steady
      BY <1>0, <1>1, <2>2, <3>1, OperationTypes DEF Steady, StaysWhole, TypeInv
    <3>5. output_type' # NullType
      BY <3>1, OperationTypes
    <3>6. PICK p : StarFits(p)
      BY <1>0, StarKnown
    <3>7. StarFits(p)'
      BY <1>1, <3>2, <3>3, <3>6 DEF StarFits
    <3>8. StarInv'
      BY <1>1, <3>1, <3>2, <3>3, <3>5, <3>7, StarNow
    <3> QED
      BY <1>1, <3>1, <3>4, <3>5, <3>8, StepKeeps DEF ThisOp
  <2> QED
    BY <2>4, <2>5
<1> QED
  BY <1>2, <1>3

LEMMA StarPullStep ==
  ASSUME Inv, StarPull, StaysWhole
  PROVE  Inv'
<1>0. Running("star") /\ series[1] = NoExtent
  BY DEF StarPull
<1>1. /\ TypeInv /\ ServingInv /\ TeeInv /\ status = "run" /\ request.op = "star"
      /\ 1 \in DOMAIN source /\ 2 \in DOMAIN source
      /\ request' = request /\ before' = before /\ tee' = tee /\ In(1)' = In(1) /\ In(2)' = In(2)
      /\ Sent \in RowSeq /\ output = NoExtent
      /\ IF output_type = NullType THEN ~Opened(2) /\ ~Begun ELSE mem = In(2)
  BY <1>0, StarKnown
<1>4. PICK p : StarFits(p)
  BY <1>0, StarKnown
<1>2. CASE ~Readable(1)
  <2>1. Die
    BY <1>2 DEF StarPull, Pull
  <2> QED
    BY <1>1, <1>2, <2>1, Unreadable, DiesFatally
<1>3. CASE Readable(1)
  <2>1. PICK e : /\ Taken(1, e)
                 /\ IF e = NoExtent
                      THEN Return(NoExtent) /\ UNCHANGED <<series, output, output_type, mem>>
                      ELSE /\ series' = [series EXCEPT ![1] = e]
                           /\ GoOn /\ UNCHANGED <<output, output_type, mem>>
    BY <1>3 DEF StarPull, Pull, Taken
  <2>2. /\ e \in Optional /\ RowsOf(e) \in RowSeq /\ SameSources /\ Opened(2)' = Opened(2)
        /\ Unread(1) \in RowSeq /\ Unread(1)' \in RowSeq /\ Unread(1) = RowsOf(e) \o Unread(1)'
        /\ e = NoExtent => Unread(1)' = << >> /\ Unread(1) = << >>
        /\ e # NoExtent => RowsOf(e) = e
    BY <1>1, <2>1, TakenFacts
  <2>3. Rest(1) = Unread(1) /\ RowsOf(NoExtent) = << >>
    BY <1>0, <2>2, RowsJoin DEF Rest, RowsOf
  <2>4. tee.type # NullType => output_type # NullType
    BY <1>1 DEF Begun
  <2>5. CASE e = NoExtent
    <3>1. /\ Return(NoExtent) /\ UNCHANGED <<series, output, output_type, mem>>
          /\ NoExtent \in Optional
      BY <2>1, <2>5 DEF Optional
    <3>2. Sent' = Sent \o RowsOf(NoExtent) /\ status' = "returned" /\ ~Returns'
      BY <1>1, <3>1, SentReturned
    <3>3. Sent' = Sent
      BY <1>1, <2>3, <3>2, RowsJoin
    <3>4. Rest(1)' = Rest(1) /\ Rest(1)' = << >> /\ Rest(1)' \in RowSeq
      BY <1>0, <2>2, <2>3, <2>5, <3>1, RowsJoin DEF Rest, RowsOf
    <3>5. Steady
      BY <1>1, <2>2, <3>1, <3>2 DEF Steady, StaysWhole, TypeInv, Return
    <3>6. Begun' => output_type' # NullType
      BY <1>1, <3>1, <3>2, <2>4 DEF Begun
    <3>7. StarFits(p)'
      BY <1>1, <1>4, <3>3, <3>4 DEF StarFits
    <3>8. StarInv'
      BY <1>1, <2>2, <3>1, <3>4, <3>6, <3>7, StarNow
    <3> QED
      BY <1>1, <3>1, <3>2, <3>5, <3>6, <3>8, StepKeeps DEF ThisOp, Begun
  <2>6. CASE e # NoExtent
    <3>1. /\ series' = [series EXCEPT ![1] = e] /\ status' = "run" /\ returned' = returned
          /\ UNCHANGED <<output, output_type, mem>>
      BY <1>1, <2>1, <2>6 DEF GoOn
    <3>2. series' \in Seq(Optional) /\ Len(series') = Len(series) /\ series'[1] = e
      BY <1>1, <2>2, <3>1, SeriesSet
    <3>3. Sent' = Sent /\ ~Ends' /\ ~Returns'
      BY <1>1, <3>1, DoneKept
    <3>5. Steady
      BY <1>1, <2>2, <3>1, <3>2 DEF Steady, StaysWhole, TypeInv
    <3>6. Rest(1)' = Rest(1) /\ Rest(1)' \in RowSeq
      <4>1. Rest(1)' = RowsOf(e) \o Unread(1)'
        BY <3>2 DEF Rest, RowsOf
      <4> QED
        BY <2>2, <2>3, <4>1
    <3>7. Begun' = Begun
      BY <1>1, <3>3 DEF Begun, Returns
    <3>8. StarFits(p)'
      BY <1>1, <1>4, <3>3, <3>6 DEF StarFits
    <3>9. StarInv'
      BY <1>1, <2>2, <3>1, <3>3, <3>6, <3>7, <3>8, StarNow
    <3> QED
      BY <1>1, <2>4, <3>1, <3>3, <3>5, <3>9, StepKeeps DEF ThisOp
  <2> QED
    BY <2>5, <2>6
<1> QED
  BY <1>2, <1>3

LEMMA KeysConcat ==
  ASSUME NEW a \in Seq(Row), NEW b \in Seq(Row)
  PROVE  Keys(a \o b) = Keys(a) \cup Keys(b)
  BY KeysSet, ToSetConcat

LEMMA StarExtentStep ==
  ASSUME Inv, StarExtent, StaysWhole
  PROVE  Inv'
<1> DEFINE s == series[1]
<1>0. /\ Running("star") /\ s # NoExtent /\ output_type # NullType
      /\ IF Keys(s) \subseteq Keys(mem)
           THEN /\ Return(StarJoin(mem, s))
                /\ series' = [series EXCEPT ![1] = NoExtent]
                /\ UNCHANGED <<source, output, output_type, mem>>
           ELSE Die
  BY DEF StarExtent
<1>1. /\ TypeInv /\ ServingInv /\ TeeInv /\ status = "run" /\ request.op = "star"
      /\ 1 \in DOMAIN source /\ 2 \in DOMAIN source
      /\ request' = request /\ before' = before /\ tee' = tee /\ In(1)' = In(1) /\ In(2)' = In(2)
      /\ Sent \in RowSeq /\ output = NoExtent /\ mem = In(2) /\ Unread(1) \in RowSeq
      /\ In(1) \in RowSeq /\ In(2) \in RowSeq
  BY <1>0, StarKnown
<1>2. PICK p : StarFits(p)
  BY <1>0, StarKnown
<1>3. s \in RowSeq /\ RowsOf(s) = s
  BY <1>0, <1>1, Source DEF Optional, RowsOf
<1>4. Rest(1) = s \o Unread(1)
  BY <1>3 DEF Rest
<1>5. CASE Keys(s) \subseteq Keys(mem)
  <2>1. PICK q : q = p \o s
    OBVIOUS
  <2>2. p \in Seq(Row) /\ s \in Seq(Row) /\ q \in RowSeq
    BY <1>2, <1>3, <2>1, RowsJoin DEF StarFits, RowSeq
  <2> DEFINE x == StarJoin(mem, s)
  <2>3. x \in RowSeq /\ x \in Optional /\ RowsOf(x) = x /\ x # NoExtent
    <3>1. x \in Seq(Row)
      BY <1>1, <1>5, <2>2, StarJoinType DEF RowSeq
    <3> QED
      BY <3>1, Constants DEF RowSeq, Optional, RowsOf
  <2>4. StarJoin(In(2), q) = Sent \o x
    BY <1>1, <1>2, <2>1, <2>2, StarJoinConcat DEF StarFits
  <2>5. Return(x) /\ series' = [series EXCEPT ![1] = NoExtent] /\ UNCHANGED <<source, output, output_type, mem>>
    BY <1>0, <1>5
  <2> HIDE DEF x
  <2>6. Sent' = Sent \o RowsOf(x) /\ status' = "returned" /\ ~Ends'
    BY <1>1, <2>3, <2>5, SentReturned
  <2>7. SameSources /\ Unread(1)' = Unread(1)
    BY <1>1, <2>5, NothingRead
  <2>8. series' \in Seq(Optional) /\ Len(series') = Len(series) /\ series'[1] = NoExtent
    BY <1>1, <2>5, SeriesSet DEF Optional
  <2>9. Rest(1)' = Unread(1)
    <3>1. Rest(1)' = << >> \o Unread(1)
      BY <2>7, <2>8 DEF Rest, RowsOf
    <3> QED
      BY <1>1, <3>1, RowsJoin
  <2>10. StarFits(q)'
    <3>1. q \o Unread(1) = In(1)
      <4>1. p \in RowSeq /\ s \in RowSeq /\ Unread(1) \in RowSeq
        BY <1>1, <1>2, <1>3 DEF StarFits
      <4>2. (p \o s) \o Unread(1) = p \o (s \o Unread(1))
        BY <4>1, RowsAssoc
      <4> QED
        BY <1>2, <1>4, <2>1, <4>2 DEF StarFits
    <3>2. Keys(q) \subseteq Keys(In(2))
      BY <1>1, <1>2, <1>5, <2>1, <2>2, KeysConcat DEF StarFits
    <3>3. Sent' = StarJoin(In(2), q)
      BY <2>3, <2>4, <2>6
    <3> QED
      BY <1>1, <2>2, <2>9, <3>1, <3>2, <3>3 DEF StarFits
  <2>11. Steady
    BY <1>1, <2>3, <2>5, <2>6, <2>7, <2>8 DEF Steady, StaysWhole, TypeInv, Return
  <2>12. StarInv'
    BY <1>0, <1>1, <2>5, <2>6, <2>9, <2>10, StarNow
  <2> QED
    BY <1>0, <1>1, <2>5, <2>6, <2>11, <2>12, StepKeeps DEF ThisOp
<1>6. CASE ~(Keys(s) \subseteq Keys(mem))
  <2>1. Keys(s) \subseteq Keys(In(1))
    <3>1. p \in Seq(Row) /\ s \in Seq(Row) /\ Unread(1) \in Seq(Row) /\ s \o Unread(1) \in Seq(Row)
      BY <1>1, <1>2, <1>3 DEF StarFits, RowSeq
    <3>2. In(1) = p \o (s \o Unread(1))
      BY <1>2, <1>4 DEF StarFits
    <3>3. Keys(p \o (s \o Unread(1))) = Keys(p) \cup Keys(s \o Unread(1))
      BY <3>1, KeysConcat
    <3>4. Keys(s \o Unread(1)) = Keys(s) \cup Keys(Unread(1))
      BY <3>1, KeysConcat
    <3> QED
      BY <3>2, <3>3, <3>4
  <2>2. Fatal(request)
    BY <1>1, <1>6, <2>1 DEF Fatal
  <2> QED
    BY <1>0, <1>1, <1>6, <2>2, DiesFatally
<1> QED
  BY <1>5, <1>6

----------------------------------------------------------------------------
\* SortModule

LEMMA FirstOfIs ==
  ASSUME NEW ss \in Seq(RowSeq), request.by \in Order,
         NEW P, P = {i \in DOMAIN ss : ss[i] # << >>}, P # {}
  PROVE  LET i == FirstOf([n \in P |-> Head(ss[n])]) IN
         i \in P /\ IsFirst(i, ss, request.by)
<1> DEFINE H == [n \in P |-> Head(ss[n])]
           by == request.by
           i  == FirstOf(H)
<1>1. Len(ss) \in Nat /\ DOMAIN ss = 1..Len(ss) /\ P \subseteq 1..Len(ss) /\ DOMAIN H = P
  OBVIOUS
<1>2. \A n \in P : H[n] \in Row /\ H[n] = Head(ss[n])
  <2> SUFFICES ASSUME NEW n \in P PROVE Head(ss[n]) \in Row
    OBVIOUS
  <2>1. ss[n] \in Seq(Row) /\ ss[n] # << >>
    BY <1>1 DEF RowSeq
  <2> QED
    BY <2>1, HeadFacts
<1> HIDE DEF H
<1>3. \E n \in P : \A j \in P \ {n} : Beats(H, n, j, by)
  BY <1>1, <1>2, BestExists
<1>4. \E n \in DOMAIN H : \A j \in DOMAIN H \ {n} :
        Before(H[n], H[j], request.by) \/ (n < j /\ ~Before(H[j], H[n], request.by))
  BY <1>1, <1>3 DEF Beats
<1>5. /\ i \in DOMAIN H
      /\ \A j \in DOMAIN H \ {i} :
           Before(H[i], H[j], request.by) \/ (i < j /\ ~Before(H[j], H[i], request.by))
  BY <1>4 DEF FirstOf
<1> HIDE DEF i
<1>6. i \in P /\ i \in 1..Len(ss) /\ ss[i] # << >>
  BY <1>1, <1>5
<1>7. \A j \in 1..Len(ss) : j # i /\ ss[j] # << >> => j \in P \ {i}
  BY <1>1
<1>8. IsFirst(i, ss, by)
  BY <1>1, <1>2, <1>5, <1>6, <1>7 DEF IsFirst
<1> QED
  BY <1>6, <1>8 DEF i, H

LEMMA SortKnown ==
  ASSUME Inv, Running("sort")
  PROVE  /\ TypeInv /\ ServingInv /\ TeeInv /\ status = "run" /\ request.op = "sort"
         /\ 1 \in DOMAIN source /\ request.by \in Order
         /\ StaysWhole => request' = request /\ before' = before /\ tee' = tee /\ In(1)' = In(1)
         /\ Done \in RowSeq /\ Unread(1) \in RowSeq /\ Sent \in RowSeq
         /\ mem \in Seq(RowSeq) /\ \A j \in DOMAIN mem : Sorted(mem[j], request.by)
         /\ Done \o StableSort(FlattenSeq(mem) \o Unread(1), request.by) = StableSort(In(1), request.by)
         /\ mem # << >> => Opened(1) /\ Unread(1) = << >>
         /\ mem = << >> => output = NoExtent
         /\ Begun \/ mem # << >> => output_type # NullType
         /\ output_type \in {NullType, source[1].type}
<1>1. /\ TypeInv /\ ServingInv /\ TeeInv /\ ThisOp /\ status = "run" /\ request.op = "sort"
      /\ 1 \in DOMAIN source
      /\ StaysWhole => request' = request /\ before' = before /\ tee' = tee /\ \A i : In(i)' = In(i)
  BY AtWork DEF Reading
<1>2. SortInv /\ Serving("sort")
  BY <1>1 DEF ThisOp, Serving
<1>3. Unread(1) \in RowSeq /\ Done \in RowSeq /\ Sent \in RowSeq
  BY <1>1, UnreadRows, SofarRows
<1>4. request.by \in Order
  BY <1>1, Run, RequestFields
<1> QED
  BY <1>1, <1>2, <1>3, <1>4 DEF SortInv

LEMMA SortNothing ==
  ASSUME NEW by \in Order
  PROVE  StableSort(<< >>, by) = << >>
<1>1. << >> \in Seq(Row) /\ IsSort(<< >>, << >>, by)
  BY SortedEmpty DEF IsSort, SameRows
<1> QED
  BY <1>1, StableSortIs

LEMMA ExtentsSorted ==
  ASSUME NEW by \in Order, NEW x \in Seq(RowSeq), NEW y, y = [i \in DOMAIN x |-> StableSort(x[i], by)]
  PROVE  /\ y \in Seq(RowSeq) /\ Len(y) = Len(x) /\ DOMAIN y = DOMAIN x
         /\ \A i \in DOMAIN x : y[i] = StableSort(x[i], by) /\ y[i] \in RowSeq /\ Sorted(y[i], by)
         /\ StableSort(FlattenSeq(y), by) = StableSort(FlattenSeq(x), by)
<1>1. \A i \in DOMAIN x : x[i] \in Seq(Row)
  BY DEF RowSeq
<1>2. \A i \in DOMAIN x : StableSort(x[i], by) \in Seq(Row) /\ Sorted(StableSort(x[i], by), by)
                          /\ SameRows(StableSort(x[i], by), x[i])
  BY <1>1, StableSortSorts DEF IsSort
<1> DEFINE S == Seq(Row)
<1>3. x \in Seq(S) /\ \A i \in DOMAIN x : StableSort(x[i], by) \in S
  BY <1>2 DEF RowSeq
<1> HIDE DEF S
<1>4. y \in Seq(S) /\ Len(y) = Len(x) /\ DOMAIN y = 1..Len(x) /\ DOMAIN x = 1..Len(x)
  BY <1>3
<1>5. \A i \in 1..Len(y) : SameRows(y[i], x[i])
  BY <1>2, <1>4
<1>6. SameRows(FlattenSeq(y), FlattenSeq(x))
  BY <1>3, <1>4, <1>5, SameRowsFlatten DEF S
<1>7. FlattenSeq(x) \in Seq(Row) /\ FlattenSeq(y) \in Seq(Row)
  BY <1>3, <1>4, FlattenRows DEF S, RowSeq
<1>8. StableSort(FlattenSeq(y), by) = StableSort(FlattenSeq(x), by)
  BY <1>6, <1>7, StableSortSame
<1> QED
  BY <1>2, <1>4, <1>8 DEF S, RowSeq

LEMMA SortLoadStep ==
  ASSUME Inv, SortLoad, StaysWhole
  PROVE  Inv'
<1>0. Running("sort") /\ mem = << >>
  BY DEF SortLoad
<1>1. /\ TypeInv /\ ServingInv /\ TeeInv /\ status = "run" /\ request.op = "sort"
      /\ 1 \in DOMAIN source /\ request.by \in Order
      /\ request' = request /\ before' = before /\ tee' = tee /\ In(1)' = In(1)
      /\ Done \in RowSeq /\ Unread(1) \in RowSeq /\ Sent \in RowSeq
      /\ Done \o StableSort(FlattenSeq(mem) \o Unread(1), request.by) = StableSort(In(1), request.by)
      /\ output = NoExtent
      /\ Begun => output_type # NullType
      /\ output_type \in {NullType, source[1].type}
  BY <1>0, SortKnown
<1>2. CASE ~Readable(1)
  <2>1. Die
    BY <1>2 DEF SortLoad, Drain
  <2> QED
    BY <1>1, <1>2, <2>1, Unreadable, DiesFatally
<1>3. CASE Readable(1)
  <2> DEFINE by == request.by
             x == Extents(1)
             y == [i \in DOMAIN x |-> StableSort(x[i], by)]
  <2>1. /\ source' = [source EXCEPT ![1].left = << >>]
        /\ CASE Len(x) = 0 -> Return(NoExtent) /\ UNCHANGED <<mem, output>>
             [] Len(x) = 1 -> Return(y[1]) /\ UNCHANGED <<mem, output>>
             [] OTHER      -> GoOn /\ mem' = y /\ output' = << >>
        /\ output_type' = IF x = << >> THEN output_type ELSE source[1].type
        /\ UNCHANGED series
    BY <1>3 DEF SortLoad, Drain
  <2>2. /\ SameSources /\ Opened(1)' /\ source'[1].left = << >> /\ Unread(1)' = << >>
        /\ x \in Seq(RowSeq) /\ FlattenSeq(x) = Unread(1)
    BY <1>1, <1>3, <2>1, Drained
  <2>3. /\ y \in Seq(RowSeq) /\ Len(y) = Len(x) /\ DOMAIN y = DOMAIN x
        /\ \A i \in DOMAIN x : y[i] = StableSort(x[i], by) /\ y[i] \in RowSeq /\ Sorted(y[i], by)
        /\ StableSort(FlattenSeq(y), by) = StableSort(FlattenSeq(x), by)
    BY <1>1, <2>2, ExtentsSorted
  <2>4. Done = Sent /\ Sent \o << >> = Sent /\ << >> \o << >> = << >> /\ << >> \in RowSeq
    BY <1>1, SofarRows, RowsJoin DEF Done, RowsOf
  <2>5. Sent \o StableSort(Unread(1), by) = StableSort(In(1), by)
    BY <1>0, <1>1, <2>4, RowsJoin, FullIsRows
  <2>6. source[1].type # NullType /\ source[1].type # MissingType
    BY <1>1, SourceTyped
  <2>7. \/ x = << >> /\ Return(NoExtent) /\ UNCHANGED <<mem, output, output_type>>
        \/ Len(x) = 1 /\ Return(y[1]) /\ UNCHANGED <<mem, output>> /\ output_type' = source[1].type
        \/ Len(x) > 1 /\ GoOn /\ mem' = y /\ output' = << >> /\ output_type' = source[1].type
    <3>1. Len(x) \in Nat /\ (Len(x) = 0 <=> x = << >>)
      BY <2>2
    <3>2. CASE Len(x) = 0
      BY <2>1, <3>1, <3>2
    <3>3. CASE Len(x) = 1
      BY <2>1, <3>1, <3>3
    <3>4. CASE Len(x) > 1
      BY <2>1, <3>1, <3>4
    <3> QED
      BY <3>1, <3>2, <3>3, <3>4, SMTT(30)
  <2> HIDE DEF x, y
  <2>8. /\ output_type' # MissingType /\ (output_type # NullType => output_type' = output_type)
        /\ output_type' \in {NullType, source[1].type} /\ source'[1].type = source[1].type
        /\ x # << >> => output_type' # NullType
    BY <1>1, <2>2, <2>6, <2>7 DEF TypeInv, SameSources
  <2>9. series' = series /\ series' \in Seq(Optional) /\ Len(series') = Len(series)
    BY <1>1, <2>1 DEF TypeInv
  <2>10. CASE x = << >> /\ Return(NoExtent) /\ UNCHANGED <<mem, output, output_type>>
    <3>1. status' = "returned" /\ returned' = NoExtent /\ ~Returns' /\ mem' = mem /\ output' = NoExtent
      BY <1>1, <2>10 DEF Return, Returns
    <3>2. NoExtent \in Optional /\ RowsOf(NoExtent) = << >>
      BY DEF Optional, RowsOf
    <3>3. Sent' = Sent \o << >> /\ Done' = Sent' \o RowsOf(output')
      BY <1>1, <2>10, <3>2, SentReturned
    <3>4. Done' = Done
      BY <2>4, <3>1, <3>2, <3>3
    <3>5. Unread(1)' = Unread(1)
      BY <2>2, <2>10, FullIsRows
    <3>6. Steady
      BY <1>1, <2>2, <2>8, <2>9, <3>1, <3>2 DEF Steady, StaysWhole
    <3>7. Begun' => output_type' # NullType
      BY <1>1, <2>10, <3>1 DEF Begun
    <3>8. SortInv'
      <4>1. mem' = << >> /\ FlattenSeq(<< >>) = << >> /\ << >> \in Seq(RowSeq)
        BY <1>0, <3>1, FullIsRows
      <4>2. Done' \o StableSort(FlattenSeq(mem') \o Unread(1)', request'.by) = StableSort(In(1)', request'.by)
        BY <1>1, <3>1, <3>4, <3>5
      <4>3. \A j \in DOMAIN mem' : Sorted(mem'[j], request'.by)
        BY <4>1
      <4> QED
        BY <2>2, <2>8, <3>1, <3>7, <4>1, <4>2, <4>3 DEF SortInv
    <3> QED
      BY <1>1, <3>1, <3>6, <3>7, <3>8, StepKeeps DEF ThisOp, Begun
  <2>11. CASE Len(x) = 1 /\ Return(y[1]) /\ UNCHANGED <<mem, output>> /\ output_type' = source[1].type
    <3>1. 1 \in DOMAIN x /\ x = <<x[1]>> /\ x[1] \in RowSeq
      BY <2>2, <2>11, SMTT(30)
    <3>2. y[1] = StableSort(x[1], by) /\ y[1] \in RowSeq /\ y[1] \in Optional /\ RowsOf(y[1]) = y[1] /\ y[1] # NoExtent
      BY <2>3, <3>1, Constants DEF Optional, RowsOf
    <3>3. FlattenSeq(x) = x[1]
      BY <3>1, FlattenOne DEF RowSeq
    <3>4. Return(y[1])
      BY <2>11
    <3> HIDE DEF by
    <3>5. Sent' = Sent \o RowsOf(y[1]) /\ Done' = Sent' \o RowsOf(output') /\ status' = "returned" /\ Sent' \in RowSeq
          /\ ~Ends' /\ Returns'
      BY <1>1, <3>2, <3>4, SentReturned
    <3>6. mem' = << >> /\ output' = NoExtent /\ returned' = y[1]
      BY <1>0, <1>1, <2>11 DEF Return
    <3>7. Done' = Sent \o y[1]
      BY <3>2, <3>5, <3>6, RowsJoin DEF RowsOf
    <3>8. Done' = StableSort(In(1), by)
      BY <2>2, <2>5, <3>2, <3>3, <3>7
    <3>9. Steady
      BY <1>1, <2>2, <2>8, <2>9, <3>2, <3>5, <3>6 DEF Steady, StaysWhole, Optional
    <3>10. SortInv'
      <4>1. mem' = << >> /\ FlattenSeq(<< >>) = << >> /\ << >> \in Seq(RowSeq)
        BY <3>6, FullIsRows
      <4>2. Done' \o StableSort(FlattenSeq(mem') \o Unread(1)', request'.by) = StableSort(In(1)', request'.by)
        <5>1. FlattenSeq(mem') \o Unread(1)' = << >>
          BY <2>2, <2>4, <4>1
        <5>2. StableSort(<< >>, by) = << >>
          BY <1>1, SortNothing DEF by
        <5>3. Done' \o << >> = Done'
          BY <3>5, <3>6, <3>7, <3>2, RowsJoin
        <5> QED
          BY <1>1, <3>8, <5>1, <5>2, <5>3 DEF by
      <4>3. \A j \in DOMAIN mem' : Sorted(mem'[j], request'.by)
        BY <4>1
      <4> QED
        BY <2>2, <2>6, <2>8, <2>11, <3>5, <3>6, <4>1, <4>2, <4>3 DEF SortInv
    <3> QED
      BY <1>1, <2>6, <2>11, <3>5, <3>9, <3>10, StepKeeps DEF ThisOp
  <2>12. CASE Len(x) > 1 /\ GoOn /\ mem' = y /\ output' = << >> /\ output_type' = source[1].type
    <3>1. status' = "run" /\ returned' = returned /\ output' = << >> /\ mem' = y
      BY <1>1, <2>12 DEF GoOn
    <3>2. Sent' = Sent /\ Done' = Sent \o RowsOf(output') /\ ~Ends' /\ ~Returns'
      BY <1>1, <3>1, DoneKept
    <3>3. << >> \in Optional /\ RowsOf(<< >>) = << >>
      BY <2>4 DEF Optional, RowsOf
    <3>4. Done' = Sent
      BY <2>4, <3>1, <3>2, <3>3
    <3>5. Steady
      BY <1>1, <2>2, <2>8, <2>9, <3>1, <3>3 DEF Steady, StaysWhole, TypeInv
    <3>6. y # << >>
      BY <2>3, <2>12
    <3>7. SortInv'
      <4>1. Done' \o StableSort(FlattenSeq(mem') \o Unread(1)', request'.by) = StableSort(In(1)', request'.by)
        <5>1. FlattenSeq(mem') \o Unread(1)' = FlattenSeq(y)
          BY <2>2, <2>3, <3>1, FlattenRows, RowsJoin
        <5>2. StableSort(FlattenSeq(y), by) = StableSort(Unread(1), by)
          BY <2>2, <2>3
        <5> QED
          BY <1>1, <2>5, <3>4, <5>1, <5>2
      <4>2. \A j \in DOMAIN mem' : Sorted(mem'[j], request'.by)
        BY <1>1, <2>3, <3>1
      <4> QED
        BY <1>1, <2>2, <2>3, <2>6, <2>8, <2>12, <3>1, <3>2, <3>6, <4>1, <4>2 DEF SortInv
    <3> QED
      BY <1>1, <2>6, <2>12, <3>1, <3>2, <3>5, <3>7, StepKeeps DEF ThisOp
  <2> QED
    BY <2>7, <2>10, <2>11, <2>12
<1> QED
  BY <1>2, <1>3

LEMMA SortMergeStep ==
  ASSUME Inv, SortMerge, StaysWhole
  PROVE  Inv'
<1> DEFINE by == request.by
           P  == {n \in DOMAIN mem : mem[n] # << >>}
           i  == FirstOf([n \in P |-> Head(mem[n])])
<1>0. /\ Running("sort") /\ mem # << >>
      /\ IF P = {} THEN mem' = << >> /\ Return(Started) /\ output' = NoExtent
                   ELSE /\ mem' = [mem EXCEPT ![i] = Tail(@)]
                        /\ ReturnWhenFull(Append(Started, Head(mem[i])))
      /\ UNCHANGED <<source, series, output_type>>
  BY DEF SortMerge
<1>1. /\ TypeInv /\ ServingInv /\ TeeInv /\ status = "run" /\ request.op = "sort"
      /\ 1 \in DOMAIN source /\ request.by \in Order
      /\ request' = request /\ before' = before /\ tee' = tee /\ In(1)' = In(1)
      /\ Done \in RowSeq /\ Sent \in RowSeq
      /\ mem \in Seq(RowSeq) /\ \A j \in DOMAIN mem : Sorted(mem[j], by)
      /\ Done \o StableSort(FlattenSeq(mem) \o Unread(1), by) = StableSort(In(1), by)
      /\ Opened(1) /\ Unread(1) = << >>
      /\ output_type # NullType
      /\ output_type \in {NullType, source[1].type}
  BY <1>0, SortKnown
<1>2. SameSources /\ Unread(1)' = Unread(1) /\ Opened(1)'
  BY <1>0, <1>1, NothingRead
<1>3. series' \in Seq(Optional) /\ Len(series') = Len(series) /\ output_type # MissingType
      /\ source'[1].type = source[1].type
  BY <1>0, <1>1 DEF TypeInv
<1>4. Done \o StableSort(FlattenSeq(mem), by) = StableSort(In(1), by)
      /\ FlattenSeq(mem) \in RowSeq /\ StableSort(FlattenSeq(mem), by) \in RowSeq
  <2>1. FlattenSeq(mem) \in RowSeq
    BY <1>1, FlattenRows
  <2>2. FlattenSeq(mem) \o Unread(1) = FlattenSeq(mem)
    BY <1>1, <2>1, RowsJoin
  <2>3. StableSort(FlattenSeq(mem), by) \in RowSeq
    BY <1>1, <2>1, StableSortType DEF RowSeq
  <2> QED
    BY <1>1, <2>1, <2>2, <2>3
<1>5. CASE P = {}
  <2>1. mem' = << >> /\ Return(Started) /\ output' = NoExtent
    BY <1>0, <1>5
  <2>2. Started \in RowSeq /\ Started \in Optional /\ RowsOf(Started) = Started /\ Started # NoExtent
    BY <1>1, SofarRows, Constants DEF Optional, RowsOf
  <2>3. /\ Sent' = Sent \o RowsOf(Started) /\ Sent' \in RowSeq /\ Done' = Sent' \o RowsOf(output')
        /\ status' = "returned" /\ ~Ends' /\ Returns'
    BY <1>1, <2>1, <2>2, SentReturned
  <2>4. Done' = Done
    <3>1. Done = Sent \o RowsOf(output) /\ Started = RowsOf(output)
      BY <1>1, SofarRows DEF Done
    <3>2. Done' = Sent'
      BY <2>1, <2>3, RowsJoin DEF RowsOf
    <3> QED
      BY <2>2, <2>3, <3>1, <3>2
  <2>5. StableSort(FlattenSeq(mem), by) = << >>
    <3>1. FlattenSeq(mem) = << >>
      <4>1. \A n \in 1..Len(mem) : mem[n] = << >>
        BY <1>1, <1>5
      <4>2. mem \in Seq(Seq(Row))
        BY <1>1 DEF RowSeq
      <4> QED
        BY <4>1, <4>2, FlattenAllEmpty
    <3> QED
      BY <1>1, <3>1, SortNothing
  <2>6. SortInv'
    <3>1. mem' = << >> /\ FlattenSeq(<< >>) = << >> /\ << >> \in Seq(RowSeq)
      BY <2>1, FullIsRows
    <3>2. Done' \o StableSort(FlattenSeq(mem') \o Unread(1)', by') = StableSort(In(1)', by')
      <4>1. FlattenSeq(mem') \o Unread(1)' = << >>
        BY <1>1, <1>2, <3>1, RowsJoin, FullIsRows
      <4>2. StableSort(<< >>, by) = << >>
        BY <1>1, SortNothing
      <4> QED
        BY <1>1, <1>4, <2>4, <2>5, <4>1, <4>2
    <3>3. \A j \in DOMAIN mem' : Sorted(mem'[j], request'.by)
      BY <3>1
    <3> QED
      BY <1>0, <1>1, <1>3, <2>1, <2>3, <3>1, <3>2, <3>3 DEF SortInv
  <2>7. Steady
    BY <1>0, <1>1, <1>2, <1>3, <2>1, <2>2, <2>3 DEF Steady, StaysWhole, Optional, Return
  <2> QED
    BY <1>0, <1>1, <2>3, <2>6, <2>7, StepKeeps DEF ThisOp
<1>6. CASE P # {}
  <2>1. i \in P /\ IsFirst(i, mem, by)
    BY <1>1, <1>6, FirstOfIs
  <2> HIDE DEF i
  <2>2. mem[i] \in RowSeq /\ mem[i] # << >> /\ i \in 1..Len(mem)
    BY <1>1, <2>1
  <2>3. Head(mem[i]) \in Row /\ Tail(mem[i]) \in RowSeq
    BY <2>2, HeadFacts DEF RowSeq
  <2>4. mem' = [mem EXCEPT ![i] = Tail(mem[i])] /\ ReturnWhenFull(Append(Started, Head(mem[i])))
    BY <1>0, <1>6 DEF i
  <2>5. Replaced(mem, i, Tail(mem[i]), mem', RowSeq)
    BY <1>1, <2>2, <2>3, <2>4, ReplaceOne
  <2>6. mem' \in Seq(RowSeq) /\ OneTaken(mem, mem', i) /\ Len(mem') = Len(mem)
    <3>1. mem' \in Seq(RowSeq) /\ Len(mem') = Len(mem) /\ mem'[i] = Tail(mem[i])
      BY <2>5 DEF Replaced
    <3>2. \A j \in 1..Len(mem) : j # i => mem'[j] = mem[j]
      BY <1>1, <2>5 DEF Replaced
    <3> QED
      BY <2>2, <3>1, <3>2 DEF OneTaken
  <2>7. mem' # << >> /\ mem' \in Seq(RowSeq)
    BY <1>1, <2>2, <2>6
  <2> DEFINE h == Head(mem[i])
  <2>8. /\ StableSort(FlattenSeq(mem), by) = <<h>> \o StableSort(FlattenSeq(mem'), by)
        /\ \A j \in 1..Len(mem') : Sorted(mem'[j], by)
    <3>1. PICK m : m = mem'
      OBVIOUS
    <3>2. mem \in Seq(Seq(Row)) /\ m \in Seq(Seq(Row)) /\ by \in Order
      BY <1>1, <2>6, <3>1 DEF RowSeq
    <3>3. \A j \in 1..Len(mem) : Sorted(mem[j], by)
      BY <1>1
    <3>4. IsFirst(i, mem, by) /\ OneTaken(mem, m, i)
      BY <2>1, <2>6, <3>1
    <3> HIDE DEF by
    <3>5. /\ StableSort(FlattenSeq(mem), by) = <<Head(mem[i])>> \o StableSort(FlattenSeq(m), by)
          /\ \A j \in 1..Len(m) : Sorted(m[j], by)
      BY <3>2, <3>3, <3>4, MergeStep
    <3> QED
      BY <3>1, <3>5
  <2> HIDE DEF h
  <2>9. h \in Row /\ <<h>> \in RowSeq /\ ReturnWhenFull(Started \o <<h>>)
    <3>1. Started \in RowSeq /\ h \in Row
      BY <1>1, <2>3, SofarRows DEF h
    <3>2. Append(Started, h) = Started \o <<h>> /\ <<h>> \in RowSeq
      BY <3>1, RowsAppend
    <3>3. ReturnWhenFull(Append(Started, h))
      BY <2>4 DEF h
    <3> QED
      BY <3>1, <3>2, <3>3
  <2>10. /\ Done' = Done \o <<h>> /\ ~Ends' /\ status' \in {"run", "returned"} /\ output' \in Optional
         /\ returned' = returned \/ returned' \in RowSeq
    BY <1>1, <2>9, DoneGrows
  <2>11. FlattenSeq(mem') \in RowSeq /\ StableSort(FlattenSeq(mem'), by) \in RowSeq
    BY <1>1, <2>7, FlattenRows, StableSortType DEF RowSeq
  <2>12. Done' \o StableSort(FlattenSeq(mem') \o Unread(1)', by') = StableSort(In(1)', by')
    <3>1. FlattenSeq(mem') \o Unread(1)' = FlattenSeq(mem')
      BY <1>1, <1>2, <2>11, RowsJoin
    <3>2. (Done \o <<h>>) \o StableSort(FlattenSeq(mem'), by) = Done \o (<<h>> \o StableSort(FlattenSeq(mem'), by))
      BY <1>1, <2>9, <2>11, RowsAssoc
    <3> QED
      BY <1>1, <1>4, <2>8, <2>10, <3>1, <3>2
  <2>13. SortInv'
    <3>1. \A j \in DOMAIN mem' : Sorted(mem'[j], request'.by)
      BY <1>1, <2>7, <2>8, SMTT(30)
    <3> QED
      BY <1>0, <1>1, <1>2, <1>3, <2>7, <2>10, <2>12, <3>1 DEF SortInv
  <2>14. Steady
    BY <1>0, <1>1, <1>2, <1>3, <2>10 DEF Steady, StaysWhole, TypeInv, Optional
  <2> QED
    BY <1>0, <1>1, <2>10, <2>13, <2>14, StepKeeps DEF ThisOp
<1> QED
  BY <1>5, <1>6

----------------------------------------------------------------------------
\* UnionModule

LEMMA UnionKnown ==
  ASSUME Inv, Running("union")
  PROVE  /\ TypeInv /\ ServingInv /\ TeeInv /\ TablesInv /\ status = "run" /\ request.op = "union"
         /\ DOMAIN source = 1..Len(source) /\ DOMAIN series = DOMAIN source /\ Len(source) \in Nat
         /\ DOMAIN request.in = DOMAIN source /\ request.by \in Order
         /\ StaysWhole => /\ request' = request /\ before' = before /\ tee' = tee /\ damaged' = damaged
                          /\ \A i : In(i)' = In(i)
         /\ Done \in RowSeq /\ Sent \in RowSeq
         /\ mem \in 0..Len(source)
         /\ IF mem < Len(source) THEN output_type = NullType /\ ~Begun /\ output = NoExtent
                                 ELSE output_type # NullType
         /\ AllSorted => UnionProgress
<1>1. /\ TypeInv /\ ServingInv /\ TeeInv /\ ThisOp /\ status = "run" /\ request.op = "union"
      /\ StaysWhole => request' = request /\ before' = before /\ tee' = tee /\ \A i : In(i)' = In(i)
  BY AtWork
<1>2. UnionInv /\ Serving("union")
  BY <1>1 DEF ThisOp, Serving
<1>3. Done \in RowSeq /\ Sent \in RowSeq
  BY <1>1, SofarRows
<1>4. request.by \in Order /\ DOMAIN request.in = DOMAIN source
  BY <1>1, Run, RequestFields DEF Reading
<1>5. DOMAIN source = 1..Len(source) /\ Len(source) \in Nat /\ DOMAIN series = DOMAIN source
  BY <1>1 DEF TypeInv, IsSources
<1>6. TablesInv /\ (StaysWhole => damaged' = damaged)
  BY DEF Inv, StaysWhole, serverVars
<1> QED
  BY <1>1, <1>2, <1>3, <1>4, <1>5, <1>6 DEF UnionInv

LEMMA UnionSources ==
  ASSUME Inv, Running("union"), NEW i \in DOMAIN source
  PROVE  UnionPlace(i) /\ UnionFull(i)
<1>1. ThisOp /\ request.op = "union" /\ status = "run"
  BY AtWork
<1> QED
  BY <1>1 DEF ThisOp, UnionInv, Serving

\* What a source that is not damaged has to give
LEMMA FullExtents ==
  ASSUME TypeInv, ServingInv, TablesInv, status = "run", request.op \in Reading \ {"update"},
         NEW i \in DOMAIN source, Readable(i), ~Opened(i), request.in[i] \notin damaged
  PROVE  Extents(i) \in Seq(FullRows)
<1> DEFINE t == request.in[i]
<1>1. i \in DOMAIN request.in /\ t \in Tables /\ source[i].table = t
  BY InRun
<1>2. info[t] # MissingType
  BY SourceListed
<1>3. ~Written(t)
  <2> SUFFICES ASSUME Written(t) PROVE FALSE
    OBVIOUS
  <2>1. Truncates /\ t = request.out
    BY DEF Written, Truncates, New
  <2>2. files = FilesNow /\ t \in DOMAIN before.files
    BY <1>1, Run DEF TypeInv
  <2>3. files[t] = NoFile
    BY <2>1, <2>2 DEF FilesNow
  <2>4. files[t].whole
    BY <1>1 DEF Readable, Opened
  <2> QED
    BY <2>3, <2>4 DEF NoFile
<1>4. Fine(t)
  BY <1>1, <1>2, <1>3 DEF TablesInv
<1> QED
  BY <1>1, <1>4, FullIsRows DEF Fine, Extents, Opened

LEMMA RestsType ==
  ASSUME TypeInv, ServingInv, status \in {"run", "returned"}
  PROVE  Rests \in Seq(RowSeq) /\ Len(Rests) = Len(source) /\ DOMAIN Rests = DOMAIN source
<1>1. \A i \in DOMAIN source : Rest(i) \in RowSeq
  BY UnreadRows
<1>2. DOMAIN source = 1..Len(source) /\ Len(source) \in Nat
  BY DEF TypeInv, IsSources
<1> HIDE DEF RowSeq
<1> QED
  BY <1>1, <1>2 DEF Rests

LEMMA RestsSame ==
  ASSUME DOMAIN source' = DOMAIN source, \A i \in DOMAIN source : Rest(i)' = Rest(i)
  PROVE  Rests' = Rests
BY DEF Rests

LEMMA UnionInsSame ==
  ASSUME request' = request, \A i : In(i)' = In(i)
  PROVE  Ins' = Ins /\ AllSorted' = AllSorted
BY DEF Ins, AllSorted

LEMMA UnionFirstStep ==
  ASSUME Inv, UnionFirst, StaysWhole
  PROVE  Inv'
<1>0. Running("union") /\ mem < Len(source)
  BY DEF UnionFirst
<1>1. /\ TypeInv /\ ServingInv /\ TeeInv /\ TablesInv /\ status = "run" /\ request.op = "union"
      /\ DOMAIN source = 1..Len(source) /\ DOMAIN series = DOMAIN source /\ Len(source) \in Nat
      /\ DOMAIN request.in = DOMAIN source /\ request.by \in Order
      /\ request' = request /\ before' = before /\ tee' = tee /\ damaged' = damaged
      /\ \A j : In(j)' = In(j)
      /\ Done \in RowSeq /\ Sent \in RowSeq /\ mem \in 0..Len(source)
      /\ output_type = NullType /\ ~Begun /\ output = NoExtent
      /\ AllSorted => UnionProgress
  BY <1>0, UnionKnown
<1>2. PICK i : i = mem + 1
  OBVIOUS
<1>3. i \in DOMAIN source /\ ~(i <= mem)
  BY <1>0, <1>1, <1>2
<1>4. ~Opened(i) /\ series[i] = NoExtent
  BY <1>0, <1>3, UnionSources DEF UnionPlace
<1>5. CASE ~Readable(i)
  <2>1. Die
    BY <1>2, <1>5 DEF UnionFirst, Pull
  <2> QED
    BY <1>1, <1>3, <1>5, <2>1, Unreadable, DiesFatally
<1>6. CASE Readable(i)
  <2>1. PICK e : /\ Taken(i, e)
                 /\ series' = [series EXCEPT ![i] = e]
                 /\ mem' = i
                 /\ output_type' = IF i = Len(source) THEN TypeOf("union", request.out, SourceTypes)
                                                     ELSE output_type
                 /\ GoOn /\ UNCHANGED output
    BY <1>2, <1>6 DEF UnionFirst, Pull, Taken
  <2>2. /\ e \in Optional /\ RowsOf(e) \in RowSeq /\ SameSources /\ Opened(i)'
        /\ Unread(i) = RowsOf(e) \o Unread(i)' /\ Unread(i) \in RowSeq
        /\ e = NoExtent => source'[i].left = << >>
    BY <1>1, <1>3, <2>1, TakenFacts
  <2>3. \A j \in DOMAIN source : j # i => /\ source'[j] = source[j] /\ Opened(j)' = Opened(j)
                                          /\ Unread(j)' = Unread(j)
    BY <1>1, <1>3, <2>1, TakenFacts
  <2>4. request.in[i] \notin damaged => source'[i].left \in Seq(FullRows) /\ e # << >>
    <3> SUFFICES ASSUME request.in[i] \notin damaged
                 PROVE  source'[i].left \in Seq(FullRows) /\ e # << >>
      OBVIOUS
    <3>1. Extents(i) \in Seq(FullRows)
      BY <1>1, <1>3, <1>4, <1>6, FullExtents DEF Reading
    <3>2. source'[i].left \in Seq(FullRows) /\ (e # NoExtent => e # << >>)
      BY <1>1, <1>3, <2>1, <3>1, TakenFacts
    <3>3. NoExtent # << >>
      BY Constants, FullIsRows
    <3> QED
      BY <3>2, <3>3
  <2>5. Replaced(series, i, e, series', Optional)
    BY <1>1, <1>3, <2>1, <2>2, ReplaceOne DEF TypeInv
  <2>6. /\ series' \in Seq(Optional) /\ Len(series') = Len(series) /\ series'[i] = e
        /\ \A j \in DOMAIN source : j # i => series'[j] = series[j]
    BY <1>1, <2>5 DEF Replaced
  <2>7. status' = "run" /\ returned' = returned /\ output' = output
    BY <1>1, <2>1 DEF GoOn
  <2>8. Sent' = Sent /\ Done' = Sent \o RowsOf(output') /\ ~Ends' /\ ~Returns'
    BY <1>1, <2>7, DoneKept
  <2>9. Done' = Done
    BY <2>7, <2>8 DEF Done, RowsOf
  <2>10. \A j \in DOMAIN source : Rest(j)' = Rest(j)
    <3> SUFFICES ASSUME NEW j \in DOMAIN source PROVE Rest(j)' = Rest(j)
      OBVIOUS
    <3>1. CASE j = i
      <4>1. Rest(i) = Unread(i)
        BY <1>4, <2>2, RowsJoin DEF Rest, RowsOf
      <4>2. Rest(i)' = RowsOf(e) \o Unread(i)'
        BY <2>6 DEF Rest, RowsOf
      <4> QED
        BY <2>2, <3>1, <4>1, <4>2
    <3>2. CASE j # i
      BY <2>3, <2>6, <3>2 DEF Rest, RowsOf
    <3> QED
      BY <3>1, <3>2
  <2>11. Rests' = Rests /\ Ins' = Ins /\ AllSorted' = AllSorted
    BY <1>1, <2>2, <2>10, RestsSame, UnionInsSame DEF SameSources
  <2>12. AllSorted' => UnionProgress'
    <3> SUFFICES ASSUME AllSorted PROVE UnionProgress'
      BY <2>11
    <3>1. UnionProgress
      BY <1>1
    <3>2. \A j \in DOMAIN source' : Sorted(Rest(j)', request'.by)
      BY <1>1, <2>2, <2>10, <3>1 DEF UnionProgress, SameSources
    <3>3. Done' \o StableSort(FlattenSeq(Rests'), request'.by) = StableSort(FlattenSeq(Ins'), request'.by)
      BY <1>1, <2>9, <2>11, <3>1 DEF UnionProgress
    <3> QED
      BY <3>2, <3>3 DEF UnionProgress
  <2>13. \A j \in DOMAIN source' : UnionPlace(j)' /\ UnionFull(j)'
    <3> SUFFICES ASSUME NEW j \in DOMAIN source PROVE UnionPlace(j)' /\ UnionFull(j)'
      BY <2>2 DEF SameSources
    <3>1. CASE j = i
      <4>1. UnionPlace(i)'
        BY <1>3, <2>1, <2>2, <2>6 DEF UnionPlace
      <4>2. UnionFull(i)'
        BY <1>1, <2>4, <2>6 DEF UnionFull
      <4> QED
        BY <3>1, <4>1, <4>2
    <3>2. CASE j # i
      <4>1. UnionPlace(j) /\ UnionFull(j) /\ source'[j] = source[j] /\ Opened(j)' = Opened(j) /\ series'[j] = series[j]
        BY <1>0, <2>3, <2>6, <3>2, UnionSources
      <4>2. (j <= i) <=> (j <= mem)
        BY <1>1, <1>2, <3>2
      <4>3. UnionPlace(j)'
        BY <2>1, <4>1, <4>2 DEF UnionPlace
      <4>4. UnionFull(j)'
        BY <1>1, <4>1 DEF UnionFull
      <4> QED
        BY <4>3, <4>4
    <3> QED
      BY <3>1, <3>2
  <2>14. mem' \in 0..Len(source') /\ Len(source') = Len(source) /\ mem' = i
    BY <1>1, <1>3, <2>1, <2>2 DEF SameSources
  <2>15. ~Begun'
    BY <1>1, <2>8 DEF Begun
  <2>16. IF mem' < Len(source') THEN output_type' = NullType /\ ~Begun' /\ output' = NoExtent /\ ~Ends'
                               ELSE output_type' # NullType
    <3>1. CASE i = Len(source)
      BY <1>1, <2>1, <2>14, <3>1, OperationTypes
    <3>2. CASE i # Len(source)
      BY <1>1, <1>3, <2>1, <2>7, <2>8, <2>14, <2>15, <3>2
    <3> QED
      BY <3>1, <3>2
  <2>17. UnionInv'
    BY <2>8, <2>12, <2>13, <2>14, <2>16 DEF UnionInv
  <2>18. output_type' # MissingType
    BY <1>1, <2>1, OperationTypes DEF TypeInv
  <2>19. Steady
    BY <1>1, <2>2, <2>6, <2>7, <2>18 DEF Steady, StaysWhole, TypeInv
  <2> QED
    BY <1>1, <2>7, <2>8, <2>15, <2>17, <2>19, StepKeeps DEF ThisOp, Begun
<1> QED
  BY <1>5, <1>6

LEMMA UnionDoneStep ==
  ASSUME Inv, UnionDone, StaysWhole
  PROVE  Inv'
<1>0. Running("union") /\ mem = Len(source) /\ Queue = {} /\ ReturnOutput
      /\ UNCHANGED <<source, series, output_type, mem>>
  BY DEF UnionDone
<1>1. /\ TypeInv /\ ServingInv /\ TeeInv /\ status = "run" /\ request.op = "union"
      /\ Len(source) \in Nat
      /\ request' = request /\ before' = before /\ tee' = tee /\ damaged' = damaged
      /\ \A j : In(j)' = In(j)
      /\ output_type # NullType
      /\ AllSorted => UnionProgress
  BY <1>0, UnionKnown
<1>2. SameSources /\ \A j : Unread(j)' = Unread(j) /\ Opened(j)' = Opened(j)
  BY <1>0, <1>1, NothingRead
<1>3. /\ Done' = Done /\ output' = NoExtent /\ status' = "returned" /\ returned' = output
  BY <1>0, <1>1, OutputReturned
<1>4. \A j \in DOMAIN source : Rest(j)' = Rest(j)
  BY <1>0, <1>2 DEF Rest, RowsOf
<1>5. Rests' = Rests /\ Ins' = Ins /\ AllSorted' = AllSorted
  BY <1>0, <1>1, <1>4, RestsSame, UnionInsSame
<1>6. AllSorted' => UnionProgress'
  <2> SUFFICES ASSUME AllSorted PROVE UnionProgress'
    BY <1>5
  <2>1. UnionProgress
    BY <1>1
  <2>2. \A j \in DOMAIN source' : Sorted(Rest(j)', request'.by)
    BY <1>0, <1>1, <1>4, <2>1 DEF UnionProgress
  <2>3. Done' \o StableSort(FlattenSeq(Rests'), request'.by) = StableSort(FlattenSeq(Ins'), request'.by)
    BY <1>1, <1>3, <1>5, <2>1 DEF UnionProgress
  <2> QED
    BY <2>2, <2>3 DEF UnionProgress
<1>7. \A j \in DOMAIN source' : UnionPlace(j)' /\ UnionFull(j)'
  <2> SUFFICES ASSUME NEW j \in DOMAIN source PROVE UnionPlace(j)' /\ UnionFull(j)'
    BY <1>0
  <2>1. UnionPlace(j) /\ UnionFull(j)
    BY <1>0, UnionSources
  <2> QED
    BY <1>0, <1>1, <1>2, <2>1 DEF UnionPlace, UnionFull
<1>8. Queue' = {}
  BY <1>0 DEF Queue
<1>9. mem' \in 0..Len(source') /\ ~(mem' < Len(source')) /\ output_type' # NullType
  BY <1>0, <1>1
<1>10. UnionInv'
  BY <1>3, <1>6, <1>7, <1>8, <1>9 DEF UnionInv
<1>11. Steady
  BY <1>0, <1>1, <1>2, <1>3 DEF Steady, StaysWhole, TypeInv, Optional
<1> QED
  BY <1>1, <1>3, <1>9, <1>10, <1>11, StepKeeps DEF ThisOp

\* UnionModule takes the first row of one source.
UnionTakes(b, e) ==
  /\ series' = [series EXCEPT ![b] = e]
  /\ ReturnWhenFull(Append(Started, Head(series[b])))
  /\ UNCHANGED <<output_type, mem>>

LEMMA UnionRowTaken ==
  ASSUME Inv, Running("union"), StaysWhole, mem = Len(source), Comparable(Queue), Queue # {},
         NEW b, b = FirstOf([i \in Queue |-> Head(series[i])])
  PROVE  /\ b \in DOMAIN source /\ series[b] \in RowSeq /\ series[b] # << >> /\ series[b] # NoExtent
         /\ IsFirst(b, Rests, request.by)
<1>1. /\ TypeInv /\ ServingInv /\ status = "run" /\ DOMAIN series = DOMAIN source /\ request.by \in Order
      /\ DOMAIN source = 1..Len(source) /\ Len(source) \in Nat
  BY UnionKnown
<1>2. Rests \in Seq(RowSeq) /\ Len(Rests) = Len(source) /\ DOMAIN Rests = DOMAIN source
  BY <1>1, RestsType
<1>3. \A i \in DOMAIN source : series[i] = NoExtent => Rests[i] = << >>
  <2> SUFFICES ASSUME NEW i \in DOMAIN source, series[i] = NoExtent PROVE Rests[i] = << >>
    OBVIOUS
  <2>1. i <= mem
    BY <1>1
  <2>2. Opened(i) /\ source[i].left = << >>
    BY <2>1, UnionSources DEF UnionPlace
  <2>3. Unread(i) = << >>
    BY <2>2, FullIsRows DEF Unread
  <2> QED
    BY <2>3, FullIsRows, RowsJoin DEF Rests, Rest, RowsOf
<1>4. \A i \in DOMAIN source : series[i] # NoExtent =>
        /\ series[i] \in RowSeq /\ series[i] # << >> /\ Rests[i] # << >> /\ Head(Rests[i]) = Head(series[i])
  <2> SUFFICES ASSUME NEW i \in DOMAIN source, series[i] # NoExtent
               PROVE  /\ series[i] \in RowSeq /\ series[i] # << >> /\ Rests[i] # << >>
                      /\ Head(Rests[i]) = Head(series[i])
    OBVIOUS
  <2>1. series[i] \in RowSeq /\ series[i] # << >>
    BY <1>1, Source DEF Comparable, Queue, Optional
  <2>2. Rests[i] = series[i] \o Unread(i)
    BY DEF Rests, Rest, RowsOf
  <2>3. Unread(i) \in RowSeq
    BY <1>1, UnreadRows
  <2>4. PICK x, y : x = series[i] /\ y = Unread(i)
    OBVIOUS
  <2>5. x \in Seq(Row) /\ y \in Seq(Row) /\ x # << >>
    BY <2>1, <2>3, <2>4 DEF RowSeq
  <2>6. x \o y # << >> /\ Head(x \o y) = Head(x)
    BY <2>5
  <2> QED
    BY <2>1, <2>2, <2>4, <2>6
<1>5. Queue = {i \in DOMAIN Rests : Rests[i] # << >>}
  BY <1>1, <1>2, <1>3, <1>4 DEF Queue
<1>6. [i \in Queue |-> Head(series[i])] = [i \in Queue |-> Head(Rests[i])]
  BY <1>1, <1>4 DEF Queue
<1>7. b \in Queue /\ IsFirst(b, Rests, request.by)
  BY <1>1, <1>2, <1>5, <1>6, FirstOfIs
<1> QED
  BY <1>1, <1>4, <1>7 DEF Queue

LEMMA UnionTakesStep ==
  ASSUME Inv, Running("union"), StaysWhole, mem = Len(source),
         NEW b \in DOMAIN source, series[b] \in RowSeq, series[b] # << >>, series[b] # NoExtent,
         IsFirst(b, Rests, request.by),
         NEW e \in Optional, UnionTakes(b, e), SameSources,
         Unread(b)' \in RowSeq,
         Tail(series[b]) \o Unread(b) = RowsOf(e) \o Unread(b)',
         \A j \in DOMAIN source : j # b => /\ source'[j] = source[j] /\ Opened(j)' = Opened(j)
                                            /\ Unread(j)' = Unread(j),
         e = NoExtent => source'[b].left = << >>,
         request.in[b] \notin damaged => e # << >> /\ source'[b].left \in Seq(FullRows)
  PROVE  Inv'
<1>1. /\ TypeInv /\ ServingInv /\ TeeInv /\ TablesInv /\ status = "run" /\ request.op = "union"
      /\ DOMAIN source = 1..Len(source) /\ DOMAIN series = DOMAIN source /\ Len(source) \in Nat
      /\ request.by \in Order
      /\ request' = request /\ before' = before /\ tee' = tee /\ damaged' = damaged
      /\ \A j : In(j)' = In(j)
      /\ Done \in RowSeq
      /\ AllSorted => UnionProgress
  BY UnionKnown
<1>2. output_type # NullType /\ output_type' = output_type /\ mem' = mem
  BY UnionKnown DEF UnionTakes
<1> DEFINE h == Head(series[b])
<1>3. h \in Row /\ Tail(series[b]) \in RowSeq /\ series[b] = <<h>> \o Tail(series[b]) /\ <<h>> \in RowSeq
  BY HeadFacts DEF RowSeq
<1>4. Replaced(series, b, e, series', Optional)
  BY <1>1, ReplaceOne DEF TypeInv, UnionTakes
<1>5. /\ series' \in Seq(Optional) /\ Len(series') = Len(series) /\ series'[b] = e
      /\ \A j \in DOMAIN source : j # b => series'[j] = series[j]
  BY <1>1, <1>4 DEF Replaced
<1>6. ReturnWhenFull(Started \o <<h>>)
  <2>1. Started \in RowSeq /\ h \in Row
    BY <1>1, <1>3, SofarRows
  <2>2. Append(Started, h) = Started \o <<h>>
    BY <2>1, RowsAppend
  <2>3. ReturnWhenFull(Append(Started, h))
    BY DEF UnionTakes
  <2> QED
    BY <2>2, <2>3
<1> HIDE DEF h
<1>7. /\ Done' = Done \o <<h>> /\ ~Ends' /\ status' \in {"run", "returned"} /\ output' \in Optional
      /\ returned' = returned \/ returned' \in RowSeq
  BY <1>1, <1>3, <1>6, DoneGrows
<1>8. Rest(b) = <<h>> \o Rest(b)' /\ Rest(b)' \in RowSeq
  <2>1. Unread(b) \in RowSeq /\ RowsOf(e) \in RowSeq
    BY <1>1, UnreadRows, RowsOfType
  <2>2. Rest(b) = (<<h>> \o Tail(series[b])) \o Unread(b)
    BY <1>3 DEF Rest, RowsOf
  <2>3. (<<h>> \o Tail(series[b])) \o Unread(b) = <<h>> \o (Tail(series[b]) \o Unread(b))
    BY <1>3, <2>1, RowsAssoc
  <2>4. Rest(b)' = RowsOf(e) \o Unread(b)'
    BY <1>5 DEF Rest, RowsOf
  <2> QED
    BY <2>1, <2>2, <2>3, <2>4, RowsJoin
<1>9. \A j \in DOMAIN source : j # b => Rest(j)' = Rest(j)
  BY <1>5 DEF Rest, RowsOf
<1>10. Rests \in Seq(RowSeq) /\ Len(Rests) = Len(source) /\ DOMAIN Rests = DOMAIN source
  BY <1>1, RestsType
<1>11. PICK tt : tt = Rests'
  OBVIOUS
<1>12. \A j \in DOMAIN source : Rest(j) \in RowSeq
  BY <1>1, UnreadRows
<1>13. /\ DOMAIN tt = 1..Len(source) /\ tt[b] = Rest(b)' /\ tt \in Seq(RowSeq) /\ Len(tt) = Len(source)
       /\ \A j \in DOMAIN source : j # b => tt[j] = Rests[j]
  <2>1. DOMAIN source' = DOMAIN source
    BY DEF SameSources
  <2>2. tt = [j \in DOMAIN source |-> Rest(j)']
    BY <1>11, <2>1 DEF Rests
  <2>3. \A j \in DOMAIN source : Rest(j)' \in RowSeq
    BY <1>8, <1>9, <1>12
  <2> HIDE DEF RowSeq
  <2>4. tt \in Seq(RowSeq) /\ Len(tt) = Len(source)
    BY <1>1, <2>2, <2>3
  <2> QED
    BY <1>1, <1>9, <2>2, <2>4 DEF Rests
<1>14. OneTaken(Rests, tt, b) /\ Rests[b] = Rest(b) /\ h = Head(Rests[b])
  <2>1. Rests[b] = <<h>> \o tt[b]
    BY <1>8, <1>13 DEF Rests
  <2>2. PICK x : x = tt[b]
    OBVIOUS
  <2>3. x \in Seq(Row)
    BY <1>8, <1>13, <2>2 DEF RowSeq
  <2>4. Head(<<h>> \o x) = h /\ Tail(<<h>> \o x) = x
    BY <1>3, <2>3
  <2>5. tt[b] = Tail(Rests[b]) /\ h = Head(Rests[b])
    BY <2>1, <2>2, <2>4
  <2> QED
    BY <1>1, <1>10, <1>13, <2>5 DEF OneTaken, Rests
<1>15. Ins' = Ins /\ AllSorted' = AllSorted
  BY <1>1, UnionInsSame
<1>16. AllSorted' => UnionProgress'
  <2> SUFFICES ASSUME AllSorted PROVE UnionProgress'
    BY <1>15
  <2>1. PICK by : by = request.by
    OBVIOUS
  <2>2. PICK ss : ss = Rests
    OBVIOUS
  <2>3. \A j \in 1..Len(ss) : Sorted(ss[j], by)
    BY <1>1, <1>10, <2>1, <2>2 DEF UnionProgress, Rests
  <2>4. ss \in Seq(Seq(Row)) /\ tt \in Seq(Seq(Row)) /\ by \in Order
    BY <1>1, <1>10, <1>13, <2>1, <2>2 DEF RowSeq
  <2>5. IsFirst(b, ss, by) /\ OneTaken(ss, tt, b)
    BY <1>14, <2>1, <2>2
  <2>6. /\ StableSort(FlattenSeq(ss), by) = <<Head(ss[b])>> \o StableSort(FlattenSeq(tt), by)
        /\ \A j \in 1..Len(tt) : Sorted(tt[j], by)
    BY <2>3, <2>4, <2>5, MergeStep
  <2>7. \A j \in DOMAIN source' : Sorted(Rest(j)', request'.by)
    <3>1. DOMAIN source' = 1..Len(tt) /\ \A j \in DOMAIN source' : tt[j] = Rest(j)'
      BY <1>1, <1>11, <1>13 DEF SameSources, Rests
    <3> QED
      BY <1>1, <2>1, <2>6, <3>1
  <2>8. Done' \o StableSort(FlattenSeq(tt), by) = StableSort(FlattenSeq(Ins), by)
    <3>1. Done \o StableSort(FlattenSeq(ss), by) = StableSort(FlattenSeq(Ins), by)
      BY <1>1, <2>1, <2>2 DEF UnionProgress
    <3>2. StableSort(FlattenSeq(tt), by) \in RowSeq
      BY <1>13, <2>4, FlattenRows, StableSortType DEF RowSeq
    <3>3. (Done \o <<h>>) \o StableSort(FlattenSeq(tt), by) = Done \o (<<h>> \o StableSort(FlattenSeq(tt), by))
      BY <1>1, <1>3, <3>2, RowsAssoc, ZenonT(60)
    <3>4. <<Head(ss[b])>> = <<h>>
      BY <1>14, <2>2
    <3> QED
      BY <1>7, <2>6, <3>1, <3>3, <3>4
  <2>9. Done' \o StableSort(FlattenSeq(Rests'), request'.by) = StableSort(FlattenSeq(Ins'), request'.by)
    BY <1>1, <1>11, <1>15, <2>1, <2>8
  <2> QED
    BY <2>7, <2>9 DEF UnionProgress
<1>17. \A j \in DOMAIN source' : UnionPlace(j)' /\ UnionFull(j)'
  <2> SUFFICES ASSUME NEW j \in DOMAIN source PROVE UnionPlace(j)' /\ UnionFull(j)'
    BY DEF SameSources
  <2>1. UnionPlace(j) /\ UnionFull(j)
    BY UnionSources
  <2>2. CASE j = b
    <3>1. j <= mem /\ j <= mem'
      BY <1>1, <1>2
    <3>2. Opened(b)'
      BY <2>1, <2>2, <3>1 DEF UnionPlace, SameSources
    <3>3. UnionPlace(b)'
      BY <1>5, <2>2, <3>1, <3>2 DEF UnionPlace
    <3>4. UnionFull(b)'
      BY <1>1, <1>5 DEF UnionFull
    <3> QED
      BY <2>2, <3>3, <3>4
  <2>3. CASE j # b
    BY <1>1, <1>2, <1>5, <2>1, <2>3 DEF UnionPlace, UnionFull
  <2> QED
    BY <2>2, <2>3
<1>18. mem' \in 0..Len(source') /\ ~(mem' < Len(source')) /\ output_type' # NullType
  BY <1>1, <1>2 DEF SameSources
<1>19. UnionInv'
  BY <1>7, <1>16, <1>17, <1>18 DEF UnionInv
<1>20. Steady
  BY <1>1, <1>2, <1>5, <1>7 DEF Steady, StaysWhole, TypeInv, Optional
<1> QED
  BY <1>1, <1>7, <1>18, <1>19, <1>20, StepKeeps DEF ThisOp

LEMMA UnionRowStep ==
  ASSUME Inv, UnionRow, StaysWhole
  PROVE  Inv'
<1>0. Running("union") /\ mem = Len(source) /\ Queue # {}
  BY DEF UnionRow
<1>1. /\ TypeInv /\ ServingInv /\ TablesInv /\ status = "run" /\ request.op = "union"
      /\ DOMAIN source = 1..Len(source) /\ DOMAIN series = DOMAIN source /\ Len(source) \in Nat
      /\ DOMAIN request.in = DOMAIN source
      /\ request' = request /\ before' = before
  BY <1>0, UnionKnown
<1>2. CASE ~Comparable(Queue)
  <2>1. Die
    BY <1>2 DEF UnionRow
  <2>2. PICK i \in DOMAIN source : series[i] = << >>
    BY <1>1, <1>2 DEF Comparable, Queue
  <2>3. request.in[i] \in damaged
    BY <1>0, <2>2, UnionSources DEF UnionFull
  <2>4. Fatal(request)
    BY <1>1, <2>3 DEF Fatal
  <2> QED
    BY <1>1, <2>1, <2>4, DiesFatally
<1>3. CASE Comparable(Queue)
  <2>1. PICK b : b = FirstOf([i \in Queue |-> Head(series[i])])
    OBVIOUS
  <2>2. /\ b \in DOMAIN source /\ series[b] \in RowSeq /\ series[b] # << >> /\ series[b] # NoExtent
        /\ IsFirst(b, Rests, request.by)
    BY <1>0, <1>3, <2>1, UnionRowTaken
  <2>3. Opened(b) /\ Readable(b) /\ UnionFull(b)
    <3>1. b <= mem
      BY <1>0, <1>1, <2>2
    <3> QED
      BY <1>0, <2>2, <3>1, UnionSources DEF UnionPlace, Opened, Readable
  <2>4. Tail(series[b]) \in RowSeq /\ Unread(b) \in RowSeq
    BY <1>1, <2>2, HeadFacts, UnreadRows DEF RowSeq
  <2>5. CASE Tail(series[b]) # << >>
    <3>1. UnionTakes(b, Tail(series[b])) /\ source' = source
      BY <1>3, <2>1, <2>5 DEF UnionRow, UnionTakes
    <3>2. SameSources /\ \A j : Unread(j)' = Unread(j) /\ Opened(j)' = Opened(j)
      BY <1>1, <3>1, NothingRead
    <3>3. Tail(series[b]) \in Optional /\ Tail(series[b]) # NoExtent /\ RowsOf(Tail(series[b])) = Tail(series[b])
      BY <2>4, Constants DEF Optional, RowsOf
    <3>4. Tail(series[b]) \o Unread(b) = RowsOf(Tail(series[b])) \o Unread(b)'
      BY <3>2, <3>3
    <3>5. request.in[b] \notin damaged => source'[b].left \in Seq(FullRows)
      BY <2>3, <3>1 DEF UnionFull
    <3> QED
      BY <1>0, <2>2, <2>4, <2>5, <3>1, <3>2, <3>3, <3>4, <3>5, UnionTakesStep
  <2>6. CASE Tail(series[b]) = << >>
    <3>1. PICK e : Taken(b, e) /\ UnionTakes(b, e)
      <4>1. Pull(b, LAMBDA e : /\ series' = [series EXCEPT ![b] = e]
                               /\ ReturnWhenFull(Append(Started, Head(series[b])))
                               /\ UNCHANGED <<output_type, mem>>)
        BY <1>3, <2>1, <2>6 DEF UnionRow
      <4> QED
        BY <2>3, <4>1 DEF Pull, Taken, UnionTakes
    <3>2. /\ e \in Optional /\ RowsOf(e) \in RowSeq /\ SameSources /\ Unread(b)' \in RowSeq
          /\ Unread(b) = RowsOf(e) \o Unread(b)'
          /\ e = NoExtent => source'[b].left = << >>
      BY <1>1, <2>2, <3>1, TakenFacts
    <3>3. \A j \in DOMAIN source : j # b => /\ source'[j] = source[j] /\ Opened(j)' = Opened(j)
                                            /\ Unread(j)' = Unread(j)
      BY <1>1, <2>2, <3>1, TakenFacts
    <3>4. Tail(series[b]) \o Unread(b) = RowsOf(e) \o Unread(b)'
      BY <2>4, <2>6, <3>2, RowsJoin
    <3>5. request.in[b] \notin damaged => e # << >> /\ source'[b].left \in Seq(FullRows)
      <4> SUFFICES ASSUME request.in[b] \notin damaged
                   PROVE  e # << >> /\ source'[b].left \in Seq(FullRows)
        OBVIOUS
      <4>1. Extents(b) \in Seq(FullRows)
        BY <2>3 DEF UnionFull, Extents, Opened
      <4>2. source'[b].left \in Seq(FullRows) /\ (e # NoExtent => e # << >>)
        BY <1>1, <2>2, <3>1, <4>1, TakenFacts
      <4>3. NoExtent # << >>
        BY Constants, FullIsRows
      <4> QED
        BY <4>2, <4>3
    <3> QED
      BY <1>0, <2>2, <3>1, <3>2, <3>3, <3>4, <3>5, UnionTakesStep
  <2> QED
    BY <2>5, <2>6
<1> QED
  BY <1>2, <1>3

----------------------------------------------------------------------------
\* What SortedUpdateModule does to what it has left

LEMMA ProgressTypes ==
  ASSUME NEW B, NEW U, NEW b, NEW u, NEW d, Progress(B, U, b, u, d), b \in Seq(Row), u \in Seq(Row)
  PROVE  /\ CanUpdate(b, u) /\ UniquelySorted(b) /\ UniquelySorted(u)
         /\ SortedUpdate(b, u) \in Seq(Row)
BY SortedUpdateType, CanUpdateIs DEF Progress

\* It copies a row of the base.
LEMMA ProgressCopies ==
  ASSUME NEW B, NEW U, NEW b \in Seq(Row), NEW u \in Seq(Row), NEW d \in Seq(Row), NEW h \in Row,
         Progress(B, U, <<h>> \o b, u, d), Above(u, h.k)
  PROVE  Progress(B, U, b, u, d \o <<h>>)
<1>1. <<h>> \in Seq(Row) /\ <<h>> \o b \in Seq(Row) /\ ToSet(<<h>> \o b) = {h} \cup ToSet(b)
  BY ToSetFront
<1>2. CanUpdate(<<h>> \o b, u)
  BY DEF Progress
<1>3. CanUpdate(b, u) /\ SortedUpdate(<<h>> \o b, u) = <<h>> \o SortedUpdate(b, u)
  BY <1>2, UpdateCopies
<1>4. SortedUpdate(b, u) \in Seq(Row)
  BY <1>3, SortedUpdateType
<1>5. (d \o <<h>>) \o SortedUpdate(b, u) = SortedUpdate(B, U)
  <2>1. d \o SortedUpdate(<<h>> \o b, u) = SortedUpdate(B, U)
    BY DEF Progress
  <2>2. (d \o <<h>>) \o SortedUpdate(b, u) = d \o (<<h>> \o SortedUpdate(b, u))
    BY <1>1, <1>4, Assoc, SMTT(30)
  <2> QED
    BY <1>3, <2>1, <2>2
<1>6. Passed(B, b, u)
  BY <1>1 DEF Progress, Passed
<1>7. Passed(U, u, b)
  BY <1>1 DEF Progress, Passed, Above
<1> QED
  BY <1>3, <1>5, <1>6, <1>7 DEF Progress

LEMMA LeavesOfType ==
  ASSUME NEW r \in Row
  PROVE  LeavesOf(r) \in Seq(Row)
BY UpdatedRow DEF LeavesOf

\* It applies a row of the update.
LEMMA ProgressTakes ==
  ASSUME NEW B, NEW U, NEW b \in Seq(Row), NEW u \in Seq(Row), NEW d \in Seq(Row), NEW r \in Row,
         Progress(B, U, b, <<r>> \o u, d), Above(b, r.k)
  PROVE  Progress(B, U, b, u, d \o LeavesOf(r))
<1>1. ToSet(<<r>> \o u) = {r} \cup ToSet(u) /\ LeavesOf(r) \in Seq(Row)
  BY ToSetFront, LeavesOfType
<1>2. CanUpdate(b, <<r>> \o u)
  BY DEF Progress
<1>3. CanUpdate(b, u) /\ SortedUpdate(b, <<r>> \o u) = LeavesOf(r) \o SortedUpdate(b, u)
  BY <1>2, UpdateTakes
<1>4. SortedUpdate(b, u) \in Seq(Row)
  BY <1>3, SortedUpdateType
<1>5. (d \o LeavesOf(r)) \o SortedUpdate(b, u) = SortedUpdate(B, U)
  <2>1. d \o SortedUpdate(b, <<r>> \o u) = SortedUpdate(B, U)
    BY DEF Progress
  <2>2. (d \o LeavesOf(r)) \o SortedUpdate(b, u) = d \o (LeavesOf(r) \o SortedUpdate(b, u))
    BY <1>1, <1>4, Assoc, SMTT(30)
  <2> QED
    BY <1>3, <2>1, <2>2
<1>6. Passed(U, u, b)
  BY <1>1 DEF Progress, Passed
<1>7. Passed(B, b, u)
  BY <1>1 DEF Progress, Passed, Above
<1> QED
  BY <1>3, <1>5, <1>6, <1>7 DEF Progress

\* It applies a row of the update to a row of the base.
LEMMA ProgressReplaces ==
  ASSUME NEW B, NEW U, NEW b \in Seq(Row), NEW u \in Seq(Row), NEW d \in Seq(Row),
         NEW h \in Row, NEW r \in Row, h.k = r.k,
         Progress(B, U, <<h>> \o b, <<r>> \o u, d)
  PROVE  Progress(B, U, b, u, d \o LeavesOf(r)) /\ r.u # UpdateInsert
<1>1. /\ ToSet(<<h>> \o b) = {h} \cup ToSet(b) /\ ToSet(<<r>> \o u) = {r} \cup ToSet(u)
      /\ LeavesOf(r) \in Seq(Row)
  BY ToSetFront, LeavesOfType, ZenonT(60)
<1>2. CanUpdate(<<h>> \o b, <<r>> \o u)
  BY DEF Progress
<1>3. /\ CanUpdate(b, u) /\ r.u # UpdateInsert
      /\ SortedUpdate(<<h>> \o b, <<r>> \o u) = LeavesOf(r) \o SortedUpdate(b, u)
  BY <1>2, UpdateReplaces, ZenonT(60)
<1>4. SortedUpdate(b, u) \in Seq(Row)
  BY <1>3, SortedUpdateType
<1>5. (d \o LeavesOf(r)) \o SortedUpdate(b, u) = SortedUpdate(B, U)
  <2>1. d \o SortedUpdate(<<h>> \o b, <<r>> \o u) = SortedUpdate(B, U)
    BY DEF Progress
  <2>2. (d \o LeavesOf(r)) \o SortedUpdate(b, u) = d \o (LeavesOf(r) \o SortedUpdate(b, u))
    BY <1>1, <1>4, Assoc, SMTT(30)
  <2> QED
    BY <1>3, <2>1, <2>2
<1>6. Above(b, h.k) /\ Above(u, r.k)
  BY <1>2, CanUpdateIs, UniqueTail
<1>7. Passed(B, b, u)
  BY <1>1, <1>6 DEF Progress, Passed, Above
<1>8. Passed(U, u, b)
  BY <1>1, <1>6 DEF Progress, Passed, Above
<1> QED
  BY <1>3, <1>5, <1>7, <1>8 DEF Progress

LEMMA AboveFirst ==
  ASSUME NEW r \in Row, NEW s \in Seq(Row), UniquelySorted(<<r>> \o s), NEW k \in Nat, k < r.k
  PROVE  Above(<<r>> \o s, k)
<1>1. Above(s, r.k) /\ ToSet(<<r>> \o s) = {r} \cup ToSet(s)
  BY UniqueTail, ToSetFront
<1>2. \A x \in ToSet(s) : x.k \in Nat
  BY AboveTypes
<1>3. r.k \in Nat
  BY DEF Row
<1> QED
  BY <1>1, <1>2, <1>3 DEF Above

LEMMA AboveNothing == \A k : Above(<< >>, k)
  BY ToSetEmpty DEF Above

----------------------------------------------------------------------------
\* SortedUpdateModule: extents are fetched and returned

LEMMA UpdateKnown ==
  ASSUME Inv, Running("update")
  PROVE  /\ TypeInv /\ ServingInv /\ TablesInv /\ FullInv /\ status = "run" /\ request.op = "update"
         /\ 1 \in DOMAIN source /\ 2 \in DOMAIN source /\ DOMAIN source = 1..2 /\ Len(source) = 2
         /\ DOMAIN series = 1..2 /\ Len(series) = 2
         /\ StaysWhole => /\ request' = request /\ before' = before /\ tee' = tee /\ damaged' = damaged
                          /\ New' = New /\ In(1)' = In(1) /\ In(2)' = In(2)
         /\ Done \in RowSeq /\ Sent \in RowSeq
         /\ In(1) \in RowSeq /\ In(2) \in RowSeq /\ Rest(1) \in RowSeq /\ Rest(2) \in RowSeq
         /\ UpdateControl /\ UpdateOutput
         /\ CanUpdate(In(1), In(2)) => Progress(In(1), In(2), Rest(1), Rest(2), Done)
<1>1. /\ TypeInv /\ ServingInv /\ ThisOp /\ status = "run" /\ request.op = "update"
      /\ StaysWhole => request' = request /\ before' = before /\ tee' = tee /\ \A i : In(i)' = In(i)
      /\ DOMAIN source = {1, 2} /\ Len(source) = 2
  BY AtWork
<1>2. UpdateInv /\ Serving("update")
  BY <1>1 DEF ThisOp, Serving
<1>3. Done \in RowSeq /\ Sent \in RowSeq
  BY <1>1, SofarRows
<1>4. 1 \in DOMAIN source /\ 2 \in DOMAIN source /\ DOMAIN source = 1..2
  BY <1>1
<1>5. In(1) \in RowSeq /\ In(2) \in RowSeq /\ Rest(1) \in RowSeq /\ Rest(2) \in RowSeq
  BY <1>1, <1>4, InRun, UnreadRows DEF Reading
<1>6. TablesInv /\ FullInv /\ (StaysWhole => damaged' = damaged /\ before' = before /\ request' = request)
  BY DEF Inv, StaysWhole, serverVars
<1>7. StaysWhole => New' = New
  BY <1>6 DEF New
<1>8. DOMAIN series = 1..2 /\ Len(series) = 2
  BY <1>1 DEF TypeInv
<1> QED
  BY <1>1, <1>2, <1>3, <1>4, <1>5, <1>6, <1>7, <1>8 DEF UpdateInv

LEMMA UpdatePlaces ==
  ASSUME UpdateControl, NEW j \in 1..2
  PROVE  UpdatePlace(j)
<1>1. UpdatePlace(1) /\ UpdatePlace(2)
  BY DEF UpdateControl
<1>2. CASE j = 1
  BY <1>1, <1>2
<1>3. CASE j = 2
  BY <1>1, <1>3
<1> QED
  BY <1>2, <1>3

LEMMA UpdateNew ==
  ASSUME UpdateControl, New
  PROVE  /\ request.in[1] # request.in[2]
         /\ Begun => output = NoExtent /\ Exhausted(1)
         /\ Opened(1) => source[1].left = << >> /\ series[1] \in {NoExtent, << >>}
BY DEF UpdateControl

\* The same rows are left, perhaps in another place.
Refilled ==
  /\ SameSources /\ series' \in Seq(Optional) /\ Len(series') = Len(series)
  /\ \A j \in 1..2 :
       /\ Rest(j)' = Rest(j)
       /\ Exhausted(j) => Exhausted(j)'
       /\ series'[j] # NoExtent => Opened(j)'
       /\ Opened(j)' => source'[j].left \in Seq(FullRows)
       /\ series'[j] = << >> => j = 1 /\ New /\ output = NoExtent
  /\ New /\ Opened(1)' => source'[1].left = << >> /\ series'[1] \in {NoExtent, << >>}

LEMMA RefilledStays ==
  ASSUME Inv, Running("update"), StaysWhole, source' = source, series' = series
  PROVE  Refilled
<1>1. /\ TypeInv /\ UpdateControl /\ request' = request /\ before' = before
  BY UpdateKnown
<1>2. SameSources /\ \A j : Unread(j)' = Unread(j) /\ Opened(j)' = Opened(j)
  BY <1>1, NothingRead
<1>3. \A j \in 1..2 :
       /\ Rest(j)' = Rest(j)
       /\ Exhausted(j) => Exhausted(j)'
       /\ series'[j] # NoExtent => Opened(j)'
       /\ Opened(j)' => source'[j].left \in Seq(FullRows)
       /\ series'[j] = << >> => j = 1 /\ New /\ output = NoExtent
  BY <1>1, <1>2, UpdatePlaces DEF UpdatePlace, Rest, RowsOf, Exhausted
<1>4. New /\ Opened(1)' => source'[1].left = << >> /\ series'[1] \in {NoExtent, << >>}
  BY <1>1, <1>2 DEF UpdateControl
<1>5. series' \in Seq(Optional) /\ Len(series') = Len(series)
  BY <1>1 DEF TypeInv
<1> QED
  BY <1>2, <1>3, <1>4, <1>5 DEF Refilled

\* The base table and the update have no extent without rows, unless the base
\* was just created.
LEMMA UpdateExtents ==
  ASSUME Inv, Running("update"), NEW i \in 1..2, Readable(i)
  PROVE  /\ \/ Extents(i) \in Seq(FullRows)
            \/ i = 1 /\ New /\ ~Opened(1) /\ Extents(1) = << << >> >>
         /\ New /\ i = 1 /\ ~Opened(1) => Extents(1) = << << >> >>
<1>1. /\ TypeInv /\ ServingInv /\ FullInv /\ UpdateControl /\ status = "run" /\ request.op = "update"
      /\ i \in DOMAIN source
  BY UpdateKnown
<1>2. CASE Opened(i)
  BY <1>1, <1>2, UpdatePlaces DEF UpdatePlace, Extents, Opened
<1>3. CASE ~Opened(i)
  <2> DEFINE t == request.in[i]
  <2>1. i \in DOMAIN request.in /\ t \in Tables /\ source[i].table = t
    BY <1>1, InRun DEF Reading
  <2>2. info[t] # MissingType
    BY <1>1, SourceListed DEF Reading
  <2>3. CASE ~Written(t)
    <3>1. files[t].extents \in Seq(FullRows)
      BY <1>1, <2>1, <2>2, <2>3 DEF FullInv
    <3>2. Extents(i) \in Seq(FullRows)
      BY <1>3, <2>1, <3>1, FullIsRows DEF Extents, Opened
    <3>3. ~(New /\ i = 1)
      BY <1>1, <2>3 DEF Written, Busy
    <3> QED
      BY <3>2, <3>3
  <2>4. CASE Written(t)
    <3>1. New /\ t = request.in[1]
      BY <1>1, <2>4 DEF Written, Truncates
    <3>2. i = 1
      <4>1. request.in[1] # request.in[2]
        BY <1>1, <3>1, UpdateNew
      <4> QED
        BY <3>1, <4>1
    <3>4. files[t] = Created /\ source[i].type = NewType
      BY <1>1, <3>1, <3>2, SourceListed DEF Reading
    <3>5. Created.type = NewType /\ Created.extents = << << >> >>
      BY DEF Created
    <3>6. Extents(i) = << << >> >>
      BY <1>3, <2>1, <3>4, <3>5 DEF Extents, Opened
    <3> QED
      BY <1>3, <3>1, <3>2, <3>6
  <2> QED
    BY <2>3, <2>4
<1> QED
  BY <1>2, <1>3

LEMMA RefilledPull ==
  ASSUME Inv, Running("update"), StaysWhole, NEW i \in 1..2, NEW e, series[i] = NoExtent, Taken(i, e),
         Replaced(series, i, e, series', Optional)
  PROVE  Refilled /\ Opened(i)' /\ series'[i] = e /\ (e = NoExtent => Exhausted(i)')
<1>1. /\ TypeInv /\ ServingInv /\ UpdateControl /\ request' = request /\ before' = before
      /\ i \in DOMAIN source /\ DOMAIN source = 1..2 /\ DOMAIN series = 1..2 /\ status = "run"
  BY UpdateKnown
<1>2. /\ e \in Optional /\ RowsOf(e) \in RowSeq /\ SameSources /\ Opened(i)'
      /\ Unread(i) = RowsOf(e) \o Unread(i)' /\ Unread(i) \in RowSeq
      /\ e = NoExtent => source'[i].left = << >>
  BY <1>1, TakenFacts
<1>3. \A j \in DOMAIN source : j # i => /\ source'[j] = source[j] /\ Opened(j)' = Opened(j)
                                        /\ Unread(j)' = Unread(j)
  BY <1>1, TakenFacts
<1>4. /\ series' \in Seq(Optional) /\ Len(series') = Len(series) /\ series'[i] = e
      /\ \A j \in 1..2 : j # i => series'[j] = series[j]
  BY <1>1 DEF Replaced
<1>5. NoExtent # << >>
  BY Constants, FullIsRows
<1>6. \/ source'[i].left \in Seq(FullRows) /\ e # << >> /\ ~(New /\ i = 1 /\ ~Opened(1))
      \/ i = 1 /\ New /\ ~Opened(1) /\ e = << >> /\ source'[1].left = << >>
  <2>1. CASE Extents(i) \in Seq(FullRows) /\ ~(New /\ i = 1 /\ ~Opened(1))
    <3>1. source'[i].left \in Seq(FullRows) /\ (e # NoExtent => e # << >>)
      BY <1>1, <2>1, TakenFacts
    <3> QED
      BY <1>5, <2>1, <3>1
  <2>2. CASE i = 1 /\ New /\ ~Opened(1) /\ Extents(1) = << << >> >>
    <3>1. Extents(i) # << >> /\ Head(Extents(i)) = << >> /\ Tail(Extents(i)) = << >>
      <4>1. \A z : <<z>> # << >> /\ Head(<<z>>) = z /\ Tail(<<z>>) = << >>
        OBVIOUS
      <4>2. Extents(i) = << << >> >>
        BY <2>2
      <4> HIDE <2>2
      <4> QED
        BY <4>1, <4>2
    <3>2. e = << >> /\ source' = [source EXCEPT ![i].left = << >>]
      BY <3>1 DEF Taken
    <3>3. source'[i].left = << >>
      BY <1>1, <3>2, FullIsRows, LeftSet
    <3> QED
      BY <2>2, <3>2, <3>3
  <2>3. Readable(i)
    BY DEF Taken
  <2> QED
    BY <2>1, <2>2, <2>3, UpdateExtents
<1>7. \A j \in 1..2 : Rest(j)' = Rest(j)
  <2> SUFFICES ASSUME NEW j \in 1..2 PROVE Rest(j)' = Rest(j)
    OBVIOUS
  <2>1. CASE j = i
    <3>1. Rest(i) = Unread(i)
      BY <1>2, RowsJoin DEF Rest, RowsOf
    <3>2. Rest(i)' = RowsOf(e) \o Unread(i)'
      BY <1>4 DEF Rest, RowsOf
    <3> QED
      BY <1>2, <2>1, <3>1, <3>2
  <2>2. CASE j # i
    BY <1>1, <1>3, <1>4, <2>2 DEF Rest, RowsOf
  <2> QED
    BY <2>1, <2>2
<1>8. Exhausted(i) => e = NoExtent
  <2> SUFFICES ASSUME Exhausted(i) PROVE e = NoExtent
    OBVIOUS
  <2>1. source[i].left = << >>
    BY DEF Exhausted
  <2>2. << >> # NotOpened
    BY Constants, FullIsRows
  <2> QED
    BY <2>1, <2>2 DEF Taken, Extents
<1>9. e = NoExtent => Exhausted(i)'
  BY <1>2, <1>4 DEF Exhausted
<1>10. ASSUME NEW j \in 1..2
       PROVE  /\ Exhausted(j) => Exhausted(j)'
              /\ series'[j] # NoExtent => Opened(j)'
              /\ Opened(j)' => source'[j].left \in Seq(FullRows)
              /\ series'[j] = << >> => j = 1 /\ New /\ output = NoExtent
  <2>1. CASE j = i
    BY <1>1, <1>2, <1>4, <1>6, <1>8, <1>9, <2>1, FullIsRows DEF UpdateControl
  <2>2. CASE j # i
    <3>1. UpdatePlace(j) /\ source'[j] = source[j] /\ Opened(j)' = Opened(j) /\ series'[j] = series[j]
      BY <1>1, <1>3, <1>4, <2>2, UpdatePlaces
    <3> QED
      BY <3>1 DEF UpdatePlace, Exhausted
  <2> QED
    BY <2>1, <2>2
<1>11. New /\ Opened(1)' => source'[1].left = << >> /\ series'[1] \in {NoExtent, << >>}
  <2> SUFFICES ASSUME New, Opened(1)'
               PROVE  source'[1].left = << >> /\ series'[1] \in {NoExtent, << >>}
    OBVIOUS
  <2>1. CASE i = 1
    <3>1. CASE Opened(1)
      <4>1. Exhausted(1)
        BY <1>1, <2>1, <3>1 DEF UpdateControl, Exhausted
      <4> QED
        BY <1>8, <1>9, <2>1, <4>1 DEF Exhausted
    <3>2. CASE ~Opened(1)
      BY <1>4, <1>6, <2>1, <3>2
    <3> QED
      BY <3>1, <3>2
  <2>2. CASE i # 1
    <3>1. source'[1] = source[1] /\ Opened(1)' = Opened(1) /\ series'[1] = series[1]
      BY <1>1, <1>3, <1>4, <2>2
    <3>2. source[1].left = << >> /\ series[1] \in {NoExtent, << >>}
      BY <1>1, <3>1, UpdateNew
    <3> QED
      BY <3>1, <3>2
  <2> QED
    BY <2>1, <2>2
<1> QED
  BY <1>2, <1>4, <1>7, <1>9, <1>10, <1>11 DEF Refilled

\* Where the module may be, when the sources are as they must be
Placed ==
  /\ mem \in {"base", "update", "merge", "base only", "update only"}
  /\ status = "returned" => mem = "base"
  /\ mem = "merge" \/ mem = "update" => series[1] # NoExtent \/ Exhausted(1)
  /\ mem = "merge" => series[2] # NoExtent \/ Exhausted(2)
  /\ series[1] = << >> => output = NoExtent /\ mem \in {"base", "update", "merge"}
  /\ ~Opened(1) => mem = "base" /\ output = NoExtent
  /\ mem = "base only" => output # NoExtent /\ Exhausted(2)
  /\ mem = "update only" => output # NoExtent /\ Exhausted(1)
  /\ New /\ Begun => output = NoExtent /\ Exhausted(1)

LEMMA ControlPlaced ==
  ASSUME UpdateControl
  PROVE  /\ mem \in {"base", "update", "merge", "base only", "update only"}
         /\ mem = "merge" \/ mem = "update" => series[1] # NoExtent \/ Exhausted(1)
         /\ mem = "merge" => series[2] # NoExtent \/ Exhausted(2)
         /\ series[1] = << >> => output = NoExtent /\ mem \in {"base", "update", "merge"} /\ New
         /\ series[2] # << >>
         /\ ~Opened(1) => mem = "base" /\ output = NoExtent
         /\ mem = "base only" => output # NoExtent /\ Exhausted(2)
         /\ mem = "update only" => output # NoExtent /\ Exhausted(1)
         /\ New /\ Begun => output = NoExtent /\ Exhausted(1)
BY DEF UpdateControl, UpdatePlace

LEMMA RefilledControl ==
  ASSUME Inv, Running("update"), StaysWhole, Refilled, Placed'
  PROVE  UpdateControl'
<1>1. /\ UpdateControl /\ request' = request /\ before' = before /\ New' = New
      /\ In(1)' = In(1) /\ In(2)' = In(2)
  BY UpdateKnown
<1>2. \A j \in 1..2 :
       /\ Rest(j)' = Rest(j)
       /\ series'[j] # NoExtent => Opened(j)'
       /\ Opened(j)' => source'[j].left \in Seq(FullRows)
       /\ series'[j] = << >> => j = 1 /\ New /\ output = NoExtent
  BY DEF Refilled
<1>3. UpdatePlace(1)'
  <2>1. ToSet(Rest(1)) \subseteq ToSet(In(1))
    BY <1>1 DEF UpdateControl, UpdatePlace
  <2>2. ToSet(Rest(1)') \subseteq ToSet(In(1)')
    BY <1>1, <1>2, <2>1
  <2>3. /\ series'[1] # NoExtent => Opened(1)'
        /\ Opened(1)' => source'[1].left \in Seq(FullRows)
        /\ series'[1] = << >> => 1 = 1 /\ New' /\ output' = NoExtent /\ mem' \in {"base", "update", "merge"}
    <3>1. /\ series'[1] # NoExtent => Opened(1)'
          /\ Opened(1)' => source'[1].left \in Seq(FullRows)
          /\ series'[1] = << >> => 1 = 1 /\ New
      BY <1>2
    <3>2. series'[1] = << >> => output' = NoExtent /\ mem' \in {"base", "update", "merge"}
      BY DEF Placed
    <3> QED
      BY <1>1, <3>1, <3>2
  <2>4. mem' = "merge" \/ (mem' = "update" /\ 1 = 1) => series'[1] # NoExtent \/ Exhausted(1)'
    BY DEF Placed
  <2> QED
    BY <2>2, <2>3, <2>4 DEF UpdatePlace
<1>4. UpdatePlace(2)'
  <2>1. ToSet(Rest(2)) \subseteq ToSet(In(2))
    BY <1>1 DEF UpdateControl, UpdatePlace
  <2>2. ToSet(Rest(2)') \subseteq ToSet(In(2)')
    BY <1>1, <1>2, <2>1
  <2>3. /\ series'[2] # NoExtent => Opened(2)'
        /\ Opened(2)' => source'[2].left \in Seq(FullRows)
        /\ series'[2] = << >> => 2 = 1 /\ New' /\ output' = NoExtent /\ mem' \in {"base", "update", "merge"}
    <3>1. /\ series'[2] # NoExtent => Opened(2)'
          /\ Opened(2)' => source'[2].left \in Seq(FullRows)
          /\ series'[2] = << >> => 2 = 1 /\ New
      BY <1>2
    <3>2. series'[1] = << >> => output' = NoExtent /\ mem' \in {"base", "update", "merge"}
      BY DEF Placed
    <3> QED
      BY <1>1, <3>1, <3>2
  <2>4. mem' = "merge" \/ (mem' = "update" /\ 2 = 1) => series'[2] # NoExtent \/ Exhausted(2)'
    BY DEF Placed
  <2> QED
    BY <2>2, <2>3, <2>4 DEF UpdatePlace
<1>5. New' => /\ request'.in[1] # request'.in[2]
              /\ Begun' => output' = NoExtent /\ Exhausted(1)'
              /\ Opened(1)' => source'[1].left = << >> /\ series'[1] \in {NoExtent, << >>}
  <2>1. New => request.in[1] # request.in[2]
    BY <1>1, UpdateNew
  <2>2. New /\ Opened(1)' => source'[1].left = << >> /\ series'[1] \in {NoExtent, << >>}
    BY DEF Refilled
  <2> QED
    BY <1>1, <2>1, <2>2 DEF Placed
<1> QED
  BY <1>3, <1>4, <1>5 DEF UpdateControl, Placed

\* The module goes on with the rows that it had.
LEMMA UpdateGoesOn ==
  ASSUME Inv, Running("update"), StaysWhole, Refilled, Placed',
         status' = "run", returned' = returned, output_type' = output_type,
         output' = output \/ output' = Started
  PROVE  Inv'
<1>1. /\ TypeInv /\ UpdateOutput /\ status = "run" /\ request.op = "update"
      /\ request' = request /\ tee' = tee /\ In(1)' = In(1) /\ In(2)' = In(2)
      /\ CanUpdate(In(1), In(2)) => Progress(In(1), In(2), Rest(1), Rest(2), Done)
      /\ Sent \in RowSeq
  BY UpdateKnown
<1>2. output' \in Optional /\ (output' = NoExtent => output = NoExtent) /\ RowsOf(output') = RowsOf(output)
  <2>1. output \in Optional /\ Started = RowsOf(output) /\ Started \in RowSeq /\ NoExtent \notin RowSeq
    BY <1>1, SofarRows, Constants DEF TypeInv
  <2> QED
    BY <2>1 DEF Optional, RowsOf
<1>3. Sent' = Sent /\ Done' = Sent \o RowsOf(output') /\ ~Ends' /\ ~Returns'
  BY <1>1, DoneKept
<1>4. Done' = Done
  BY <1>2, <1>3 DEF Done
<1>5. /\ Rest(1)' = Rest(1) /\ Rest(2)' = Rest(2) /\ SameSources
      /\ Exhausted(1) => Exhausted(1)' /\ (Exhausted(2) => Exhausted(2)')
      /\ series' \in Seq(Optional) /\ Len(series') = Len(series)
  BY DEF Refilled
<1>6. UpdateOutput'
  BY <1>1, <1>2, <1>3, <1>4, <1>5 DEF UpdateOutput
<1>7. UpdateInv'
  <2>1. CanUpdate(In(1)', In(2)') => Progress(In(1)', In(2)', Rest(1)', Rest(2)', Done')
    BY <1>1, <1>4, <1>5
  <2>2. UpdateControl'
    BY RefilledControl
  <2> QED
    BY <1>6, <2>1, <2>2 DEF UpdateInv
<1>8. Steady
  BY <1>1, <1>2, <1>5 DEF Steady, StaysWhole, TypeInv
<1> QED
  BY <1>1, <1>3, <1>7, <1>8, StepKeeps DEF ThisOp

\* The module returns what it made.
LEMMA UpdateReturns ==
  ASSUME Inv, Running("update"), StaysWhole, Refilled, ReturnOutput, mem' = "base",
         output_type' = output_type,
         output = NoExtent => Exhausted(1)' \/ Exhausted(2)',
         output # NoExtent => Len(output) >= Limit \/ (Exhausted(1)' /\ Exhausted(2)'),
         output # NoExtent /\ New => Exhausted(1)',
         ~Opened(1)' => output = NoExtent
  PROVE  Inv'
<1>1. /\ TypeInv /\ UpdateOutput /\ UpdateControl /\ status = "run" /\ request.op = "update"
      /\ request' = request /\ tee' = tee /\ In(1)' = In(1) /\ In(2)' = In(2) /\ New' = New
      /\ CanUpdate(In(1), In(2)) => Progress(In(1), In(2), Rest(1), Rest(2), Done)
      /\ Sent \in RowSeq
  BY UpdateKnown
<1>2. /\ Done' = Done /\ output' = NoExtent /\ status' = "returned" /\ returned' = output
      /\ Ends' <=> output = NoExtent
      /\ Returns' <=> output # NoExtent
  BY <1>1, OutputReturned
<1>3. /\ Rest(1)' = Rest(1) /\ Rest(2)' = Rest(2) /\ SameSources
      /\ Exhausted(1) => Exhausted(1)' /\ (Exhausted(2) => Exhausted(2)')
      /\ series' \in Seq(Optional) /\ Len(series') = Len(series)
  BY DEF Refilled
<1>4. Placed'
  <2>1. New' /\ Begun' => Exhausted(1)'
    <3>1. New /\ tee.type # NullType => Exhausted(1)
      BY <1>1, UpdateNew DEF Begun
    <3> QED
      BY <1>1, <1>2, <1>3, <3>1 DEF Begun
  <2> QED
    BY <1>2, <2>1 DEF Placed
<1>5. UpdateOutput'
  <2>1. output # NoExtent => Len(Done') >= Limit \/ (Exhausted(1)' /\ Exhausted(2)')
    <3>1. CASE output # NoExtent
      <4>1. output \in RowSeq /\ Done' = Sent \o output
        BY <1>1, <1>2, <3>1 DEF Done, RowsOf, TypeInv, Optional
      <4>2. Len(Sent \o output) = Len(Sent) + Len(output) /\ Len(Sent) \in Nat /\ Len(output) \in Nat
        BY <1>1, <4>1 DEF RowSeq
      <4> QED
        BY <3>1, <4>1, <4>2, Constants
    <3> QED
      BY <3>1
  <2>2. output = NoExtent => \/ Rest(1)' = In(1)' /\ Rest(2)' = In(2)'
                             \/ Len(Done') >= Limit
                             \/ Exhausted(1)' /\ Exhausted(2)'
    BY <1>1, <1>2, <1>3 DEF UpdateOutput
  <2> QED
    BY <1>2, <2>1, <2>2 DEF UpdateOutput
<1>6. UpdateInv'
  <2>1. CanUpdate(In(1)', In(2)') => Progress(In(1)', In(2)', Rest(1)', Rest(2)', Done')
    BY <1>1, <1>2, <1>3
  <2>2. UpdateControl'
    BY <1>4, RefilledControl
  <2> QED
    BY <1>5, <2>1, <2>2 DEF UpdateInv
<1>7. Steady
  BY <1>1, <1>2, <1>3 DEF Steady, StaysWhole, TypeInv, Optional
<1> QED
  BY <1>1, <1>2, <1>6, <1>7, StepKeeps DEF ThisOp

LEMMA FetchStep ==
  ASSUME Inv, StaysWhole, NEW i \in 1..2, NEW at, NEW next,
         (i = 1 /\ at = "base" /\ next = "update") \/ (i = 2 /\ at = "update" /\ next = "merge"),
         Fetch(i, at, next)
  PROVE  Inv'
<1>0. Running("update") /\ mem = at
  BY DEF Fetch
<1>1. /\ TypeInv /\ ServingInv /\ UpdateControl /\ status = "run" /\ New' = New /\ tee' = tee
      /\ DOMAIN series = 1..2 /\ Len(series) = 2 /\ i \in DOMAIN source
      /\ request' = request /\ before' = before
  BY <1>0, UpdateKnown
<1>2. \/ next = "update" /\ i = 1
      \/ next = "merge" /\ i = 2 /\ mem = "update"
  BY <1>0
<1>3. ASSUME Refilled, status' = "run", output' = output, returned' = returned, output_type' = output_type,
             mem' = next, Opened(i)', series'[i] # NoExtent \/ Exhausted(i)',
             i = 2 => series'[1] = series[1] /\ Opened(1)' = Opened(1)
      PROVE  Inv'
  <2>1. Placed'
    <3>1. mem' = "merge" \/ mem' = "update" => series'[1] # NoExtent \/ Exhausted(1)'
      <4>1. i = 2 => series[1] # NoExtent \/ Exhausted(1)
        BY <1>1, <1>2, ControlPlaced
      <4>2. Exhausted(1) => Exhausted(1)'
        BY <1>3 DEF Refilled
      <4> QED
        BY <1>2, <1>3, <4>1, <4>2
    <3>2. mem' = "merge" => series'[2] # NoExtent \/ Exhausted(2)'
      BY <1>2, <1>3
    <3>3. series'[1] = << >> => output' = NoExtent
      BY <1>3 DEF Refilled
    <3>4. Opened(1)'
      BY <1>0, <1>1, <1>2, <1>3, ControlPlaced
    <3>5. New' /\ Begun' => output' = NoExtent /\ Exhausted(1)'
      <4>1. Begun' => Begun
        BY <1>1, <1>3 DEF Begun, Returns
      <4> QED
        <5>1. New /\ Begun => output = NoExtent /\ Exhausted(1)
          BY <1>1, UpdateNew
        <5>2. Exhausted(1) => Exhausted(1)'
          BY <1>3 DEF Refilled
        <5> QED
          BY <1>1, <1>3, <4>1, <5>1, <5>2
    <3> QED
      BY <1>2, <1>3, <3>1, <3>2, <3>3, <3>4, <3>5 DEF Placed
  <2> QED
    BY <1>0, <1>3, <2>1, UpdateGoesOn
<1>4. CASE series[i] # NoExtent
  <2>1. mem' = next /\ UNCHANGED <<status, source, series, output, output_type, returned>>
    BY <1>4 DEF Fetch, Missing
  <2>2. Refilled /\ Opened(i)'
    <3>1. Refilled
      BY <1>0, <2>1, RefilledStays
    <3> QED
      BY <1>4, <2>1, <3>1 DEF Refilled
  <2>3. Opened(1)' = Opened(1)
    BY <2>1 DEF Opened
  <2> QED
    BY <1>1, <1>3, <1>4, <2>1, <2>2, <2>3
<1>5. CASE series[i] = NoExtent /\ ~Readable(i)
  <2>1. Die
    BY <1>5 DEF Fetch, Missing, Pull
  <2> QED
    BY <1>1, <1>5, <2>1, Unreadable, DiesFatally
<1>6. CASE series[i] = NoExtent /\ Readable(i)
  <2>1. PICK e : /\ Taken(i, e)
                 /\ series' = [series EXCEPT ![i] = e]
                 /\ mem' = next
                 /\ GoOn /\ UNCHANGED <<output, output_type>>
    BY <1>6 DEF Fetch, Missing, Pull, Taken
  <2>2. e \in Optional
    BY <1>1, <2>1, TakenFacts
  <2>3. Replaced(series, i, e, series', Optional)
    BY <1>1, <2>1, <2>2, ReplaceOne DEF TypeInv
  <2>4. Refilled /\ Opened(i)' /\ series'[i] = e /\ (e = NoExtent => Exhausted(i)')
    BY <1>0, <1>6, <2>1, <2>3, RefilledPull
  <2>5. i = 2 => series'[1] = series[1] /\ Opened(1)' = Opened(1)
    <3>1. \A j \in DOMAIN source : j # i => Opened(j)' = Opened(j)
      BY <1>1, <2>1, TakenFacts
    <3>2. 1 \in DOMAIN source
      BY <1>0, UpdateKnown
    <3>3. \A j \in DOMAIN series : j # i => series'[j] = series[j]
      BY <2>3 DEF Replaced
    <3> QED
      BY <1>1, <3>1, <3>2, <3>3
  <2> QED
    BY <1>1, <1>3, <2>1, <2>4, <2>5 DEF GoOn
<1> QED
  BY <1>4, <1>5, <1>6

LEMMA FetchBaseStep ==
  ASSUME Inv, FetchBase, StaysWhole
  PROVE  Inv'
BY FetchStep DEF FetchBase

LEMMA FetchUpdateStep ==
  ASSUME Inv, FetchUpdate, StaysWhole
  PROVE  Inv'
BY FetchStep DEF FetchUpdate

LEMMA MergeEndsStep ==
  ASSUME Inv, MergeEnds, StaysWhole
  PROVE  Inv'
<1>0. Running("update") /\ mem = "merge" /\ (series[1] = NoExtent \/ series[2] = NoExtent)
  BY DEF MergeEnds, Missing, Base, Update
<1>1. /\ TypeInv /\ UpdateControl /\ status = "run" /\ New' = New /\ tee' = tee
      /\ 1 \in DOMAIN source /\ 2 \in DOMAIN source
      /\ request' = request /\ before' = before
  BY <1>0, UpdateKnown
<1>2. /\ series[1] = NoExtent => Exhausted(1)
      /\ series[2] = NoExtent => Exhausted(2)
      /\ Opened(1)
      /\ series[1] = << >> => output = NoExtent
      /\ New /\ Begun => output = NoExtent /\ Exhausted(1)
  BY <1>0, <1>1, ControlPlaced
<1>3. source' = source /\ series' = series /\ output_type' = output_type
  BY DEF MergeEnds, ReturnUpdated
<1>4. Refilled /\ Opened(1)' /\ Exhausted(1)' = Exhausted(1) /\ Exhausted(2)' = Exhausted(2)
  BY <1>0, <1>2, <1>3, RefilledStays DEF Opened, Exhausted
<1>5. CASE output # NoExtent /\ Small(output) /\ ~(series[1] = NoExtent /\ series[2] = NoExtent)
  <2>1. /\ mem' = IF series[2] = NoExtent THEN "base only" ELSE "update only"
        /\ status' = "run" /\ output' = output /\ returned' = returned
    BY <1>1, <1>5 DEF MergeEnds, Missing, Base, Update
  <2>2. Begun' => Begun
    BY <1>1, <2>1 DEF Begun, Returns
  <2>3. Placed'
    BY <1>0, <1>1, <1>2, <1>3, <1>4, <1>5, <2>1, <2>2 DEF Placed
  <2> QED
    BY <1>0, <1>3, <1>4, <2>1, <2>3, UpdateGoesOn
<1>6. CASE ~(output # NoExtent /\ Small(output) /\ ~(series[1] = NoExtent /\ series[2] = NoExtent))
  <2>1. ReturnOutput /\ mem' = "base"
    BY <1>6 DEF MergeEnds, Missing, Base, Update, ReturnUpdated
  <2>2. output # NoExtent => Len(output) >= Limit \/ (Exhausted(1) /\ Exhausted(2))
    <3>1. output # NoExtent => output \in RowSeq /\ Len(output) \in Nat
      BY <1>1 DEF TypeInv, Optional, RowSeq
    <3> QED
      BY <1>2, <1>6, <3>1, Constants DEF Small
  <2>3. output # NoExtent /\ New => Exhausted(1)
    BY <1>1, <1>2, UpdateNew DEF Exhausted
  <2> QED
    BY <1>0, <1>2, <1>3, <1>4, <2>1, <2>2, <2>3, UpdateReturns
<1> QED
  BY <1>5, <1>6

----------------------------------------------------------------------------
\* SortedUpdateModule: rows are used up

LEMMA AdvancedIs ==
  ASSUME NEW s \in RowSeq, s # << >>, NEW z \in RowSeq
  PROVE  /\ Advanced(s) \in Optional /\ Advanced(s) # << >> /\ Head(s) \in Row
         /\ RowsOf(s) \o z = <<Head(s)>> \o (RowsOf(Advanced(s)) \o z)
         /\ RowsOf(Advanced(s)) \o z \in RowSeq
<1>1. /\ Head(s) \in Row /\ Tail(s) \in Seq(Row) /\ s = <<Head(s)>> \o Tail(s) /\ <<Head(s)>> \in Seq(Row)
      /\ Len(s) \in Nat /\ Len(s) > 0 /\ Len(Tail(s)) = Len(s) - 1
  BY HeadFacts DEF RowSeq
<1>2. RowsOf(s) = s /\ NoExtent \notin RowSeq /\ NoExtent # << >>
  BY Constants, FullIsRows DEF RowsOf
<1>3. RowsOf(Advanced(s)) = Tail(s) /\ Advanced(s) \in Optional /\ Advanced(s) # << >>
  <2> DEFINE t == Tail(s)
  <2>1. t \in Seq(Row) /\ Len(t) = Len(s) - 1 /\ Len(s) \in Nat
    BY <1>1
  <2> HIDE DEF t
  <2>2. t = << >> <=> Len(s) = 1
    BY <2>1, SMTT(30)
  <2>3. t \in RowSeq
    BY <2>1 DEF RowSeq
  <2>4. CASE Len(s) = 1
    BY <1>2, <2>2, <2>4 DEF Advanced, RowsOf, Optional, t
  <2>5. CASE Len(s) # 1
    BY <1>2, <2>2, <2>3, <2>5 DEF Advanced, RowsOf, Optional, t
  <2> QED
    BY <2>4, <2>5
<1>4. PICK h, t : h = <<Head(s)>> /\ t = Tail(s)
  OBVIOUS
<1>5. h \in RowSeq /\ t \in RowSeq /\ s = h \o t
  BY <1>1, <1>4 DEF RowSeq
<1>6. (h \o t) \o z = h \o (t \o z) /\ t \o z \in RowSeq
  BY <1>5, RowsAssoc, RowsJoin
<1> QED
  BY <1>1, <1>2, <1>3, <1>4, <1>5, <1>6

\* A row of base, of update, or of both is used up.
RowUsed ==
  /\ UNCHANGED <<source, output_type, returned>> /\ status' = "run"
  /\ output' \in RowSeq
  /\ series' \in Seq(Optional) /\ Len(series') = Len(series)
  /\ \A j \in 1..2 :
       series'[j] = series[j] \/ (series[j] \in FullRows /\ series'[j] = Advanced(series[j]))
  /\ \/ mem = "merge" /\ mem' = "base" /\ series[1] \notin {NoExtent, << >>} /\ series[2] # NoExtent
     \/ mem = "base only" /\ mem' = mem /\ series'[2] = series[2]
     \/ mem = "update only" /\ mem' = mem /\ series'[1] = series[1]

LEMMA RowUsedRests ==
  ASSUME Inv, Running("update"), StaysWhole, RowUsed, NEW j \in 1..2
  PROVE  /\ Rest(j)' \in RowSeq /\ ToSet(Rest(j)') \subseteq ToSet(In(j))
         /\ series'[j] = series[j] => Rest(j)' = Rest(j)
         /\ series'[j] # series[j] => series[j] \in FullRows /\ Rest(j) = <<Head(series[j])>> \o Rest(j)'
<1>1. /\ TypeInv /\ ServingInv /\ UpdateControl /\ status = "run" /\ request' = request /\ before' = before
      /\ j \in DOMAIN source /\ Rest(1) \in RowSeq /\ Rest(2) \in RowSeq
  BY UpdateKnown
<1>2. Unread(j)' = Unread(j) /\ Unread(j) \in RowSeq
  BY <1>1, NothingRead, UnreadRows DEF RowUsed
<1>3. ToSet(Rest(j)) \subseteq ToSet(In(j)) /\ Rest(j) \in RowSeq
  <2>1. UpdatePlace(j)
    BY <1>1, UpdatePlaces
  <2>2. j = 1 \/ j = 2
    OBVIOUS
  <2> QED
    BY <1>1, <2>1, <2>2 DEF UpdatePlace
<1>4. CASE series'[j] = series[j]
  BY <1>2, <1>3, <1>4 DEF Rest, RowsOf
<1>5. CASE series'[j] # series[j]
  <2>1. series[j] \in FullRows /\ series'[j] = Advanced(series[j])
    BY <1>5 DEF RowUsed
  <2>2. series[j] \in RowSeq /\ series[j] # << >>
    BY <2>1 DEF FullRows
  <2>3. Rest(j) = RowsOf(series[j]) \o Unread(j) /\ Rest(j)' = RowsOf(Advanced(series[j])) \o Unread(j)
    BY <1>2, <2>1 DEF Rest, RowsOf
  <2>4. /\ Head(series[j]) \in Row /\ Rest(j) = <<Head(series[j])>> \o Rest(j)' /\ Rest(j)' \in RowSeq
    BY <1>2, <2>2, <2>3, AdvancedIs
  <2>5. ToSet(Rest(j)) = {Head(series[j])} \cup ToSet(Rest(j)')
    BY <2>4, ToSetFront DEF RowSeq
  <2> QED
    BY <1>3, <1>5, <2>1, <2>4, <2>5
<1> QED
  BY <1>4, <1>5

LEMMA RowUsedKeeps ==
  ASSUME Inv, Running("update"), StaysWhole, RowUsed,
         CanUpdate(In(1), In(2)) => Progress(In(1), In(2), Rest(1)', Rest(2)', Done')
  PROVE  Inv'
<1>1. /\ TypeInv /\ UpdateControl /\ status = "run" /\ request.op = "update"
      /\ request' = request /\ before' = before /\ tee' = tee
      /\ In(1)' = In(1) /\ In(2)' = In(2) /\ New' = New
      /\ DOMAIN source = 1..2
  BY UpdateKnown
<1>2. /\ source' = source /\ output_type' = output_type /\ returned' = returned /\ status' = "run"
      /\ output' \in RowSeq /\ series' \in Seq(Optional) /\ Len(series') = Len(series)
  BY DEF RowUsed
<1>3. SameSources /\ \A j : Opened(j)' = Opened(j)
  BY <1>1, <1>2, NothingRead
<1>4. output' # NoExtent /\ output' \in Optional
  BY <1>2, Constants DEF Optional
<1>5. ~Ends' /\ ~Returns' /\ (Begun' => Begun)
  BY <1>1, <1>2 DEF Ends, Returns, Begun
<1>6. \/ mem = "merge" /\ mem' = "base" /\ series[1] \notin {NoExtent, << >>} /\ series[2] # NoExtent
      \/ mem = "base only" /\ mem' = mem /\ series'[2] = series[2] /\ output # NoExtent
      \/ mem = "update only" /\ mem' = mem /\ series'[1] = series[1] /\ output # NoExtent
  BY <1>1, ControlPlaced DEF RowUsed
<1>7. \A j \in 1..2 : series[j] # << >>
  <2>1. series[1] = << >> => output = NoExtent
    BY <1>1, ControlPlaced
  <2>2. series[2] # << >>
    BY <1>1, ControlPlaced
  <2>3. series[1] # << >>
    BY <1>6, <2>1
  <2> QED
    BY <2>2, <2>3
<1>8. ASSUME NEW j \in 1..2
      PROVE  /\ series'[j] # << >> /\ (series'[j] # NoExtent => series[j] # NoExtent)
             /\ series[j] = NoExtent => series'[j] = NoExtent
  <2>1. CASE series'[j] = series[j]
    BY <1>7, <2>1
  <2>2. CASE series'[j] # series[j]
    <3>1. series[j] \in RowSeq /\ series[j] # << >> /\ series'[j] = Advanced(series[j])
      BY <2>2 DEF RowUsed, FullRows
    <3> QED
      BY <3>1, AdvancedIs, FullIsRows, Constants
  <2> QED
    BY <2>1, <2>2
<1>9. ASSUME NEW j \in 1..2
      PROVE  UpdatePlace(j)'
  <2>1. UpdatePlace(j)
    BY <1>1, UpdatePlaces
  <2>2. ToSet(Rest(j)') \subseteq ToSet(In(j)')
    <3>1. ToSet(Rest(j)') \subseteq ToSet(In(j))
      BY RowUsedRests
    <3>2. In(j)' = In(j)
      BY <1>1
    <3> QED
      BY <3>1, <3>2
  <2>3. Opened(j)' = Opened(j) /\ source'[j] = source[j]
    BY <1>2, <1>3
  <2>4. series'[j] # NoExtent => Opened(j)'
    BY <1>8, <2>1, <2>3 DEF UpdatePlace
  <2>5. Opened(j)' => source'[j].left \in Seq(FullRows)
    BY <2>1, <2>3 DEF UpdatePlace
  <2>6. ~(mem' = "merge" \/ (mem' = "update" /\ j = 1))
    BY <1>6
  <2> QED
    BY <1>8, <2>2, <2>4, <2>5, <2>6 DEF UpdatePlace
<1>10. /\ Exhausted(1) => Exhausted(1)'
       /\ Exhausted(2) => Exhausted(2)'
  BY <1>2, <1>8 DEF Exhausted
<1>11. Opened(1)
  BY <1>1, <1>6, ControlPlaced
<1>12. New' => /\ request'.in[1] # request'.in[2]
               /\ Begun' => output' = NoExtent /\ Exhausted(1)'
               /\ Opened(1)' => source'[1].left = << >> /\ series'[1] \in {NoExtent, << >>}
  <2> SUFFICES ASSUME New
               PROVE  /\ request'.in[1] # request'.in[2]
                      /\ Begun' => output' = NoExtent /\ Exhausted(1)'
                      /\ Opened(1)' => source'[1].left = << >> /\ series'[1] \in {NoExtent, << >>}
    BY <1>1
  <2>1. /\ request.in[1] # request.in[2]
        /\ Begun => output = NoExtent /\ Exhausted(1)
        /\ Opened(1) => source[1].left = << >> /\ series[1] \in {NoExtent, << >>}
    BY <1>1, UpdateNew
  <2>2. series[1] = NoExtent /\ source[1].left = << >> /\ series'[1] = NoExtent
    BY <1>7, <1>8, <1>11, <2>1
  <2>3. output # NoExtent
    BY <1>6, <2>2
  <2> QED
    BY <1>1, <1>2, <1>5, <2>1, <2>2, <2>3
<1>13. UpdateControl'
  <2>1. UpdatePlace(1)' /\ UpdatePlace(2)'
    BY <1>9
  <2>2. mem' \in {"base", "update", "merge", "base only", "update only"}
    BY <1>6
  <2>3. mem' = "base only" => Exhausted(2)'
    BY <1>1, <1>6, <1>10, ControlPlaced
  <2>4. mem' = "update only" => Exhausted(1)'
    BY <1>1, <1>6, <1>10, ControlPlaced
  <2>5. Opened(1)' /\ status' # "returned"
    BY <1>2, <1>3, <1>11
  <2> QED
    BY <1>4, <1>12, <2>1, <2>2, <2>3, <2>4, <2>5 DEF UpdateControl
<1>14. UpdateOutput'
  BY <1>4, <1>5 DEF UpdateOutput
<1>15. UpdateInv'
  <2>1. CanUpdate(In(1)', In(2)') => Progress(In(1)', In(2)', Rest(1)', Rest(2)', Done')
    BY <1>1
  <2> QED
    BY <1>13, <1>14, <2>1 DEF UpdateInv
<1>16. Steady
  BY <1>1, <1>2, <1>3, <1>4 DEF Steady, StaysWhole, TypeInv
<1> QED
  BY <1>1, <1>2, <1>5, <1>15, <1>16, StepKeeps DEF ThisOp

----------------------------------------------------------------------------
\* SortedUpdateModule: what it does with a row

LEMMA DoneAdds ==
  ASSUME TypeInv, status = "run", status' = "run", tee' = tee, NEW x \in RowSeq, output' = Started \o x
  PROVE  Done' = Done \o x /\ output' \in RowSeq
<1>1. /\ Started = RowsOf(output) /\ RowsOf(output) \in RowSeq /\ Sent \in RowSeq
      /\ Done = Sent \o RowsOf(output)
  BY SofarRows DEF Done
<1>2. Done' = Sent \o RowsOf(output')
  BY DoneKept
<1>3. output' \in RowSeq
  BY <1>1, RowsJoin
<1>4. RowsOf(output') = Started \o x
  BY <1>3, Constants DEF RowsOf
<1>5. (Sent \o RowsOf(output)) \o x = Sent \o (RowsOf(output) \o x)
  BY <1>1, RowsAssoc
<1> QED
  BY <1>1, <1>2, <1>3, <1>4, <1>5

LEMMA AdvancedOther ==
  ASSUME NEW s \in RowSeq, s # << >>
  PROVE  Advanced(s) # s
<1> DEFINE t == Tail(s)
<1>1. Len(t) = Len(s) - 1 /\ Len(s) \in Nat
  BY HeadFacts DEF RowSeq
<1> HIDE DEF t
<1>2. t # s
  BY <1>1
<1> QED
  BY <1>2, Constants DEF Advanced, t

\* What is left of a source when its first row is used
LEMMA FirstRow ==
  ASSUME Inv, Running("update"), NEW j \in 1..2, series[j] \in FullRows
  PROVE  /\ Head(series[j]) \in Row /\ Rest(j) \in RowSeq
         /\ \E z \in RowSeq : Rest(j) = <<Head(series[j])>> \o z
<1>1. /\ TypeInv /\ ServingInv /\ status = "run" /\ j \in DOMAIN source
  BY UpdateKnown
<1>2. Unread(j) \in RowSeq /\ Rest(j) \in RowSeq
  BY <1>1, UnreadRows
<1>3. series[j] \in RowSeq /\ series[j] # << >>
  BY DEF FullRows
<1>4. /\ Head(series[j]) \in Row
      /\ RowsOf(series[j]) \o Unread(j) = <<Head(series[j])>> \o (RowsOf(Advanced(series[j])) \o Unread(j))
      /\ RowsOf(Advanced(series[j])) \o Unread(j) \in RowSeq
  BY <1>2, <1>3, AdvancedIs
<1> QED
  BY <1>2, <1>4 DEF Rest

LEMMA FirstAbove ==
  ASSUME NEW s \in RowSeq, NEW h \in Row, NEW z \in RowSeq, s = <<h>> \o z, UniquelySorted(s),
         NEW k \in Nat, k < h.k
  PROVE  Above(s, k)
BY AboveFirst DEF RowSeq

\* The extents of the series after a row was used up
LEMMA SeriesUsed ==
  ASSUME Inv, Running("update"), series' \in Seq(Optional), Len(series') = Len(series)
  PROVE  series'[1] \in Optional /\ series'[2] \in Optional
<1>1. Len(series) = 2
  BY UpdateKnown
<1> QED
  BY <1>1

LEMMA SeriesSetOne ==
  ASSUME TypeInv, Len(series) = 2, NEW i \in 1..2, NEW x \in Optional,
         series' = [series EXCEPT ![i] = x]
  PROVE  /\ series' \in Seq(Optional) /\ Len(series') = Len(series) /\ series'[i] = x
         /\ \A j \in 1..2 : j # i => series'[j] = series[j]
<1>1. series \in Seq(Optional) /\ i \in 1..Len(series) /\ DOMAIN series = 1..2
  BY DEF TypeInv
<1>2. Replaced(series, i, x, series', Optional)
  BY <1>1, ReplaceOne
<1> QED
  BY <1>1, <1>2 DEF Replaced

LEMMA ExhaustedRest ==
  ASSUME NEW j, Exhausted(j)
  PROVE  Rest(j) = << >>
<1>1. series[j] = NoExtent /\ source[j].left = << >> /\ Opened(j)
  BY Constants, FullIsRows DEF Exhausted, Opened
<1>2. RowsOf(series[j]) = << >> /\ Unread(j) = << >>
  BY <1>1, FullIsRows DEF RowsOf, Unread
<1> QED
  BY <1>2, FullIsRows, RowsJoin DEF Rest

LEMMA CopyBaseKeeps ==
  ASSUME Inv, Running("update"), StaysWhole, CopyBase, UNCHANGED <<source, output_type>>,
         series[1] \in FullRows,
         \/ mem = "merge" /\ mem' = "base" /\ series[2] \in FullRows /\ Head(series[1]).k < Head(series[2]).k
         \/ mem = "base only" /\ mem' = mem
  PROVE  Inv'
<1>1. /\ TypeInv /\ ServingInv /\ UpdateControl /\ status = "run" /\ request' = request /\ before' = before
      /\ tee' = tee /\ Len(series) = 2 /\ Done \in RowSeq
      /\ Rest(1) \in RowSeq /\ Rest(2) \in RowSeq
      /\ CanUpdate(In(1), In(2)) => Progress(In(1), In(2), Rest(1), Rest(2), Done)
  BY UpdateKnown
<1>2. PICK h : h = Head(series[1])
  OBVIOUS
<1>0. 1 \in 1..2 /\ 2 \in 1..2 /\ 2 # 1
  BY OneOrTwo
<1>3. h \in Row
  BY <1>0, <1>2, FirstRow
<1>4. /\ status' = "run" /\ returned' = returned /\ output' = Append(Started, h)
      /\ series' = [series EXCEPT ![1] = Advanced(series[1])]
  BY <1>1, <1>2 DEF CopyBase, GoOn, Base
<1>5. Started \in RowSeq /\ <<h>> \in RowSeq /\ output' = Started \o <<h>>
  <2>1. Started \in RowSeq /\ << >> \in RowSeq
    BY <1>1, SofarRows, FullIsRows
  <2> QED
    BY <1>3, <1>4, <2>1, RowsAppend
<1>6. Done' = Done \o <<h>> /\ output' \in RowSeq
  BY <1>1, <1>4, <1>5, DoneAdds
<1>7. series[1] \in RowSeq /\ series[1] # << >> /\ series[1] # NoExtent /\ NoExtent # << >>
  BY Constants, FullIsRows DEF FullRows
<1>8. Advanced(series[1]) \in Optional /\ Advanced(series[1]) # series[1]
  BY <1>7, AdvancedIs, AdvancedOther, FullIsRows
<1>9. /\ series' \in Seq(Optional) /\ Len(series') = Len(series)
      /\ series'[1] = Advanced(series[1]) /\ series'[2] = series[2]
  <2>1. /\ series' \in Seq(Optional) /\ Len(series') = Len(series) /\ series'[1] = Advanced(series[1])
        /\ \A j \in 1..2 : j # 1 => series'[j] = series[j]
    BY <1>0, <1>1, <1>4, <1>8, SeriesSetOne
  <2> QED
    BY <1>0, <2>1
<1>10. RowUsed
  <2>1. \A j \in 1..2 :
          series'[j] = series[j] \/ (series[j] \in FullRows /\ series'[j] = Advanced(series[j]))
    BY <1>9, OneOrTwo
  <2>2. series[2] \in FullRows => series[2] # NoExtent
    BY Constants DEF FullRows
  <2> QED
    BY <1>4, <1>6, <1>7, <1>9, <2>1, <2>2 DEF RowUsed
<1>11. /\ Rest(1)' \in RowSeq /\ Rest(1) = <<h>> \o Rest(1)' /\ Rest(2)' = Rest(2)
  <2>1. /\ Rest(1)' \in RowSeq
        /\ series'[1] # series[1] => Rest(1) = <<Head(series[1])>> \o Rest(1)'
    BY <1>0, <1>10, RowUsedRests
  <2>2. series'[2] = series[2] => Rest(2)' = Rest(2)
    BY <1>0, <1>10, RowUsedRests
  <2> QED
    BY <1>2, <1>8, <1>9, <2>1, <2>2
<1>12. ASSUME CanUpdate(In(1), In(2))
       PROVE  Progress(In(1), In(2), Rest(1)', Rest(2)', Done')
  <2>1. Progress(In(1), In(2), Rest(1), Rest(2), Done)
    BY <1>1, <1>12
  <2>2. Above(Rest(2), h.k)
    <3>1. CASE mem = "merge"
      <4>1. UniquelySorted(Rest(2))
        BY <1>1, <2>1, ProgressTypes DEF RowSeq
      <4>2. series[2] \in FullRows /\ h.k < Head(series[2]).k
        BY <1>2, <3>1
      <4>3. Head(series[2]) \in Row /\ \E z \in RowSeq : Rest(2) = <<Head(series[2])>> \o z
        BY <1>0, <4>2, FirstRow
      <4>4. h.k \in Nat
        BY <1>3 DEF Row
      <4> QED
        BY <1>1, <4>1, <4>2, <4>3, <4>4, FirstAbove
    <3>2. CASE mem = "base only"
      <4>1. Exhausted(2)
        BY <1>1, <3>2, ControlPlaced
      <4>2. Rest(2) = << >>
        BY <4>1, ExhaustedRest
      <4> QED
        BY <4>2, AboveNothing
    <3> QED
      BY <3>1, <3>2
  <2>3. Progress(In(1), In(2), <<h>> \o Rest(1)', Rest(2), Done)
    BY <1>11, <2>1
  <2>4. Progress(In(1), In(2), Rest(1)', Rest(2), Done \o <<h>>)
    <3>1. Rest(1)' \in Seq(Row) /\ Rest(2) \in Seq(Row) /\ Done \in Seq(Row)
      BY <1>1, <1>11 DEF RowSeq
    <3> QED
      BY <1>3, <2>2, <2>3, <3>1, ProgressCopies
  <2> QED
    BY <1>6, <1>11, <2>4
<1> QED
  BY <1>10, <1>12, RowUsedKeeps

LEMMA LeavesStarted ==
  ASSUME NEW s \in RowSeq, NEW r \in Row
  PROVE  /\ LeavesOf(r) \in RowSeq
         /\ (IF r.u = UpdateDelete THEN s ELSE Append(s, Updated(r))) = s \o LeavesOf(r)
<1>1. LeavesOf(r) \in RowSeq /\ Updated(r) \in Row
  BY LeavesOfType, UpdatedRow DEF RowSeq
<1>2. s \o << >> = s
  BY RowsJoin
<1>3. Append(s, Updated(r)) = s \o <<Updated(r)>>
  BY <1>1, FullIsRows, RowsAppend
<1> QED
  BY <1>1, <1>2, <1>3 DEF LeavesOf

\* A row of the update that does not say what to do ends the update.
LEMMA BadRowFatal ==
  ASSUME Inv, Running("update"), StaysWhole, series[2] \in FullRows,
         Head(series[2]).u \notin {UpdateInsert, UpdateReplace, UpdateDelete},
         status' = "error", UNCHANGED <<series, output, returned>>, UNCHANGED <<source, output_type>>,
         ~(New /\ Begun)
  PROVE  Inv'
<1>1. /\ TypeInv /\ UpdateControl /\ status = "run" /\ request.op = "update" /\ In(2) \in RowSeq
      /\ request' = request /\ tee' = tee /\ New' = New
  BY UpdateKnown
<1>2. PICK r : r = Head(series[2])
  OBVIOUS
<1>3. r \in Row /\ Rest(2) \in RowSeq /\ \E z \in RowSeq : Rest(2) = <<r>> \o z
  BY <1>2, FirstRow, OneOrTwo
<1>4. r \in ToSet(Rest(2))
  <2>1. PICK z \in RowSeq : Rest(2) = <<r>> \o z
    BY <1>3
  <2>2. ToSet(<<r>> \o z) = {r} \cup ToSet(z)
    BY <1>3, ToSetFront DEF RowSeq
  <2> QED
    BY <2>1, <2>2
<1>5. ToSet(Rest(2)) \subseteq ToSet(In(2))
  <2>1. UpdatePlace(2)
    BY <1>1, OneOrTwo, UpdatePlaces
  <2> QED
    BY <2>1 DEF UpdatePlace
<1>6. \E i \in DOMAIN In(2) : In(2)[i] = r
  BY <1>4, <1>5 DEF ToSet
<1>7. r.u \notin {UpdateInsert, UpdateReplace, UpdateDelete}
  BY <1>2
<1>8. Fatal(request)
  <2>1. \E i \in DOMAIN In(2) : In(2)[i].u \notin {UpdateInsert, UpdateReplace, UpdateDelete}
    BY <1>6, <1>7
  <2> QED
    BY <1>1, <2>1 DEF Fatal
<1>9. Steady
  BY <1>1, Standing
<1>10. ErrorInv'
  <2>1. Fatal(request)'
    BY <1>8, <1>9, FatalSame
  <2>2. New => tee.type = NullType
    BY DEF Begun
  <2> QED
    BY <1>1, <2>1, <2>2 DEF ErrorInv
<1>11. ~Returns' /\ status' \notin {"run", "returned", "dead"}
  BY DEF Returns
<1> QED
  BY <1>1, <1>9, <1>10, <1>11, StepKeeps

LEMMA SeriesTypes ==
  ASSUME TypeInv, Len(series) = 2, NEW j \in 1..2
  PROVE  series[j] \in Optional
<1>1. series \in Seq(Optional)
  BY DEF TypeInv
<1> QED
  BY <1>1, PairElement

LEMMA SeriesPair ==
  ASSUME NEW s, Len(s) = 2, NEW x \in Optional, NEW y \in Optional, NEW t, t = <<x, y>>
  PROVE  t \in Seq(Optional) /\ Len(t) = Len(s) /\ t[1] = x /\ t[2] = y
  OBVIOUS

LEMMA DoUpdateKeeps ==
  ASSUME Inv, Running("update"), StaysWhole, DoUpdate, UNCHANGED <<source, output_type>>,
         series[2] \in FullRows,
         \/ mem = "merge" /\ mem' = "base" /\ series[1] \in FullRows /\ ~(Head(series[1]).k < Head(series[2]).k)
         \/ mem = "update only" /\ mem' = mem
  PROVE  Inv'
<1>0. 1 \in 1..2 /\ 2 \in 1..2 /\ 2 # 1
  BY OneOrTwo
<1>1. /\ TypeInv /\ ServingInv /\ UpdateControl /\ status = "run" /\ request' = request /\ before' = before
      /\ tee' = tee /\ Len(series) = 2 /\ Done \in RowSeq
      /\ Rest(1) \in RowSeq /\ Rest(2) \in RowSeq
      /\ CanUpdate(In(1), In(2)) => Progress(In(1), In(2), Rest(1), Rest(2), Done)
  BY UpdateKnown
<1>2. PICK r : r = Head(series[2])
  OBVIOUS
<1>3. r \in Row
  BY <1>0, <1>2, FirstRow
<1>4. \/ mem = "merge" /\ mem' = "base" /\ series[1] \in FullRows /\ series[1] # NoExtent
      \/ mem = "update only" /\ mem' = mem /\ series[1] = NoExtent /\ Exhausted(1) /\ output # NoExtent
  <2>1. mem = "update only" => Exhausted(1) /\ output # NoExtent
    BY <1>1, ControlPlaced
  <2>2. Exhausted(1) => series[1] = NoExtent
    BY DEF Exhausted
  <2>3. series[1] \in FullRows => series[1] # NoExtent
    BY Constants DEF FullRows
  <2> QED
    BY <2>1, <2>2, <2>3
<1>5. CASE r.u \notin {UpdateInsert, UpdateReplace, UpdateDelete}
  <2>1. status' = "error" /\ UNCHANGED <<series, output, returned>>
    BY <1>2, <1>5 DEF DoUpdate, Update
  <2>2. ~(New /\ Begun)
    <3>1. New /\ Begun => output = NoExtent /\ Exhausted(1)
      BY <1>1, UpdateNew
    <3>2. Exhausted(1) => series[1] = NoExtent
      BY DEF Exhausted
    <3> QED
      BY <1>4, <3>1, <3>2
  <2> QED
    BY <1>2, <1>5, <2>1, <2>2, BadRowFatal
<1>6. CASE r.u \in {UpdateInsert, UpdateReplace, UpdateDelete}
  <2> DEFINE Both == r.u # UpdateInsert /\ SameKey
  <2>1. /\ status' = "run" /\ returned' = returned
        /\ output' = IF r.u = UpdateDelete THEN Started ELSE Append(Started, Updated(r))
        /\ series' = <<IF Both THEN Advanced(series[1]) ELSE series[1], Advanced(series[2])>>
    BY <1>1, <1>2, <1>6 DEF DoUpdate, GoOn, Base, Update
  <2>2. LeavesOf(r) \in RowSeq /\ output' = Started \o LeavesOf(r)
    <3>1. Started \in RowSeq
      BY <1>1, SofarRows
    <3> QED
      BY <1>3, <2>1, <3>1, LeavesStarted
  <2>3. Done' = Done \o LeavesOf(r) /\ output' \in RowSeq
    BY <1>1, <2>1, <2>2, DoneAdds
  <2>4. Both => mem = "merge" /\ series[1] \in FullRows /\ Head(series[1]).k = r.k
    BY <1>2, <1>4 DEF SameKey, Missing, Base, Update
  <2>5. /\ Advanced(series[2]) \in Optional /\ Advanced(series[2]) # series[2]
        /\ Both => Advanced(series[1]) \in Optional /\ Advanced(series[1]) # series[1]
    <3>1. series[2] \in RowSeq /\ series[2] # << >>
      BY DEF FullRows
    <3>2. Both => series[1] \in RowSeq /\ series[1] # << >>
      BY <2>4 DEF FullRows
    <3> QED
      BY <3>1, <3>2, AdvancedIs, AdvancedOther, FullIsRows
  <2>6. /\ series' \in Seq(Optional) /\ Len(series') = Len(series)
        /\ series'[1] = IF Both THEN Advanced(series[1]) ELSE series[1]
        /\ series'[2] = Advanced(series[2])
    <3>1. series[1] \in Optional
      BY <1>0, <1>1, SeriesTypes
    <3>2. PICK x : x = IF Both THEN Advanced(series[1]) ELSE series[1]
      OBVIOUS
    <3>3. PICK y : y = Advanced(series[2])
      OBVIOUS
    <3>4. x \in Optional /\ y \in Optional /\ series' = <<x, y>>
      BY <2>1, <2>5, <3>1, <3>2, <3>3
    <3>5. series' \in Seq(Optional) /\ Len(series') = Len(series) /\ series'[1] = x /\ series'[2] = y
      BY <1>1, <3>4, SeriesPair
    <3> QED
      BY <3>2, <3>3, <3>5
  <2>7. RowUsed
    <3>1. \A j \in 1..2 :
            series'[j] = series[j] \/ (series[j] \in FullRows /\ series'[j] = Advanced(series[j]))
      BY <2>4, <2>6, OneOrTwo
    <3>2. \/ mem = "merge" /\ mem' = "base" /\ series[1] \notin {NoExtent, << >>} /\ series[2] # NoExtent
          \/ mem = "update only" /\ mem' = mem /\ series'[1] = series[1]
      <4>1. series[2] # NoExtent /\ (series[1] \in FullRows => series[1] # << >>)
        BY Constants DEF FullRows
      <4> QED
        BY <1>4, <2>4, <2>6, <4>1
    <3> QED
      BY <2>1, <2>3, <2>6, <3>1, <3>2 DEF RowUsed
  <2>8. /\ Rest(2)' \in RowSeq /\ Rest(2) = <<r>> \o Rest(2)'
        /\ Rest(1)' \in RowSeq
        /\ Both => Rest(1) = <<Head(series[1])>> \o Rest(1)'
        /\ ~Both => Rest(1)' = Rest(1)
    <3>1. /\ Rest(2)' \in RowSeq
          /\ series'[2] # series[2] => Rest(2) = <<Head(series[2])>> \o Rest(2)'
      BY <1>0, <2>7, RowUsedRests
    <3>2. /\ Rest(1)' \in RowSeq
          /\ series'[1] = series[1] => Rest(1)' = Rest(1)
          /\ series'[1] # series[1] => Rest(1) = <<Head(series[1])>> \o Rest(1)'
      BY <1>0, <2>7, RowUsedRests
    <3> QED
      BY <1>2, <2>5, <2>6, <3>1, <3>2
  <2>9. ASSUME CanUpdate(In(1), In(2))
        PROVE  Progress(In(1), In(2), Rest(1)', Rest(2)', Done')
    <3>1. Progress(In(1), In(2), Rest(1), <<r>> \o Rest(2)', Done)
      BY <1>1, <2>8, <2>9
    <3>2. Rest(1) \in Seq(Row) /\ Rest(1)' \in Seq(Row) /\ Rest(2)' \in Seq(Row) /\ Done \in Seq(Row)
      BY <1>1, <2>8 DEF RowSeq
    <3>3. CASE Both
      <4>1. PICK h : h = Head(series[1])
        OBVIOUS
      <4>2. h \in Row /\ h.k = r.k /\ Rest(1) = <<h>> \o Rest(1)'
        BY <1>0, <2>4, <2>8, <3>3, <4>1, FirstRow
      <4>3. Progress(In(1), In(2), Rest(1)', Rest(2)', Done \o LeavesOf(r))
        BY <1>3, <3>1, <3>2, <4>2, ProgressReplaces
      <4> QED
        BY <2>3, <4>3
    <3>4. CASE ~Both
      <4>1. Above(Rest(1), r.k)
        <5>1. CASE mem = "update only"
          <6>1. Rest(1) = << >>
            BY <1>4, <5>1, ExhaustedRest
          <6> QED
            BY <6>1, AboveNothing
        <5>2. CASE mem = "merge"
          <6>1. PICK h : h = Head(series[1])
            OBVIOUS
          <6>2. series[1] \in FullRows /\ ~(h.k < r.k)
            BY <1>2, <5>2, <6>1
          <6>3. PICK z \in RowSeq : Rest(1) = <<h>> \o z
            BY <1>0, <6>1, <6>2, FirstRow
          <6>4. h \in Row
            BY <1>0, <6>1, <6>2, FirstRow
          <6>5. h.k # r.k
            <7>1. CASE r.u # UpdateInsert
              BY <1>2, <1>4, <3>4, <5>2, <6>1, <7>1 DEF SameKey, Missing, Base, Update
            <7>2. CASE r.u = UpdateInsert
              <8>1. Progress(In(1), In(2), <<h>> \o z, <<r>> \o Rest(2)', Done)
                BY <3>1, <6>3
              <8>2. h.k = r.k => r.u # UpdateInsert
                <9>1. z \in Seq(Row)
                  BY DEF RowSeq
                <9> QED
                  BY <1>3, <3>2, <6>4, <8>1, <9>1, ProgressReplaces
              <8> QED
                BY <7>2, <8>2
            <7> QED
              BY <7>1, <7>2
          <6>6. h.k \in Nat /\ r.k \in Nat
            BY <1>3, <6>4 DEF Row
          <6>7. r.k < h.k
            BY <6>2, <6>5, <6>6, NotBelow
          <6>8. UniquelySorted(Rest(1))
            <7>1. <<r>> \o Rest(2)' \in Seq(Row)
              BY <1>1, <2>8 DEF RowSeq
            <7> QED
              BY <3>1, <3>2, <7>1, ProgressTypes
          <6> QED
            BY <1>1, <6>3, <6>4, <6>6, <6>7, <6>8, FirstAbove
        <5> QED
          BY <1>4, <5>1, <5>2
      <4>2. Progress(In(1), In(2), Rest(1), Rest(2)', Done \o LeavesOf(r))
        BY <1>3, <3>1, <3>2, <4>1, ProgressTakes
      <4> QED
        BY <2>3, <2>8, <3>4, <4>2
    <3> QED
      BY <3>3, <3>4
  <2> QED
    BY <2>7, <2>9, RowUsedKeeps
<1> QED
  BY <1>5, <1>6

\* The extent without rows of a base table that was just created is cleared.
LEMMA Cleared ==
  ASSUME Inv, Running("update"), StaysWhole, source' = source, series[1] = << >>,
         series' = [series EXCEPT ![1] = NoExtent], New, Opened(1)
  PROVE  Refilled /\ Opened(1)'
<1>1. /\ TypeInv /\ UpdateControl /\ request' = request /\ before' = before /\ Len(series) = 2
      /\ DOMAIN source = 1..2
  BY UpdateKnown
<1>2. SameSources /\ \A j : Unread(j)' = Unread(j) /\ Opened(j)' = Opened(j)
  BY <1>1, NothingRead
<1>3. /\ series' \in Seq(Optional) /\ Len(series') = Len(series) /\ series'[1] = NoExtent
      /\ \A j \in 1..2 : j # 1 => series'[j] = series[j]
  BY <1>1, OneOrTwo, SeriesSetOne DEF Optional
<1>4. series'[2] = series[2] /\ NoExtent # << >>
  BY <1>3, OneOrTwo, Constants, FullIsRows
<1>5. RowsOf(series'[1]) = RowsOf(series[1])
  BY <1>3 DEF RowsOf
<1>6. Rest(1)' = Rest(1) /\ Rest(2)' = Rest(2)
  BY <1>2, <1>3, <1>4, <1>5 DEF Rest
<1>7. source[1].left = << >>
  BY <1>1, UpdateNew
<1>8. UpdatePlace(1) /\ UpdatePlace(2)
  BY <1>1, OneOrTwo, UpdatePlaces
<1>9. /\ Rest(1)' = Rest(1)
      /\ Exhausted(1) => Exhausted(1)'
      /\ series'[1] # NoExtent => Opened(1)'
      /\ Opened(1)' => source'[1].left \in Seq(FullRows)
      /\ series'[1] = << >> => 1 = 1 /\ New /\ output = NoExtent
  <2>1. Exhausted(1)'
    BY <1>3, <1>7 DEF Exhausted
  <2>2. source'[1].left \in Seq(FullRows)
    BY <1>7, FullIsRows
  <2> QED
    BY <1>3, <1>4, <1>6, <2>1, <2>2
<1>10. /\ Rest(2)' = Rest(2)
       /\ Exhausted(2) => Exhausted(2)'
       /\ series'[2] # NoExtent => Opened(2)'
       /\ Opened(2)' => source'[2].left \in Seq(FullRows)
       /\ series'[2] = << >> => 2 = 1 /\ New /\ output = NoExtent
  <2>1. Opened(2)' = Opened(2)
    BY <1>2
  <2>2. Exhausted(2) => Exhausted(2)'
    BY <1>4 DEF Exhausted
  <2>3. series[2] # << >>
    BY <1>1, ControlPlaced
  <2>4. series[2] # NoExtent => Opened(2)
    BY <1>8 DEF UpdatePlace
  <2>5. Opened(2) => source[2].left \in Seq(FullRows)
    BY <1>8 DEF UpdatePlace
  <2> QED
    BY <1>4, <1>6, <2>1, <2>2, <2>3, <2>4, <2>5
<1>11. \A j \in 1..2 :
       /\ Rest(j)' = Rest(j)
       /\ Exhausted(j) => Exhausted(j)'
       /\ series'[j] # NoExtent => Opened(j)'
       /\ Opened(j)' => source'[j].left \in Seq(FullRows)
       /\ series'[j] = << >> => j = 1 /\ New /\ output = NoExtent
  BY <1>9, <1>10, OneOrTwo
<1>12. Opened(1)'
  BY <1>2
<1> QED
  BY <1>2, <1>3, <1>7, <1>11, <1>12 DEF Refilled

LEMMA MergeRowStep ==
  ASSUME Inv, MergeRow, StaysWhole
  PROVE  Inv'
<1>0. Running("update") /\ mem = "merge" /\ series[1] # NoExtent /\ series[2] # NoExtent
  BY DEF MergeRow, Missing, Base, Update
<1>1. /\ TypeInv /\ UpdateControl /\ status = "run" /\ New' = New /\ tee' = tee /\ Len(series) = 2
  BY <1>0, UpdateKnown
<1>2. /\ Opened(1) /\ series[2] # << >>
      /\ series[1] = << >> => output = NoExtent /\ New
      /\ New /\ Begun => output = NoExtent /\ Exhausted(1)
  BY <1>0, <1>1, ControlPlaced
<1>3. ~(New /\ Begun)
  <2>1. Exhausted(1) => series[1] = NoExtent
    BY DEF Exhausted
  <2> QED
    BY <1>0, <1>2, <2>1
<1>4. CASE series[1] = << >>
  <2>1. /\ series' = [series EXCEPT ![1] = NoExtent]
        /\ output' = Started /\ mem' = "base" /\ status' = "run" /\ returned' = returned
        /\ source' = source /\ output_type' = output_type
    BY <1>1, <1>4 DEF MergeRow, Base, Update, GoOn
  <2>2. New /\ output = NoExtent
    BY <1>2, <1>4
  <2>3. Refilled /\ Opened(1)'
    BY <1>0, <1>2, <1>4, <2>1, <2>2, Cleared
  <2>4. Placed'
    <3>1. ~(New' /\ Begun')
      BY <1>1, <1>3, <2>1 DEF Begun, Returns
    <3>2. series'[1] # << >>
      <4>1. series'[1] = NoExtent
        BY <1>1, <2>1, OneOrTwo, SeriesSetOne DEF Optional
      <4> QED
        BY <4>1, Constants, FullIsRows
    <3> QED
      BY <1>1, <2>1, <2>3, <3>1, <3>2 DEF Placed
  <2> QED
    BY <1>0, <2>1, <2>3, <2>4, UpdateGoesOn
<1>5. CASE series[1] # << >> /\ ~Small(Started)
  <2>1. ReturnOutput /\ mem' = "base" /\ UNCHANGED <<source, series, output_type>>
    BY <1>0, <1>2, <1>5 DEF MergeRow, Base, Update, ReturnUpdated
  <2>2. Refilled /\ Opened(1)'
    BY <1>0, <1>2, <2>1, RefilledStays DEF Opened
  <2>3. output # NoExtent /\ Len(output) >= Limit
    <3>1. << >> \in RowSeq /\ Len(<< >>) = 0
      BY FullIsRows
    <3>2. output # NoExtent
      BY <1>5, <3>1, Constants DEF Small, Started
    <3>3. output \in RowSeq /\ Len(output) \in Nat
      BY <1>1, <3>2 DEF TypeInv, Optional, RowSeq
    <3> QED
      BY <1>5, <3>2, <3>3, Constants DEF Small, Started
  <2>4. ~New
    <3>1. New => series[1] \in {NoExtent, << >>}
      BY <1>1, <1>2, UpdateNew
    <3> QED
      BY <1>0, <1>5, <3>1
  <2> QED
    BY <1>0, <2>1, <2>2, <2>3, <2>4, UpdateReturns
<1>6. CASE series[1] # << >> /\ Small(Started)
  <2>1. series[1] \in FullRows /\ series[2] \in FullRows
    <3>1. series[1] \in Optional /\ series[2] \in Optional
      BY <1>1, OneOrTwo, SeriesTypes
    <3> QED
      BY <1>0, <1>2, <1>6, <3>1 DEF Optional, FullRows
  <2>2. /\ mem' = "base" /\ UNCHANGED <<source, output_type>>
        /\ IF Head(series[1]).k < Head(series[2]).k THEN CopyBase ELSE DoUpdate
    BY <1>0, <1>2, <1>6 DEF MergeRow, Base, Update
  <2>3. CASE Head(series[1]).k < Head(series[2]).k
    <3>1. CopyBase
      BY <2>2, <2>3
    <3> QED
      BY <1>0, <2>1, <2>2, <2>3, <3>1, CopyBaseKeeps
  <2>4. CASE ~(Head(series[1]).k < Head(series[2]).k)
    <3>1. DoUpdate
      BY <2>2, <2>4
    <3> QED
      BY <1>0, <2>1, <2>2, <2>4, <3>1, DoUpdateKeeps
  <2> QED
    BY <2>3, <2>4
<1> QED
  BY <1>4, <1>5, <1>6

\* One input is left.
LEMMA OnlyPullStep ==
  ASSUME Inv, Running("update"), StaysWhole, NEW i \in 1..2,
         (i = 1 /\ mem = "base only") \/ (i = 2 /\ mem = "update only"),
         series[i] = NoExtent, NEW e, Taken(i, e), output_type' = output_type,
         IF e = NoExtent
           THEN ReturnOutput /\ mem' = "base" /\ UNCHANGED series
           ELSE /\ series' = [series EXCEPT ![i] = e]
                /\ GoOn /\ UNCHANGED <<output, mem>>
  PROVE  Inv'
<1>1. /\ TypeInv /\ ServingInv /\ UpdateControl /\ status = "run" /\ New' = New /\ tee' = tee
      /\ Len(series) = 2 /\ i \in DOMAIN source /\ request' = request /\ before' = before
      /\ DOMAIN series = 1..2 /\ DOMAIN source = 1..2
  BY UpdateKnown
<1>2. /\ output # NoExtent /\ Opened(1)
      /\ i = 2 => Exhausted(1)
      /\ i = 1 => Exhausted(2)
      /\ ~(New /\ Begun) /\ series[1] # << >>
  BY <1>1, ControlPlaced
<1>3. e \in Optional /\ SameSources
  BY <1>1, TakenFacts
<1>4. Replaced(series, i, e, series', Optional)
  <2>1. series \in Seq(Optional) /\ i \in 1..Len(series) /\ DOMAIN series = 1..Len(series)
    BY <1>1 DEF TypeInv
  <2>2. CASE e = NoExtent
    <3>1. series' = series
      BY <2>2
    <3> QED
      BY <2>1, <2>2, <3>1 DEF Replaced
  <2>3. CASE e # NoExtent
    <3>1. series' = [series EXCEPT ![i] = e]
      BY <2>3
    <3> QED
      BY <1>3, <2>1, <3>1, ReplaceOne
  <2> QED
    BY <2>2, <2>3
<1>5. Refilled /\ Opened(i)' /\ series'[i] = e /\ (e = NoExtent => Exhausted(i)')
  BY <1>4, RefilledPull
<1>6. Opened(1)' /\ (Exhausted(1) => Exhausted(1)') /\ (Exhausted(2) => Exhausted(2)')
  <2>1. 1 \in DOMAIN source
    BY <1>1, OneOrTwo
  <2>2. Opened(1) => Opened(1)'
    BY <1>3, <2>1 DEF SameSources
  <2>3. /\ Exhausted(1) => Exhausted(1)'
        /\ Exhausted(2) => Exhausted(2)'
    BY <1>5, OneOrTwo DEF Refilled
  <2> QED
    BY <1>2, <2>2, <2>3
<1>7. CASE e = NoExtent
  <2>1. ReturnOutput /\ mem' = "base"
    BY <1>7
  <2>2. Exhausted(1)' /\ Exhausted(2)'
    BY <1>2, <1>5, <1>6, <1>7, OneOrTwo
  <2> QED
    BY <1>2, <1>5, <1>6, <2>1, <2>2, UpdateReturns
<1>8. CASE e # NoExtent
  <2>1. status' = "run" /\ returned' = returned /\ output' = output /\ mem' = mem
    BY <1>1, <1>8 DEF GoOn
  <2>2. Placed'
    <3>1. series'[1] # << >>
      <4>1. series'[1] = << >> => output = NoExtent
        BY <1>5, OneOrTwo DEF Refilled
      <4> QED
        BY <1>2, <4>1
    <3>2. ~(New' /\ Begun')
      BY <1>1, <1>2, <2>1 DEF Begun, Returns
    <3> QED
      BY <1>1, <1>2, <1>6, <2>1, <3>1, <3>2, OneOrTwo DEF Placed
  <2> QED
    BY <1>5, <2>1, <2>2, UpdateGoesOn
<1> QED
  BY <1>7, <1>8

LEMMA OutputFull ==
  ASSUME TypeInv, output # NoExtent, ~Small(output)
  PROVE  Len(output) >= Limit
<1>1. output \in Optional
  BY DEF TypeInv
<1>2. output \in RowSeq
  BY <1>1 DEF Optional
<1>3. Len(output) \in Nat
  BY <1>2 DEF RowSeq
<1> QED
  BY <1>3, Constants DEF Small

\* A step of OnlyOne that does not take a row
LEMMA OnlyStep ==
  ASSUME Inv, StaysWhole, NEW i \in 1..2, Running("update"),
         (i = 1 /\ mem = "base only") \/ (i = 2 /\ mem = "update only"),
         \/ Die /\ ((series[i] = NoExtent /\ ~Readable(i)) \/ series[i] = << >>)
         \/ ReturnUpdated /\ ~Small(output) /\ series[i] \notin {NoExtent}
  PROVE  Inv'
<1>1. /\ TypeInv /\ ServingInv /\ UpdateControl /\ status = "run" /\ i \in DOMAIN source
  BY UpdateKnown
<1>2. /\ output # NoExtent /\ Opened(1) /\ series[1] # << >> /\ series[2] # << >>
      /\ ~(New /\ Begun) /\ (New => series[1] = NoExtent)
      /\ Exhausted(1) => Exhausted(1)
      /\ i = 2 => Exhausted(1)
  <2>1. New /\ Opened(1) => series[1] \in {NoExtent, << >>}
    BY <1>1, UpdateNew
  <2> QED
    BY <1>1, <2>1, ControlPlaced
<1>3. CASE Die
  <2>1. series[i] # << >>
    BY <1>2, OneOrTwo
  <2>2. \/ ~Readable(i)
        \/ ReturnUpdated
    BY <2>1
  <2>3. ~ReturnUpdated
    BY <1>3 DEF Die, ReturnUpdated, ReturnOutput, Return
  <2> QED
    BY <1>1, <1>3, <2>2, <2>3, Unreadable, DiesFatally
<1>4. CASE ReturnUpdated /\ ~Small(output) /\ series[i] # NoExtent
  <2>1. ReturnOutput /\ mem' = "base" /\ UNCHANGED <<source, series, output_type>>
    BY <1>4 DEF ReturnUpdated
  <2>2. Refilled /\ Opened(1)'
    BY <1>2, <2>1, RefilledStays DEF Opened
  <2>3. Len(output) >= Limit
    BY <1>1, <1>2, <1>4, OutputFull
  <2>4. New => Exhausted(1)'
    <3>1. i = 1 => ~New
      BY <1>2, <1>4
    <3>2. Exhausted(1) => Exhausted(1)'
      BY <2>2, OneOrTwo DEF Refilled
    <3> QED
      BY <1>2, <3>1, <3>2, OneOrTwo
  <2> QED
    BY <1>2, <2>1, <2>2, <2>3, <2>4, UpdateReturns
<1> QED
  BY <1>3, <1>4

LEMMA BaseOnlyStep ==
  ASSUME Inv, BaseOnly, StaysWhole
  PROVE  Inv'
<1>0. Running("update") /\ mem = "base only"
  BY DEF BaseOnly, OnlyOne
<1>1. CASE series[1] = NoExtent /\ ~Readable(1)
  <2>1. Die
    BY <1>1 DEF BaseOnly, OnlyOne, Missing, Pull
  <2> QED
    BY <1>0, <1>1, <2>1, OneOrTwo, OnlyStep
<1>2. CASE series[1] = NoExtent /\ Readable(1)
  <2>1. PICK e : /\ Taken(1, e) /\ output_type' = output_type
                 /\ IF e = NoExtent
                      THEN ReturnOutput /\ mem' = "base" /\ UNCHANGED series
                      ELSE /\ series' = [series EXCEPT ![1] = e]
                           /\ GoOn /\ UNCHANGED <<output, mem>>
    BY <1>2 DEF BaseOnly, OnlyOne, Missing, Pull, Taken
  <2> QED
    BY <1>0, <1>2, <2>1, OneOrTwo, OnlyPullStep
<1>3. CASE series[1] # NoExtent /\ ~Small(output)
  <2>1. ReturnUpdated
    BY <1>3 DEF BaseOnly, OnlyOne, Missing
  <2> QED
    BY <1>0, <1>3, <2>1, OneOrTwo, OnlyStep
<1>4. CASE series[1] = << >> /\ Small(output) /\ series[1] # NoExtent
  <2>1. Die
    BY <1>4 DEF BaseOnly, OnlyOne, Missing
  <2> QED
    BY <1>0, <1>4, <2>1, OneOrTwo, OnlyStep
<1>5. CASE series[1] \notin {NoExtent, << >>} /\ Small(output)
  <2>1. CopyBase /\ UNCHANGED <<source, output_type, mem>>
    BY <1>5 DEF BaseOnly, OnlyOne, Missing
  <2>2. series[1] \in FullRows
    <3>1. series[1] \in Optional
      BY <1>0, UpdateKnown, OneOrTwo, SeriesTypes
    <3> QED
      BY <1>5, <3>1 DEF Optional, FullRows
  <2> QED
    BY <1>0, <2>1, <2>2, CopyBaseKeeps
<1> QED
  BY <1>1, <1>2, <1>3, <1>4, <1>5

LEMMA UpdateOnlyStep ==
  ASSUME Inv, UpdateOnly, StaysWhole
  PROVE  Inv'
<1>0. Running("update") /\ mem = "update only"
  BY DEF UpdateOnly, OnlyOne
<1>1. CASE series[2] = NoExtent /\ ~Readable(2)
  <2>1. Die
    BY <1>1 DEF UpdateOnly, OnlyOne, Missing, Pull
  <2> QED
    BY <1>0, <1>1, <2>1, OneOrTwo, OnlyStep
<1>2. CASE series[2] = NoExtent /\ Readable(2)
  <2>1. PICK e : /\ Taken(2, e) /\ output_type' = output_type
                 /\ IF e = NoExtent
                      THEN ReturnOutput /\ mem' = "base" /\ UNCHANGED series
                      ELSE /\ series' = [series EXCEPT ![2] = e]
                           /\ GoOn /\ UNCHANGED <<output, mem>>
    BY <1>2 DEF UpdateOnly, OnlyOne, Missing, Pull, Taken
  <2> QED
    BY <1>0, <1>2, <2>1, OneOrTwo, OnlyPullStep
<1>3. CASE series[2] # NoExtent /\ ~Small(output)
  <2>1. ReturnUpdated
    BY <1>3 DEF UpdateOnly, OnlyOne, Missing
  <2> QED
    BY <1>0, <1>3, <2>1, OneOrTwo, OnlyStep
<1>4. CASE series[2] = << >> /\ Small(output) /\ series[2] # NoExtent
  <2>1. Die
    BY <1>4 DEF UpdateOnly, OnlyOne, Missing
  <2> QED
    BY <1>0, <1>4, <2>1, OneOrTwo, OnlyStep
<1>5. CASE series[2] \notin {NoExtent, << >>} /\ Small(output)
  <2>1. DoUpdate /\ UNCHANGED <<source, output_type, mem>>
    BY <1>5 DEF UpdateOnly, OnlyOne, Missing
  <2>2. series[2] \in FullRows
    <3>1. series[2] \in Optional
      BY <1>0, UpdateKnown, OneOrTwo, SeriesTypes
    <3> QED
      BY <1>5, <3>1 DEF Optional, FullRows
  <2> QED
    BY <1>0, <2>1, <2>2, DoUpdateKeeps
<1> QED
  BY <1>1, <1>2, <1>3, <1>4, <1>5

LEMMA NextFileIs ==
  ASSUME NEW l \in Nat, Len(source) = l, l > 0, DOMAIN source = 1..l
  PROVE  /\ NextFile \in 1..l
         /\ \A j \in 1..l : j < NextFile => source[j].left = << >>
<1> DEFINE P == {i \in DOMAIN source : source[i].left # << >>} \cup {Len(source)}
<1>1. P \subseteq 0..l /\ P # {} /\ P \subseteq 1..l
  OBVIOUS
<1>2. \E n \in P : \A x \in P : n <= x
  <2> HIDE DEF P
  <2> QED
    BY <1>1, SmallestExists
<1>3. NextFile = CHOOSE n \in P : \A x \in P : n <= x
  BY DEF NextFile, Min
<1>4. NextFile \in P /\ \A x \in P : NextFile <= x
  <2> HIDE DEF P
  <2> QED
    BY <1>2, <1>3
<1>5. ASSUME NEW j \in 1..l, j < NextFile
      PROVE  source[j].left = << >>
  <2>1. j \notin P
    <3>1. NextFile \in Nat
      BY <1>1, <1>4
    <3> HIDE DEF P
    <3> QED
      BY <1>4, <1>5, <3>1
  <2> QED
    BY <2>1
<1> QED
  BY <1>1, <1>4, <1>5

CopyOps == {"import", "merge", "get"}

\* CopyExtent takes the extent e of source i.
Copies(i, e) ==
  /\ i = NextFile /\ SameType(i) /\ Taken(i, e)
  /\ Typed(IF source[i].left = NotOpened THEN FoundType(i) ELSE NullType)
  /\ UNCHANGED <<series, output, mem>>
  /\ IF e = NoExtent /\ i < Len(source) THEN GoOn ELSE Return(e)

LEMMA CopyKnown ==
  ASSUME Inv, status = "run", request.op \in CopyOps
  PROVE  /\ TypeInv /\ ServingInv /\ TeeInv /\ Busy
         /\ request.op = "import" => Serving("import") /\ ImportInv /\ Len(source) = 1 /\ Opened(1)
         /\ request.op = "get" => Serving("get") /\ GetInv /\ Len(source) = 1
         /\ request.op = "merge" => Serving("merge") /\ MergeInv
         /\ Len(source) \in Nat /\ Len(source) > 0 /\ DOMAIN source = 1..Len(source)
         /\ StaysWhole => /\ request' = request /\ before' = before /\ tee' = tee /\ reply' = reply
                          /\ \A i : In(i)' = In(i)
<1>1. TypeInv /\ ServingInv /\ TeeInv /\ ImportInv /\ GetInv /\ MergeInv
  BY DEF Inv, OpInv
<1>2. Busy
  BY DEF Busy
<1>3. request.op \in Reading => /\ request.in \in Seq(Tables) /\ request.in # << >>
                               /\ Len(source) = Len(request.in) /\ request \in Requests
  BY <1>1, Run
<1>4. request.op = "get" => Len(source) = 1
  BY <1>3, RequestIn DEF Reading
<1>5. request.op = "import" => Len(source) = 1 /\ Opened(1)
  BY <1>1, <1>2 DEF ServingInv
<1>6. Len(source) \in Nat /\ DOMAIN source = 1..Len(source)
  BY <1>1 DEF TypeInv, IsSources
<1>7. Len(source) > 0
  <2>1. request.op = "merge" => Len(request.in) > 0 /\ Len(source) = Len(request.in)
    <3>1. \A s \in Seq(Tables) : s # << >> => Len(s) > 0
      OBVIOUS
    <3> QED
      BY <1>3, <3>1 DEF Reading
  <2> QED
    BY <1>4, <1>5, <2>1 DEF CopyOps
<1>8. StaysWhole => /\ request' = request /\ before' = before /\ tee' = tee /\ reply' = reply
                    /\ \A i : In(i)' = In(i)
  BY InSame DEF StaysWhole, serverVars
<1> QED
  BY <1>1, <1>2, <1>4, <1>5, <1>6, <1>7, <1>8 DEF Serving

\* The files of a merge have the same type, or the server is known to end.
LEMMA MergeTypes ==
  ASSUME Inv, status = "run", request.op = "merge", NEW i \in DOMAIN source
  PROVE  /\ source[i].type # NullType /\ source[i].type \in TypesIn(source)
         /\ FoundType(i) \in {NullType, source[i].type}
         /\ ~Fatal(request) => FoundType(i) = source[1].type /\ source[i].type = source[1].type
<1>1. TypeInv /\ ServingInv /\ DOMAIN source = 1..Len(source) /\ Len(source) \in Nat /\ Len(source) > 0
  BY CopyKnown DEF CopyOps
<1>2. 1 \in DOMAIN source
  BY <1>1
<1>3. /\ Typable(request) /\ request.in \in Seq(Tables) /\ i \in DOMAIN request.in
  BY <1>1, Run DEF Reading
<1>4. info[request.in[i]].name = info[request.in[1]].name /\ info = before.info
  <2>1. info = before.info
    BY <1>1, Run DEF InfoNow, New
  <2> QED
    BY <1>3, <2>1, TypableIs
<1>5. source[i].type # NullType /\ source[i].type \in TypesIn(source)
  BY <1>1, SourceTyped DEF TypesIn
<1>6. ASSUME ~Fatal(request)
      PROVE  files[source[i].table].type = source[i].type /\ source[i].type = source[1].type
  <2>1. /\ files[request.in[i]].type = source[i].type /\ source[i].table = request.in[i]
        /\ source[i].type = before.info[request.in[i]]
    BY <1>6, Sound DEF Reading
  <2>2. source[1].type = before.info[request.in[1]]
    BY <1>2, <1>6, Sound DEF Reading
  <2>3. before.info[request.in[i]] = before.info[request.in[1]]
    BY <1>3, <1>4, <1>6 DEF Fatal
  <2> QED
    BY <2>1, <2>2, <2>3
<1> QED
  BY <1>5, <1>6 DEF FoundType

LEMMA CopyDies ==
  ASSUME Inv, status = "run", request.op \in CopyOps, StaysWhole, NEW i \in DOMAIN source,
         ~SameType(i), Die
  PROVE  Inv'
<1>1. ~Opened(i) /\ output_type \notin {NullType, FoundType(i)}
  BY DEF SameType, Opened
<1>2. i \in 1..Len(source)
  BY CopyKnown
<1>3. request.op = "merge"
  <2>1. request.op \in {"import", "get"} => i = 1
    BY <1>2, CopyKnown
  <2>2. request.op = "import" => Opened(1)
    BY CopyKnown
  <2>3. request.op = "get" => (~Opened(1) => output_type = NullType)
    <3>1. request.op = "get" => GetInv /\ Serving("get")
      BY CopyKnown
    <3> QED
      BY <3>1 DEF GetInv
  <2> QED
    BY <1>1, <2>1, <2>2, <2>3 DEF CopyOps
<1>4. output_type \in {NullType} \cup TypesIn(source)
  <2>1. MergeInv /\ Serving("merge")
    BY <1>3, CopyKnown
  <2> QED
    BY <2>1 DEF MergeInv
<1>5. Fatal(request)
  <2> SUFFICES ASSUME ~Fatal(request) PROVE FALSE
    OBVIOUS
  <2>1. PICK j \in DOMAIN source : output_type = source[j].type
    BY <1>1, <1>4 DEF TypesIn
  <2>2. source[j].type = source[1].type /\ FoundType(i) = source[1].type
    BY <1>3, MergeTypes
  <2> QED
    BY <1>1, <2>1, <2>2
<1> QED
  BY <1>5, DiesFatally

LEMMA CopyTypes ==
  ASSUME Inv, status = "run", request.op \in CopyOps, NEW i \in DOMAIN source, NEW e, Copies(i, e)
  PROVE  output_type' # MissingType /\ (output_type # NullType => output_type' = output_type)
<1>1. TypeInv /\ ServingInv
  BY CopyKnown
<1>2. source[i].type # MissingType
  BY <1>1, SourceTyped
<1>3. NullType # MissingType
  BY DEF NullType, MissingType
<1>4. FoundType(i) # MissingType
  BY <1>2, <1>3 DEF FoundType
<1>5. output_type # MissingType
  BY <1>1 DEF TypeInv
<1> QED
  BY <1>3, <1>4, <1>5 DEF Copies, Typed

LEMMA CopySteady ==
  ASSUME Inv, status = "run", request.op \in CopyOps, StaysWhole, NEW i, NEW e, Copies(i, e)
  PROVE  /\ i \in DOMAIN source /\ Steady /\ output' = output
         /\ Sent' = Sent \o RowsOf(e) /\ Sent \in RowSeq /\ e \in Optional
         /\ status' \in {"run", "returned"}
         /\ Returns' => e # NoExtent
         /\ e # NoExtent => status' = "returned" /\ returned' = e
         /\ Ends' => e = NoExtent /\ i = Len(source)
         /\ Len(source) = 1 => status' = "returned" /\ returned' = e
<1>1. /\ TypeInv /\ ServingInv /\ DOMAIN source = 1..Len(source) /\ Len(source) \in Nat /\ Len(source) > 0
      /\ request' = request /\ before' = before /\ tee' = tee
  BY CopyKnown, SMTT(30)
<1>2. i \in 1..Len(source)
  <2>1. NextFile \in 1..Len(source)
    BY <1>1, NextFileIs
  <2> QED
    BY <2>1, SMTT(30) DEF Copies
<1>3. e \in Optional /\ SameSources /\ RowsOf(e) \in RowSeq
  BY <1>1, <1>2, TakenFacts DEF Copies
<1>4. Sent \in RowSeq
  BY <1>1, SofarRows
<1>5. UNCHANGED <<series, output, mem>>
  BY DEF Copies
<1>6. CASE e = NoExtent /\ i < Len(source)
  <2>1. status' = "run" /\ returned' = returned
    BY <1>6 DEF Copies, GoOn
  <2>2. Sent' = Sent /\ ~Ends' /\ ~Returns'
    BY <1>1, <2>1, DoneKept
  <2>3. RowsOf(e) = << >> /\ Sent \o << >> = Sent
    BY <1>4, <1>6, RowsJoin DEF RowsOf
  <2>4. Steady
    <3>1. returned' \in Optional
      BY <1>1, <2>1 DEF TypeInv
    <3> QED
      BY <1>1, <1>2, <1>3, <1>5, <2>1, <3>1, CopyTypes DEF Steady, StaysWhole, TypeInv
  <2>5. Len(source) # 1
    BY <1>1, <1>2, <1>6, LastPlace
  <2>6. i \in DOMAIN source
    BY <1>1, <1>2, SMTT(30)
  <2> QED
    BY <1>3, <1>4, <1>5, <1>6, <2>1, <2>2, <2>3, <2>4, <2>5, <2>6
<1>7. CASE ~(e = NoExtent /\ i < Len(source))
  <2>1. Return(e)
    BY <1>7 DEF Copies
  <2>2. Sent' = Sent \o RowsOf(e) /\ status' = "returned" /\ (Ends' <=> e = NoExtent) /\ (Returns' <=> e # NoExtent)
    BY <1>1, <1>3, <2>1, SentReturned
  <2>3. returned' = e
    BY <2>1 DEF Return
  <2>4. Steady
    BY <1>1, <1>2, <1>3, <1>5, <2>2, <2>3, CopyTypes, SMTT(30) DEF Steady, StaysWhole, TypeInv
  <2>5. Ends' => i = Len(source)
    BY <1>1, <1>2, <1>7, <2>2, LastPlace
  <2> QED
    BY <1>1, <1>2, <1>3, <1>4, <1>5, <2>2, <2>3, <2>4, <2>5
<1> QED
  BY <1>6, <1>7

\* A step of CopyExtent keeps the invariant if it keeps what the invariant says of the operation.
LEMMA CopyKeeps ==
  ASSUME Inv, status = "run", request.op \in CopyOps, StaysWhole, NEW i, NEW e, Copies(i, e),
         request.op = "import" => ImportInv',
         request.op = "merge" => MergeInv',
         request.op = "get" => GetInv'
  PROVE  Inv'
<1>1. Steady /\ status' \in {"run", "returned"}
  BY CopySteady
<1>2. request' = request
  BY CopyKnown
<1>3. ThisOp'
  BY <1>2 DEF ThisOp, CopyOps
<1>4. (Returns' \/ tee.type # NullType) /\ request.op = "merge" => output_type' # NullType
  <2>1. tee' = tee /\ (request.op = "merge" => MergeInv' /\ Serving("merge")')
    BY <1>1, <1>2, SteadyVars DEF Serving
  <2> QED
    BY <2>1 DEF MergeInv, Begun
<1> QED
  BY <1>1, <1>3, <1>4, StepKeeps DEF CopyOps

LEMMA CopyImport ==
  ASSUME Inv, status = "run", request.op = "import", StaysWhole, NEW i, NEW e, Copies(i, e)
  PROVE  ImportInv'
<1>1. /\ TypeInv /\ ServingInv /\ Serving("import") /\ ImportInv /\ Len(source) = 1 /\ Opened(1)
      /\ request' = request /\ before' = before /\ DOMAIN source = 1..1
  BY CopyKnown DEF CopyOps
<1>2. /\ i \in DOMAIN source /\ output' = output /\ Sent' = Sent \o RowsOf(e) /\ Sent \in RowSeq
      /\ Ends' => e = NoExtent
  BY CopySteady DEF CopyOps
<1>3. i = 1
  BY <1>1, <1>2
<1>4. /\ RowsOf(e) \in RowSeq /\ Unread(1)' \in RowSeq /\ Unread(1) = RowsOf(e) \o Unread(1)'
      /\ e = NoExtent => source'[1].left = << >>
  BY <1>1, <1>2, <1>3, TakenFacts DEF Copies
<1>5. Sent \o Unread(1) = FlattenSeq(request.extents) /\ output = NoExtent
  BY <1>1 DEF ImportInv
<1>6. (Sent \o RowsOf(e)) \o Unread(1)' = Sent \o (RowsOf(e) \o Unread(1)')
  BY <1>2, <1>4, RowsAssoc
<1>7. Sent' \o Unread(1)' = FlattenSeq(request'.extents)
  BY <1>1, <1>2, <1>4, <1>5, <1>6
<1> QED
  BY <1>2, <1>4, <1>5, <1>7 DEF ImportInv

LEMMA CopyGet ==
  ASSUME Inv, status = "run", request.op = "get", StaysWhole, NEW i, NEW e, Copies(i, e)
  PROVE  GetInv'
<1>1. /\ TypeInv /\ ServingInv /\ Serving("get") /\ GetInv /\ Len(source) = 1
      /\ request' = request /\ before' = before /\ reply' = reply /\ DOMAIN source = 1..1
      /\ In(1)' = In(1)
  BY CopyKnown DEF CopyOps
<1>2. /\ i \in DOMAIN source /\ status' = "returned" /\ returned' = e /\ (Ends' => e = NoExtent)
  BY <1>1, CopySteady DEF CopyOps
<1>3. i = 1
  BY <1>1, <1>2
<1>4. /\ RowsOf(e) \in RowSeq /\ Unread(1)' \in RowSeq /\ Unread(1) = RowsOf(e) \o Unread(1)'
      /\ e = NoExtent => source'[1].left = << >>
      /\ Opened(1)'
  BY <1>1, <1>2, <1>3, TakenFacts DEF Copies
<1>5. PICK p \in Starts(In(1)) : IsData(p) /\ (p \o << >>) \o Unread(1) = In(1)
  BY <1>1 DEF GetInv
<1>6. In(1) \in RowSeq
  BY <1>1, <1>2, <1>3, InRun DEF Reading
<1>7. p \in RowSeq
  BY <1>6, StartsRows
<1>8. p \o << >> = p
  BY <1>7, RowsJoin
<1>9. (p \o RowsOf(e)) \o Unread(1)' = In(1)
  <2>1. (p \o RowsOf(e)) \o Unread(1)' = p \o (RowsOf(e) \o Unread(1)')
    BY <1>4, <1>7, RowsAssoc
  <2> QED
    BY <1>4, <1>5, <1>8, <2>1
<1>10. IsData(p)'
  BY <1>1, <1>5 DEF IsData
<1>11. \E q \in Starts(In(1)') :
         IsData(q)' /\ (q \o (IF status' = "returned" THEN RowsOf(returned') ELSE << >>)) \o Unread(1)' = In(1)'
  <2>1. p \in Starts(In(1)')
    BY <1>1
  <2> QED
    BY <1>1, <1>2, <1>9, <1>10, <2>1
<1> QED
  BY <1>2, <1>4, <1>11 DEF GetInv

Unreads == [j \in DOMAIN source |-> Unread(j)]

\* What is left of the tables of a merge, when CopyExtent took e
LEMMA MergeTakes ==
  ASSUME Inv, status = "run", request.op = "merge", StaysWhole, NEW i, NEW e, Copies(i, e)
  PROVE  /\ FlattenSeq(Unreads) = RowsOf(e) \o FlattenSeq(Unreads')
         /\ RowsOf(e) \in RowSeq /\ FlattenSeq(Unreads') \in RowSeq
<1>1. /\ TypeInv /\ ServingInv /\ Len(source) \in Nat /\ Len(source) > 0 /\ DOMAIN source = 1..Len(source)
      /\ request' = request /\ before' = before
  BY CopyKnown DEF CopyOps
<1>2. i \in DOMAIN source
  BY CopySteady DEF CopyOps
<1>3. /\ RowsOf(e) \in RowSeq /\ SameSources
      /\ Unread(i) = RowsOf(e) \o Unread(i)' /\ Unread(i)' \in RowSeq
      /\ \A j \in DOMAIN source : j # i => Unread(j)' = Unread(j)
  BY <1>1, <1>2, TakenFacts DEF Copies
<1>4. \A j \in DOMAIN source : Unread(j) \in RowSeq
  BY <1>1, UnreadRows
<1>5. \A j \in DOMAIN source : Unread(j)' \in RowSeq
  BY <1>3, <1>4
<1>6. \A j \in DOMAIN source : j < i => Unread(j) = << >>
  <2>1. \A j \in 1..Len(source) : j < NextFile => source[j].left = << >>
    BY <1>1, NextFileIs
  <2>2. \A j \in 1..Len(source) : source[j].left = << >> => Unread(j) = << >>
    BY Constants, FullIsRows DEF Unread, Opened
  <2> QED
    BY <1>1, <2>1, <2>2, SMTT(30) DEF Copies
<1>7. PICK ss : ss = Unreads
  OBVIOUS
<1>8. PICK tt : tt = Unreads'
  OBVIOUS
<1>9. ss = [j \in DOMAIN source |-> Unread(j)] /\ tt = [j \in DOMAIN source |-> Unread(j)']
  BY <1>3, <1>7, <1>8, SMTT(30) DEF Unreads, SameSources
<1>10. PICK l \in Nat : l = Len(source) /\ DOMAIN source = 1..l
  BY <1>1
<1>11. /\ ss \in Seq(RowSeq) /\ Len(ss) = l /\ \A j \in 1..l : ss[j] = Unread(j)
  BY <1>4, <1>9, <1>10
<1>12. /\ tt \in Seq(RowSeq) /\ Len(tt) = l /\ \A j \in 1..l : tt[j] = Unread(j)'
  <2>1. tt = [j \in 1..l |-> Unread(j)']
    BY <1>9, <1>10
  <2>2. \A j \in 1..l : Unread(j)' \in RowSeq
    BY <1>5, <1>10
  <2>3. Len(tt) = l /\ tt \in Seq(RowSeq) /\ \A j \in 1..l : tt[j] = Unread(j)'
    BY <2>1, <2>2
  <2> QED
    BY <2>3
<1>13. TakenFrom(ss, tt, RowsOf(e), i)
  <2>1. i \in 1..l /\ \A j \in 1..l : j # i => tt[j] = ss[j]
    BY <1>2, <1>3, <1>10, <1>11, <1>12
  <2>2. ss[i] = RowsOf(e) \o tt[i]
    BY <1>3, <1>11, <1>12, <2>1
  <2>3. \A j \in 1..(i - 1) : ss[j] = << >>
    <3>1. \A j \in 1..(i - 1) : j \in 1..l /\ j < i
      BY <1>10, <2>1
    <3> QED
      BY <1>6, <1>10, <1>11, <3>1
  <2> QED
    BY <1>11, <1>12, <2>1, <2>2, <2>3 DEF TakenFrom
<1>14. FlattenSeq(ss) = RowsOf(e) \o FlattenSeq(tt)
  BY <1>3, <1>11, <1>12, <1>13, FlattenTake DEF RowSeq
<1>15. FlattenSeq(tt) \in RowSeq
  BY <1>12, FlattenRows
<1> QED
  BY <1>3, <1>7, <1>8, <1>14, <1>15

LEMMA CopyMergeType ==
  ASSUME Inv, status = "run", request.op = "merge", StaysWhole, NEW i, NEW e, Copies(i, e)
  PROVE  /\ output_type' \in {NullType} \cup TypesIn(source')
         /\ Begun' \/ (\E j \in DOMAIN source' : source'[j].left \notin {NotOpened, << >>}) =>
              output_type' # NullType
<1>1. /\ TypeInv /\ ServingInv /\ Serving("merge") /\ MergeInv /\ tee' = tee
      /\ Len(source) \in Nat /\ Len(source) > 0 /\ DOMAIN source = 1..Len(source)
      /\ request' = request /\ before' = before
  BY CopyKnown DEF CopyOps
<1>2. i \in DOMAIN source /\ (Returns' => e # NoExtent)
  BY CopySteady DEF CopyOps
<1>4. /\ SameSources
      /\ e = NoExtent => source'[i].left = << >>
      /\ \A j \in DOMAIN source : j # i => source'[j] = source[j]
      /\ e # NoExtent => Extents(i) # << >>
  BY <1>1, <1>2, TakenFacts DEF Copies
<1>5. TypesIn(source') = TypesIn(source) /\ DOMAIN source' = DOMAIN source
  BY <1>4 DEF SameSources, TypesIn
<1>6. /\ output_type \in {NullType} \cup TypesIn(source)
      /\ Begun \/ (\E j \in DOMAIN source : source[j].left \notin {NotOpened, << >>}) =>
           output_type # NullType
  BY <1>1 DEF MergeInv
<1>7. /\ source[i].type # NullType /\ source[i].type \in TypesIn(source)
      /\ FoundType(i) \in {NullType, source[i].type}
  BY <1>2, MergeTypes
<1>8. /\ output_type # NullType => output_type' = output_type
      /\ output_type = NullType /\ Opened(i) => output_type' = NullType
      /\ output_type = NullType /\ ~Opened(i) => output_type' = FoundType(i)
  BY DEF Copies, Typed, Opened
<1>9. e # NoExtent => output_type' # NullType
  <2>1. CASE Opened(i)
    <3>1. e # NoExtent => source[i].left \notin {NotOpened, << >>}
      BY <1>4, <2>1 DEF Opened, Extents
    <3> QED
      BY <1>2, <1>6, <1>7, <1>8, <3>1
  <2>2. CASE ~Opened(i)
    <3>1. e # NoExtent => FoundType(i) = source[i].type
      BY <1>4, <2>2 DEF Opened, Extents, FoundType
    <3> QED
      BY <1>6, <1>7, <1>8, <2>2, <3>1
  <2> QED
    BY <2>1, <2>2
<1>10. ASSUME e = NoExtent
       PROVE  Begun' \/ (\E j \in DOMAIN source' : source'[j].left \notin {NotOpened, << >>}) =>
                output_type' # NullType
  <2>1. Begun' => Begun
    BY <1>1, <1>2, <1>10 DEF Begun
  <2>2. (\E j \in DOMAIN source' : source'[j].left \notin {NotOpened, << >>}) =>
           \E j \in DOMAIN source : source[j].left \notin {NotOpened, << >>}
    BY <1>4, <1>5, <1>10
  <2> QED
    BY <1>6, <1>7, <1>8, <2>1, <2>2
<1> QED
  BY <1>5, <1>6, <1>7, <1>8, <1>9, <1>10

LEMMA CopyMerge ==
  ASSUME Inv, status = "run", request.op = "merge", StaysWhole, NEW i, NEW e, Copies(i, e)
  PROVE  MergeInv'
<1>1. /\ TypeInv /\ ServingInv /\ Serving("merge") /\ MergeInv
      /\ Len(source) \in Nat /\ Len(source) > 0 /\ DOMAIN source = 1..Len(source)
      /\ request' = request /\ before' = before /\ \A j : In(j)' = In(j)
  BY CopyKnown DEF CopyOps
<1>2. /\ i \in DOMAIN source /\ output' = output /\ Sent' = Sent \o RowsOf(e) /\ Sent \in RowSeq
      /\ Ends' => e = NoExtent /\ i = Len(source)
  BY CopySteady DEF CopyOps
<1>3. /\ FlattenSeq(Unreads) = RowsOf(e) \o FlattenSeq(Unreads')
      /\ RowsOf(e) \in RowSeq /\ FlattenSeq(Unreads') \in RowSeq
  BY MergeTakes
<1>4. Sent \o FlattenSeq(Unreads) = FlattenSeq(Ins) /\ output = NoExtent
  BY <1>1 DEF MergeInv, Unreads, Ins
<1>5. (Sent \o RowsOf(e)) \o FlattenSeq(Unreads') = Sent \o (RowsOf(e) \o FlattenSeq(Unreads'))
  BY <1>2, <1>3, RowsAssoc
<1>6. Ins' = Ins
  BY <1>1 DEF Ins
<1>7. Sent' \o FlattenSeq(Unreads') = FlattenSeq(Ins')
  BY <1>2, <1>3, <1>4, <1>5, <1>6
<1>8. Ends' => \A j \in DOMAIN source' : source'[j].left = << >>
  <2> SUFFICES ASSUME Ends' PROVE \A j \in DOMAIN source' : source'[j].left = << >>
    OBVIOUS
  <2>1. /\ SameSources /\ source'[i].left = << >>
        /\ \A j \in DOMAIN source : j # i => source'[j] = source[j]
    BY <1>1, <1>2, TakenFacts, SMTT(30) DEF Copies
  <2>2. \A j \in 1..Len(source) : j < i => source[j].left = << >>
    BY <1>1, NextFileIs DEF Copies
  <2>3. \A j \in 1..Len(source) : j < i \/ j = i
    BY <1>1, <1>2, LastPlace
  <2> QED
    BY <1>1, <2>1, <2>2, <2>3 DEF SameSources
<1>9. /\ output_type' \in {NullType} \cup TypesIn(source')
      /\ Begun' \/ (\E j \in DOMAIN source' : source'[j].left \notin {NotOpened, << >>}) =>
           output_type' # NullType
  BY CopyMergeType
<1>10. output' = NoExtent
  BY <1>2, <1>4
<1> QED
  BY <1>7, <1>8, <1>9, <1>10 DEF MergeInv, Unreads, Ins

LEMMA CopyExtentStep ==
  ASSUME Inv, CopyExtent, StaysWhole
  PROVE  Inv'
<1>1. status = "run" /\ request.op \in CopyOps
  BY DEF CopyExtent, CopyOps
<1>2. PICK i : i = NextFile
  OBVIOUS
<1>3. i \in DOMAIN source
  BY <1>1, <1>2, CopyKnown, NextFileIs
<1>4. CASE ~SameType(i)
  <2>1. Die
    BY <1>2, <1>4 DEF CopyExtent
  <2> QED
    BY <1>1, <1>3, <1>4, <2>1, CopyDies
<1>5. CASE SameType(i) /\ ~Readable(i)
  <2>1. Die
    BY <1>2, <1>5 DEF CopyExtent, Pull
  <2>2. Fatal(request)
    BY <1>1, <1>3, <1>5, CopyKnown, Unreadable
  <2> QED
    BY <1>1, <2>1, <2>2, DiesFatally
<1>6. CASE SameType(i) /\ Readable(i)
  <2>1. PICK e : Copies(i, e)
    BY <1>2, <1>6 DEF CopyExtent, Pull, Copies, Taken
  <2>2. CASE request.op = "import"
    BY <1>1, <2>1, <2>2, CopyImport, CopyKeeps
  <2>3. CASE request.op = "merge"
    BY <1>1, <2>1, <2>3, CopyMerge, CopyKeeps
  <2>4. CASE request.op = "get"
    BY <1>1, <2>1, <2>4, CopyGet, CopyKeeps
  <2> QED
    BY <1>1, <2>2, <2>3, <2>4 DEF CopyOps
<1> QED
  BY <1>4, <1>5, <1>6

----------------------------------------------------------------------------
\* The steps of the modules

LEMMA ModuleKeeps ==
  ASSUME Inv, ModuleStep
  PROVE  Inv'
<1>1. Module /\ StaysWhole
  BY DEF ModuleStep, StaysWhole
<1>2. \/ CopyExtent \/ SelectExtent \/ ProjectExtent
      \/ TransformStart \/ TransformPull \/ TransformRow \/ TransformNextExtent
      \/ HashBuild \/ HashPull \/ HashExtent
      \/ StarBuild \/ StarPull \/ StarExtent
      \/ SortLoad \/ SortMerge
      \/ UnionFirst \/ UnionDone \/ UnionRow
      \/ FetchBase \/ FetchUpdate \/ MergeEnds \/ MergeRow \/ BaseOnly \/ UpdateOnly
  BY <1>1 DEF Module
<1> QED
  BY <1>1, <1>2, CopyExtentStep, SelectStep, ProjectStep,
     TransformStartStep, TransformPullStep, TransformRowStep, TransformNextExtentStep,
     HashBuildStep, HashPullStep, HashExtentStep, StarBuildStep, StarPullStep, StarExtentStep,
     SortLoadStep, SortMergeStep, UnionFirstStep, UnionDoneStep, UnionRowStep,
     FetchBaseStep, FetchUpdateStep, MergeEndsStep, MergeRowStep, BaseOnlyStep, UpdateOnlyStep

----------------------------------------------------------------------------
\* Between requests

ModuleTypes ==
  /\ IsTee(tee) /\ IsSources(source) /\ series \in Seq(Optional) /\ Len(series) = Len(source)
  /\ output \in Optional /\ returned \in Optional /\ output_type # MissingType

ServerTypes ==
  /\ status \in {"idle", "write", "run", "returned", "rename", "error", "dead", "killed"}
  /\ request \in Requests \cup {NoRequest}
  /\ DOMAIN files = Tables /\ DOMAIN info = Tables
  /\ DOMAIN before.files = Tables /\ DOMAIN before.info = Tables
  /\ \A t \in Tables : IsTable(files[t]) /\ IsTable(before.files[t])
  /\ IsTable(tmp) /\ tmp.extents \in Seq(FullRows)
  /\ reply.ok \in BOOLEAN /\ served \in 0..MaxServed /\ damaged \subseteq Tables

LEMMA TypesAre == TypeInv <=> ModuleTypes /\ ServerTypes
BY DEF TypeInv, ModuleTypes, ServerTypes

LEMMA TypesNext ==
  ASSUME ModuleTypes', ServerTypes'
  PROVE  TypeInv'
BY DEF TypeInv, ModuleTypes, ServerTypes

LEMMA SourcesNone == IsSources(<< >>)
BY DEF IsSources

LEMMA GoneTypes ==
  ASSUME ModulesGone
  PROVE  ModuleTypes'
<1>1. /\ source' = << >> /\ series' = << >> /\ output' = NoExtent /\ output_type' = NullType
      /\ returned' = NoExtent /\ tee' = NoTee
  BY DEF ModulesGone
<1>2. IsTee(NoTee) /\ NullType # MissingType
  <2>1. NullType # MissingType
    BY DEF NullType, MissingType
  <2> QED
    BY <2>1, NoTeeIs, TeeIs
<1>3. << >> \in Seq(Optional) /\ Len(<< >>) = Len(<< >>) /\ NoExtent \in Optional
  BY DEF Optional
<1> QED
  BY <1>1, <1>2, <1>3, SourcesNone DEF ModuleTypes

\* Nothing is said of modules and requests when none is served.
LEMMA IdleKeeps ==
  ASSUME TypeInv', status' \in {"idle", "dead", "killed"}, TablesInv', FullInv', AtomicInv',
         status' = "idle" => ResultIsCorrect',
         status' = "dead" => Fatal(request)'
  PROVE  Inv'
<1>1. ~Busy' /\ status' \notin {"write", "rename", "error", "run", "returned"}
  BY DEF Busy
<1>2. ServingInv' /\ TeeInv' /\ ErrorInv' /\ RenameInv'
  BY <1>1 DEF ServingInv, TeeInv, ErrorInv, RenameInv
<1>3. \A op : ~Serving(op)'
  BY <1>1 DEF Serving
<1>4. OpInv'
  BY <1>3, OtherOps DEF OpInv
<1>5. ResultIsCorrect' /\ DiesOnlyAsKnown'
  BY DEF ResultIsCorrect, Answered, DiesOnlyAsKnown
<1> QED
  BY <1>2, <1>4, <1>5 DEF Inv

\* Nothing on the disk changes, nor what the client asked.
LEMMA DiskSame ==
  ASSUME ServerTypes, UNCHANGED <<files, request, info, before, served, damaged>>,
         status' \in {"idle", "rename", "dead", "killed"},
         status \in {"write", "killed"} => status' = "killed",
         IsTable(tmp'), tmp'.extents \in Seq(FullRows), reply'.ok \in BOOLEAN
  PROVE  ServerTypes' /\ (AtomicInv => AtomicInv') /\ (Fatal(request) => Fatal(request)')
<1>1. ServerTypes'
  BY DEF ServerTypes
<1>2. \A i : In(i)' = In(i)
  BY InSame
<1>3. \A s : UpdateWrote(s)' <=> UpdateWrote(s)
  BY <1>2 DEF UpdateWrote
<1>4. AtomicInv => AtomicInv'
  <2>1. New' = New
    BY DEF New
  <2> QED
    BY <1>2, <1>3, <2>1 DEF AtomicInv
<1>5. Fatal(request) => Fatal(request)'
  BY <1>2 DEF Fatal
<1> QED
  BY <1>1, <1>4, <1>5

LEMMA KillStep ==
  ASSUME Inv, Kill
  PROVE  Inv'
<1>1. /\ status' = "killed" /\ ModulesGone
      /\ UNCHANGED <<files, request, info, tmp, reply, before, served, damaged>>
  BY DEF Kill
<1>2. ModuleTypes /\ ServerTypes /\ AtomicInv
  BY TypesAre DEF Inv
<1>3. ServerTypes' /\ AtomicInv'
  <2>1. IsTable(tmp') /\ tmp'.extents \in Seq(FullRows) /\ reply'.ok \in BOOLEAN
    BY <1>1, <1>2 DEF ServerTypes
  <2> QED
    BY <1>1, <1>2, <2>1, DiskSame
<1>4. TypeInv'
  BY <1>1, <1>3, GoneTypes, TypesNext
<1>5. TablesInv' /\ FullInv'
  BY <1>1 DEF TablesInv, FullInv
<1> QED
  BY <1>1, <1>3, <1>4, <1>5, IdleKeeps

LEMMA RestartStep ==
  ASSUME Inv, Restart
  PROVE  Inv'
<1>1. /\ status' = "idle" /\ request' = NoRequest /\ info' = [t \in Tables |-> MissingType] /\ ModulesGone
      /\ UNCHANGED <<files, tmp, reply, before, served, damaged>>
  BY DEF Restart
<1>2. ModuleTypes /\ ServerTypes
  BY TypesAre DEF Inv
<1>3. ServerTypes'
  BY <1>1, <1>2 DEF ServerTypes
<1>4. TypeInv'
  BY <1>1, <1>3, GoneTypes, TypesNext
<1>5. TablesInv' /\ FullInv'
  BY <1>1 DEF TablesInv, FullInv
<1>6. AtomicInv'
  BY <1>1 DEF AtomicInv, NoRequest
<1>7. ResultIsCorrect'
  BY <1>1 DEF ResultIsCorrect, Answered
<1> QED
  BY <1>1, <1>4, <1>5, <1>6, <1>7, IdleKeeps

\* What is known of the file that a TeeModule has written
LEMMA TeeFile ==
  ASSUME TypeInv
  PROVE  /\ IsTable(FileOf(tee)) /\ FileOf(tee).whole /\ FileOf(tee).type = tee.type
         /\ FileOf(tee).extents \in Seq(FullRows) /\ Rows(FileOf(tee)) \in RowSeq
         /\ tee.rows = << >> /\ tee.extents = << >> => FileOf(tee).extents = << >>
<1>1. IsTee(tee)
  BY DEF TypeInv
<1>2. tee \in Tees(tee.type) /\ tee.type # MissingType
  BY <1>1 DEF IsTee, Tees
<1>3. /\ IsTable(FileOf(tee)) /\ FileOf(tee).whole /\ FileOf(tee).type = tee.type
      /\ FileOf(tee).extents \in Seq(FullRows) /\ Rows(FileOf(tee)) \in RowSeq
  BY <1>2, FileOfIs, FlushedRows
<1>4. tee.rows = << >> /\ tee.extents = << >> => FileOf(tee).extents = << >>
  BY DEF FileOf, Flushed
<1> QED
  BY <1>3, <1>4

\* No table is being written.
LEMMA NoneWritten ==
  ASSUME NEW t, ~Truncates, ~New, status # "write"
  PROVE  ~Written(t)
BY DEF Written

\* The tables are as they were, and none was being written.
LEMMA TablesSame ==
  ASSUME TablesInv, FullInv, status \notin {"write", "dead", "killed"}, ~Truncates, ~New,
         UNCHANGED <<files, info, damaged>>
  PROVE  TablesInv' /\ FullInv'
<1>1. \A t \in Tables \ damaged : info[t] # MissingType => Fine(t)
  BY NoneWritten DEF TablesInv
<1>2. \A t \in Tables : info[t] # MissingType => files[t].extents \in Seq(FullRows)
  BY NoneWritten DEF FullInv
<1>3. \A t : Fine(t)' <=> Fine(t)
  BY DEF Fine
<1> QED
  BY <1>1, <1>2, <1>3 DEF TablesInv, FullInv

LEMMA UnwindStep ==
  ASSUME Inv, Unwind
  PROVE  Inv'
<1>1. /\ status = "error" /\ ModulesGone
      /\ UNCHANGED <<files, request, info, before, served, damaged>>
  BY DEF Unwind
<1>2. TypeInv /\ ModuleTypes /\ ServerTypes /\ AtomicInv /\ ErrorInv /\ TablesInv /\ FullInv
  BY TypesAre DEF Inv
<1>3. /\ request.op \in {"hash", "update"} /\ Fatal(request)
      /\ request.op = "hash" \/ New => tee.type = NullType
  BY <1>1, <1>2 DEF ErrorInv
<1>4. CASE tee.type = NullType
  <2>1. status' = "dead" /\ UNCHANGED <<tmp, reply>>
    BY <1>4 DEF Unwind
  <2>2. IsTable(tmp') /\ tmp'.extents \in Seq(FullRows) /\ reply'.ok \in BOOLEAN
    BY <1>2, <2>1 DEF ServerTypes
  <2>3. ServerTypes' /\ AtomicInv' /\ Fatal(request)'
    BY <1>1, <1>2, <1>3, <2>1, <2>2, DiskSame
  <2>4. TypeInv'
    BY <1>1, <2>3, GoneTypes, TypesNext
  <2>5. TablesInv' /\ FullInv'
    BY <2>1 DEF TablesInv, FullInv
  <2> QED
    BY <2>1, <2>3, <2>4, <2>5, IdleKeeps
<1>5. CASE tee.type # NullType
  <2>1. tmp' = FileOf(tee) /\ reply' = [ok |-> FALSE] /\ status' = "idle"
    BY <1>5 DEF Unwind
  <2>2. IsTable(tmp') /\ tmp'.extents \in Seq(FullRows) /\ reply'.ok = FALSE
    BY <1>2, <2>1, TeeFile
  <2>3. ServerTypes' /\ AtomicInv'
    BY <1>1, <1>2, <2>1, <2>2, DiskSame
  <2>4. TypeInv'
    BY <1>1, <2>3, GoneTypes, TypesNext
  <2>5. TablesInv' /\ FullInv'
    <3>1. ~New /\ ~Truncates
      BY <1>3, <1>5 DEF Truncates
    <3> QED
      BY <1>1, <1>2, <3>1, TablesSame
  <2>6. ResultIsCorrect'
    BY <2>2 DEF ResultIsCorrect, Answered
  <2> QED
    BY <2>1, <2>3, <2>4, <2>5, <2>6, IdleKeeps
<1> QED
  BY <1>4, <1>5

----------------------------------------------------------------------------
\* The end of a request

LEMMA Ended ==
  ASSUME Inv, status = "returned", returned = NoExtent
  PROVE  /\ TypeInv /\ ModuleTypes /\ ServerTypes /\ ServingInv /\ TablesInv /\ FullInv /\ AtomicInv /\ TeeInv /\ OpInv
         /\ Ends /\ Busy /\ request \in Requests /\ Serving(request.op)
         /\ files = FilesNow /\ info = InfoNow
         /\ Sent = Rows(FileOf(tee)) /\ Sent \in RowSeq
         /\ output = NoExtent => Done = Sent
<1>1. /\ TypeInv /\ ModuleTypes /\ ServerTypes /\ ServingInv /\ TablesInv /\ FullInv /\ AtomicInv /\ TeeInv /\ OpInv
  BY TypesAre DEF Inv
<1>2. Ends /\ Busy /\ Serving(request.op)
  BY DEF Ends, Busy, Serving
<1>3. request \in Requests /\ files = FilesNow /\ info = InfoNow
  BY <1>1, Run
<1>4. Rows(FileOf(tee)) \in RowSeq
  BY <1>1, TeeFile
<1>5. Sent = Rows(FileOf(tee))
  BY <1>4, RowsJoin DEF Sent, RowsOf
<1>6. output = NoExtent => Done = Sent
  BY <1>4, <1>5, RowsJoin DEF Done, RowsOf
<1> QED
  BY <1>1, <1>2, <1>3, <1>4, <1>5, <1>6

LEMMA NothingUnread ==
  ASSUME NEW i, source[i].left = << >>
  PROVE  Unread(i) = << >>
BY Constants, FullIsRows DEF Unread, Opened

LEMMA DataCompleteStep ==
  ASSUME Inv, DataComplete
  PROVE  Inv'
<1>1. /\ status = "returned" /\ returned = NoExtent /\ request.op = "get"
      /\ status' = "idle" /\ ModulesGone
      /\ UNCHANGED <<files, request, info, tmp, reply, before, served, damaged>>
  BY DEF DataComplete
<1>2. /\ TypeInv /\ ModuleTypes /\ ServerTypes /\ ServingInv /\ TablesInv /\ FullInv /\ AtomicInv /\ GetInv
      /\ Ends /\ Serving("get")
  BY <1>1, Ended DEF OpInv
<1>3. ServerTypes' /\ AtomicInv'
  <2>1. IsTable(tmp') /\ tmp'.extents \in Seq(FullRows) /\ reply'.ok \in BOOLEAN
    BY <1>1, <1>2 DEF ServerTypes
  <2> QED
    BY <1>1, <1>2, <2>1, DiskSame
<1>4. TypeInv'
  BY <1>1, <1>3, GoneTypes, TypesNext
<1>5. TablesInv' /\ FullInv'
  <2>1. ~New /\ ~Truncates
    BY <1>1 DEF New, Truncates
  <2> QED
    BY <1>1, <1>2, <2>1, TablesSame
<1>6. IsData(In(1))
  <2>1. PICK p \in Starts(In(1)) : IsData(p) /\ (p \o << >>) \o Unread(1) = In(1)
    BY <1>1, <1>2 DEF GetInv, RowsOf
  <2>2. Unread(1) = << >>
    BY <1>2, NothingUnread DEF GetInv
  <2>3. In(1) \in RowSeq
    <3>1. request.in \in Seq(Tables) /\ Len(request.in) = 1
      BY <1>1, <1>2, Run, RequestIn DEF Reading
    <3>2. request.in[1] \in Tables
      BY <3>1
    <3> QED
      BY <1>2, <3>2, InRows
  <2>4. p \in RowSeq
    BY <2>3, StartsRows
  <2>5. p = In(1)
    BY <2>1, <2>2, <2>4, RowsJoin
  <2> QED
    BY <2>1, <2>5
<1>7. Correct'
  <2>1. In(1)' = In(1) /\ request' = request /\ reply' = reply
    BY <1>1, InSame
  <2>2. /\ reply'.rows = SubSeq(In(1)', 1, Min({request'.max_rows, Len(In(1)')}))
        /\ reply'.more = (Len(In(1)') > request'.max_rows)
    BY <1>6, <2>1 DEF IsData
  <2>3. request'.op = "get"
    BY <1>1
  <2> QED
    BY <2>2, <2>3 DEF Correct
<1>8. ResultIsCorrect'
  BY <1>7 DEF ResultIsCorrect
<1> QED
  BY <1>1, <1>3, <1>4, <1>5, <1>8, IdleKeeps

\* What is written to the output file is the result.
LEMMA WrittenResult ==
  ASSUME Inv, status = "returned", returned = NoExtent, request.op \notin {"get", "update"},
         request' = request, before' = before, Out' = Sent
  PROVE  Correct'
<1>1. /\ TypeInv /\ ServingInv /\ OpInv /\ Ends /\ Serving(request.op) /\ request \in Requests
      /\ Sent \in RowSeq /\ (output = NoExtent => Done = Sent)
  BY Ended
<1>2. \A i : In(i)' = In(i)
  BY InSame
<1>3. ASSUME request.op = "import" PROVE Out' = FlattenSeq(request.extents)
  <2>1. Sent \o Unread(1) = FlattenSeq(request.extents) /\ source[1].left = << >>
    BY <1>1, <1>3 DEF OpInv, ImportInv
  <2>2. Sent \o << >> = FlattenSeq(request.extents)
    BY <2>1, NothingUnread
  <2> QED
    BY <1>1, <2>2, RowsJoin
<1>4. ASSUME request.op = "merge" PROVE Out' = FlattenSeq([i \in DOMAIN request.in |-> In(i)])
  <2>1. /\ Sent \o FlattenSeq([i \in DOMAIN source |-> Unread(i)])
             = FlattenSeq([i \in DOMAIN request.in |-> In(i)])
        /\ \A i \in DOMAIN source : source[i].left = << >>
    BY <1>1, <1>4 DEF OpInv, MergeInv
  <2>2. \A i \in DOMAIN source : Unread(i) = << >>
    BY <2>1, NothingUnread
  <2>3. DOMAIN source = 1..Len(source) /\ Len(source) \in Nat
    BY <1>1 DEF TypeInv, IsSources
  <2>4. FlattenSeq([i \in DOMAIN source |-> Unread(i)]) = << >>
    <3>1. PICK ss : ss = [i \in DOMAIN source |-> Unread(i)]
      OBVIOUS
    <3>2. ss = [i \in 1..Len(source) |-> << >>]
      BY <2>2, <2>3, <3>1
    <3>3. ss \in Seq(RowSeq) /\ Len(ss) = Len(source) /\ \A i \in 1..Len(ss) : ss[i] = << >>
      BY <2>3, <3>2, FullIsRows
    <3>4. FlattenSeq(ss) = << >>
      BY <3>3, FlattenAllEmpty DEF RowSeq
    <3> QED
      BY <3>1, <3>4
  <2> QED
    BY <1>1, <2>1, <2>4, RowsJoin
<1>5. request.op \in Reading => \A i \in DOMAIN source : In(i) \in RowSeq /\ Unread(i) \in RowSeq /\ Rest(i) \in RowSeq
  BY <1>1, InRun, UnreadRows
<1>6. ASSUME request.op = "select" PROVE Out' = Only(In(1), Selected)
  <2>1. /\ Done \o Only(Unread(1), Selected) = Only(In(1), Selected)
        /\ source[1].left = << >> /\ output = NoExtent
    BY <1>1, <1>6 DEF OpInv, SelectInv
  <2>2. Only(Unread(1), Selected) = << >>
    BY <2>1, NothingUnread, SelectConcat, FullIsRows DEF RowSeq
  <2> QED
    BY <1>1, <2>1, <2>2, RowsJoin
<1>7. ASSUME request.op = "project" PROVE Out' = Project(In(1))
  <2>1. /\ Done \o Project(Unread(1)) = Project(In(1))
        /\ source[1].left = << >> /\ output = NoExtent
    BY <1>1, <1>7 DEF OpInv, ProjectInv
  <2>2. Project(Unread(1)) = << >>
    BY <2>1, NothingUnread, ProjectConcat, FullIsRows DEF RowSeq
  <2> QED
    BY <1>1, <2>1, <2>2, RowsJoin
<1>8. 1 \in DOMAIN source /\ (request.op \in {"hash", "star"} => 2 \in DOMAIN source)
  <2>2. request.op \notin Reading => Len(source) = 1 /\ DOMAIN source = 1..Len(source)
    BY <1>1, Run DEF ServingInv, TypeInv, IsSources
  <2>3. request.op \in {"hash", "star"} => request.op \in Reading
    BY DEF Reading
  <2>4. \A s \in Seq(Tables) : /\ s # << >> => 1 \in DOMAIN s
                               /\ Len(s) = 2 => 2 \in DOMAIN s
    OBVIOUS
  <2>5. CASE request.op \in Reading
    <3>1. request.in \in Seq(Tables) /\ request.in # << >> /\ DOMAIN source = DOMAIN request.in
      BY <1>1, <2>5, Run
    <3>2. request.op \in {"hash", "star"} => Len(request.in) = 2
      BY <1>1, <2>5, RequestIn
    <3>3. PICK s : s = request.in
      OBVIOUS
    <3>4. 1 \in DOMAIN s /\ (Len(s) = 2 => 2 \in DOMAIN s)
      BY <2>4, <3>1, <3>3
    <3> QED
      BY <3>1, <3>2, <3>3, <3>4
  <2>6. CASE request.op \notin Reading
    <3>1. 1 \in 1..1
      OBVIOUS
    <3> QED
      BY <2>2, <2>3, <2>6, <3>1
  <2> QED
    BY <2>5, <2>6
<1>9. ASSUME request.op = "transform" PROVE Out' = Transform(In(1))
  <2>1. PICK p \in Starts(In(1)) : p \o Rest(1) = In(1) /\ Done = Transform(p)
    BY <1>1, <1>9 DEF OpInv, TransformInv
  <2>2. source[1].left = << >> /\ series[1] = NoExtent /\ output = NoExtent
    BY <1>1, <1>9 DEF OpInv, TransformInv
  <2>3. Rest(1) = << >>
    BY <2>2, ExhaustedRest DEF Exhausted
  <2>4. p \in RowSeq
    BY <1>5, <1>8, <1>9, StartsRows DEF Reading
  <2>5. p = In(1)
    BY <2>1, <2>3, <2>4, RowsJoin
  <2> QED
    BY <1>1, <2>1, <2>2, <2>5
<1>10. ASSUME request.op = "hash" PROVE Out' = HashJoin(In(1), In(2))
  <2>1. /\ Done \o HashJoin(In(1), Rest(2)) = HashJoin(In(1), In(2))
        /\ Rest(2) = << >> /\ output = NoExtent
    BY <1>1, <1>10 DEF OpInv, HashInv
  <2>2. HashJoin(In(1), << >>) = << >>
    BY <1>5, <1>8, <1>10, HashJoinConcat, FullIsRows DEF Reading, RowSeq
  <2> QED
    BY <1>1, <2>1, <2>2, RowsJoin
<1>11. ASSUME request.op = "star" PROVE Out' = StarJoin(In(2), In(1))
  <2>1. PICK p \in Starts(In(1)) : p \o Rest(1) = In(1) /\ Sent = StarJoin(In(2), p)
    BY <1>1, <1>11 DEF OpInv, StarInv
  <2>2. Rest(1) = << >>
    BY <1>1, <1>11 DEF OpInv, StarInv
  <2>3. p \in RowSeq
    BY <1>5, <1>8, <1>11, StartsRows DEF Reading
  <2>4. p = In(1)
    BY <2>1, <2>2, <2>3, RowsJoin
  <2> QED
    BY <2>1, <2>4
<1>12. request.op \in {"sort", "union"} => request.by \in Order
  BY <1>1, RequestFields
<1>13. ASSUME request.op = "sort" PROVE Out' = StableSort(In(1), request.by)
  <2>1. /\ Done \o StableSort(FlattenSeq(mem) \o Unread(1), request.by) = StableSort(In(1), request.by)
        /\ mem = << >> /\ source[1].left = << >> /\ output = NoExtent
    BY <1>1, <1>13 DEF OpInv, SortInv
  <2>2. FlattenSeq(mem) \o Unread(1) = << >>
    BY <2>1, NothingUnread, FullIsRows, RowsJoin
  <2>3. StableSort(FlattenSeq(mem) \o Unread(1), request.by) = << >>
    BY <1>12, <1>13, <2>2, SortNothing
  <2> QED
    BY <1>1, <2>1, <2>3, RowsJoin
<1>14. ASSUME request.op = "union", AllSorted
       PROVE  Out' = StableSort(FlattenSeq(Ins), request.by)
  <2>1. /\ Done \o StableSort(FlattenSeq(Rests), request.by) = StableSort(FlattenSeq(Ins), request.by)
        /\ output = NoExtent /\ Queue = {}
        /\ mem \in 0..Len(source) /\ ~(mem < Len(source))
        /\ \A i \in DOMAIN source : UnionPlace(i)
    BY <1>1, <1>14 DEF OpInv, UnionInv, UnionProgress
  <2>2. DOMAIN source = 1..Len(source) /\ Len(source) \in Nat /\ DOMAIN series = DOMAIN source
    BY <1>1 DEF TypeInv, IsSources
  <2>3. \A i \in DOMAIN source : i <= mem /\ series[i] = NoExtent
    <3>1. \A i \in DOMAIN source : i <= mem
      BY <2>1, <2>2
    <3> QED
      BY <2>1, <2>2, <3>1 DEF Queue
  <2>4. \A i \in DOMAIN source : Rest(i) = << >>
    BY <2>1, <2>3, ExhaustedRest DEF Exhausted, UnionPlace
  <2>5. Rests \in Seq(RowSeq) /\ Len(Rests) = Len(source)
    BY <1>1, RestsType DEF Serving
  <2>6. \A i \in 1..Len(source) : Rests[i] = << >>
    BY <2>2, <2>4 DEF Rests
  <2>7. FlattenSeq(Rests) = << >>
    BY <2>5, <2>6, FlattenAllEmpty DEF RowSeq
  <2>8. StableSort(FlattenSeq(Rests), request.by) = << >>
    BY <1>12, <1>14, <2>7, SortNothing
  <2> QED
    BY <1>1, <2>1, <2>8, RowsJoin
<1>15. CASE request.op = "import"
  BY <1>3, <1>15 DEF Correct
<1>16. CASE request.op = "merge"
  <2>1. [i \in DOMAIN request'.in |-> In(i)'] = [i \in DOMAIN request.in |-> In(i)]
    BY <1>2
  <2> QED
    BY <1>4, <1>16, <2>1 DEF Correct
<1>17. CASE request.op = "select"
  BY <1>2, <1>6, <1>17 DEF Correct
<1>18. CASE request.op = "project"
  BY <1>2, <1>7, <1>18 DEF Correct
<1>19. CASE request.op = "transform"
  BY <1>2, <1>9, <1>19 DEF Correct
<1>20. CASE request.op = "hash"
  BY <1>2, <1>10, <1>20 DEF Correct
<1>21. CASE request.op = "star"
  BY <1>2, <1>11, <1>21 DEF Correct
<1>22. CASE request.op = "sort"
  BY <1>2, <1>13, <1>22 DEF Correct
<1>23. CASE request.op = "union"
  <2>1. [i \in DOMAIN request'.in |-> In(i)'] = Ins
    BY <1>2 DEF Ins
  <2>2. (\A i \in DOMAIN request'.in : Sorted(In(i)', request'.by)) => AllSorted
    BY <1>2 DEF AllSorted
  <2>3. (\A i \in DOMAIN request'.in : Sorted(In(i)', request'.by)) =>
           Out' = StableSort(FlattenSeq([i \in DOMAIN request'.in |-> In(i)']), request'.by)
    BY <1>14, <1>23, <2>1, <2>2
  <2> QED
    BY <1>23, <2>3 DEF Correct
<1>24. request.op \in Reading \cup {"import"}
  BY <1>1, Run
<1> QED
  BY <1>15, <1>16, <1>17, <1>18, <1>19, <1>20, <1>21, <1>22, <1>23, <1>24 DEF Reading

\* The table that a request has written is finished.
LEMMA WrittenFine ==
  ASSUME Inv, status = "returned", returned = NoExtent, request.op \notin {"get", "update"}
  PROVE  /\ tee.type \in {ExtentType, NullType}
         /\ tee.type = NullType => FileOf(tee).extents = << >>
         /\ output_type # MissingType
         /\ request.op = "select" => info[request.in[1]] # MissingType
<1>1. /\ TypeInv /\ ServingInv /\ TeeInv /\ Busy /\ Serving(request.op)
  BY Ended
<1>2. /\ tee.type \in {NullType, ExtentType}
      /\ tee.type = NullType => tee.rows = << >> /\ tee.extents = << >>
  BY <1>1 DEF TeeInv
<1>3. tee.type = NullType => FileOf(tee).extents = << >>
  BY <1>1, <1>2, TeeFile
<1>4. output_type # MissingType
  BY <1>1 DEF TypeInv
<1>5. ASSUME request.op = "select" PROVE info[request.in[1]] # MissingType
  <2>1. request.in \in Seq(Tables) /\ request.in # << >> /\ Typable(request)
    BY <1>1, <1>5, Run DEF Serving, Reading
  <2>2. 1 \in DOMAIN request.in
    BY <2>1
  <2> QED
    BY <1>5, <2>1, <2>2, TypableIs
<1> QED
  BY <1>2, <1>3, <1>4, <1>5

LEMMA CompleteStep ==
  ASSUME Inv, Complete
  PROVE  Inv'
<1>1. /\ status = "returned" /\ request.op \notin {"get", "update"} /\ returned = NoExtent
      /\ files' = [files EXCEPT ![request.out] = FileOf(tee)]
      /\ status' = "idle" /\ ModulesGone
      /\ UNCHANGED <<request, tmp, reply, before, served>>
  BY DEF Complete
<1>2. PICK y : y = IF request.op = "select" THEN info[request.in[1]] ELSE output_type
  OBVIOUS
<1>3. /\ info' = [info EXCEPT ![request.out] = y]
      /\ damaged' = IF y = ExtentType THEN damaged \ {request.out} ELSE damaged \cup {request.out}
  BY <1>2 DEF Complete
<1>4. /\ TypeInv /\ ServerTypes /\ TablesInv /\ FullInv /\ Busy /\ request \in Requests
      /\ Sent = Rows(FileOf(tee))
  BY <1>1, Ended
<1>5. /\ tee.type \in {ExtentType, NullType} /\ y # MissingType
      /\ tee.type = NullType => FileOf(tee).extents = << >>
  BY <1>1, <1>2, WrittenFine
<1>6. /\ IsTable(FileOf(tee)) /\ FileOf(tee).whole /\ FileOf(tee).type = tee.type
      /\ FileOf(tee).extents \in Seq(FullRows)
  BY <1>4, TeeFile
<1>7. PICK o \in Tables : o = request.out
  BY <1>4, RequestOps
<1>8. /\ DOMAIN files' = Tables /\ files'[o] = FileOf(tee)
      /\ \A t \in Tables : t # o => files'[t] = files[t]
      /\ DOMAIN info' = Tables /\ info'[o] = y
      /\ \A t \in Tables : t # o => info'[t] = info[t]
  BY <1>1, <1>3, <1>4, <1>7 DEF ServerTypes
<1>9. ServerTypes'
  <2>1. \A t \in Tables : IsTable(files'[t])
    BY <1>4, <1>6, <1>8 DEF ServerTypes
  <2>2. damaged' \subseteq Tables
    BY <1>3, <1>4, <1>7 DEF ServerTypes
  <2> QED
    BY <1>1, <1>4, <1>8, <2>1, <2>2 DEF ServerTypes
<1>10. TypeInv'
  BY <1>1, <1>9, GoneTypes, TypesNext
<1>11. ASSUME NEW t \in Tables, t # o
       PROVE  ~Written(t)
  BY <1>1, <1>7, <1>11 DEF Written, New
<1>12. TablesInv'
  <2> SUFFICES ASSUME NEW t \in Tables, t \notin damaged', info'[t] # MissingType
               PROVE  Fine(t)'
    BY DEF TablesInv
  <2>1. CASE t = o
    <3>1. y = ExtentType
      BY <1>3, <1>7, <2>1
    <3> QED
      BY <1>5, <1>6, <1>8, <2>1, <3>1 DEF Fine
  <2>2. CASE t # o
    <3>1. t \notin damaged /\ info[t] # MissingType
      BY <1>3, <1>7, <1>8, <2>2
    <3>2. Fine(t)
      BY <1>1, <1>4, <1>11, <2>2, <3>1 DEF TablesInv
    <3> QED
      BY <1>8, <2>2, <3>2 DEF Fine
  <2> QED
    BY <2>1, <2>2
<1>13. FullInv'
  <2> SUFFICES ASSUME NEW t \in Tables, info'[t] # MissingType
               PROVE  files'[t].extents \in Seq(FullRows)
    BY DEF FullInv
  <2>1. CASE t = o
    BY <1>6, <1>8, <2>1
  <2>2. CASE t # o
    <3>1. files[t].extents \in Seq(FullRows)
      BY <1>1, <1>4, <1>8, <1>11, <2>2 DEF FullInv
    <3> QED
      BY <1>8, <2>2, <3>1
  <2> QED
    BY <2>1, <2>2
<1>14. AtomicInv'
  BY <1>1 DEF AtomicInv
<1>15. Correct'
  <2>1. Out' = Sent
    BY <1>1, <1>4, <1>7, <1>8 DEF Out
  <2> QED
    BY <1>1, <2>1, WrittenResult
<1>16. ResultIsCorrect'
  BY <1>15 DEF ResultIsCorrect
<1> QED
  BY <1>1, <1>10, <1>12, <1>13, <1>14, <1>16, IdleKeeps

\* Of the keys of a table, and 0, one is the largest.
LEMMA KeysBounded ==
  ASSUME NEW s \in Seq(Row)
  PROVE  \E n \in {Null} \cup Keys(s) : \A x \in {Null} \cup Keys(s) : n >= x
<1> DEFINE T == {q \in Seq(Row) : \E n \in {0} \cup Keys(q) : \A x \in {0} \cup Keys(q) : n >= x}
<1>1. << >> \in T
  <2>1. Keys(<< >>) = {}
    BY ToSetEmpty, KeysSet
  <2> QED
    BY <2>1
<1>2. ASSUME NEW q \in Seq(Row), NEW r \in Row, q \in T
      PROVE  <<r>> \o q \in T
  <2>1. Keys(<<r>> \o q) = {r.k} \cup Keys(q) /\ <<r>> \o q \in Seq(Row)
    BY KeysFront
  <2>2. PICK n \in {0} \cup Keys(q) : \A x \in {0} \cup Keys(q) : n >= x
    BY <1>2
  <2>3. r.k \in Nat /\ \A x \in {0} \cup Keys(q) : x \in Nat
    <3>1. \A x \in ToSet(q) : x.k \in Nat
      BY AboveTypes
    <3>2. Keys(q) = {x.k : x \in ToSet(q)}
      BY KeysSet
    <3> QED
      BY <3>1, <3>2 DEF Row
  <2>4. PICK A : A = {0} \cup Keys(q)
    OBVIOUS
  <2>5. \E m \in A \cup {r.k} : \A x \in A \cup {r.k} : m >= x
    <3>1. n \in A /\ n \in Nat /\ r.k \in Nat /\ \A x \in A : n >= x /\ x \in Nat
      BY <2>2, <2>3, <2>4
    <3>2. CASE n >= r.k
      BY <3>1, <3>2
    <3>3. CASE ~(n >= r.k)
      <4>1. \A x \in A \cup {r.k} : r.k >= x
        BY <3>1, <3>3
      <4> QED
        BY <4>1
    <3> QED
      BY <3>2, <3>3
  <2>6. A \cup {r.k} = {0} \cup Keys(<<r>> \o q)
    BY <2>1, <2>4
  <2> QED
    BY <2>1, <2>5, <2>6
<1>3. \A q \in Seq(Row) : q \in T
  <2> HIDE DEF T
  <2> QED
    BY <1>1, <1>2, FrontInduction
<1> QED
  BY <1>3 DEF Null

\* The last key of a table that has rows
LEMMA LastKeyIs ==
  ASSUME NEW s \in Seq(Row), s # << >>
  PROVE  \E r \in ToSet(s) : LastKey(s) = r.k
<1>1. ToSet(s) # {} /\ \A r \in ToSet(s) : r.k \in Nat
  BY ToSetNone, AboveTypes
<1> DEFINE K == {Null} \cup Keys(s)
<1>2. Keys(s) = {r.k : r \in ToSet(s)}
  BY KeysSet
<1>3. \E n \in K : \A x \in K : n >= x
  BY KeysBounded
<1>4. LastKey(s) \in K /\ \A x \in K : LastKey(s) >= x
  <2>1. LastKey(s) = CHOOSE n \in K : \A x \in K : n >= x
    BY DEF LastKey, Max
  <2> HIDE DEF K
  <2> QED
    BY <1>3, <2>1
<1>5. CASE LastKey(s) \in Keys(s)
  BY <1>2, <1>5
<1>6. CASE LastKey(s) = Null
  <2>1. PICK r \in ToSet(s) : r.k \in Nat
    BY <1>1
  <2>2. r.k \in K
    BY <1>2
  <2>3. r.k <= 0
    BY <1>4, <1>6, <2>2 DEF Null
  <2>4. r.k = 0
    BY <2>1, <2>3
  <2> QED
    BY <1>6, <2>4 DEF Null
<1> QED
  BY <1>4, <1>5, <1>6

\* The rows of one table, all of which is used, come before what is left.
LEMMA LastKeyBelow ==
  ASSUME NEW X \in Seq(Row), NEW y \in Seq(Row), X # << >>, Passed(X, << >>, y)
  PROVE  LastKey(X) \in Nat /\ \A x \in ToSet(y) : LastKey(X) < x.k
<1>1. PICK r \in ToSet(X) : LastKey(X) = r.k
  BY LastKeyIs
<1>2. r.k \in Nat
  BY AboveTypes
<1>3. Above(y, r.k)
  BY ToSetEmpty DEF Passed
<1> QED
  BY <1>1, <1>2, <1>3 DEF Above

\* What SortedUpdateModule has made of its inputs when one of them is used up
LEMMA LeftAbove ==
  ASSUME NEW B \in Seq(Row), NEW U \in Seq(Row), NEW b \in Seq(Row), NEW u \in Seq(Row), NEW d \in Seq(Row),
         Progress(B, U, b, u, d), b = << >> \/ u = << >>, B # << >>, U # << >>
  PROVE  \A x \in ToSet(SortedUpdate(b, u)) : Min({LastKey(B), LastKey(U)}) < x.k
<1>1. CanUpdate(b, u) /\ Passed(B, b, u) /\ Passed(U, u, b)
  BY DEF Progress
<1> SUFFICES ASSUME NEW x \in ToSet(SortedUpdate(b, u))
             PROVE  Min({LastKey(B), LastKey(U)}) < x.k
  OBVIOUS
<1>2. x \in Leaves(b, u)
  BY <1>1, SortedUpdateType
<1>3. x \in Row /\ x.k \in Nat
  BY <1>2, LeavesKeys DEF Row
<1>4. LastKey(B) \in Nat /\ LastKey(U) \in Nat
  <2>1. \A s \in Seq(Row) : s # << >> => LastKey(s) \in Nat
    BY LastKeyIs, AboveTypes
  <2> QED
    BY <2>1
<1>5. /\ Min({LastKey(B), LastKey(U)}) \in {LastKey(B), LastKey(U)}
      /\ Min({LastKey(B), LastKey(U)}) <= LastKey(B)
      /\ Min({LastKey(B), LastKey(U)}) <= LastKey(U)
  BY <1>4, MinOfTwo
<1>6. CASE b = << >>
  <2>1. PICK q \in ToSet(u) : q.k = x.k
    BY <1>2, <1>6, LeavesKeys, ToSetEmpty, ZenonT(60)
  <2>2. LastKey(B) < q.k
    BY <1>1, <1>6, LastKeyBelow
  <2> QED
    BY <1>3, <1>4, <1>5, <2>1, <2>2
<1>7. CASE u = << >>
  <2>1. x \in ToSet(b)
    BY <1>2, <1>7, LeavesKeys, ToSetEmpty
  <2>2. LastKey(U) < x.k
    BY <1>1, <1>7, <2>1, LastKeyBelow
  <2> QED
    BY <1>3, <1>4, <1>5, <2>2
<1> QED
  BY <1>6, <1>7

LEMMA ConcatParts ==
  ASSUME NEW d \in Seq(Row), NEW s \in Seq(Row)
  PROVE  /\ IsPrefix(d, d \o s) /\ Len(d \o s) = Len(d) + Len(s) /\ Len(d) \in Nat
         /\ \A i \in DOMAIN (d \o s) : i <= Len(d) \/ (d \o s)[i] \in ToSet(s)
<1>1. /\ Len(d) \in Nat /\ Len(s) \in Nat /\ Len(d \o s) = Len(d) + Len(s) /\ d \o s \in Seq(Row)
      /\ DOMAIN (d \o s) = 1..(Len(d) + Len(s))
      /\ \A i \in 1..(Len(d) + Len(s)) : (d \o s)[i] = IF i <= Len(d) THEN d[i] ELSE s[i - Len(d)]
  OBVIOUS
<1>2. SubSeq(d, 1, Len(d)) = SubSeq(d \o s, 1, Len(d))
  BY <1>1
<1>3. ASSUME NEW i \in 1..(Len(d) + Len(s)), ~(i <= Len(d))
      PROVE  (d \o s)[i] \in ToSet(s)
  <2>1. i - Len(d) \in DOMAIN s /\ (d \o s)[i] = s[i - Len(d)]
    BY <1>1, <1>3
  <2> QED
    BY <2>1, ToSetMember
<1> QED
  BY <1>1, <1>2, <1>3 DEF IsPrefix

\* What UpdateWrote says of rows of a base table and an update
Wrote(rows, B, U) ==
  LET result == SortedUpdate(B, U)
      end    == Min({LastKey(B), LastKey(U)})
  IN  /\ IsPrefix(rows, result)
      /\ B # << >> /\ U # << >> =>
           /\ \A i \in DOMAIN result : result[i].k <= end => i <= Len(rows)
           /\ Len(result) <= Limit => rows = result

LEMMA WroteEnough ==
  ASSUME NEW B \in Seq(Row), NEW U \in Seq(Row), NEW b \in Seq(Row), NEW u \in Seq(Row), NEW d \in Seq(Row),
         Progress(B, U, b, u, d), b = << >> \/ u = << >>,
         (b = B /\ u = U) \/ Len(d) >= Limit \/ (b = << >> /\ u = << >>)
  PROVE  Wrote(d, B, U)
<1>1. CanUpdate(b, u) /\ d \o SortedUpdate(b, u) = SortedUpdate(B, U)
  BY DEF Progress
<1>2. PICK s \in Seq(Row) : s = SortedUpdate(b, u)
  BY <1>1, SortedUpdateType
<1>3. PICK w : w = SortedUpdate(B, U)
  OBVIOUS
<1>4. w = d \o s
  BY <1>1, <1>2, <1>3
<1>5. /\ IsPrefix(d, w) /\ Len(w) = Len(d) + Len(s) /\ Len(d) \in Nat
      /\ \A i \in DOMAIN w : i <= Len(d) \/ w[i] \in ToSet(s)
  BY <1>4, ConcatParts
<1>6. PICK end : end = Min({LastKey(B), LastKey(U)})
  OBVIOUS
<1>7. ASSUME B # << >>, U # << >>, NEW i \in DOMAIN w, w[i].k <= end
      PROVE  i <= Len(d)
  <2>1. \A x \in ToSet(s) : end < x.k /\ x.k \in Nat
    BY <1>2, <1>6, <1>7, LeftAbove, AboveTypes
  <2>2. end \in Nat
    <3>1. LastKey(B) \in Nat /\ LastKey(U) \in Nat
      BY <1>7, LastKeyIs, AboveTypes
    <3> QED
      BY <1>6, <3>1, MinOfTwo
  <2>3. w[i] \in ToSet(s) => FALSE
    BY <1>7, <2>1, <2>2
  <2> QED
    BY <1>5, <2>3
<1>8. ASSUME B # << >>, U # << >>, Len(w) <= Limit
      PROVE  d = w
  <2>1. s = << >>
    <3>1. CASE Len(d) >= Limit
      BY <1>5, <1>8, <3>1, Constants
    <3>2. CASE b = << >> /\ u = << >>
      BY <1>2, <3>2, UpdateNothing
    <3> QED
      BY <1>8, <3>1, <3>2
  <2> QED
    BY <1>4, <2>1, RowsJoin DEF RowSeq
<1> QED
  BY <1>3, <1>5, <1>6, <1>7, <1>8 DEF Wrote

\* What was written of an update that has ended
LEMMA UpdateEnds ==
  ASSUME Inv, status = "returned", request.op = "update", returned = NoExtent, CanUpdate(In(1), In(2))
  PROVE  UpdateWrote(Rows(FileOf(tee)))
<1>1. /\ TypeInv /\ ServingInv /\ Ends /\ Serving("update") /\ UpdateInv
      /\ Sent = Rows(FileOf(tee)) /\ Sent \in RowSeq /\ (output = NoExtent => Done = Sent)
  BY Ended DEF OpInv
<1>2. UpdateOutput /\ Progress(In(1), In(2), Rest(1), Rest(2), Done)
  BY <1>1 DEF UpdateInv
<1>3. output = NoExtent /\ (Exhausted(1) \/ Exhausted(2))
  BY <1>1, <1>2 DEF UpdateOutput
<1>4. \/ Rest(1) = In(1) /\ Rest(2) = In(2)
      \/ Len(Done) >= Limit
      \/ Exhausted(1) /\ Exhausted(2)
  BY <1>2, <1>3 DEF UpdateOutput
<1>5. DOMAIN source = {1, 2}
  <2>1. request \in Requests /\ Len(source) = Len(request.in)
    BY <1>1, Run DEF Serving, Reading
  <2>2. Len(request.in) = 2
    BY <1>1, <2>1, RequestIn DEF Serving, Reading
  <2>3. DOMAIN source = 1..Len(source)
    BY <1>1 DEF TypeInv, IsSources
  <2>4. 1..2 = {1, 2}
    OBVIOUS
  <2> QED
    BY <2>1, <2>2, <2>3, <2>4
<1>6. /\ In(1) \in RowSeq /\ In(2) \in RowSeq /\ Rest(1) \in RowSeq /\ Rest(2) \in RowSeq
  BY <1>1, <1>5, InRun, UnreadRows DEF Serving, Reading
<1>7. (Exhausted(1) => Rest(1) = << >>) /\ (Exhausted(2) => Rest(2) = << >>)
  BY ExhaustedRest
<1>8. Wrote(Done, In(1), In(2))
  <2>1. Done \in RowSeq
    BY <1>1, <1>3
  <2> QED
    BY <1>2, <1>3, <1>4, <1>6, <1>7, <2>1, WroteEnough DEF RowSeq
<1> QED
  BY <1>1, <1>3, <1>8 DEF Wrote, UpdateWrote

\* The base table of an update is read as the type it is listed with, but for
\* one that a failed import left.
LEMMA BaseType ==
  ASSUME TypeInv, ServingInv, TablesInv, status \in {"run", "returned"}, request.op = "update",
         request.in[1] \notin damaged
  PROVE  source[1].type = info[request.in[1]]
<1> DEFINE t == request.in[1]
<1>1. request.op \in Reading /\ ~Truncates
  BY DEF Reading, Truncates
<1>2. 1 \in DOMAIN source
  <2>1. request.in \in Seq(Tables) /\ request.in # << >> /\ DOMAIN source = DOMAIN request.in
    BY <1>1, Run
  <2>2. 1 \in DOMAIN request.in
    BY <2>1
  <2> QED
    BY <2>1, <2>2
<1>3. t \in Tables /\ IsTable(files[t])
  BY <1>1, <1>2, InRun DEF TypeInv
<1>4. CASE New
  BY <1>1, <1>2, <1>4, SourceListed
<1>5. CASE ~New
  <2>1. /\ info[t] # NullType /\ info[t] # MissingType
        /\ source[1].type = Found(before.files[t], info[t]) /\ files[t] = before.files[t]
    BY <1>1, <1>2, <1>5, SourceListed
  <2>2. ~Written(t)
    BY <1>1, <1>5, NoneWritten
  <2>3. Fine(t)
    BY <1>3, <2>1, <2>2 DEF TablesInv
  <2> QED
    BY <1>3, <2>1, <2>3, FoundIs DEF Fine
<1> QED
  BY <1>4, <1>5

LEMMA CompleteUpdateStep ==
  ASSUME Inv, CompleteUpdate
  PROVE  Inv'
<1>1. /\ status = "returned" /\ request.op = "update" /\ returned = NoExtent
      /\ tmp' = FileOf(tee) /\ status' = "rename" /\ ModulesGone
      /\ UNCHANGED <<files, request, info, reply, before, served, damaged>>
  BY DEF CompleteUpdate
<1>2. /\ TypeInv /\ ServerTypes /\ ServingInv /\ TablesInv /\ FullInv /\ AtomicInv /\ TeeInv
      /\ Busy /\ Serving("update") /\ request \in Requests
  BY <1>1, Ended
<1>3. /\ IsTable(tmp') /\ tmp'.whole /\ tmp'.type = tee.type /\ tmp'.extents \in Seq(FullRows)
      /\ tee.rows = << >> /\ tee.extents = << >> => tmp'.extents = << >>
  BY <1>1, <1>2, TeeFile
<1>4. ServerTypes' /\ AtomicInv'
  <2>1. reply'.ok \in BOOLEAN
    BY <1>1, <1>2 DEF ServerTypes
  <2> QED
    BY <1>1, <1>2, <1>3, <2>1, DiskSame
<1>5. TypeInv'
  BY <1>1, <1>4, GoneTypes, TypesNext
<1>6. ~Busy' /\ (New' <=> New) /\ \A t : Written(t)' <=> Written(t)
  BY <1>1, <1>2 DEF Busy, New, Written, Truncates
<1>7. ServingInv'
  <2>1. /\ request # NoRequest /\ request.op \in Reading \cup {"import"}
        /\ files = FilesNow /\ info = InfoNow
        /\ request.op \in Reading => Typable(request)
        /\ New => request.in[1] # request.in[2]
    BY <1>2 DEF ServingInv
  <2>2. FilesNow' = FilesNow /\ InfoNow' = InfoNow /\ New' = New
    BY <1>1, SameNow
  <2>3. Typable(request)' = Typable(request)
    BY <1>1, SameVerdict
  <2>4. /\ request' # NoRequest /\ request'.op \in Reading \cup {"import"}
        /\ files' = FilesNow' /\ info' = InfoNow'
        /\ request'.op \in Reading => Typable(request)'
        /\ New' => request'.in[1] # request'.in[2]
    BY <1>1, <2>1, <2>2, <2>3
  <2> QED
    BY <1>1, <1>6, <2>4 DEF ServingInv
<1>8. TablesInv' /\ FullInv'
  BY <1>1, <1>2, <1>6 DEF TablesInv, FullInv, Fine
<1>9. RenameInv'
  <2>1. tee.type \in {NullType, source[1].type}
    BY <1>1, <1>2 DEF TeeInv, ExtentType
  <2>2. request.in[1] \notin damaged => source[1].type = info[request.in[1]]
    BY <1>1, <1>2, BaseType DEF Serving
  <2>3. tmp'.type = NullType => tmp'.extents = << >>
    BY <1>1, <1>2, <1>3 DEF TeeInv
  <2>4. CanUpdate(In(1), In(2))' => UpdateWrote(Rows(tmp))'
    <3>1. CanUpdate(In(1), In(2)) => UpdateWrote(Rows(FileOf(tee)))
      BY <1>1, UpdateEnds
    <3>2. In(1)' = In(1) /\ In(2)' = In(2)
      BY <1>1, InSame
    <3>3. UpdateWrote(Rows(FileOf(tee))) => UpdateWrote(Rows(tmp))'
      BY <1>1, <3>2 DEF UpdateWrote, Rows
    <3> QED
      BY <3>1, <3>2, <3>3
  <2>5. request'.in[1] \notin damaged' => tmp'.type \in {info'[request'.in[1]], NullType}
    BY <1>1, <1>3, <2>1, <2>2
  <2> QED
    BY <1>1, <1>3, <2>3, <2>4, <2>5 DEF RenameInv
<1>10. TeeInv' /\ OpInv' /\ ErrorInv' /\ ResultIsCorrect' /\ DiesOnlyAsKnown'
  <2>1. TeeInv' /\ ErrorInv' /\ ResultIsCorrect' /\ DiesOnlyAsKnown'
    BY <1>1, <1>6 DEF TeeInv, ErrorInv, ResultIsCorrect, Answered, DiesOnlyAsKnown
  <2>2. \A op : ~Serving(op)'
    BY <1>1 DEF Serving
  <2> QED
    BY <2>1, <2>2, OtherOps DEF OpInv
<1> QED
  BY <1>4, <1>5, <1>7, <1>8, <1>9, <1>10 DEF Inv

LEMMA RenameStep ==
  ASSUME Inv, Rename
  PROVE  Inv'
<1>1. /\ status = "rename" /\ files' = [files EXCEPT ![request.in[1]] = tmp]
      /\ tmp' = NoFile /\ status' = "idle"
      /\ UNCHANGED <<request, moduleVars, returned, info, tee, reply, before, served, damaged>>
  BY DEF Rename
<1>2. /\ TypeInv /\ ModuleTypes /\ ServerTypes /\ ServingInv /\ TablesInv /\ FullInv /\ RenameInv
  BY TypesAre DEF Inv
<1>3. /\ request.op = "update" /\ tmp.whole
      /\ request.in[1] \notin damaged => tmp.type \in {info[request.in[1]], NullType}
      /\ tmp.type = NullType => tmp.extents = << >>
      /\ CanUpdate(In(1), In(2)) => UpdateWrote(Rows(tmp))
      /\ IsTable(tmp) /\ tmp.extents \in Seq(FullRows)
  BY <1>1, <1>2 DEF RenameInv, ServerTypes
<1>4. PICK o \in Tables : o = request.in[1]
  <2>1. request \in Requests
    BY <1>1, <1>2 DEF ServingInv, ServerTypes
  <2>2. request.in \in Seq(Tables) /\ request.in # << >>
    BY <1>3, <2>1, RequestIn DEF Reading
  <2>3. request.in[1] \in Tables
    BY <2>2
  <2> QED
    BY <2>3
<1>5. /\ DOMAIN files' = Tables /\ files'[o] = tmp
      /\ \A t \in Tables : t # o => files'[t] = files[t]
  BY <1>1, <1>2, <1>4 DEF ServerTypes
<1>6. ServerTypes'
  <2>1. \A t \in Tables : IsTable(files'[t])
    BY <1>2, <1>3, <1>5 DEF ServerTypes
  <2>2. IsTable(tmp') /\ tmp'.extents \in Seq(FullRows)
    BY <1>1, NoFileIs
  <2> QED
    BY <1>1, <1>2, <1>5, <2>1, <2>2 DEF ServerTypes
<1>7. TypeInv'
  <2>1. ModuleTypes'
    BY <1>1, <1>2 DEF ModuleTypes, moduleVars, IsTee, IsSources, TypesIn
  <2> QED
    BY <1>6, <2>1, TypesNext
<1>8. ASSUME NEW t \in Tables, t # o
      PROVE  ~Written(t)
  BY <1>1, <1>3, <1>4, <1>8 DEF Written, Busy
<1>9. TablesInv'
  <2> SUFFICES ASSUME NEW t \in Tables, t \notin damaged', info'[t] # MissingType
               PROVE  Fine(t)'
    BY DEF TablesInv
  <2>1. CASE t = o
    BY <1>1, <1>3, <1>4, <1>5, <2>1 DEF Fine
  <2>2. CASE t # o
    <3>1. Fine(t)
      BY <1>1, <1>2, <1>8, <2>2 DEF TablesInv
    <3> QED
      BY <1>1, <1>5, <2>2, <3>1 DEF Fine
  <2> QED
    BY <2>1, <2>2
<1>10. FullInv'
  <2> SUFFICES ASSUME NEW t \in Tables, info'[t] # MissingType
               PROVE  files'[t].extents \in Seq(FullRows)
    BY DEF FullInv
  <2>1. CASE t = o
    BY <1>3, <1>5, <2>1
  <2>2. CASE t # o
    <3>1. files[t].extents \in Seq(FullRows)
      BY <1>1, <1>2, <1>8, <2>2 DEF FullInv
    <3> QED
      BY <1>5, <2>2, <3>1
  <2> QED
    BY <2>1, <2>2
<1>11. CanUpdate(In(1), In(2))' => UpdateWrote(Rows(files[request.in[1]]))'
  <2>1. In(1)' = In(1) /\ In(2)' = In(2)
    BY <1>1, InSame
  <2>2. UpdateWrote(Rows(tmp)) => UpdateWrote(Rows(files[request.in[1]]))'
    BY <1>1, <1>4, <1>5, <2>1 DEF UpdateWrote, Rows
  <2> QED
    BY <1>3, <2>1, <2>2
<1>12. AtomicInv'
  <2>1. files'[request'.in[1]].whole
    BY <1>1, <1>3, <1>4, <1>5
  <2> QED
    BY <1>11, <2>1 DEF AtomicInv
<1>13. ResultIsCorrect'
  <2>1. request'.op = "update"
    BY <1>1, <1>3
  <2>2. Correct'
    BY <1>11, <2>1 DEF Correct
  <2> QED
    BY <2>2 DEF ResultIsCorrect
<1> QED
  BY <1>1, <1>7, <1>9, <1>10, <1>12, <1>13, IdleKeeps

----------------------------------------------------------------------------
\* Nothing that the tables depend on changes.
LEMMA ServingSame ==
  ASSUME ServingInv, (Busy' <=> Busy), (status' = "rename" <=> status = "rename"),
         (status' = "write" <=> status = "write"),
         UNCHANGED <<files, request, info, before>>, source' = source, output_type' = output_type
  PROVE  ServingInv'
<1>1. FilesNow' = FilesNow /\ InfoNow' = InfoNow /\ New' = New /\ \A i : ReadType(i)' = ReadType(i)
  BY SameNow
<1>2. Typable(request)' = Typable(request)
  BY SameVerdict
<1>3. Busy \/ status = "rename" =>
        /\ request' # NoRequest /\ request'.op \in Reading \cup {"import"}
        /\ files' = FilesNow' /\ info' = InfoNow'
        /\ request'.op \in Reading => Typable(request)'
        /\ New' => request'.in[1] # request'.in[2]
  BY <1>1, <1>2 DEF ServingInv
<1>4. Busy /\ request'.op \in Reading =>
        /\ Len(source') = Len(request'.in)
        /\ \A i \in DOMAIN source' : /\ source'[i].table = request'.in[i]
                                     /\ source'[i].type = ReadType(i)'
  BY <1>1 DEF ServingInv
<1>5. Busy /\ request'.op = "import" =>
        /\ Len(source') = 1 /\ Opened(1)'
        /\ source'[1].type = request'.type /\ output_type' = request'.type
  BY DEF ServingInv, Opened
<1>6. status' = "write" =>
        /\ request' # NoRequest /\ request'.op \in {"update", "rows", "child"}
        /\ files' = [before'.files EXCEPT ![Target'] = NoFile] /\ info' = before'.info
        /\ request'.op = "update" => New' /\ Typable(request)'
  BY <1>1, <1>2 DEF ServingInv, Target
<1> QED
  BY <1>3, <1>4, <1>5, <1>6 DEF ServingInv

\* What was returned is taken, and the module is pulled again.
LEMMA PullKeeps ==
  ASSUME Inv, status = "returned", Pulling, IsTee(tee'), reply'.ok \in BOOLEAN, TeeInv', ThisOp'
  PROVE  Inv'
<1>1. /\ status' = "run"
      /\ UNCHANGED <<files, request, moduleVars, returned, info, tmp, before, served, damaged>>
  BY DEF Pulling
<1>2. /\ TypeInv /\ ModuleTypes /\ ServerTypes /\ ServingInv /\ TablesInv /\ FullInv /\ AtomicInv
  BY TypesAre DEF Inv
<1>3. source' = source /\ series' = series /\ output' = output /\ output_type' = output_type
  BY <1>1 DEF moduleVars
<1>4. TypeInv'
  <2>1. ModuleTypes'
    BY <1>1, <1>2, <1>3 DEF ModuleTypes, IsSources, TypesIn
  <2>2. ServerTypes'
    BY <1>1, <1>2 DEF ServerTypes
  <2> QED
    BY <2>1, <2>2, TypesNext
<1>5. Busy /\ Busy' /\ (New' <=> New) /\ \A t : Written(t)' <=> Written(t)
  BY <1>1 DEF Busy, New, Written, Truncates
<1>6. ServingInv'
  BY <1>1, <1>2, <1>3, <1>5, ServingSame
<1>7. TablesInv' /\ FullInv'
  BY <1>1, <1>2, <1>5 DEF TablesInv, FullInv, Fine
<1>8. AtomicInv'
  <2>1. In(1)' = In(1) /\ In(2)' = In(2)
    BY <1>1, InSame
  <2> QED
    BY <1>1, <1>2, <1>5, <2>1 DEF AtomicInv, UpdateWrote, Rows
<1>9. OpInv'
  <2>1. \A op : Serving(op)' => request'.op = op
    BY DEF Serving
  <2> QED
    BY <2>1, OtherOps, Zenon DEF OpInv, ThisOp
<1>10. ErrorInv' /\ RenameInv' /\ ResultIsCorrect' /\ DiesOnlyAsKnown'
  BY <1>1 DEF ErrorInv, RenameInv, ResultIsCorrect, Answered, DiesOnlyAsKnown
<1> QED
  BY <1>4, <1>6, <1>7, <1>8, <1>9, <1>10 DEF Inv

\* The module has what it had.
SameWork ==
  /\ request' = request /\ before' = before /\ damaged' = damaged
  /\ source' = source /\ series' = series /\ output' = output /\ output_type' = output_type /\ mem' = mem
  /\ Sent' = Sent /\ Done' = Done /\ (Begun' <=> Begun) /\ (Ends' => Ends)
  /\ status' = "returned" => status = "returned"

SamePlaces(i) == In(i)' = In(i) /\ Unread(i)' = Unread(i) /\ Rest(i)' = Rest(i) /\ (Opened(i)' <=> Opened(i))

LEMMA WorkSame ==
  ASSUME SameWork
  PROVE  /\ \A i : SamePlaces(i)
         /\ [i \in DOMAIN source |-> Unread(i)]' = [i \in DOMAIN source |-> Unread(i)]
         /\ Rests' = Rests /\ Ins' = Ins
<1>1. \A i : In(i)' = In(i)
  BY InSame DEF SameWork
<1>2. \A i : Opened(i)' <=> Opened(i)
  BY DEF SameWork, Opened
<1>3. \A i : Unread(i)' = Unread(i)
  <2> SUFFICES ASSUME NEW i PROVE Unread(i)' = Unread(i)
    OBVIOUS
  <2>1. Unread(i)' = IF Opened(i)' THEN FlattenSeq(source'[i].left) ELSE In(i)'
    BY DEF Unread
  <2>2. source'[i].left = source[i].left
    BY DEF SameWork
  <2> QED
    BY <1>1, <1>2, <2>1, <2>2 DEF Unread
<1>4. \A i : Rest(i)' = Rest(i)
  <2> SUFFICES ASSUME NEW i PROVE Rest(i)' = Rest(i)
    OBVIOUS
  <2>1. Rest(i)' = RowsOf(series'[i]) \o Unread(i)'
    BY DEF Rest, RowsOf
  <2>2. series'[i] = series[i]
    BY DEF SameWork
  <2> QED
    BY <1>3, <2>1, <2>2 DEF Rest
<1>5. source' = source /\ request' = request
  BY DEF SameWork
<1>6. [i \in DOMAIN source |-> Unread(i)]' = [i \in DOMAIN source |-> Unread(i)]
  BY <1>3, <1>5
<1>7. Rests' = Rests /\ Ins' = Ins
  BY <1>1, <1>4, <1>5 DEF Rests, Ins
<1> QED
  BY <1>1, <1>2, <1>3, <1>4, <1>6, <1>7 DEF SamePlaces

LEMMA SameWorkKeeps ==
  ASSUME OpInv, status \in {"run", "returned"}, request.op # "get", SameWork
  PROVE  ThisOp'
<1>1. /\ request' = request /\ before' = before /\ damaged' = damaged
      /\ source' = source /\ series' = series /\ output' = output /\ output_type' = output_type /\ mem' = mem
      /\ Sent' = Sent /\ Done' = Done /\ (Begun' <=> Begun) /\ (Ends' => Ends)
      /\ status' = "returned" => status = "returned"
  BY DEF SameWork
<1>2. \A i : In(i)' = In(i) /\ Unread(i)' = Unread(i) /\ Rest(i)' = Rest(i) /\ (Opened(i)' <=> Opened(i))
  BY WorkSame DEF SamePlaces
<1>3. /\ FlattenSeq([i \in DOMAIN source |-> Unread(i)])' = FlattenSeq([i \in DOMAIN source |-> Unread(i)])
      /\ FlattenSeq([i \in DOMAIN request.in |-> In(i)])' = FlattenSeq([i \in DOMAIN request.in |-> In(i)])
      /\ Rests' = Rests /\ Ins' = Ins
  BY WorkSame DEF Ins
<1>4. Serving(request.op)
  BY DEF Serving
<1>5. request.op = "import" => ImportInv'
  BY <1>1, <1>2, <1>4 DEF OpInv, ImportInv
<1>6. request.op = "merge" => MergeInv'
  BY <1>1, <1>2, <1>3, <1>4 DEF OpInv, MergeInv, TypesIn
<1>7. request.op = "select" => SelectInv'
  BY <1>1, <1>2, <1>4 DEF OpInv, SelectInv
<1>8. request.op = "project" => ProjectInv'
  BY <1>1, <1>2, <1>4 DEF OpInv, ProjectInv
<1>9. request.op = "transform" => TransformInv'
  BY <1>1, <1>2, <1>4 DEF OpInv, TransformInv
<1>10. request.op = "hash" => HashInv'
  BY <1>1, <1>2, <1>4 DEF OpInv, HashInv
<1>11. request.op = "star" => StarInv'
  BY <1>1, <1>2, <1>4 DEF OpInv, StarInv
<1>12. request.op = "sort" => SortInv'
  BY <1>1, <1>2, <1>4 DEF OpInv, SortInv
<1>13. request.op = "union" => UnionInv'
  <2>1. \A i : UnionPlace(i)' <=> UnionPlace(i)
    BY <1>1, <1>2 DEF UnionPlace
  <2>2. \A i : UnionFull(i)' <=> UnionFull(i)
    BY <1>1, <1>2 DEF UnionFull
  <2>3. (AllSorted' <=> AllSorted) /\ (UnionProgress' <=> UnionProgress)
    BY <1>1, <1>2, <1>3 DEF AllSorted, UnionProgress
  <2>4. Queue' = Queue
    BY <1>1 DEF Queue
  <2> QED
    BY <1>1, <1>4, <2>1, <2>2, <2>3, <2>4 DEF OpInv, UnionInv
<1>14. request.op = "update" => UpdateInv'
  <2> SUFFICES ASSUME request.op = "update" PROVE UpdateInv'
    OBVIOUS
  <2>1. UpdateControl /\ UpdateOutput
        /\ (CanUpdate(In(1), In(2)) => Progress(In(1), In(2), Rest(1), Rest(2), Done))
    BY <1>4 DEF OpInv, UpdateInv
  <2>2. New' <=> New
    BY <1>1 DEF New
  <2>3. UpdatePlace(1)' /\ UpdatePlace(2)'
    BY <1>1, <1>2, <2>1, <2>2 DEF UpdateControl, UpdatePlace, Exhausted
  <2>4. UpdateControl'
    BY <1>1, <1>2, <2>1, <2>2, <2>3 DEF UpdateControl, Exhausted
  <2>5. UpdateOutput'
    BY <1>1, <1>2, <2>1 DEF UpdateOutput, Exhausted
  <2> QED
    BY <1>1, <1>2, <2>1, <2>4, <2>5 DEF UpdateInv
<1> QED
  BY <1>1, <1>5, <1>6, <1>7, <1>8, <1>9, <1>10, <1>11, <1>12, <1>13, <1>14 DEF ThisOp

LEMMA TeeExtentStep ==
  ASSUME Inv, TeeExtent
  PROVE  Inv'
<1>1. /\ status = "returned" /\ request.op # "get" /\ returned # NoExtent
      /\ tee' = WriteAll([tee EXCEPT !.type = ExtentType], returned)
      /\ reply' = reply /\ Pulling
  BY DEF TeeExtent
<1>2. /\ status' = "run" /\ request' = request /\ before' = before /\ damaged' = damaged
      /\ source' = source /\ series' = series /\ output' = output /\ output_type' = output_type /\ mem' = mem
      /\ returned' = returned
  BY <1>1 DEF Pulling, moduleVars
<1>3. /\ TypeInv /\ IsTee(tee) /\ reply.ok \in BOOLEAN /\ TeeInv /\ OpInv
      /\ returned \in RowSeq /\ RowsOf(returned) = returned
  BY <1>1, RowsOfType DEF Inv, TypeInv
<1>4. Begun /\ ExtentType # NullType
  BY <1>1, <1>3 DEF TeeInv, Busy, Begun, Returns
<1>5. PICK y : y = ExtentType
  OBVIOUS
<1>6. y # MissingType
  <2>1. ServingInv
    BY DEF Inv
  <2>2. \A i \in DOMAIN source : source[i].type # MissingType
    BY <1>1, <1>3, <2>1, SourceTyped
  <2>3. output_type # MissingType
    BY <1>3 DEF TypeInv
  <2>4. 1 \in DOMAIN source
    <3>1. Len(source) >= 1 /\ Len(source) \in Nat /\ DOMAIN source = 1..Len(source)
      <4>1. Len(source) \in Nat /\ DOMAIN source = 1..Len(source)
        BY <1>3 DEF TypeInv, IsSources
      <4>2. request.op = "import" => Len(source) = 1
        BY <1>1, <2>1 DEF ServingInv, Busy
      <4>3. request.op \in Reading => request.in \in Seq(Tables) /\ request.in # << >> /\ Len(source) = Len(request.in)
        BY <1>1, <1>3, <2>1, Run
      <4>4. request.op \in Reading => Len(source) # 0
        BY <4>3
      <4>5. request.op \in Reading \cup {"import"}
        BY <1>1, <1>3, <2>1, Run
      <4> QED
        BY <4>1, <4>2, <4>4, <4>5
    <3> QED
      BY <3>1
  <2> QED
    BY <1>5, <2>2, <2>3, <2>4 DEF ExtentType
<1>7. PICK t : t = [tee EXCEPT !.type = y]
  OBVIOUS
<1>8. t \in Tees(y) /\ Rows(FileOf(t)) = Rows(FileOf(tee))
  <2>1. t \in Tees(y)
    BY <1>3, <1>7, IsTeeIn
  <2>2. t.rows = tee.rows /\ t.extents = tee.extents
    BY <1>3, <1>7 DEF IsTee
  <2> QED
    BY <2>1, <2>2 DEF Rows, FileOf, Flushed
<1>9. tee' \in Tees(y) /\ Rows(FileOf(tee')) = Rows(FileOf(t)) \o returned
  BY <1>1, <1>3, <1>5, <1>7, <1>8, WriteAllWrites
<1>10. IsTee(tee') /\ tee'.type = y
  BY <1>6, <1>9, TeeIs
<1>11. Sent' = Sent
  <2>1. Sent = Rows(FileOf(tee)) \o returned
    BY <1>1, <1>3 DEF Sent
  <2>2. Sent' = Rows(FileOf(tee')) \o << >>
    BY <1>2 DEF Sent
  <2>3. Rows(FileOf(tee')) \in RowSeq
    BY <1>9, FlushedRows
  <2> QED
    BY <1>8, <1>9, <2>1, <2>2, <2>3, RowsJoin
<1>12. SameWork
  <2>1. Done' = Done
    BY <1>2, <1>11 DEF Done
  <2>2. ~Ends' /\ Begun'
    BY <1>2, <1>4, <1>5, <1>10 DEF Ends, Begun
  <2> QED
    BY <1>2, <1>4, <1>11, <2>1, <2>2 DEF SameWork
<1>13. ThisOp'
  BY <1>1, <1>3, <1>12, SameWorkKeeps
<1>14. TeeInv'
  <2>1. ExtentType' = ExtentType
    BY <1>2 DEF ExtentType
  <2> QED
    BY <1>4, <1>5, <1>10, <2>1 DEF TeeInv
<1> QED
  BY <1>1, <1>3, <1>10, <1>13, <1>14, PullKeeps

LEMMA MoreSet ==
  ASSUME NEW d, NEW o, NEW a, NEW x, NEW v, d = [ok |-> o, rows |-> a, more |-> x]
  PROVE  [d EXCEPT !.more = v] = [ok |-> o, rows |-> a, more |-> v]
OBVIOUS

LEMMA RowsSet ==
  ASSUME NEW d, NEW o, NEW a, NEW x, NEW v, d = [ok |-> o, rows |-> a, more |-> x]
  PROVE  [d EXCEPT !.rows = Append(d.rows, v)] = [ok |-> o, rows |-> Append(a, v), more |-> x]
OBVIOUS

IsTrue(v) == v = TRUE

Reply(o, a, x) == [ok |-> o, rows |-> a, more |-> x]

LEMMA RowAdded ==
  ASSUME NEW d, NEW t, NEW a, NEW x, NEW row, NEW v, IsTrue(v), d = Reply(t, a, x)
  PROVE  /\ Room(a) => AddRow(d, row) = Reply(t, Append(a, row), x)
         /\ ~Room(a) => AddRow(d, row) = Reply(t, a, v)
<1>1. d.rows = a
  BY DEF Reply
<1>2. [d EXCEPT !.rows = Append(d.rows, row)] = Reply(t, Append(a, row), x)
  BY RowsSet DEF Reply
<1>3. PICK w : w = v
  OBVIOUS
<1>4. [d EXCEPT !.more = w] = Reply(t, a, w)
  BY MoreSet DEF Reply
<1>5. /\ Room(d.rows) => AddRow(d, row) = [d EXCEPT !.rows = Append(d.rows, row)]
      /\ ~Room(d.rows) => AddRow(d, row) = [d EXCEPT !.more = w]
  BY <1>3, Zenon DEF AddRow, IsTrue
<1>6. CASE Room(a)
  <2>1. AddRow(d, row) = [d EXCEPT !.rows = Append(d.rows, row)]
    BY <1>1, <1>5, <1>6
  <2> QED
    BY <1>2, <1>6, <2>1
<1>7. CASE ~Room(a)
  <2>1. AddRow(d, row) = [d EXCEPT !.more = w]
    BY <1>1, <1>5, <1>7
  <2> QED
    BY <1>3, <1>4, <1>7, <2>1
<1> QED
  BY <1>6, <1>7

\* TableDataModule: the reply that rows of a table give
DataOf(p) == [ok |-> TRUE, rows |-> SubSeq(p, 1, Min({request.max_rows, Len(p)})),
              more |-> Len(p) > request.max_rows]

LEMMA DataRows ==
  ASSUME NEW p \in RowSeq, NEW m \in Nat
  PROVE  /\ SubSeq(p, 1, Min({m, Len(p)})) \in RowSeq
         /\ Len(SubSeq(p, 1, Min({m, Len(p)}))) = Min({m, Len(p)})
         /\ Len(p) < m => Min({m, Len(p)}) = Len(p) /\ SubSeq(p, 1, Min({m, Len(p)})) = p
         /\ ~(Len(p) < m) => Min({m, Len(p)}) = m
<1>1. Len(p) \in Nat
  BY DEF RowSeq
<1>2. PICK n : n = Min({m, Len(p)})
  OBVIOUS
<1>3. n \in {m, Len(p)} /\ n <= m /\ n <= Len(p)
  BY <1>1, <1>2, MinOfTwo
<1>4. n \in 0..Len(p)
  BY <1>1, <1>3
<1>5. SubSeq(p, 1, n) \in RowSeq /\ Len(SubSeq(p, 1, n)) = n /\ SubSeq(p, 1, Len(p)) = p
  BY <1>4, PrefixFacts DEF RowSeq
<1>6. (Len(p) < m => n = Len(p)) /\ (~(Len(p) < m) => n = m)
  BY <1>1, <1>3
<1> QED
  BY <1>2, <1>5, <1>6

LEMMA DataOne ==
  ASSUME NEW p \in RowSeq, NEW row \in Row, request.max_rows \in Nat
  PROVE  AddRow(DataOf(p), row) = DataOf(Append(p, row))
<1>1. PICK m \in Nat : m = request.max_rows
  OBVIOUS
<1>2. /\ Append(p, row) \in RowSeq /\ Len(Append(p, row)) = Len(p) + 1 /\ Len(p) \in Nat
  BY DEF RowSeq
<1>3. PICK q : q = Append(p, row)
  OBVIOUS
<1>4. PICK a : a = SubSeq(p, 1, Min({m, Len(p)}))
  OBVIOUS
<1>5. PICK c : c = SubSeq(q, 1, Min({m, Len(q)}))
  OBVIOUS
<1>6. /\ a \in RowSeq /\ Len(a) = Min({m, Len(p)})
      /\ Len(p) < m => Min({m, Len(p)}) = Len(p) /\ a = p
      /\ ~(Len(p) < m) => Min({m, Len(p)}) = m
  BY <1>4, DataRows
<1>7. /\ c \in RowSeq /\ Len(c) = Min({m, Len(q)})
      /\ Len(q) < m => c = q
      /\ ~(Len(q) < m) => Min({m, Len(q)}) = m
  BY <1>2, <1>3, <1>5, DataRows
<1>12. PICK t : t = TRUE
  OBVIOUS
<1>13. PICK f : f = FALSE
  OBVIOUS
<1>14. IsTrue(t)
  BY <1>12 DEF IsTrue
<1>8. /\ DataOf(p) = Reply(t, a, Len(p) > m)
      /\ DataOf(q) = Reply(t, c, Len(q) > m)
      /\ Room(a) <=> Len(a) < m
  BY <1>1, <1>4, <1>5, <1>12, Zenon DEF DataOf, Room, Reply
<1>9. CASE Len(p) < m
  <2>1. a = p /\ Len(a) < m
    BY <1>6, <1>9
  <2>2. c = q
    <3>1. CASE Len(q) < m
      BY <1>7, <3>1
    <3>2. CASE ~(Len(q) < m)
      <4>1. m = Len(q)
        BY <1>2, <1>3, <1>9, <3>2
      <4>2. c = SubSeq(q, 1, Len(q))
        BY <1>5, <1>7, <3>2, <4>1
      <4> QED
        BY <1>2, <1>3, <4>2, PrefixFacts DEF RowSeq
    <3> QED
      BY <3>1, <3>2
  <2>3. (Len(p) > m) = FALSE /\ (Len(q) > m) = FALSE
    BY <1>2, <1>3, <1>9
  <2>4. /\ DataOf(p) = Reply(t, a, f)
        /\ DataOf(q) = Reply(t, c, f)
    BY <1>8, <1>13, <2>3, Zenon
  <2>5. AddRow(DataOf(p), row) = Reply(t, Append(a, row), f)
    <3>1. Room(a)
      BY <1>8, <2>1
    <3>2. PICK d : d = DataOf(p)
      OBVIOUS
    <3>3. d = Reply(t, a, f)
      BY <2>4, <3>2
    <3>4. Room(a) => AddRow(d, row) = Reply(t, Append(a, row), f)
      BY <1>14, <3>3, RowAdded
    <3> QED
      BY <3>1, <3>2, <3>4, Zenon
  <2> QED
    BY <1>3, <2>1, <2>2, <2>4, <2>5, Zenon
<1>10. CASE ~(Len(p) < m)
  <2>1. Len(a) = m /\ ~(Len(a) < m) /\ Len(q) > m /\ ~(Len(q) < m)
    BY <1>2, <1>3, <1>6, <1>10
  <2>2. c = SubSeq(q, 1, m) /\ a = SubSeq(p, 1, m)
    BY <1>4, <1>5, <1>6, <1>7, <1>10, <2>1
  <2>3. a = c
    <3>1. m \in 0..Len(p)
      BY <1>2, <1>10
    <3>2. \A i \in 1..m : i \in 1..Len(p) /\ q[i] = p[i]
      BY <1>2, <1>3, <3>1 DEF RowSeq
    <3> QED
      BY <1>2, <1>3, <2>2, <3>1, <3>2 DEF RowSeq
  <2>4. AddRow(DataOf(p), row) = Reply(t, a, t)
    <3>1. PICK x : x = (Len(p) > m)
      OBVIOUS
    <3>2. DataOf(p) = Reply(t, a, x)
      BY <1>8, <3>1, Zenon
    <3>3. ~Room(a)
      BY <1>8, <2>1
    <3>4. PICK d : d = DataOf(p)
      OBVIOUS
    <3>5. d = Reply(t, a, x)
      BY <3>2, <3>4
    <3>6. ~Room(a) => AddRow(d, row) = Reply(t, a, t)
      BY <1>14, <3>5, RowAdded, SMT
    <3> QED
      BY <3>3, <3>4, <3>6, Zenon
  <2>5. (Len(q) > m) = TRUE
    BY <2>1
  <2>6. DataOf(q) = Reply(t, c, t)
    BY <1>8, <1>12, <2>5, Zenon
  <2> QED
    BY <1>3, <2>3, <2>4, <2>6, Zenon
<1> QED
  BY <1>9, <1>10

\* TableDataModule keeps the first rows, and whether there are more.
LEMMA AddAllAdds ==
  ASSUME NEW p \in RowSeq, NEW rows \in RowSeq, request.max_rows \in Nat
  PROVE  AddAll(DataOf(p), rows) = DataOf(p \o rows)
<1> DEFINE m == Len(rows)
           t == DataOf(p)
           V == {DataOf(q) : q \in RowSeq}
           g == [w \in V \X Row |-> AddRow(w[1], w[2])]
           F(u) == [n \in 0..m |-> IF n = 0 THEN t ELSE AddRow(u[n - 1], rows[n])]
           added == CHOOSE u : u = F(u)
           K == {w \in V \X Seq(Row) : w[1] = DataOf(p \o w[2])}
<1>1. m \in Nat /\ rows \in Seq(Row) /\ \A n \in 1..m : rows[n] \in Row
  BY DEF RowSeq
<1>2. \A x \in V, r \in Row : AddRow(x, r) \in V
  <2> SUFFICES ASSUME NEW q \in RowSeq, NEW r \in Row PROVE AddRow(DataOf(q), r) \in V
    OBVIOUS
  <2>1. AddRow(DataOf(q), r) = DataOf(Append(q, r)) /\ Append(q, r) \in RowSeq
    BY DataOne, RowsAppend, RowsJoin
  <2> QED
    BY <2>1
<1>3. g \in [V \X Row -> V] /\ \A x \in V, r \in Row : g[<<x, r>>] = AddRow(x, r)
  <2> HIDE DEF V
  <2> QED
    BY <1>2
<1>4. t \in V /\ \A q \in RowSeq : DataOf(q) \in V
  OBVIOUS
<1>5. \A x \in V : \E q \in RowSeq : x = DataOf(q)
  OBVIOUS
<1> HIDE DEF g, V, t
<1>6. PICK f : f \in [0..m -> V] /\ f[0] = t
               /\ \A n \in 1..m : f[n - 1] \in V /\ f[n] = g[<<f[n - 1], rows[n]>>]
  <2>1. \E f : IsLoop(f, rows, t, g, V)
    BY <1>1, <1>3, <1>4, LoopExists
  <2> QED
    BY <2>1 DEF IsLoop
<1>7. f = F(f)
  <2> SUFFICES ASSUME NEW n \in 0..m PROVE f[n] = IF n = 0 THEN t ELSE AddRow(f[n - 1], rows[n])
    BY <1>6
  <2>1. n # 0 => n \in 1..m
    BY <1>1
  <2> QED
    BY <1>1, <1>3, <1>6, <2>1
<1>8. added = F(added)
  <2> HIDE DEF F
  <2> QED
    BY <1>7
<1>9. AddAll(t, rows) = added[m]
  BY DEF AddAll
<1>10. added[0] = t /\ \A n \in 1..m : added[n] = AddRow(added[n - 1], rows[n])
  <2>1. ASSUME NEW n \in 0..m PROVE added[n] = IF n = 0 THEN t ELSE AddRow(added[n - 1], rows[n])
    <3> HIDE DEF added
    <3> QED
      BY <1>8
  <2> HIDE DEF added
  <2> QED
    BY <1>1, <2>1
<1> HIDE DEF added, F
<1>11. <<added[0], << >> >> \in K
  <2>1. p \o << >> = p /\ << >> \in Seq(Row)
    BY RowsJoin DEF RowSeq
  <2> QED
    BY <1>4, <1>10, <2>1 DEF t
<1>12. ASSUME NEW n \in 0..(m - 1), NEW q \in Seq(Row), <<added[n], q>> \in K
       PROVE  <<added[n + 1], Append(q, rows[n + 1])>> \in K
  <2> DEFINE r == rows[n + 1]
  <2>1. n + 1 \in 1..m /\ (n + 1) - 1 = n /\ r \in Row
    BY <1>1
  <2>2. added[n] \in V /\ added[n] = DataOf(p \o q)
    BY <1>12
  <2>3. added[n + 1] = AddRow(added[n], r)
    BY <1>10, <2>1
  <2>4. p \o q \in RowSeq
    BY RowsJoin DEF RowSeq
  <2>5. AddRow(DataOf(p \o q), r) = DataOf(Append(p \o q, r))
    BY <2>1, <2>4, DataOne
  <2>6. Append(p \o q, r) = p \o Append(q, r) /\ Append(q, r) \in Seq(Row) /\ p \o Append(q, r) \in RowSeq
    <3>1. q \in RowSeq
      BY DEF RowSeq
    <3>2. Append(q, r) \in RowSeq
      BY <2>1, <3>1, RowsAppend
    <3>3. Append(p \o q, r) = p \o Append(q, r)
      BY <2>1, <3>1, RowsAppend
    <3>4. p \o Append(q, r) \in RowSeq
      BY <3>2, RowsJoin
    <3> QED
      BY <3>2, <3>3, <3>4 DEF RowSeq
  <2>7. added[n + 1] = DataOf(p \o Append(q, r))
    BY <2>2, <2>3, <2>5, <2>6
  <2> QED
    BY <1>4, <2>6, <2>7
<1>13. <<added[m], rows>> \in K
  <2> HIDE DEF K
  <2> QED
    BY <1>1, <1>11, <1>12, LoopKeeps
<1> QED
  BY <1>9, <1>13 DEF t

LEMMA TableDataExtentStep ==
  ASSUME Inv, TableDataExtent
  PROVE  Inv'
<1>1. /\ status = "returned" /\ request.op = "get" /\ returned # NoExtent
      /\ reply' = AddAll(reply, returned) /\ tee' = tee /\ Pulling
  BY DEF TableDataExtent
<1>2. /\ status' = "run" /\ request' = request /\ before' = before /\ source' = source
      /\ output_type' = output_type /\ returned' = returned
  BY <1>1 DEF Pulling, moduleVars
<1>3. /\ TypeInv /\ ServingInv /\ IsTee(tee) /\ GetInv /\ request \in Requests
      /\ returned \in RowSeq /\ RowsOf(returned) = returned
  <2>1. TypeInv /\ ServingInv /\ GetInv
    BY DEF Inv, OpInv
  <2>2. returned \in Optional /\ IsTee(tee)
    BY <2>1 DEF TypeInv
  <2> QED
    BY <1>1, <2>1, <2>2, RowsOfType, Run
<1>4. PICK p \in Starts(In(1)) : IsData(p) /\ (p \o returned) \o Unread(1) = In(1)
  BY <1>1, <1>3 DEF GetInv, Serving
<1>5. 1 \in DOMAIN source
  <2>1. Len(request.in) = 1 /\ DOMAIN source = DOMAIN request.in /\ request.in \in Seq(Tables)
    BY <1>1, <1>3, Run, RequestIn DEF Reading
  <2> QED
    BY <2>1
<1>6. In(1) \in RowSeq /\ Unread(1) \in RowSeq
  BY <1>1, <1>3, <1>5, InRun, UnreadRows DEF Reading
<1>7. p \in RowSeq
  BY <1>6, StartsRows
<1>8. reply = DataOf(p) /\ request.max_rows \in Nat
  BY <1>1, <1>3, <1>4, RequestFields DEF IsData, DataOf
<1>9. reply' = DataOf(p \o returned)
  BY <1>1, <1>3, <1>7, <1>8, AddAllAdds
<1>10. p \o returned \in RowSeq /\ p \o returned \in Starts(In(1))
  <2>1. p \o returned \in RowSeq
    BY <1>3, <1>7, RowsJoin
  <2> QED
    BY <1>4, <1>6, <2>1, StartsOf
<1>11. In(1)' = In(1) /\ Unread(1)' = Unread(1) /\ (Opened(1)' <=> Opened(1))
  <2>1. In(1)' = In(1) /\ (Opened(1)' <=> Opened(1))
    BY <1>2, InSame DEF Opened
  <2>2. source'[1].left = source[1].left
    BY <1>2
  <2> QED
    BY <2>1, <2>2 DEF Unread
<1>12. GetInv'
  <2>1. PICK q : q = p \o returned
    OBVIOUS
  <2>2. IsData(q)'
    BY <1>2, <1>9, <2>1 DEF IsData, DataOf
  <2>3. q \in Starts(In(1))' /\ (q \o << >>) \o Unread(1)' = In(1)'
    <3>1. Starts(In(1))' = Starts(In(1))
      BY <1>11 DEF Starts
    <3>2. q \o << >> = q
      BY <1>10, <2>1, RowsJoin
    <3> QED
      BY <1>4, <1>10, <1>11, <2>1, <3>1, <3>2
  <2>4. \E z \in Starts(In(1))' :
           IsData(z)' /\ (z \o (IF status' = "returned" THEN RowsOf(returned') ELSE << >>)) \o Unread(1)' = In(1)'
    BY <1>2, <2>2, <2>3
  <2>5. (~Opened(1) => output_type = NullType)'
    BY <1>1, <1>2, <1>3, <1>11 DEF GetInv, Serving
  <2>6. ~Ends'
    BY <1>2 DEF Ends
  <2> QED
    BY <2>4, <2>5, <2>6 DEF GetInv
<1>13. ThisOp' /\ TeeInv'
  BY <1>1, <1>2, <1>12 DEF ThisOp, TeeInv
<1>14. reply'.ok \in BOOLEAN /\ IsTee(tee')
  BY <1>1, <1>3, <1>9 DEF DataOf, IsTee
<1> QED
  BY <1>1, <1>13, <1>14, PullKeeps

----------------------------------------------------------------------------
\* The start of a request
LEMMA Accepted ==
  ASSUME Inv, NEW r \in Requests, Accept(r)
  PROVE  /\ TypeInv /\ ModuleTypes /\ ServerTypes /\ TablesInv /\ FullInv
         /\ status = "idle" /\ request' = r /\ served' \in 0..MaxServed
         /\ before'.files = files /\ before'.info = info
         /\ \A t : ~Written(t)
<1>1. TypeInv /\ ModuleTypes /\ ServerTypes /\ TablesInv /\ FullInv
  BY TypesAre DEF Inv
<1>2. /\ status = "idle" /\ request' = r /\ served < MaxServed /\ served' = served + 1
      /\ before' = [files |-> files, info |-> info]
  BY DEF Accept
<1>3. served' \in 0..MaxServed
  BY <1>1, <1>2, Constants DEF ServerTypes
<1> QED
  BY <1>1, <1>2, <1>3 DEF Written, Busy

LEMMA AcceptedTypes ==
  ASSUME Inv, NEW r \in Requests, Accept(r),
         status' \in {"idle", "write", "run", "dead"},
         DOMAIN files' = Tables, \A t \in Tables : IsTable(files'[t]), DOMAIN info' = Tables,
         IsTable(tmp'), tmp'.extents \in Seq(FullRows), reply'.ok \in BOOLEAN, damaged' \subseteq Tables
  PROVE  ServerTypes'
<1>1. /\ ServerTypes /\ request' = r /\ served' \in 0..MaxServed
      /\ before'.files = files /\ before'.info = info
  BY Accepted
<1> QED
  BY <1>1 DEF ServerTypes

\* The base table of an update that has just come is as it was.
LEMMA AtomicNow ==
  ASSUME files'[request'.in[1]] = before'.files[request'.in[1]]
  PROVE  AtomicInv'
BY DEF AtomicInv

\* No request is being served.
LEMMA SameModules ==
  ASSUME ModuleTypes, UNCHANGED <<moduleVars, returned, tee>>
  PROVE  ModuleTypes'
BY DEF ModuleTypes, moduleVars, IsSources, TypesIn

LEMMA RefuseStep ==
  ASSUME Inv, NEW r \in Requests, Refuse(r)
  PROVE  Inv'
<1>1. /\ Accept(r) /\ reply' = [ok |-> FALSE]
      /\ UNCHANGED <<status, files, moduleVars, returned, info, tmp, tee, damaged>>
  BY DEF Refuse
<1>2. /\ ModuleTypes /\ ServerTypes /\ TablesInv /\ FullInv /\ status = "idle"
      /\ before'.files = files /\ \A t : ~Written(t)
  BY <1>1, Accepted
<1>3. ServerTypes'
  <2>1. reply'.ok = FALSE
    BY <1>1
  <2>2. reply'.ok \in BOOLEAN
    BY <2>1
  <2>3. /\ DOMAIN files' = Tables /\ \A t \in Tables : IsTable(files'[t])
        /\ DOMAIN info' = Tables /\ IsTable(tmp') /\ tmp'.extents \in Seq(FullRows)
        /\ damaged' \subseteq Tables /\ status' = "idle"
    BY <1>1, <1>2 DEF ServerTypes
  <2> QED
    BY <1>1, <2>2, <2>3, AcceptedTypes
<1>4. TypeInv'
  BY <1>1, <1>2, <1>3, SameModules, TypesNext
<1>5. TablesInv' /\ FullInv'
  BY <1>1, <1>2 DEF TablesInv, FullInv, Fine
<1>6. AtomicInv'
  BY <1>1, <1>2, AtomicNow
<1>7. ResultIsCorrect'
  BY <1>1 DEF ResultIsCorrect, Answered
<1> QED
  BY <1>1, <1>2, <1>4, <1>5, <1>6, <1>7, IdleKeeps

LEMMA NullTypeUsedStep ==
  ASSUME Inv, NEW r \in Requests, NullTypeUsed(r)
  PROVE  Inv'
<1>1. /\ Accept(r) /\ status' = "dead" /\ r.op \in Reading
      /\ UNCHANGED <<files, moduleVars, returned, info, tmp, tee, reply, damaged>>
  BY DEF NullTypeUsed
<1>2. PICK i \in DOMAIN r.in : info[r.in[i]] = NullType
  BY DEF NullTypeUsed, Typeless
<1>3. /\ ModuleTypes /\ ServerTypes /\ TablesInv /\ status = "idle" /\ request' = r
      /\ before'.files = files /\ \A t : ~Written(t)
  BY <1>1, Accepted
<1>4. ServerTypes'
  <2>1. /\ DOMAIN files' = Tables /\ \A t \in Tables : IsTable(files'[t])
        /\ DOMAIN info' = Tables /\ IsTable(tmp') /\ tmp'.extents \in Seq(FullRows)
        /\ damaged' \subseteq Tables /\ reply'.ok \in BOOLEAN
    BY <1>1, <1>3 DEF ServerTypes
  <2> QED
    BY <1>1, <2>1, AcceptedTypes
<1>5. TypeInv'
  BY <1>1, <1>3, <1>4, SameModules, TypesNext
<1>6. TablesInv' /\ FullInv'
  BY <1>1 DEF TablesInv, FullInv
<1>7. AtomicInv'
  BY <1>1, <1>3, AtomicNow
<1>8. Fatal(request)'
  <2>1. r.in[i] \in Tables
    BY <1>1, <1>2, RequestIn
  <2>2. r.in[i] \in damaged \/ files[r.in[i]].type = NullType
    <3>1. info[r.in[i]] # MissingType
      BY <1>2 DEF NullType, MissingType
    <3> QED
      BY <1>2, <1>3, <2>1, <3>1 DEF TablesInv, Fine
  <2> QED
    BY <1>1, <1>2, <1>3, <2>2 DEF Fatal
<1> QED
  BY <1>1, <1>5, <1>6, <1>7, <1>8, IdleKeeps

\* A request is judged as it comes.
LEMMA NowTypable ==
  ASSUME NEW r, request' = r, info' = info
  PROVE  Typable(request)' = Typable(r)
<1>1. \A i : Rejected(request, i)' = Rejected(r, i) /\ Typeless(request, i)' = Typeless(r, i)
  BY DEF Rejected, Typeless, SameName
<1> QED
  BY <1>1 DEF Typable, Refused, InTurn

\* A file that no module writes is truncated.
LEMMA StartWriteStep ==
  ASSUME Inv, NEW r \in Requests, StartWrite(r)
  PROVE  Inv'
<1>1. PICK o : o = IF r.op = "update" THEN r.in[1] ELSE r.out
  OBVIOUS
<1>2. /\ \/ r.op = "update" /\ Typable(r) /\ info[r.in[1]] = MissingType
         \/ r.op \in {"rows", "child"}
      /\ Accept(r) /\ files' = Truncated(o) /\ status' = "write"
      /\ UNCHANGED <<moduleVars, returned, info, tmp, tee, reply, damaged>>
  BY <1>1 DEF StartWrite
<1>3. /\ ModuleTypes /\ ServerTypes /\ TablesInv /\ FullInv /\ status = "idle" /\ request' = r
      /\ before'.files = files /\ before'.info = info /\ \A t : ~Written(t)
  BY <1>2, Accepted
<1>4. o \in Tables
  <2>1. CASE r.op = "update"
    <3>1. r.in \in Seq(Tables) /\ r.in # << >>
      BY <2>1, RequestIn DEF Reading
    <3>2. r.in[1] \in Tables
      BY <3>1
    <3> QED
      BY <1>1, <2>1, <3>2
  <2>2. CASE r.op # "update"
    BY <1>1, <2>2, RequestOps
  <2> QED
    BY <2>1, <2>2
<1>5. /\ DOMAIN files' = Tables /\ files'[o] = NoFile /\ files' = [files EXCEPT ![o] = NoFile]
      /\ \A t \in Tables : t # o => files'[t] = files[t]
  BY <1>2, <1>3, <1>4 DEF Truncated, ServerTypes
<1>6. ServerTypes'
  <2>1. \A t \in Tables : IsTable(files'[t])
    BY <1>3, <1>5, NoFileIs DEF ServerTypes
  <2>2. /\ IsTable(tmp') /\ tmp'.extents \in Seq(FullRows) /\ damaged' \subseteq Tables
        /\ DOMAIN info' = Tables /\ reply'.ok \in BOOLEAN
    BY <1>2, <1>3 DEF ServerTypes
  <2> QED
    BY <1>2, <1>5, <2>1, <2>2, AcceptedTypes
<1>7. TypeInv'
  BY <1>2, <1>3, <1>6, SameModules, TypesNext
<1>8. ~Busy' /\ Target' = o /\ request'.op = r.op /\ r.op \in {"update", "rows", "child"}
  BY <1>1, <1>2, <1>3 DEF Busy, Target
<1>9. r.op = "update" => New' /\ Typable(request)'
  <2>1. Typable(request)' = Typable(r)
    BY <1>2, <1>3, NowTypable
  <2> QED
    BY <1>2, <1>3, <2>1 DEF New
<1>10. ServingInv'
  <2>1. request' # NoRequest
    BY <1>8 DEF NoRequest
  <2>2. files' = [before'.files EXCEPT ![Target'] = NoFile] /\ info' = before'.info
    BY <1>2, <1>3, <1>5, <1>8
  <2> QED
    BY <1>2, <1>8, <1>9, <2>1, <2>2 DEF ServingInv
<1>11. TablesInv' /\ FullInv'
  <2>1. ASSUME NEW t \in Tables, info'[t] # MissingType, ~Written(t)'
        PROVE  /\ files'[t].extents \in Seq(FullRows)
               /\ t \notin damaged' => Fine(t)'
    <3>1. t # o
      BY <1>2, <1>8, <2>1 DEF Written
    <3>2. files'[t] = files[t] /\ info'[t] = info[t] /\ damaged' = damaged
      BY <1>2, <1>5, <3>1
    <3> QED
      BY <1>3, <2>1, <3>2 DEF TablesInv, FullInv, Fine
  <2> QED
    BY <2>1 DEF TablesInv, FullInv
<1>12. AtomicInv'
  <2> SUFFICES ASSUME r.op = "update" PROVE AtomicInv'
    BY <1>8 DEF AtomicInv
  <2>1. New' /\ files'[request'.in[1]] = NoFile
    BY <1>1, <1>3, <1>5, <1>9
  <2> QED
    BY <1>2, <2>1 DEF AtomicInv
<1>13. TeeInv' /\ ErrorInv' /\ RenameInv' /\ ResultIsCorrect' /\ DiesOnlyAsKnown'
  BY <1>2, <1>8 DEF TeeInv, ErrorInv, RenameInv, ResultIsCorrect, Answered, DiesOnlyAsKnown
<1>14. OpInv'
  <2>1. \A op : ~Serving(op)'
    BY <1>2 DEF Serving
  <2> QED
    BY <2>1, OtherOps DEF OpInv
<1> QED
  BY <1>7, <1>10, <1>11, <1>12, <1>13, <1>14 DEF Inv

\* An import from outside has written the file of a table, or has failed.
LEMMA ImportKeeps ==
  ASSUME Inv, status = "write", request.op \in {"rows", "child"}, NEW fails \in BOOLEAN,
         NEW f, IsTable(f), f.extents \in Seq(FullRows), fails \/ (f.whole /\ f.type = request.type),
         NEW o, o = request.out,
         DOMAIN files' = Tables, files'[o] = f, \A t \in Tables : t # o => files'[t] = files[t],
         Imports(request, fails)
  PROVE  Inv'
<1>1. /\ TypeInv /\ ModuleTypes /\ ServerTypes /\ ServingInv /\ TablesInv /\ FullInv
  BY TypesAre DEF Inv
<1>2. request \in Requests
  BY <1>1 DEF TypeInv, ServingInv
<1>3. PICK y : y = request.type
  OBVIOUS
<1>4. o \in Tables /\ y # NullType /\ y # MissingType
  BY <1>2, <1>3, RequestOps, RequestTypes
<1>5. /\ info' = IF fails THEN info ELSE [info EXCEPT ![o] = y]
      /\ reply' = [ok |-> ~fails]
      /\ damaged' = IF fails THEN damaged \cup {o} ELSE damaged \ {o}
      /\ status' = "idle"
      /\ UNCHANGED <<request, moduleVars, returned, tmp, tee, before, served>>
  BY <1>3 DEF Imports
<1>6. /\ DOMAIN info' = Tables /\ (~fails => info'[o] = y) /\ (fails => o \in damaged')
      /\ \A t \in Tables : t # o => info'[t] = info[t] /\ (t \notin damaged' => t \notin damaged)
  BY <1>1, <1>4, <1>5 DEF ServerTypes
<1>7. ServerTypes'
  <2>1. \A t \in Tables : IsTable(files'[t])
    BY <1>1 DEF ServerTypes
  <2>2. damaged' \subseteq Tables /\ reply'.ok \in BOOLEAN
    BY <1>1, <1>4, <1>5 DEF ServerTypes
  <2> QED
    BY <1>1, <1>5, <1>6, <2>1, <2>2 DEF ServerTypes
<1>8. TypeInv'
  BY <1>1, <1>5, <1>7, SameModules, TypesNext
<1>9. \A t \in Tables : t # o => ~Written(t)
  BY DEF Written, Target, Busy
<1>10. TablesInv'
  <2> SUFFICES ASSUME NEW t \in Tables, t \notin damaged', info'[t] # MissingType
               PROVE  Fine(t)'
    BY DEF TablesInv
  <2>1. CASE t = o
    <3>1. f.whole /\ f.type = y /\ info'[o] = y
      BY <1>3, <1>6, <2>1
    <3> QED
      BY <1>4, <2>1, <3>1 DEF Fine
  <2>2. CASE t # o
    <3>1. Fine(t)
      BY <1>1, <1>6, <1>9, <2>2 DEF TablesInv
    <3> QED
      BY <1>6, <2>2, <3>1 DEF Fine
  <2> QED
    BY <2>1, <2>2
<1>11. FullInv'
  <2> SUFFICES ASSUME NEW t \in Tables, info'[t] # MissingType
               PROVE  files'[t].extents \in Seq(FullRows)
    BY DEF FullInv
  <2>1. CASE t = o
    BY <2>1
  <2>2. CASE t # o
    <3>1. files[t].extents \in Seq(FullRows)
      BY <1>1, <1>6, <1>9, <2>2 DEF FullInv
    <3> QED
      BY <2>2, <3>1
  <2> QED
    BY <2>1, <2>2
<1>12. AtomicInv' /\ ResultIsCorrect'
  <2>1. request'.op \in {"rows", "child"}
    BY <1>5
  <2>2. AtomicInv'
    BY <2>1 DEF AtomicInv
  <2>3. Correct'
    BY <2>1 DEF Correct
  <2> QED
    BY <2>2, <2>3 DEF ResultIsCorrect
<1> QED
  BY <1>5, <1>8, <1>10, <1>11, <1>12, IdleKeeps

LEMMA ImportRowsStep ==
  ASSUME Inv, ImportRows
  PROVE  Inv'
<1>1. PICK rows : rows = IF request.bad_row THEN Append(request.rows, Blank) ELSE request.rows
  OBVIOUS
<1>2. PICK f : f = FileOf(WriteAll([NoTee EXCEPT !.type = request.type], rows))
  OBVIOUS
<1>3. PICK o : o = request.out
  OBVIOUS
<1>4. /\ status = "write" /\ request.op = "rows"
      /\ files' = [files EXCEPT ![o] = f] /\ Imports(request, request.bad_row)
  BY <1>1, <1>2, <1>3 DEF ImportRows
<1>5. TypeInv /\ request \in Requests
  BY <1>4 DEF Inv, TypeInv, ServingInv
<1>6. /\ o \in Tables /\ request.rows \in RowSeq /\ request.bad_row \in BOOLEAN
      /\ request.type # MissingType
  BY <1>3, <1>4, <1>5, RequestOps, RequestFields, RequestTypes
<1>7. rows \in RowSeq
  <2>1. Blank \in Row
    BY DEF Blank, Row, Null
  <2> QED
    BY <1>1, <1>6, <2>1 DEF RowSeq
<1>8. IsTable(f) /\ f.whole /\ f.type = request.type /\ f.extents \in Seq(FullRows)
  <2>1. [NoTee EXCEPT !.type = request.type] \in Tees(request.type)
    BY NoTeeIs
  <2>2. WriteAll([NoTee EXCEPT !.type = request.type], rows) \in Tees(request.type)
    BY <1>7, <2>1, WriteAllWrites
  <2> QED
    BY <1>2, <1>6, <2>2, FileOfIs
<1>9. DOMAIN files' = Tables /\ files'[o] = f /\ \A t \in Tables : t # o => files'[t] = files[t]
  BY <1>4, <1>5, <1>6 DEF TypeInv
<1> QED
  BY <1>3, <1>4, <1>6, <1>8, <1>9, ImportKeeps

LEMMA ImportChildStep ==
  ASSUME Inv, ImportChild
  PROVE  Inv'
<1>1. PICK o : o = request.out
  OBVIOUS
<1>2. PICK f : f = IF request.fails THEN NoFile
                   ELSE [type |-> request.type, extents |-> request.extents, whole |-> TRUE]
  OBVIOUS
<1>3. /\ status = "write" /\ request.op = "child" /\ Imports(request, request.fails)
      /\ files' = IF request.fails THEN files ELSE [files EXCEPT ![o] = f]
  BY <1>1, <1>2 DEF ImportChild
<1>4. TypeInv /\ ServingInv /\ request \in Requests
  BY <1>3 DEF Inv, TypeInv, ServingInv
<1>5. /\ o \in Tables /\ request.extents \in Seq(FullRows) /\ request.fails \in BOOLEAN
      /\ request.type # MissingType
  BY <1>1, <1>3, <1>4, RequestOps, RequestFields, RequestTypes
<1>6. files[o] = NoFile
  <2>1. files = [before.files EXCEPT ![o] = NoFile] /\ o \in DOMAIN before.files
    BY <1>1, <1>3, <1>4, <1>5 DEF ServingInv, Target, TypeInv
  <2> QED
    BY <2>1
<1>7. /\ IsTable(f) /\ f.extents \in Seq(FullRows)
      /\ request.fails \/ (f.whole /\ f.type = request.type)
  <2>1. CASE request.fails
    BY <1>2, <2>1, NoFileIs
  <2>2. CASE ~request.fails
    <3>1. f = [type |-> request.type, extents |-> request.extents, whole |-> TRUE]
      BY <1>2, <2>2
    <3>2. f.type = request.type /\ f.extents = request.extents /\ f.whole = TRUE
      BY <3>1
    <3> QED
      BY <1>5, <3>1, <3>2 DEF IsTable
  <2> QED
    BY <2>1, <2>2
<1>8. DOMAIN files' = Tables /\ files'[o] = f /\ \A t \in Tables : t # o => files'[t] = files[t]
  BY <1>2, <1>3, <1>4, <1>5, <1>6 DEF TypeInv
<1> QED
  BY <1>1, <1>3, <1>5, <1>7, <1>8, ImportKeeps

\* The modules have done nothing.
Untouched ==
  /\ Sent = << >> /\ Done = << >> /\ ~Begun /\ ~Ends /\ ~Returns /\ output = NoExtent
  /\ \A i \in DOMAIN source : series[i] = NoExtent

LEMMA ModulesStarted ==
  ASSUME NEW sources, StartModules(sources), IsSources(sources), output_type' # MissingType, status' = "run"
  PROVE  ModuleTypes' /\ Untouched' /\ TeeInv' /\ source' = sources /\ returned' = NoExtent
<1>1. /\ source' = sources /\ series' = [i \in DOMAIN sources |-> NoExtent]
      /\ output' = NoExtent /\ returned' = NoExtent /\ tee' = NoTee
  BY DEF StartModules
<1>2. IsTee(tee')
  <2>1. NullType # MissingType
    BY DEF NullType, MissingType
  <2> QED
    BY <1>1, <2>1, NoTeeIs, TeeIs
<1>3. series' \in Seq(Optional) /\ Len(series') = Len(source') /\ \A i \in DOMAIN source' : series'[i] = NoExtent
  <2>1. Len(sources) \in Nat /\ DOMAIN sources = 1..Len(sources)
    BY DEF IsSources
  <2>2. NoExtent \in Optional
    BY DEF Optional
  <2> QED
    BY <1>1, <2>1, <2>2
<1>4. ModuleTypes'
  <2>1. NoExtent \in Optional
    BY DEF Optional
  <2> QED
    BY <1>1, <1>2, <1>3, <2>1 DEF ModuleTypes
<1>5. Sent' = << >> /\ Done' = << >>
  <2>1. Rows(FileOf(tee')) = << >>
    BY <1>1, NoTeeIs
  <2>2. Sent' = Rows(FileOf(tee')) \o << >>
    BY DEF Sent
  <2>3. Done' = Sent' \o << >>
    BY <1>1 DEF Done, RowsOf
  <2>4. << >> \o << >> = << >>
    BY FullIsRows, RowsJoin
  <2> QED
    BY <2>1, <2>2, <2>3, <2>4
<1>6. ~Begun' /\ ~Ends' /\ ~Returns' /\ tee'.type = NullType /\ tee'.rows = << >> /\ tee'.extents = << >>
  BY <1>1 DEF Begun, Ends, Returns, NoTee
<1>7. TeeInv'
  BY <1>6 DEF TeeInv
<1> QED
  BY <1>1, <1>3, <1>4, <1>5, <1>6, <1>7 DEF Untouched

\* All of a source that was not opened is left.
LEMMA NotYetRead ==
  ASSUME Untouched', NEW i \in DOMAIN source', source'[i].left = NotOpened, In(i)' \in RowSeq
  PROVE  ~Opened(i)' /\ Unread(i)' = In(i)' /\ Rest(i)' = In(i)'
<1>1. ~Opened(i)'
  BY DEF Opened
<1>2. Unread(i)' = In(i)'
  BY <1>1 DEF Unread
<1>3. Rest(i)' = << >> \o Unread(i)'
  BY DEF Rest, RowsOf, Untouched
<1> QED
  BY <1>1, <1>2, <1>3, RowsJoin

\* A request begins to be served.
LEMMA StartKeeps ==
  ASSUME status' = "run", ModuleTypes', ServerTypes', ServingInv', TablesInv', FullInv', TeeInv', AtomicInv', ThisOp'
  PROVE  Inv'
<1>1. TypeInv'
  BY TypesNext
<1>2. OpInv'
  <2>1. \A op : Serving(op)' => request'.op = op
    BY DEF Serving
  <2> QED
    BY <2>1, OtherOps, Zenon DEF OpInv, ThisOp
<1>3. ErrorInv' /\ RenameInv' /\ ResultIsCorrect' /\ DiesOnlyAsKnown'
  BY DEF ErrorInv, RenameInv, ResultIsCorrect, Answered, DiesOnlyAsKnown
<1> QED
  BY <1>1, <1>2, <1>3 DEF Inv

LEMMA StartImportStep ==
  ASSUME Inv, NEW r \in Requests, StartImport(r)
  PROVE  Inv'
<1>0. PICK y : y = r.type
  OBVIOUS
<1>1. PICK s : s = <<[table |-> r.out, type |-> y, left |-> r.extents]>>
  OBVIOUS
<1>2. /\ r.op = "import" /\ Accept(r) /\ StartModules(s) /\ files' = Truncated(r.out)
      /\ output_type' = y /\ reply' = [ok |-> TRUE] /\ status' = "run"
      /\ UNCHANGED <<info, tmp, damaged>>
  BY <1>0, <1>1 DEF StartImport
<1>3. /\ ServerTypes /\ TablesInv /\ FullInv /\ status = "idle" /\ request' = r
      /\ before'.files = files /\ before'.info = info /\ \A t : ~Written(t)
  BY <1>2, Accepted
<1>4. PICK o \in Tables : o = r.out
  BY RequestOps
<1>5. r.extents \in Seq(RowSeq) /\ r.extents # NotOpened
  BY <1>2, RequestFields, Constants
<1>6. IsSources(s) /\ Len(s) = 1 /\ s[1].type = y /\ s[1].left = r.extents
  <2>1. Len(s) = 1 /\ DOMAIN s = {1} /\ s[1] = [table |-> o, type |-> y, left |-> r.extents]
    BY <1>1, <1>4
  <2>2. TypesIn(s) = {y}
    BY <2>1 DEF TypesIn
  <2> QED
    BY <1>1, <1>4, <1>5, <2>1, <2>2 DEF IsSources
<1>7. output_type' # MissingType
  BY <1>0, <1>2, RequestTypes
<1>8. ModuleTypes' /\ Untouched' /\ TeeInv' /\ source' = s
  BY <1>2, <1>6, <1>7, ModulesStarted
<1>9. /\ DOMAIN files' = Tables /\ files'[o] = NoFile /\ files' = [files EXCEPT ![o] = NoFile]
      /\ \A t \in Tables : t # o => files'[t] = files[t]
  BY <1>2, <1>3, <1>4 DEF Truncated, ServerTypes
<1>10. ServerTypes'
  <2>1. \A t \in Tables : IsTable(files'[t])
    BY <1>3, <1>9, NoFileIs DEF ServerTypes
  <2>2. IsTable(tmp') /\ tmp'.extents \in Seq(FullRows) /\ damaged' \subseteq Tables /\ DOMAIN info' = Tables
    BY <1>2, <1>3 DEF ServerTypes
  <2>3. reply'.ok \in BOOLEAN
    BY <1>2
  <2> QED
    BY <1>2, <1>9, <2>1, <2>2, <2>3, AcceptedTypes
<1>11. ~New' /\ Truncates' /\ Busy' /\ request'.op = "import"
  BY <1>2, <1>3 DEF New, Truncates, Busy
<1>12. Opened(1)'
  BY <1>5, <1>6, <1>8 DEF Opened
<1>13. ServingInv'
  <2>1. files' = FilesNow' /\ info' = InfoNow'
    BY <1>2, <1>3, <1>4, <1>9, <1>11 DEF FilesNow, InfoNow
  <2>2. request' # NoRequest
    BY <1>11 DEF NoRequest
  <2>3. request'.op \notin Reading
    BY <1>11 DEF Reading
  <2> QED
    BY <1>0, <1>2, <1>3, <1>6, <1>8, <1>11, <1>12, <2>1, <2>2, <2>3 DEF ServingInv
<1>14. \A t \in Tables : ~Written(t)' => t # o
  BY <1>3, <1>4, <1>11 DEF Written
<1>15. TablesInv' /\ FullInv'
  <2>1. ASSUME NEW t \in Tables, info'[t] # MissingType, ~Written(t)'
        PROVE  /\ files'[t].extents \in Seq(FullRows)
               /\ t \notin damaged' => Fine(t)'
    <3>1. files'[t] = files[t] /\ info'[t] = info[t] /\ damaged' = damaged
      BY <1>2, <1>9, <1>14, <2>1
    <3> QED
      BY <1>3, <2>1, <3>1 DEF TablesInv, FullInv, Fine
  <2> QED
    BY <2>1 DEF TablesInv, FullInv
<1>16. AtomicInv'
  BY <1>11 DEF AtomicInv
<1>17. ImportInv'
  <2>1. Unread(1)' = FlattenSeq(r.extents)
    BY <1>6, <1>8, <1>12 DEF Unread
  <2>2. << >> \o FlattenSeq(r.extents) = FlattenSeq(r.extents)
    BY <1>5, FlattenRows, RowsJoin
  <2> QED
    BY <1>3, <1>8, <2>1, <2>2 DEF ImportInv, Untouched
<1>18. ThisOp'
  BY <1>11, <1>17 DEF ThisOp
<1> QED
  BY <1>2, <1>8, <1>10, <1>13, <1>15, <1>16, <1>18, StartKeeps

\* Nothing is read yet.
Unopened ==
  /\ Untouched /\ request.op \in Reading /\ output_type = NullType
  /\ DOMAIN source = DOMAIN request.in
  /\ \A i \in DOMAIN source : /\ source[i].left = NotOpened
                              /\ ~Opened(i) /\ Unread(i) = In(i) /\ Rest(i) = In(i) /\ In(i) \in RowSeq

LEMMA UnopenedRests ==
  ASSUME Unopened
  PROVE  /\ [i \in DOMAIN source |-> Unread(i)] = [i \in DOMAIN request.in |-> In(i)]
         /\ Rests = Ins
<1>1. DOMAIN source = DOMAIN request.in /\ \A i \in DOMAIN source : Unread(i) = In(i) /\ Rest(i) = In(i)
  BY DEF Unopened
<1> QED
  BY <1>1 DEF Rests, Ins

LEMMA UnopenedIns ==
  ASSUME Unopened, NEW n \in Nat, DOMAIN source = 1..n
  PROVE  Ins \in Seq(RowSeq) /\ FlattenSeq(Ins) \in RowSeq
<1>1. DOMAIN source = DOMAIN request.in /\ \A i \in DOMAIN source : In(i) \in RowSeq
  BY DEF Unopened
<1>2. Ins = [i \in 1..n |-> In(i)] /\ \A i \in 1..n : In(i) \in RowSeq
  BY <1>1 DEF Ins
<1>3. Ins \in Seq(RowSeq)
  BY <1>2
<1> QED
  BY <1>3, FlattenRows

LEMMA MinZero ==
  ASSUME NEW m \in Nat
  PROVE  SubSeq(<< >>, 1, Min({m, Len(<< >>)})) = << >> /\ (Len(<< >>) > m) = FALSE
<1>1. Min({m, 0}) = 0
  <2>1. Min({m, 0}) \in {m, 0} /\ Min({m, 0}) <= 0
    BY MinOfTwo
  <2> QED
    BY <2>1
<1>2. Len(<< >>) = 0
  OBVIOUS
<1>3. SubSeq(<< >>, 1, 0) = << >>
  OBVIOUS
<1> QED
  BY <1>1, <1>2, <1>3

LEMMA StartsNothing ==
  ASSUME NEW s \in RowSeq
  PROVE  << >> \in Starts(s) /\ << >> \o s = s /\ (<< >> \o << >>) \o s = s
<1>1. << >> \o s = s /\ << >> \in RowSeq /\ << >> \o << >> = << >>
  BY FullIsRows, RowsJoin
<1>2. << >> \in Starts(<< >> \o s)
  BY <1>1, StartsOf
<1> QED
  BY <1>1, <1>2

StartsServing ==
  /\ Unopened /\ request \in Requests /\ status = "run"
  /\ Len(source) \in Nat /\ DOMAIN source = 1..Len(source) /\ Len(source) > 0
  /\ request.op = "union" => mem = 0
  /\ request.op \notin {"union", "update"} => mem = << >>
  /\ request.op = "get" => reply = [ok |-> TRUE, rows |-> << >>, more |-> FALSE]
  /\ request.op # "update"

\* What the invariant says of each operation holds when it starts.
LEMMA StartsFine == StartsServing => ThisOp
<1> SUFFICES ASSUME StartsServing PROVE ThisOp
  OBVIOUS
<1> DEFINE n == Len(source)
<1>15. /\ Unopened /\ request \in Requests /\ status = "run"
       /\ n \in Nat /\ DOMAIN source = 1..n /\ n > 0
       /\ request.op = "union" => mem = 0
       /\ request.op \notin {"union", "update"} => mem = << >>
       /\ request.op = "get" => reply = [ok |-> TRUE, rows |-> << >>, more |-> FALSE]
       /\ request.op # "update"
  BY DEF StartsServing
<1> HIDE DEF n
<1>1. /\ Sent = << >> /\ Done = << >> /\ ~Begun /\ ~Ends /\ output = NoExtent /\ output_type = NullType
      /\ \A i \in 1..n : series[i] = NoExtent /\ source[i].left = NotOpened
      /\ \A i \in 1..n : ~Opened(i) /\ Unread(i) = In(i) /\ Rest(i) = In(i) /\ In(i) \in RowSeq
      /\ request.op \in Reading /\ DOMAIN request.in = 1..n
  BY <1>15 DEF Unopened, Untouched
<1>2. 1 \in 1..n
  BY <1>15
<1>3. In(1) \in RowSeq /\ Unread(1) = In(1) /\ Rest(1) = In(1) /\ ~Opened(1) /\ series[1] = NoExtent
      /\ source[1].left = NotOpened
  BY <1>1, <1>2
<1>4. request.op \in {"hash", "star"} => 2 \in 1..n
  <2> SUFFICES ASSUME request.op \in {"hash", "star"} PROVE 2 \in 1..n
    OBVIOUS
  <2>1. Len(request.in) = 2 /\ request.in \in Seq(Tables)
    BY <1>15, RequestIn DEF Reading
  <2>2. \A q \in Seq(Tables) : Len(q) = 2 => 2 \in DOMAIN q
    OBVIOUS
  <2>3. 2 \in DOMAIN request.in
    BY <2>1, <2>2
  <2> QED
    BY <1>1, <2>3
<1>5. request.op # "import"
  BY <1>1 DEF Reading
<1>6. ASSUME request.op = "merge" PROVE MergeInv
  <2>1. FlattenSeq([i \in DOMAIN source |-> Unread(i)]) = FlattenSeq([i \in DOMAIN request.in |-> In(i)])
    BY <1>15, UnopenedRests
  <2>2. FlattenSeq([i \in DOMAIN request.in |-> In(i)]) \in RowSeq
    BY <1>15, UnopenedIns DEF Ins
  <2>3. << >> \o FlattenSeq([i \in DOMAIN request.in |-> In(i)]) = FlattenSeq([i \in DOMAIN request.in |-> In(i)])
    BY <2>2, RowsJoin
  <2>4. ~\E i \in DOMAIN source : source[i].left \notin {NotOpened, << >>}
    BY <1>1, <1>15
  <2> QED
    BY <1>1, <2>1, <2>3, <2>4 DEF MergeInv
<1>7. ASSUME request.op = "get" PROVE GetInv
  <2>1. IsData(<< >>)
    <3>1. request.max_rows \in Nat
      BY <1>7, <1>15, RequestFields
    <3> QED
      BY <1>7, <1>15, <3>1, MinZero, Zenon DEF IsData
  <2>2. << >> \in Starts(In(1)) /\ (<< >> \o << >>) \o Unread(1) = In(1)
    BY <1>3, StartsNothing
  <2> QED
    BY <1>1, <1>15, <2>1, <2>2 DEF GetInv
<1>8. ASSUME request.op = "select" PROVE SelectInv
  <2>1. << >> \o Only(In(1), Selected) = Only(In(1), Selected)
    BY <1>3, SelectConcat, RowsJoin DEF RowSeq
  <2> QED
    BY <1>1, <1>3, <2>1 DEF SelectInv
<1>9. ASSUME request.op = "project" PROVE ProjectInv
  <2>1. << >> \o Project(In(1)) = Project(In(1))
    BY <1>3, ProjectConcat, RowsJoin DEF RowSeq
  <2> QED
    BY <1>1, <1>3, <2>1 DEF ProjectInv
<1>10. ASSUME request.op = "transform" PROVE TransformInv
  <2>1. << >> \in Starts(In(1)) /\ << >> \o Rest(1) = In(1) /\ Done = Transform(<< >>)
    BY <1>1, <1>3, StartsNothing, TransformEmpty
  <2> QED
    BY <1>1, <1>3, <2>1 DEF TransformInv
<1>11. ASSUME request.op = "hash" PROVE HashInv
  <2>1. Rest(2) = In(2) /\ In(2) \in RowSeq
    BY <1>1, <1>4, <1>11
  <2>2. << >> \o HashJoin(In(1), In(2)) = HashJoin(In(1), In(2))
    BY <1>3, <2>1, HashJoinConcat, RowsJoin DEF RowSeq
  <2> QED
    BY <1>1, <1>3, <2>1, <2>2 DEF HashInv
<1>12. ASSUME request.op = "star" PROVE StarInv
  <2>1. << >> \in Starts(In(1)) /\ << >> \o Rest(1) = In(1)
    BY <1>3, StartsNothing
  <2>2. Keys(<< >>) \subseteq Keys(In(2))
    BY DEF Keys
  <2>3. Sent = StarJoin(In(2), << >>)
    BY <1>1, StarJoinConcat, FullIsRows DEF RowSeq
  <2>4. ~Opened(2)
    BY <1>1, <1>4, <1>12
  <2> QED
    BY <1>1, <2>1, <2>2, <2>3, <2>4 DEF StarInv
<1>13. ASSUME request.op = "sort" PROVE SortInv
  <2>1. FlattenSeq(mem) \o Unread(1) = In(1) /\ mem = << >> /\ mem \in Seq(RowSeq)
    BY <1>3, <1>13, <1>15, FullIsRows, RowsJoin
  <2>2. << >> \o StableSort(In(1), request.by) = StableSort(In(1), request.by)
    <3>1. request.by \in Order
      BY <1>13, <1>15, RequestFields
    <3> QED
      BY <1>3, <3>1, StableSortType, RowsJoin DEF RowSeq
  <2>3. Done \o StableSort(FlattenSeq(mem) \o Unread(1), request.by) = StableSort(In(1), request.by)
    BY <1>1, <2>1, <2>2
  <2>4. \A j \in DOMAIN mem : Sorted(mem[j], request.by)
    BY <2>1
  <2> QED
    BY <1>1, <2>1, <2>3, <2>4 DEF SortInv
<1>14. ASSUME request.op = "union" PROVE UnionInv
  <2>1. \A i \in DOMAIN source : UnionPlace(i)
    BY <1>1, <1>14, <1>15 DEF UnionPlace
  <2>2. \A i \in DOMAIN source : UnionFull(i)
    <3>1. NoExtent # << >>
      BY Constants, FullIsRows
    <3> QED
      BY <1>1, <1>15, <3>1 DEF UnionFull
  <2>3. AllSorted => UnionProgress
    <3>1. Rests = Ins /\ FlattenSeq(Ins) \in RowSeq
      BY <1>15, UnopenedRests, UnopenedIns
    <3>2. request.by \in Order
      BY <1>14, <1>15, RequestFields
    <3>3. << >> \o StableSort(FlattenSeq(Ins), request.by) = StableSort(FlattenSeq(Ins), request.by)
      BY <3>1, <3>2, StableSortType, RowsJoin DEF RowSeq
    <3>4. AllSorted => \A i \in DOMAIN source : Sorted(Rest(i), request.by)
      BY <1>1, <1>15 DEF AllSorted
    <3> QED
      BY <1>1, <3>1, <3>3, <3>4 DEF UnionProgress
  <2>4. mem \in 0..Len(source) /\ mem < Len(source)
    BY <1>14, <1>15 DEF n
  <2> QED
    BY <1>1, <2>1, <2>2, <2>3, <2>4 DEF UnionInv
<1> QED
  BY <1>5, <1>6, <1>7, <1>8, <1>9, <1>10, <1>11, <1>12, <1>13, <1>14, <1>15 DEF ThisOp

LEMMA StartsFineNext == StartsServing' => ThisOp'
BY StartsFine, PTL

\* A file, or none, at the start of a request that truncates it.
LEMMA StartRequestStep ==
  ASSUME Inv, NEW r \in Requests, StartRequest(r)
  PROVE  Inv'
<1>1. PICK s : s = [i \in DOMAIN r.in |-> FreshSource(r.in[i])]
  OBVIOUS
<1>2. /\ r.op \in Reading /\ r.op # "update" /\ Typable(r) /\ Accept(r) /\ StartModules(s)
      /\ files' = IF r.op = "get" THEN files ELSE Truncated(r.out)
      /\ output_type' = NullType
      /\ reply' = [ok |-> TRUE, rows |-> << >>, more |-> FALSE]
      /\ status' = "run"
      /\ UNCHANGED <<info, tmp, damaged>>
  BY <1>1 DEF StartRequest
<1>3. /\ ServerTypes /\ TablesInv /\ FullInv /\ status = "idle" /\ request' = r
      /\ before'.files = files /\ before'.info = info /\ \A t : ~Written(t)
  BY <1>2, Accepted
<1>4. PICK o \in Tables : o = r.out
  BY RequestOps
<1>5. PICK n \in Nat : DOMAIN r.in = 1..n /\ n > 0 /\ \A i \in 1..n : r.in[i] \in Tables
  <2>1. r.in \in Seq(Tables) /\ r.in # << >>
    BY <1>2, RequestIn
  <2>2. Len(r.in) \in Nat /\ DOMAIN r.in = 1..Len(r.in) /\ Len(r.in) > 0 /\ \A i \in 1..Len(r.in) : r.in[i] \in Tables
    BY <2>1
  <2> QED
    BY <2>2
<1>6. /\ s = [i \in 1..n |-> [table |-> r.in[i], type |-> Found(files[r.in[i]], info[r.in[i]]), left |-> NotOpened]]
      /\ DOMAIN s = 1..n /\ Len(s) = n
      /\ \A i \in 1..n : /\ s[i].table = r.in[i] /\ s[i].left = NotOpened
                          /\ s[i].type = Found(files[r.in[i]], info[r.in[i]])
  BY <1>1, <1>5 DEF FreshSource
<1>7. IsSources(s)
  <2>1. \A i \in 1..n : Found(files[r.in[i]], info[r.in[i]]) \in TypesIn(s)
    BY <1>6 DEF TypesIn
  <2>2. \A i \in 1..n : s[i] \in [table : Tables, type : TypesIn(s), left : Seq(RowSeq) \cup {NotOpened}]
    BY <1>5, <1>6, <2>1
  <2> QED
    BY <1>6, <2>2, SMTT(30) DEF IsSources
<1>8. output_type' # MissingType
  BY <1>2 DEF NullType, MissingType
<1>9. ModuleTypes' /\ Untouched' /\ TeeInv' /\ source' = s
  BY <1>2, <1>7, <1>8, ModulesStarted
<1>10. /\ DOMAIN files' = Tables /\ \A t \in Tables : t = o \/ files'[t] = files[t]
       /\ r.op = "get" => files' = files
       /\ r.op # "get" => files' = [files EXCEPT ![o] = NoFile] /\ files'[o] = NoFile
  BY <1>2, <1>3, <1>4 DEF Truncated, ServerTypes
<1>11. ServerTypes'
  <2>1. \A t \in Tables : IsTable(files'[t])
    BY <1>3, <1>4, <1>10, NoFileIs DEF ServerTypes
  <2>2. IsTable(tmp') /\ tmp'.extents \in Seq(FullRows) /\ damaged' \subseteq Tables /\ DOMAIN info' = Tables
    BY <1>2, <1>3 DEF ServerTypes
  <2>3. reply'.ok \in BOOLEAN
    <3>1. reply'.ok = TRUE
      BY <1>2
    <3> QED
      BY <3>1
  <2> QED
    BY <1>2, <1>10, <2>1, <2>2, <2>3, AcceptedTypes
<1>12. ~New' /\ (Truncates' <=> r.op # "get") /\ Busy' /\ request'.op = r.op /\ request'.out = o
  BY <1>2, <1>3, <1>4 DEF New, Truncates, Busy
<1>13. ServingInv'
  <2>1. files' = FilesNow' /\ info' = InfoNow'
    BY <1>2, <1>3, <1>10, <1>12 DEF FilesNow, InfoNow
  <2>2. request' # NoRequest
    BY <1>2, <1>3 DEF NoRequest, Reading
  <2>3. Typable(request)'
    BY <1>2, <1>3, NowTypable
  <2>4. /\ Len(source') = Len(request'.in)
        /\ \A i \in DOMAIN source' : /\ source'[i].table = request'.in[i]
                                     /\ source'[i].type = ReadType(i)'
    <3>1. Len(r.in) = n
      BY <1>2, <1>5, RequestIn
    <3>2. \A i : ReadType(i)' = Found(files[r.in[i]], info[r.in[i]])
      BY <1>3, <1>12 DEF ReadType
    <3> QED
      BY <1>2, <1>3, <1>6, <1>9, <3>1, <3>2
  <2>5. request'.op # "import" /\ request'.op \in Reading /\ status' # "rename"
    BY <1>2, <1>3 DEF Reading
  <2> QED
    BY <1>2, <1>12, <2>1, <2>2, <2>3, <2>4, <2>5 DEF ServingInv
<1>14. \A t \in Tables : ~Written(t)' => files'[t] = files[t]
  BY <1>10, <1>12 DEF Written
<1>15. TablesInv' /\ FullInv'
  <2>1. ASSUME NEW t \in Tables, info'[t] # MissingType, ~Written(t)'
        PROVE  /\ files'[t].extents \in Seq(FullRows)
               /\ t \notin damaged' => Fine(t)'
    <3>1. files'[t] = files[t] /\ info'[t] = info[t] /\ damaged' = damaged
      BY <1>2, <1>14, <2>1
    <3> QED
      BY <1>3, <2>1, <3>1 DEF TablesInv, FullInv, Fine
  <2> QED
    BY <2>1 DEF TablesInv, FullInv
<1>16. AtomicInv'
  BY <1>2, <1>12 DEF AtomicInv
<1>17. Unopened'
  <2>1. \A i \in 1..n : In(i)' \in RowSeq
    <3> SUFFICES ASSUME NEW i \in 1..n PROVE In(i)' \in RowSeq
      OBVIOUS
    <3>1. request'.in[i] \in Tables /\ IsTable(before'.files[request'.in[i]])
      BY <1>3, <1>5 DEF ServerTypes
    <3>2. Rows(before'.files[request'.in[i]]) \in RowSeq
      BY <3>1, ExtentsAreRows
    <3> QED
      BY <3>2, FullIsRows DEF In
  <2>2. DOMAIN source' = 1..n /\ DOMAIN request'.in = 1..n /\ \A i \in 1..n : source'[i].left = NotOpened
    BY <1>3, <1>5, <1>6, <1>9
  <2>3. \A i \in 1..n : ~Opened(i)' /\ Unread(i)' = In(i)' /\ Rest(i)' = In(i)'
    BY <1>9, <2>1, <2>2, NotYetRead
  <2> QED
    BY <1>2, <1>3, <1>9, <2>1, <2>2, <2>3 DEF Unopened
<1>18. StartsServing'
  <2>1. Len(source') \in Nat /\ DOMAIN source' = 1..Len(source') /\ Len(source') > 0
    BY <1>5, <1>6, <1>9
  <2>2. mem' = IF request'.op = "union" THEN 0 ELSE << >>
    BY <1>2, <1>3 DEF StartModules
  <2> QED
    BY <1>2, <1>3, <1>17, <2>1, <2>2 DEF StartsServing
<1>19. ThisOp'
  BY <1>18, StartsFineNext
<1> QED
  BY <1>2, <1>9, <1>11, <1>13, <1>15, <1>16, <1>19, StartKeeps

\* An update that has just begun
StartsUpdate ==
  /\ Untouched /\ request.op = "update" /\ status = "run" /\ mem = "base"
  /\ DOMAIN source = {1, 2}
  /\ \A i \in {1, 2} : /\ source[i].left = NotOpened
                       /\ ~Opened(i) /\ Unread(i) = In(i) /\ Rest(i) = In(i) /\ In(i) \in RowSeq
  /\ New => request.in[1] # request.in[2]

LEMMA UpdateStartsFine == StartsUpdate => ThisOp
<1> SUFFICES ASSUME StartsUpdate PROVE ThisOp
  OBVIOUS
<1>1. /\ Done = << >> /\ ~Begun /\ ~Ends /\ output = NoExtent /\ request.op = "update" /\ status = "run"
      /\ mem = "base"
      /\ \A i \in {1, 2} : series[i] = NoExtent /\ ~Opened(i) /\ Rest(i) = In(i) /\ In(i) \in RowSeq
      /\ New => request.in[1] # request.in[2]
  BY DEF StartsUpdate, Untouched
<1>2. /\ series[1] = NoExtent /\ series[2] = NoExtent /\ ~Opened(1) /\ ~Opened(2)
      /\ Rest(1) = In(1) /\ Rest(2) = In(2) /\ In(1) \in RowSeq /\ In(2) \in RowSeq
  BY <1>1
<1>3. NoExtent # << >>
  BY Constants, FullIsRows
<1>4. UpdatePlace(1) /\ UpdatePlace(2)
  BY <1>1, <1>2, <1>3 DEF UpdatePlace
<1>5. UpdateControl
  BY <1>1, <1>2, <1>4 DEF UpdateControl
<1>6. UpdateOutput
  BY <1>1, <1>2 DEF UpdateOutput
<1>7. ASSUME CanUpdate(In(1), In(2))
      PROVE  Progress(In(1), In(2), Rest(1), Rest(2), Done)
  <2>1. << >> \o SortedUpdate(In(1), In(2)) = SortedUpdate(In(1), In(2))
    BY <1>2, <1>7, SortedUpdateType, RowsJoin DEF RowSeq
  <2>2. \A X, y : Passed(X, X, y)
    BY DEF Passed
  <2> QED
    BY <1>1, <1>2, <1>7, <2>1, <2>2 DEF Progress
<1> QED
  BY <1>1, <1>5, <1>6, <1>7 DEF ThisOp, UpdateInv

LEMMA UpdateStartsFineNext == StartsUpdate' => ThisOp'
BY UpdateStartsFine, PTL

\* The modules of an update are made.
LEMMA UpdateBegins ==
  ASSUME ServerTypes, TypeInv, NEW first, UpdateModules(first),
         request' \in Requests, request'.op = "update", Typable(request)',
         first = [table |-> request'.in[1], type |-> ReadType(1)', left |-> NotOpened],
         FreshSource(request'.in[2]) = [table |-> request'.in[2], type |-> ReadType(2)', left |-> NotOpened],
         New' => request'.in[1] # request'.in[2],
         files' = FilesNow', info' = InfoNow', DOMAIN files' = Tables, DOMAIN info' = Tables,
         DOMAIN before'.files = Tables, DOMAIN before'.info = Tables,
         \A t \in Tables : IsTable(files'[t]) /\ IsTable(before'.files[t]),
         served' \in 0..MaxServed, damaged' = damaged, TablesInv', FullInv', AtomicInv'
  PROVE  Inv'
<1>1. PICK b, u, s : /\ b = request'.in[1] /\ u = request'.in[2]
                     /\ s = <<first, FreshSource(u)>>
  OBVIOUS
<1>2. /\ StartModules(s) /\ tmp' = NoFile /\ output_type' = NullType
      /\ reply' = [ok |-> TRUE] /\ status' = "run"
  BY <1>1 DEF UpdateModules
<1>3. /\ request'.in \in Seq(Tables) /\ Len(request'.in) = 2 /\ DOMAIN request'.in = {1, 2}
      /\ b \in Tables /\ u \in Tables
  <2>1. request'.in \in Seq(Tables) /\ Len(request'.in) = 2
    BY RequestIn DEF Reading
  <2> QED
    BY <1>1, <2>1
<1>4. PICK y, z : y = ReadType(1)' /\ z = ReadType(2)'
  OBVIOUS
<1>5. /\ s = <<[table |-> b, type |-> y, left |-> NotOpened], [table |-> u, type |-> z, left |-> NotOpened]>>
      /\ Len(s) = 2 /\ DOMAIN s = {1, 2}
      /\ s[1].table = b /\ s[1].type = y /\ s[1].left = NotOpened
      /\ s[2].table = u /\ s[2].type = z /\ s[2].left = NotOpened
  BY <1>1, <1>4
<1>6. IsSources(s)
  <2>1. y \in TypesIn(s) /\ z \in TypesIn(s)
    BY <1>5 DEF TypesIn
  <2>2. PICK T : T = TypesIn(s)
    OBVIOUS
  <2>3. s \in Seq([table : Tables, type : T, left : Seq(RowSeq) \cup {NotOpened}])
    BY <1>3, <1>5, <2>1, <2>2
  <2> QED
    BY <2>2, <2>3 DEF IsSources
<1>7. output_type' # MissingType
  BY <1>2 DEF NullType, MissingType
<1>8. ModuleTypes' /\ Untouched' /\ TeeInv' /\ source' = s
  BY <1>2, <1>6, <1>7, ModulesStarted
<1>9. ServerTypes'
  <2>1. IsTable(tmp') /\ tmp'.extents \in Seq(FullRows)
    BY <1>2, NoFileIs
  <2>2. reply'.ok = TRUE
    BY <1>2
  <2>3. reply'.ok \in BOOLEAN /\ damaged' \subseteq Tables
    BY <2>2 DEF ServerTypes
  <2> QED
    BY <1>2, <2>1, <2>3 DEF ServerTypes
<1>10. ServingInv'
  <2>1. request' # NoRequest
    BY DEF NoRequest
  <2>2. /\ Len(source') = Len(request'.in)
        /\ \A i \in DOMAIN source' : /\ source'[i].table = request'.in[i]
                                     /\ source'[i].type = ReadType(i)'
    BY <1>1, <1>3, <1>4, <1>5, <1>8
  <2>3. request'.op # "import" /\ request'.op \in Reading
    BY DEF Reading
  <2> QED
    BY <1>2, <2>1, <2>2, <2>3 DEF ServingInv
<1>11. StartsUpdate'
  <2>1. \A i \in {1, 2} : In(i)' \in RowSeq
    <3> SUFFICES ASSUME NEW i \in {1, 2} PROVE In(i)' \in RowSeq
      OBVIOUS
    <3>1. IsTable(before'.files[request'.in[i]])
      BY <1>1, <1>3
    <3>2. Rows(before'.files[request'.in[i]]) \in RowSeq
      BY <3>1, ExtentsAreRows
    <3> QED
      BY <3>2, FullIsRows DEF In
  <2>2. DOMAIN source' = {1, 2} /\ \A i \in {1, 2} : source'[i].left = NotOpened
    BY <1>5, <1>8
  <2>3. \A i \in {1, 2} : ~Opened(i)' /\ Unread(i)' = In(i)' /\ Rest(i)' = In(i)'
    BY <1>8, <2>1, <2>2, NotYetRead
  <2>4. mem' = "base"
    BY <1>2 DEF StartModules
  <2> QED
    BY <1>2, <1>8, <2>1, <2>2, <2>3, <2>4 DEF StartsUpdate
<1>12. ThisOp'
  BY <1>11, UpdateStartsFineNext
<1> QED
  BY <1>2, <1>8, <1>9, <1>10, <1>12, StartKeeps

\* The base table is listed.
LEMMA StartUpdateStep ==
  ASSUME Inv, NEW r \in Requests, StartUpdate(r)
  PROVE  Inv'
<1>1. /\ r.op = "update" /\ Typable(r) /\ info[r.in[1]] # MissingType /\ Accept(r)
      /\ UpdateModules(FreshSource(r.in[1])) /\ UNCHANGED <<files, info, damaged>>
  BY DEF StartUpdate
<1>2. /\ TypeInv /\ ServerTypes /\ TablesInv /\ FullInv /\ status = "idle" /\ request' = r
      /\ served' \in 0..MaxServed
      /\ before'.files = files /\ before'.info = info /\ \A t : ~Written(t)
  BY <1>1, Accepted
<1>3. ~New' /\ ~Truncates' /\ request'.op = "update"
  BY <1>1, <1>2 DEF New, Truncates
<1>4. files' = FilesNow' /\ info' = InfoNow' /\ Typable(request)'
  BY <1>1, <1>2, <1>3, NowTypable DEF FilesNow, InfoNow
<1>5. \A i : FreshSource(r.in[i]) = [table |-> r.in[i], type |-> ReadType(i)', left |-> NotOpened]
  <2>1. \A i : ReadType(i)' = Found(files[r.in[i]], info[r.in[i]])
    BY <1>2, <1>3 DEF ReadType
  <2> QED
    BY <2>1 DEF FreshSource
<1>6. TablesInv' /\ FullInv'
  BY <1>1, <1>2 DEF TablesInv, FullInv, Fine
<1>7. AtomicInv'
  BY <1>1, <1>2, AtomicNow
<1>8. /\ DOMAIN files' = Tables /\ DOMAIN info' = Tables
      /\ DOMAIN before'.files = Tables /\ DOMAIN before'.info = Tables
      /\ \A t \in Tables : IsTable(files'[t]) /\ IsTable(before'.files[t])
  BY <1>1, <1>2 DEF ServerTypes
<1>9. /\ request' \in Requests /\ Typable(request)' /\ UpdateModules(FreshSource(request'.in[1]))
      /\ FreshSource(request'.in[1]) = [table |-> request'.in[1], type |-> ReadType(1)', left |-> NotOpened]
      /\ FreshSource(request'.in[2]) = [table |-> request'.in[2], type |-> ReadType(2)', left |-> NotOpened]
  BY <1>1, <1>2, <1>4, <1>5
<1>10. ServerTypes /\ TypeInv /\ served' \in 0..MaxServed /\ damaged' = damaged
  BY <1>1, <1>2
<1> QED
  BY <1>3, <1>4, <1>6, <1>7, <1>8, <1>9, <1>10, UpdateBegins

\* createTable has made the base table, and lists it.
LEMMA CreateTableStep ==
  ASSUME Inv, CreateTable
  PROVE  Inv'
<1>1. PICK b, u : b = request.in[1] /\ u = request.in[2]
  OBVIOUS
<1>2. PICK y : y = CreatedType(b, u)
  OBVIOUS
<1>3. PICK e : e = [type |-> y, extents |-> << << >> >>, whole |-> TRUE]
  OBVIOUS
<1>4. /\ status = "write" /\ request.op = "update"
      /\ files' = [files EXCEPT ![b] = e] /\ info' = [info EXCEPT ![b] = y]
      /\ UNCHANGED <<request, before, served, damaged>>
      /\ UpdateModules([table |-> b, type |-> y, left |-> NotOpened])
  BY <1>1, <1>2, <1>3 DEF CreateTable
<1>5. TypeInv /\ ServerTypes /\ ServingInv /\ TablesInv /\ FullInv
  BY TypesAre DEF Inv
<1>6. /\ request \in Requests /\ New /\ Typable(request)
      /\ files = [before.files EXCEPT ![b] = NoFile] /\ info = before.info
  BY <1>1, <1>4, <1>5 DEF TypeInv, ServingInv, Target
<1>7. /\ request.in \in Seq(Tables) /\ DOMAIN request.in = {1, 2}
      /\ b \in Tables /\ u \in Tables
  <2>1. request.in \in Seq(Tables) /\ Len(request.in) = 2
    BY <1>4, <1>6, RequestIn DEF Reading
  <2> QED
    BY <1>1, <2>1
<1>8. info[u] # NullType /\ info[u] # MissingType /\ info[b] = MissingType /\ b # u
  <2>1. info[u] # NullType /\ info[u] # MissingType
    BY <1>1, <1>4, <1>6, <1>7, TypableIs
  <2>2. info[b] = MissingType
    BY <1>1, <1>6 DEF New
  <2> QED
    BY <2>1, <2>2
<1>9. y = NewType /\ e = Created /\ y # NullType /\ y # MissingType /\ IsTable(e)
  <2>1. y = NewType
    BY <1>1, <1>2, <1>6 DEF NewType, CreatedType
  <2>2. e = Created
    BY <1>3, <2>1 DEF Created
  <2> QED
    BY <2>1, <2>2, CreatedIs
<1>10. /\ FilesNow' = FilesNow /\ InfoNow' = InfoNow /\ New' = New /\ NewType' = NewType
       /\ \A i : ReadType(i)' = ReadType(i)
  BY <1>4, SameNow
<1>11. /\ DOMAIN files' = Tables /\ files'[b] = e /\ DOMAIN info' = Tables /\ info'[b] = y
       /\ \A t \in Tables : t # b => files'[t] = files[t] /\ info'[t] = info[t]
  BY <1>4, <1>5, <1>7 DEF ServerTypes
<1>12. files' = FilesNow' /\ info' = InfoNow'
  <2>1. ~Truncates
    BY <1>4 DEF Truncates
  <2>2. b \in DOMAIN before.files /\ b \in DOMAIN before.info
    BY <1>5, <1>7 DEF ServerTypes
  <2>3. FilesNow = [before.files EXCEPT ![b] = e] /\ InfoNow = [before.info EXCEPT ![b] = y]
    BY <1>1, <1>6, <1>9, <2>1 DEF FilesNow, InfoNow
  <2> QED
    BY <1>4, <1>6, <1>10, <2>2, <2>3
<1>13. Typable(request)'
  <2>1. \A i \in {1, 2} : info'[request'.in[i]] # MissingType /\ info'[request'.in[i]] # NullType
    BY <1>1, <1>4, <1>7, <1>8, <1>9, <1>11
  <2>2. request'.op = "update" /\ DOMAIN request'.in = {1, 2}
    BY <1>4, <1>7
  <2>3. \A i \in {1, 2} : ~Rejected(request, i)' /\ ~Typeless(request, i)'
    BY <2>1, <2>2 DEF Rejected, Typeless
  <2> QED
    BY <2>2, <2>3 DEF Typable, Refused
<1>14. /\ [table |-> b, type |-> y, left |-> NotOpened]
            = [table |-> request'.in[1], type |-> ReadType(1)', left |-> NotOpened]
       /\ FreshSource(request'.in[2]) = [table |-> request'.in[2], type |-> ReadType(2)', left |-> NotOpened]
  <2>1. ReadType(1) = y
    BY <1>6, <1>9 DEF ReadType
  <2>2. ReadType(2) = Found(files[u], info[u])
    <3>1. files[u] = before.files[u]
      BY <1>5, <1>6, <1>7, <1>8 DEF ServerTypes
    <3> QED
      BY <1>1, <1>6, <3>1 DEF ReadType
  <2> QED
    BY <1>1, <1>4, <1>10, <2>1, <2>2 DEF FreshSource
<1>15. \A t \in Tables : (Written(t)' <=> t = b) /\ (Written(t) <=> t = b)
  <2>1. status' = "run"
    BY <1>4 DEF UpdateModules
  <2>2. New' /\ ~Truncates' /\ Busy' /\ ~Busy /\ request'.in[1] = b
    BY <1>1, <1>4, <1>6, <1>10, <2>1 DEF Truncates, Busy
  <2>3. Target = b
    BY <1>1, <1>4 DEF Target
  <2> QED
    BY <1>4, <2>1, <2>2, <2>3 DEF Written
<1>16. TablesInv' /\ FullInv'
  <2>1. ASSUME NEW t \in Tables, info'[t] # MissingType, ~Written(t)'
        PROVE  /\ files'[t].extents \in Seq(FullRows)
               /\ t \notin damaged' => Fine(t)'
    <3>1. t # b /\ ~Written(t)
      BY <1>15, <2>1
    <3>2. files'[t] = files[t] /\ info'[t] = info[t] /\ damaged' = damaged
      BY <1>4, <1>11, <3>1
    <3> QED
      BY <1>4, <1>5, <2>1, <3>1, <3>2 DEF TablesInv, FullInv, Fine
  <2> QED
    BY <2>1 DEF TablesInv, FullInv
<1>17. AtomicInv'
  <2>1. files'[request'.in[1]].extents = << << >> >> /\ files'[request'.in[1]].whole
    BY <1>1, <1>3, <1>4, <1>11
  <2>2. files'[request'.in[1]].type = info'[request'.in[1]]
    BY <1>1, <1>3, <1>4, <1>11
  <2> QED
    BY <2>1, <2>2 DEF AtomicInv
<1>18. /\ DOMAIN before'.files = Tables /\ DOMAIN before'.info = Tables
       /\ \A t \in Tables : IsTable(files'[t]) /\ IsTable(before'.files[t])
  BY <1>4, <1>5, <1>9, <1>11 DEF ServerTypes
<1>19. /\ request' \in Requests /\ request'.op = "update" /\ served' \in 0..MaxServed
       /\ New' => request'.in[1] # request'.in[2]
  BY <1>1, <1>4, <1>5, <1>6, <1>8 DEF ServerTypes
<1> QED
  BY <1>4, <1>5, <1>11, <1>12, <1>13, <1>14, <1>16, <1>17, <1>18, <1>19, UpdateBegins

----------------------------------------------------------------------------
\* Nothing happens.
LEMMA StutterVars ==
  ASSUME UNCHANGED vars
  PROVE  /\ status' = status /\ files' = files /\ request' = request /\ returned' = returned
         /\ info' = info /\ tmp' = tmp /\ tee' = tee /\ reply' = reply /\ before' = before
         /\ served' = served /\ damaged' = damaged
         /\ source' = source /\ series' = series /\ output' = output /\ output_type' = output_type
         /\ mem' = mem
BY DEF vars, moduleVars, serverVars

LEMMA StutterOp ==
  ASSUME OpInv, UNCHANGED vars
  PROVE  OpInv'
<1>1. /\ status' = status /\ request' = request /\ returned' = returned /\ tee' = tee /\ reply' = reply
      /\ before' = before /\ damaged' = damaged
      /\ source' = source /\ series' = series /\ output' = output /\ output_type' = output_type
      /\ mem' = mem
  BY StutterVars
<1>2. SameWork
  <2>1. Sent' = Sent
    BY <1>1 DEF Sent
  <2>2. Done' = Done
    BY <1>1, <2>1 DEF Done
  <2>3. (Begun' <=> Begun) /\ (Ends' => Ends)
    BY <1>1 DEF Begun, Returns, Ends
  <2> QED
    BY <1>1, <2>1, <2>2, <2>3 DEF SameWork
<1>3. CASE status \notin {"run", "returned"}
  <2>1. \A op : ~Serving(op)'
    BY <1>1, <1>3 DEF Serving
  <2> QED
    BY <2>1, OtherOps DEF OpInv
<1>4. CASE status \in {"run", "returned"} /\ request.op # "get"
  <2>1. ThisOp'
    BY <1>2, <1>4, SameWorkKeeps
  <2>2. \A op : Serving(op)' => request'.op = op
    BY DEF Serving
  <2> QED
    BY <2>1, <2>2, OtherOps, Zenon DEF OpInv, ThisOp
<1>5. CASE status \in {"run", "returned"} /\ request.op = "get"
  <2>1. Serving("get") /\ GetInv
    BY <1>5 DEF Serving, OpInv
  <2>2. In(1)' = In(1) /\ Unread(1)' = Unread(1) /\ (Opened(1)' <=> Opened(1))
    BY <1>2, WorkSame DEF SamePlaces
  <2>3. \A p : IsData(p)' <=> IsData(p)
    BY <1>1 DEF IsData
  <2>4. GetInv'
    <3>1. /\ \E p \in Starts(In(1)) :
               IsData(p) /\ (p \o (IF status = "returned" THEN RowsOf(returned) ELSE << >>)) \o Unread(1) = In(1)
          /\ ~Opened(1) => output_type = NullType
          /\ Ends => source[1].left = << >>
      BY <2>1 DEF GetInv
    <3>2. \E p \in Starts(In(1)') :
            IsData(p)' /\ (p \o (IF status' = "returned" THEN RowsOf(returned') ELSE << >>)) \o Unread(1)' = In(1)'
      BY <1>1, <2>2, <2>3, <3>1
    <3>3. (~Opened(1)' => output_type' = NullType) /\ (Ends' => source'[1].left = << >>)
      BY <1>1, <2>2, <3>1 DEF Ends
    <3> QED
      BY <3>2, <3>3 DEF GetInv
  <2>5. \A op : Serving(op)' => op = "get"
    BY <1>1, <1>5 DEF Serving
  <2> QED
    BY <2>4, <2>5, OtherOps DEF OpInv
<1> QED
  BY <1>3, <1>4, <1>5

LEMMA StutterStep ==
  ASSUME Inv, UNCHANGED vars
  PROVE  Inv'
<1>1. /\ status' = status /\ files' = files /\ request' = request /\ returned' = returned
      /\ info' = info /\ tmp' = tmp /\ tee' = tee /\ reply' = reply /\ before' = before
      /\ served' = served /\ damaged' = damaged
      /\ source' = source /\ series' = series /\ output' = output /\ output_type' = output_type
      /\ mem' = mem
  BY StutterVars
<1>2. /\ TypeInv /\ ModuleTypes /\ ServerTypes /\ ServingInv /\ TablesInv /\ FullInv /\ TeeInv /\ OpInv
      /\ ErrorInv /\ RenameInv /\ AtomicInv /\ ResultIsCorrect /\ DiesOnlyAsKnown
  BY TypesAre DEF Inv
<1>3. TypeInv'
  <2>1. ModuleTypes'
    BY <1>1, <1>2, SameModules DEF vars, serverVars
  <2>2. ServerTypes'
    BY <1>1, <1>2 DEF ServerTypes
  <2> QED
    BY <2>1, <2>2, TypesNext
<1>4. (Busy' <=> Busy) /\ (New' <=> New) /\ \A t : Written(t)' <=> Written(t)
  BY <1>1 DEF Busy, New, Target, Written, Truncates
<1>5. TablesInv' /\ FullInv'
  BY <1>1, <1>2, <1>4 DEF TablesInv, FullInv, Fine
<1>6. TeeInv'
  <2>1. ExtentType' = ExtentType /\ (Begun' <=> Begun)
    BY <1>1 DEF ExtentType, Begun, Returns
  <2> QED
    BY <1>1, <1>2, <1>4, <2>1 DEF TeeInv
<1>7. \A i : In(i)' = In(i)
  BY <1>1, InSame
<1>8. Fatal(request)' <=> Fatal(request)
  BY <1>1, <1>7 DEF Fatal
<1>9. ErrorInv' /\ DiesOnlyAsKnown'
  BY <1>1, <1>2, <1>4, <1>8 DEF ErrorInv, DiesOnlyAsKnown
<1>10. RenameInv' /\ AtomicInv'
  BY <1>1, <1>2, <1>4, <1>7 DEF RenameInv, AtomicInv, UpdateWrote, Rows
<1>11. ResultIsCorrect'
  <2>1. Answered' <=> Answered
    BY <1>1 DEF Answered
  <2>2. Correct' <=> Correct
    BY <1>1, <1>7 DEF Correct, Out, UpdateWrote, Rows
  <2> QED
    BY <1>2, <2>1, <2>2 DEF ResultIsCorrect
<1>12. ServingInv'
  BY <1>1, <1>2, <1>4, ServingSame
<1> QED
  BY <1>2, <1>3, <1>5, <1>6, <1>9, <1>10, <1>11, <1>12, StutterOp DEF Inv

----------------------------------------------------------------------------
\* The invariant

LEMMA FirstFiles ==
  ASSUME Init, NEW t \in Tables
  PROVE  /\ IsTable(files[t])
         /\ info[t] # MissingType => Fine(t)
<1>1. /\ files \in [Tables -> Finished \cup {NoFile}]
      /\ info = [x \in Tables |-> IF files[x] = NoFile THEN MissingType ELSE files[x].type]
  BY ServerAssumption DEF Init
<1>2. files[t] \in Finished \cup {NoFile} /\ info[t] = IF files[t] = NoFile THEN MissingType ELSE files[t].type
  BY <1>1
<1>3. IsTable(NoFile)
  BY NoFileIs
<1>4. ASSUME files[t] \in Finished
      PROVE  /\ IsTable(files[t]) /\ files[t].whole /\ files[t].type \in RowTypes
             /\ files[t].type # NullType /\ files[t].extents \in Seq(FullRows)
  <2>1. /\ files[t] = [type |-> files[t].type, extents |-> files[t].extents, whole |-> files[t].whole]
        /\ files[t].type \in RowTypes /\ files[t].extents \in Seq(FullRows) /\ files[t].whole = TRUE
    BY <1>4 DEF Finished, FullRows, RowSeq
  <2>2. files[t].type # MissingType /\ files[t].type # NullType
    BY <2>1, ServerAssumption
  <2> QED
    BY <2>1, <2>2 DEF IsTable
<1> QED
  BY <1>2, <1>3, <1>4 DEF Fine

LEMMA InitTypes ==
  ASSUME Init
  PROVE  TypeInv
<1>1. /\ status = "idle" /\ request = NoRequest /\ tmp = NoFile /\ tee = NoTee /\ reply = [ok |-> TRUE]
      /\ source = << >> /\ series = << >> /\ output = NoExtent /\ output_type = NullType
      /\ returned = NoExtent /\ served = 0 /\ damaged = {}
      /\ before = [files |-> files, info |-> info]
      /\ DOMAIN info = Tables
  BY DEF Init
<1>2. DOMAIN files = Tables
  BY ServerAssumption DEF Init
<1>3. ServerTypes
  <2>1. \A t \in Tables : IsTable(files[t])
    BY FirstFiles
  <2>2. IsTable(tmp) /\ tmp.extents \in Seq(FullRows)
    BY <1>1, NoFileIs
  <2>3. before.files = files /\ before.info = info
    BY <1>1
  <2>4. reply.ok = TRUE
    BY <1>1
  <2>5. served \in 0..MaxServed
    BY <1>1, Constants
  <2>6. reply.ok \in BOOLEAN
    BY <2>4
  <2> QED
    BY <1>1, <1>2, <2>1, <2>2, <2>3, <2>5, <2>6 DEF ServerTypes
<1>4. ModuleTypes
  <2>1. IsTee(tee)
    BY <1>1, NoTeeIs, TeeIs DEF NullType, MissingType
  <2>2. IsSources(source) /\ series \in Seq(Optional) /\ Len(series) = Len(source)
    BY <1>1, SourcesNone
  <2>3. output \in Optional /\ returned \in Optional /\ output_type # MissingType
    BY <1>1 DEF Optional, NullType, MissingType
  <2> QED
    BY <2>1, <2>2, <2>3 DEF ModuleTypes
<1> QED
  BY <1>3, <1>4, TypesAre

LEMMA InitKeeps ==
  ASSUME Init
  PROVE  Inv
<1>1. status = "idle" /\ request = NoRequest
  BY DEF Init
<1>2. ~Busy /\ status # "write" /\ \A op : ~Serving(op)
  BY <1>1 DEF Busy, Serving
<1>3. ServingInv /\ TeeInv /\ ErrorInv /\ RenameInv /\ DiesOnlyAsKnown
  BY <1>1, <1>2 DEF ServingInv, TeeInv, ErrorInv, RenameInv, DiesOnlyAsKnown
<1>4. OpInv
  <2>1. ImportInv /\ MergeInv
    BY <1>2, Zenon DEF ImportInv, MergeInv
  <2>2. GetInv
    BY <1>2, Zenon DEF GetInv
  <2>3. SelectInv /\ ProjectInv
    BY <1>2, Zenon DEF SelectInv, ProjectInv
  <2>4. TransformInv
    BY <1>2, Zenon DEF TransformInv
  <2>5. HashInv /\ StarInv
    BY <1>2, Zenon DEF HashInv, StarInv
  <2>6. SortInv
    BY <1>2, Zenon DEF SortInv
  <2>7. UnionInv /\ UpdateInv
    BY <1>2, Zenon DEF UnionInv, UpdateInv
  <2> QED
    BY <2>1, <2>2, <2>3, <2>4, <2>5, <2>6, <2>7 DEF OpInv
<1>5. TablesInv /\ FullInv
  BY FirstFiles DEF TablesInv, FullInv, Fine
<1>6. AtomicInv /\ ResultIsCorrect
  <2>1. request.op = "none"
    BY <1>1 DEF NoRequest
  <2> QED
    BY <1>1, <2>1 DEF AtomicInv, ResultIsCorrect, Answered
<1> QED
  BY <1>3, <1>4, <1>5, <1>6, InitTypes DEF Inv

LEMMA ServeStep ==
  ASSUME Inv, Serve
  PROVE  Inv'
<1>1. CASE ModuleStep
  BY <1>1, ModuleKeeps
<1>2. CASE TeeExtent
  BY <1>2, TeeExtentStep
<1>3. CASE TableDataExtent
  BY <1>3, TableDataExtentStep
<1>4. CASE DataComplete
  BY <1>4, DataCompleteStep
<1>5. CASE Complete
  BY <1>5, CompleteStep
<1>6. CASE CompleteUpdate
  BY <1>6, CompleteUpdateStep
<1>7. CASE Rename
  BY <1>7, RenameStep
<1>8. CASE Unwind
  BY <1>8, UnwindStep
<1>9. CASE CreateTable
  BY <1>9, CreateTableStep
<1>10. CASE ImportRows
  BY <1>10, ImportRowsStep
<1>11. CASE ImportChild
  BY <1>11, ImportChildStep
<1> QED
  BY <1>1, <1>2, <1>3, <1>4, <1>5, <1>6, <1>7, <1>8, <1>9, <1>10, <1>11 DEF Serve

LEMMA ArriveStep ==
  ASSUME Inv, NEW r \in Requests, Arrive(r)
  PROVE  Inv'
<1>1. CASE InvalidRequest(r)
  BY <1>1, RefuseStep DEF InvalidRequest
<1>2. CASE NullTypeUsed(r)
  BY <1>2, NullTypeUsedStep
<1>3. CASE StartRequest(r)
  BY <1>3, StartRequestStep
<1>4. CASE StartUpdate(r)
  BY <1>4, StartUpdateStep
<1>5. CASE StartImport(r)
  BY <1>5, StartImportStep
<1>6. CASE StartWrite(r)
  BY <1>6, StartWriteStep
<1> QED
  BY <1>1, <1>2, <1>3, <1>4, <1>5, <1>6 DEF Arrive

LEMMA NextKeeps ==
  ASSUME Inv, [Next]_vars
  PROVE  Inv'
<1>1. CASE Serve
  BY <1>1, ServeStep
<1>2. CASE \E r \in Requests : Arrive(r)
  BY <1>2, ArriveStep
<1>3. CASE Kill
  BY <1>3, KillStep
<1>4. CASE Restart
  BY <1>4, RestartStep
<1>5. CASE UNCHANGED vars
  BY <1>5, StutterStep
<1> QED
  BY <1>1, <1>2, <1>3, <1>4, <1>5 DEF Next

\* The inductive invariant of the server
THEOREM ServerInvariant == Spec => []Inv
<1>1. Init => Inv
  BY InitKeeps
<1>2. Inv /\ [Next]_vars => Inv'
  BY NextKeeps
<1> QED
  BY <1>1, <1>2, PTL DEF Spec

\* A table of the invariant is a file.
LEMMA TableIsFile ==
  ASSUME NEW f, IsTable(f)
  PROVE  IsFile(f)
<1>1. f.extents \in Seq(RowSeq)
  BY ExtentsAreRows
<1> QED
  BY <1>1 DEF IsTable, IsFile, RowSeq

LEMMA TypesFollow ==
  ASSUME Inv
  PROVE  TypeOK
<1>1. TypeInv
  BY DEF Inv
<1>2. \A t \in Tables : IsFile(files[t]) /\ IsFile(before.files[t])
  BY <1>1, TableIsFile DEF TypeInv
<1>3. IsFile(tmp) /\ tee.rows \in Seq(Row) /\ Len(tee.rows) <= Limit
  BY <1>1, TableIsFile DEF TypeInv, IsTee, RowSeq
<1>4. DOMAIN series = DOMAIN source
  <2>1. series \in Seq(Optional) /\ Len(series) = Len(source)
    BY <1>1 DEF TypeInv
  <2>2. DOMAIN source = 1..Len(source)
    BY <1>1 DEF TypeInv, IsSources
  <2> QED
    BY <2>1, <2>2
<1>5. \A i \in DOMAIN series : series[i] # NoExtent => series[i] \in Seq(Row)
  BY <1>1 DEF TypeInv, Optional, RowSeq
<1>6. (output # NoExtent => output \in Seq(Row)) /\ (returned # NoExtent => returned \in Seq(Row))
  BY <1>1 DEF TypeInv, Optional, RowSeq
<1>7. /\ status \in {"idle", "write", "run", "returned", "rename", "error", "dead", "killed"}
      /\ DOMAIN info = Tables
      /\ damaged \subseteq Tables /\ served \in 0..MaxServed /\ reply.ok \in BOOLEAN
  BY <1>1 DEF TypeInv
<1> QED
  BY <1>2, <1>3, <1>4, <1>5, <1>6, <1>7 DEF TypeOK

LEMMA TablesFollow ==
  ASSUME Inv
  PROVE  TablesStayWhole
<1>1. UpdateIsAtomic
  BY DEF Inv, AtomicInv, UpdateIsAtomic
<1>2. ListedIsReadable
  <2> SUFFICES ASSUME status = "idle", NEW t \in Tables \ damaged, info[t] # MissingType
               PROVE  /\ files[t].whole
                      /\ files[t].type \in {info[t], NullType}
                      /\ files[t].type = NullType => files[t].extents = << >>
    BY DEF ListedIsReadable
  <2>1. ~Written(t)
    BY DEF Written, Busy
  <2>2. Fine(t)
    BY <2>1 DEF Inv, TablesInv
  <2> QED
    BY <2>2 DEF Fine
<1> QED
  BY <1>1, <1>2, TypesFollow DEF TablesStayWhole

\* Every variable keeps its type: an OutputModule never buffers more than one
\* extent of output (DataSeriesModule.cpp:159), modules hold only rows or nothing.
THEOREM ServerTypeCorrect == Spec => []TypeOK
BY ServerInvariant, TypesFollow, PTL

\* An update replaces its base table in one step, and what table_info lists can
\* be read, for every set of tables and requests, however they are cut into
\* extents (data-series-server.cpp:386-395); only a table that was not listed is
\* left unfinished by a server that is stopped in createTable (:480-487).
THEOREM TablesWhole == Spec => []TablesStayWhole
BY ServerInvariant, TablesFollow, PTL

LEMMA InvDies == Inv => DiesOnlyAsKnown
BY DEF Inv

LEMMA InvResult == Inv => ResultIsCorrect
BY DEF Inv

\* No assertion of a module fails and nothing invalid is dereferenced but for the
\* requests that are known to end the server (data-series-server.cpp:229-236,
\* TypeIndexModule.cpp:67, ExprTransformModule.cpp:89 and others).
THEOREM DeathsKnown == Spec => []DiesOnlyAsKnown
BY ServerInvariant, InvDies, PTL

\* The output of every request that succeeds is what its operation is defined to
\* compute from the tables as they were when it came
\* (DataSeriesServer.thrift:60-150).
THEOREM ResultsCorrect == Spec => []ResultIsCorrect
BY ServerInvariant, InvResult, PTL
=============================================================================
