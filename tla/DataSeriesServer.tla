-------------------------- MODULE DataSeriesServer --------------------------
(***************************************************************************)
(* data-series-server (src/server/data-series-server.cpp): tables are files, *)
(* and table_info says which ones there are.  A request builds a chain of    *)
(* modules, from TypeIndexModules on the input files to a TeeModule that     *)
(* writes the output file, and pulls it until it is empty.  TSimpleServer    *)
(* serves one request at a time.                                             *)
(*                                                                           *)
(* status is "idle", "write" while a file is made that no module writes,     *)
(* "run" while a module works, "returned" when the TeeModule has the next    *)
(* extent, "rename" near the end of an update, "error" when a module has      *)
(* thrown a RequestError, "dead" after an assertion failed and "killed" when  *)
(* it was stopped from outside.                                               *)
(***************************************************************************)
EXTENDS SortedModules

CONSTANTS
  Requests,     \* what clients ask for
  Imported,     \* bound: the tables that clients have imported at the start
  MaxServed     \* bound: requests

NoFile == [type |-> NullType, extents |-> << >>, whole |-> FALSE]

\* A file that somebody else has written has no extent without rows.
Finished == [type : RowTypes, extents : Seq(Seq(Row) \ {<< >>}), whole : {TRUE}]

\* What can be asked for: the tables are named, values have their types.
One    == {<<t>> : t \in Tables}
Two    == Tables \X Tables
Some   == Seq(Tables) \ {<< >>}
Orders == [less : BOOLEAN, nulls_first : BOOLEAN]

Requestable ==
  [op : {"merge"}, in : Some, out : Tables]
  \cup [op : {"union"}, in : Some, out : Tables, by : Orders]
  \cup [op : {"select", "project", "transform"}, in : One, out : Tables]
  \cup [op : {"sort"}, in : One, out : Tables, by : Orders]
  \cup [op : {"get"}, in : One, out : Tables, max_rows : Nat]
  \cup [op : {"star", "update"}, in : Two, out : Tables]
  \cup [op : {"hash"}, in : Two, out : Tables, max_rows : Nat]
  \cup [op : {"import"}, out : Tables, type : RowTypes, extents : Seq(Seq(Row))]
  \cup [op : {"rows"}, out : Tables, type : RowTypes, rows : Seq(Row), bad_row : BOOLEAN]
  \cup [op : {"child"}, out : Tables, type : RowTypes, extents : Seq(Seq(Row) \ {<< >>}),
        fails : BOOLEAN]

MissingType == [name |-> <<"missing">>, fields |-> << >>]

ASSUME ServerAssumption ==
  /\ Limit \in Nat \ {0} /\ MaxServed \in Nat
  /\ Requests \subseteq Requestable
  /\ Imported \subseteq [Tables -> Finished \cup {NoFile}]
  /\ NullType \notin RowTypes /\ MissingType \notin RowTypes
  /\ NoExtent \notin Seq(Row) /\ NotOpened \notin Seq(Seq(Row))

VARIABLES
  info,         \* table_info: the types; Missing tables are not in it
  tmp,          \* the file "tmp."<base table> of the last update
  tee,          \* the output file as far as it is written, and its buffer
  reply,        \* what the client got back
  before,       \* history: files and table_info when the request came
  served,       \* requests so far
  damaged       \* history: tables listed with another type than the file may have

serverVars == <<info, tmp, tee, reply, before, served, damaged>>
vars == <<status, files, request, moduleVars, returned, serverVars>>

NoTee == [type |-> NullType, extents |-> << >>, rows |-> << >>]

NoRequest == [op |-> "none"]

Rows(file) == FlattenSeq(file.extents)

----------------------------------------------------------------------------
\* TeeModule: OutputModule cuts the rows into extents

\* OutputModule::newRecord, then the copy of the row
Write(t, row) ==
  IF Len(t.rows) + 1 > Limit
    THEN [t EXCEPT !.extents = Append(@, t.rows), !.rows = <<row>>]
    ELSE [t EXCEPT !.rows = Append(@, row)]

WriteAll(t, rows) ==
  LET written[n \in 0..Len(rows)] == IF n = 0 THEN t ELSE Write(written[n - 1], rows[n])
  IN  written[Len(rows)]

Flushed_forgets_the_rest(t) == t.extents

\* OutputModule::close: an extent without rows is not written.
Flushed(t) == IF t.rows = << >> THEN t.extents ELSE Append(t.extents, t.rows)

FileOf(t) == [type |-> t.type, extents |-> Flushed(t), whole |-> TRUE]

ExtentType == IF request.op \in {"select", "update"} THEN source[1].type ELSE output_type

\* An output file is truncated when the TeeModule is made, and has no index
\* until it is closed.
Truncated(path) == [files EXCEPT ![path] = NoFile]

----------------------------------------------------------------------------
\* The start of a request: its checks, createTable, the modules

\* The TypeIndexModule of a table that is listed with type t finds a type by
\* its name in the file f.
Has(f, t) == f.type # NullType /\ t # MissingType /\ f.type.name = t.name

Found(f, t) == IF Has(f, t) THEN f.type ELSE t

FreshSource(table) ==
  [table |-> table, type |-> Found(files[table], info[table]), left |-> NotOpened]

StartModules(sources) ==
  /\ source' = sources
  /\ series' = [i \in DOMAIN sources |-> NoExtent]
  /\ output' = NoExtent
  /\ mem' = CASE request'.op = "union"  -> 0
              [] request'.op = "update" -> "base"
              [] OTHER -> << >>
  /\ returned' = NoExtent
  /\ tee' = NoTee

\* They are local to the handler.
ModulesGone ==
  /\ source' = << >> /\ series' = << >> /\ output' = NoExtent /\ output_type' = NullType
  /\ mem' = << >> /\ returned' = NoExtent /\ tee' = NoTee

Accept(r) ==
  /\ status = "idle" /\ served < MaxServed
  /\ served' = served + 1
  /\ request' = r
  /\ before' = [files |-> files, info |-> info]

\* The requests that read tables
Reading == {"merge", "get", "hash", "star", "select", "project", "transform", "update",
            "union", "sort"}

\* The client gets an exception and nothing was touched.
Refuse(r) ==
  /\ Accept(r)
  /\ reply' = [ok |-> FALSE]
  /\ UNCHANGED <<status, files, moduleVars, returned, info, tmp, tee, damaged>>

Typeless(r, i) == info[r.in[i]] = NullType

SameName_unchecked(r, i) == TRUE

SameName(r, i) == info[r.in[i]].name = info[r.in[1]].name

\* What an exception says of a table.  The update's base table is made when it
\* does not exist.
Rejected(r, i) ==
  \/ info[r.in[i]] = MissingType /\ ~(r.op = "update" /\ i = 1)
  \/ r.op = "merge" /\ r.in[i] = r.out
  \/ r.op = "merge" /\ ~Typeless(r, i) /\ ~SameName(r, i)

\* Does the request use the type of a table before it looks up the next one?
InTurn(r) == r.op \in {"merge", "union"}

Refused(r) ==
  \/ r.op = "get" /\ r.max_rows = 0
  \/ \E i \in DOMAIN r.in : /\ Rejected(r, i)
                            /\ InTurn(r) => \A j \in 1..(i - 1) : ~Typeless(r, j)

InvalidRequest(r) == r.op \in Reading /\ Refused(r) /\ Refuse(r)

\* info->second.extent_type->getName() of a table that never had a type
NullTypeUsed(r) ==
  /\ r.op \in Reading /\ ~Refused(r)
  /\ \E i \in DOMAIN r.in : Typeless(r, i)
  /\ Accept(r)
  /\ status' = "dead"
  /\ UNCHANGED <<files, moduleVars, returned, info, tmp, tee, reply, damaged>>

Typable(r) == ~Refused(r) /\ \A i \in DOMAIN r.in : ~Typeless(r, i)

\* All requests that read tables, but for sortedUpdateTable.
StartRequest(r) ==
  /\ r.op \in Reading \ {"update"} /\ Typable(r)
  /\ Accept(r)
  /\ StartModules([i \in DOMAIN r.in |-> FreshSource(r.in[i])])
  /\ files' = IF r.op = "get" THEN files ELSE Truncated(r.out)
  /\ output_type' = NullType
  /\ reply' = [ok |-> TRUE, rows |-> << >>, more |-> FALSE]
  /\ status' = "run"
  /\ UNCHANGED <<info, tmp, damaged>>

UpdateModules(base) ==
  /\ StartModules(<<base, FreshSource(request'.in[2])>>)
  /\ tmp' = NoFile
  /\ output_type' = NullType
  /\ reply' = [ok |-> TRUE]
  /\ status' = "run"

StartUpdate(r) ==
  /\ r.op = "update" /\ Typable(r) /\ info[r.in[1]] # MissingType
  /\ Accept(r)
  /\ UpdateModules(FreshSource(r.in[1]))
  /\ UNCHANGED <<files, info, damaged>>

\* The DataSeriesSink of createTable, of importData or of a child process
\* truncates its file.
StartWrite(r) ==
  /\ \/ r.op = "update" /\ Typable(r) /\ info[r.in[1]] = MissingType
     \/ r.op \in {"rows", "child"}
  /\ Accept(r)
  /\ files' = Truncated(IF r.op = "update" THEN r.in[1] ELSE r.out)
  /\ status' = "write"
  /\ UNCHANGED <<moduleVars, returned, info, tmp, tee, reply, damaged>>

\* createTable leaves a file with an extent without rows.
CreatedType(base, update) == TypeOf("created", base, <<info[update]>>)

CreateTable ==
  /\ status = "write" /\ request.op = "update"
  /\ LET base == request.in[1]
         type == CreatedType(base, request.in[2])
     IN  /\ files' = [files EXCEPT ![base] =
                        [type |-> type, extents |-> << << >> >>, whole |-> TRUE]]
         /\ info' = [info EXCEPT ![base] = type]
         /\ UNCHANGED <<request, before, served, damaged>>
         /\ UpdateModules([table |-> base, type |-> type, left |-> NotOpened])

\* importDataSeriesFiles: the source files are not tables.
StartImport(r) ==
  /\ r.op = "import"
  /\ Accept(r)
  /\ StartModules(<<[table |-> r.out, type |-> r.type, left |-> r.extents]>>)
  /\ files' = Truncated(r.out)
  /\ output_type' = r.type
  /\ reply' = [ok |-> TRUE]
  /\ status' = "run"
  /\ UNCHANGED <<info, tmp, damaged>>

\* The end of an import; updateTableInfo when it succeeded
Imports(r, fails) ==
  /\ info' = IF fails THEN info ELSE [info EXCEPT ![r.out] = r.type]
  /\ reply' = [ok |-> ~fails]
  /\ damaged' = IF fails THEN damaged \cup {r.out} ELSE damaged \ {r.out}
  /\ status' = "idle"
  /\ UNCHANGED <<request, moduleVars, returned, tmp, tee, before, served>>

Blank == [k |-> Null, v |-> 0, u |-> 0]

\* importData: a row with the wrong number of fields throws after its record
\* was made; the module and the sink are closed on the way out.
ImportRows ==
  /\ status = "write" /\ request.op = "rows"
  /\ LET r    == request
         rows == IF r.bad_row THEN Append(r.rows, Blank) ELSE r.rows
     IN  /\ files' = [files EXCEPT ![r.out] =
                        FileOf(WriteAll([NoTee EXCEPT !.type = r.type], rows))]
         /\ Imports(r, r.bad_row)

\* importCSVFiles and importSQLTable: a child process writes the file.  One
\* that fails has not finished it.
ImportChild ==
  /\ status = "write" /\ request.op = "child"
  /\ LET r == request IN
     /\ files' = IF r.fails THEN files ELSE [files EXCEPT ![r.out] =
                   [type |-> r.type, extents |-> r.extents, whole |-> TRUE]]
     /\ Imports(r, r.fails)

----------------------------------------------------------------------------
\* The module at the end of the chain: TeeModule, or TableDataModule for "get"

Pulling == /\ status' = "run"
           /\ UNCHANGED <<files, request, moduleVars, returned, info, tmp, before, served, damaged>>

TeeExtent ==
  /\ status = "returned" /\ request.op # "get" /\ returned # NoExtent
  /\ tee' = WriteAll([tee EXCEPT !.type = ExtentType], returned)
  /\ UNCHANGED reply
  /\ Pulling

Room(rows) == Len(rows) < request.max_rows

\* TableDataModule::processRow
AddRow(r, row) == IF Room(r.rows) THEN [r EXCEPT !.rows = Append(@, row)]
                                  ELSE [r EXCEPT !.more = TRUE]

AddAll(r, rows) ==
  LET added[n \in 0..Len(rows)] == IF n = 0 THEN r ELSE AddRow(added[n - 1], rows[n])
  IN  added[Len(rows)]

TableDataExtent ==
  /\ status = "returned" /\ request.op = "get" /\ returned # NoExtent
  /\ reply' = AddAll(reply, returned)
  /\ UNCHANGED tee
  /\ Pulling

DataComplete ==
  /\ status = "returned" /\ request.op = "get" /\ returned = NoExtent
  /\ status' = "idle"
  /\ ModulesGone
  /\ UNCHANGED <<files, request, info, tmp, reply, before, served, damaged>>

\* updateTableInfo: selectRows lists its output with the type its input is
\* listed with.  The file is closed as the TeeModule goes out of scope.
Complete ==
  /\ status = "returned" /\ request.op \notin {"get", "update"} /\ returned = NoExtent
  /\ files' = [files EXCEPT ![request.out] = FileOf(tee)]
  /\ LET listed == IF request.op = "select" THEN info[request.in[1]] ELSE output_type IN
     /\ info' = [info EXCEPT ![request.out] = listed]
     /\ damaged' = IF listed = ExtentType THEN damaged \ {request.out}
                                          ELSE damaged \cup {request.out}
  /\ status' = "idle"
  /\ ModulesGone
  /\ UNCHANGED <<request, tmp, reply, before, served>>

CompleteUpdate_renamed_too_early ==
  /\ status = "returned" /\ request.op = "update" /\ returned = NoExtent
  /\ tmp' = FileOf(tee)
  /\ files' = [files EXCEPT ![request.in[1]] = [tmp' EXCEPT !.whole = FALSE]]
  /\ status' = "rename"
  /\ ModulesGone
  /\ UNCHANGED <<request, info, reply, before, served, damaged>>

\* output_module.reset()
CompleteUpdate ==
  /\ status = "returned" /\ request.op = "update" /\ returned = NoExtent
  /\ tmp' = FileOf(tee)
  /\ status' = "rename"
  /\ ModulesGone
  /\ UNCHANGED <<files, request, info, reply, before, served, damaged>>

Rename ==
  /\ status = "rename"
  /\ files' = [files EXCEPT ![request.in[1]] = tmp]
  /\ tmp' = NoFile
  /\ status' = "idle"
  /\ UNCHANGED <<request, moduleVars, returned, info, tee, reply, before, served, damaged>>

\* The exception destroys the TeeModule, whose sink closes its file; that
\* asserts that the library was written, with the first extent.
Unwind ==
  /\ status = "error"
  /\ IF tee.type = NullType
       THEN status' = "dead" /\ UNCHANGED <<tmp, reply>>
       ELSE /\ tmp' = FileOf(tee)
            /\ reply' = [ok |-> FALSE]
            /\ status' = "idle"
  /\ ModulesGone
  /\ UNCHANGED <<files, request, info, before, served, damaged>>

\* shutdown() and every way a process is stopped.  table_info is not kept.
Kill ==
  /\ status \notin {"dead", "killed"}
  /\ status' = "killed"
  /\ ModulesGone
  /\ UNCHANGED <<files, request, info, tmp, reply, before, served, damaged>>

Restart ==
  /\ status \in {"dead", "killed"} /\ served < MaxServed
  /\ status' = "idle"
  /\ request' = NoRequest
  /\ info' = [t \in Tables |-> MissingType]
  /\ ModulesGone
  /\ UNCHANGED <<files, tmp, reply, before, served, damaged>>

----------------------------------------------------------------------------

Module == \/ CopyExtent \/ SelectExtent \/ ProjectExtent
          \/ TransformStart \/ TransformPull \/ TransformRow \/ TransformNextExtent
          \/ HashBuild \/ HashPull \/ HashExtent
          \/ StarBuild \/ StarPull \/ StarExtent
          \/ SortLoad \/ SortMerge
          \/ UnionFirst \/ UnionDone \/ UnionRow
          \/ FetchBase \/ FetchUpdate \/ MergeEnds \/ MergeRow \/ BaseOnly \/ UpdateOnly

ModuleStep == Module /\ UNCHANGED <<files, request, serverVars>>

Serve == \/ ModuleStep
         \/ CreateTable \/ ImportRows \/ ImportChild
         \/ TeeExtent \/ TableDataExtent \/ DataComplete
         \/ Complete \/ CompleteUpdate \/ Rename \/ Unwind

Arrive(r) == \/ InvalidRequest(r) \/ NullTypeUsed(r)
             \/ StartRequest(r) \/ StartUpdate(r) \/ StartImport(r) \/ StartWrite(r)

Next == Serve \/ (\E r \in Requests : Arrive(r)) \/ Kill \/ Restart

Init ==
  /\ status = "idle"
  /\ files \in Imported
  /\ info = [t \in Tables |-> IF files[t] = NoFile THEN MissingType ELSE files[t].type]
  /\ request = NoRequest
  /\ source = << >> /\ series = << >> /\ output = NoExtent /\ output_type = NullType
  /\ mem = << >> /\ returned = NoExtent
  /\ tmp = NoFile /\ tee = NoTee /\ reply = [ok |-> TRUE]
  /\ before = [files |-> files, info |-> info] /\ served = 0 /\ damaged = {}

Spec == Init /\ [][Next]_vars

\* The server is a process that runs; clients may stay away.
FairSpec == Spec /\ WF_vars(Serve)

----------------------------------------------------------------------------
\* Properties

IsFile(f) == /\ f = [type |-> f.type, extents |-> f.extents, whole |-> f.whole]
             /\ f.extents \in Seq(Seq(Row)) /\ f.whole \in BOOLEAN

\* Every variable has its type: files hold rows, a module holds an extent or
\* NULL per source, and the status is one of those listed above.
TypeOK ==
  /\ status \in {"idle", "write", "run", "returned", "rename", "error", "dead", "killed"}
  /\ \A t \in Tables : IsFile(files[t]) /\ IsFile(before.files[t])
  /\ IsFile(tmp) /\ tee.rows \in Seq(Row) /\ Len(tee.rows) <= Limit
  /\ DOMAIN info = Tables /\ DOMAIN series = DOMAIN source
  /\ \A i \in DOMAIN series : series[i] # NoExtent => series[i] \in Seq(Row)
  /\ output # NoExtent => output \in Seq(Row)
  /\ returned # NoExtent => returned \in Seq(Row)
  /\ damaged \subseteq Tables /\ served \in 0..MaxServed /\ reply.ok \in BOOLEAN

\* What the request reads of a table, if its file has the type that is listed.
\* A base table that is not listed, after a restart, is made anew.
In(i) == LET t == request.in[i] IN
         IF Has(before.files[t], before.info[t]) THEN Rows(before.files[t]) ELSE << >>
Out   == Rows(files[request.out])

LastKey(rows) == Max({Null} \cup Keys(rows))

\* How much of its result an update is known to write: all of it when it fits
\* in one extent, else at least what comes before the end of one of its
\* inputs.  Nothing at all when an input has no extents.
UpdateWrote(rows) ==
  LET result == SortedUpdate(In(1), In(2))
      end    == Min({LastKey(In(1)), LastKey(In(2))})
  IN  /\ IsPrefix(rows, result)
      /\ In(1) # << >> /\ In(2) # << >> =>
           /\ \A i \in DOMAIN result : result[i].k <= end => i <= Len(rows)
           /\ Len(result) <= Limit => rows = result

Correct ==
  CASE request.op = "import"    -> Out = FlattenSeq(request.extents)
    [] request.op = "merge"     -> Out = FlattenSeq([i \in DOMAIN request.in |-> In(i)])
    [] request.op = "select"    -> Out = Only(In(1), Selected)
    [] request.op = "project"   -> Out = Project(In(1))
    [] request.op = "transform" -> Out = Transform(In(1))
    [] request.op = "hash"      -> Out = HashJoin(In(1), In(2))
    [] request.op = "star"      -> Out = StarJoin(In(2), In(1))
    [] request.op = "sort"      -> Out = StableSort(In(1), request.by)
    [] request.op = "union"     ->
         (\A i \in DOMAIN request.in : Sorted(In(i), request.by)) =>
            Out = StableSort(FlattenSeq([i \in DOMAIN request.in |-> In(i)]), request.by)
    [] request.op = "update"    ->
         CanUpdate(In(1), In(2)) => UpdateWrote(Rows(files[request.in[1]]))
    [] request.op = "get"       ->
         /\ reply.rows = SubSeq(In(1), 1, Min({request.max_rows, Len(In(1))}))
         /\ reply.more = (Len(In(1)) > request.max_rows)
    [] OTHER                    -> TRUE

Answered == status = "idle" /\ request # NoRequest /\ reply.ok

\* Whenever a request has succeeded its output is what the operation is
\* defined to compute from the tables as they were when it came, however they
\* are cut into extents and however many the module returned
\* (DataSeriesServer.thrift:60-150 and the getSharedExtent of each module).
ResultIsCorrect == Answered => Correct

New == request.op = "update" /\ before.info[request.in[1]] = MissingType

UpdateIsAtomic ==
  request.op = "update" =>
    LET f == files[request.in[1]] IN
    \/ f = before.files[request.in[1]]
    \/ New /\ f = NoFile /\ status \in {"write", "killed"}
    \/ f.extents = << << >> >> /\ f.whole /\ f.type = info[request.in[1]]
    \/ /\ f.whole
       /\ CanUpdate(In(1), In(2)) => UpdateWrote(Rows(f))

ListedIsReadable ==
  status = "idle" =>
    \A t \in Tables \ damaged : info[t] # MissingType =>
      /\ files[t].whole
      /\ files[t].type \in {info[t], NullType}
      /\ files[t].type = NullType => files[t].extents = << >>

\* sortedUpdateTable replaces its base table in one step: at any moment, and
\* whether the server is stopped, dies or throws, the file of the base table
\* is the old one, or the empty one of createTable, or a finished result
\* (data-series-server.cpp:386-395).  Only the file of a table that was not
\* listed may be unfinished, while createTable writes it or when the server was
\* stopped there (:480-487).  Between requests table_info tells the truth: every
\* table it lists has a finished file with rows of the type it says, or without
\* rows; except where an import from outside failed, which leaves the old entry
\* (:144, :173 and :203), and where selectRows copied such an entry (:337).
TablesStayWhole == TypeOK /\ UpdateIsAtomic /\ ListedIsReadable

\* The requests that are known to end the server.  Tables that are merged may
\* have different types with one name.
Fatal(r) ==
  \/ \E i \in DOMAIN r.in : \/ r.in[i] \in damaged
                            \/ ~files[r.in[i]].whole
                            \/ files[r.in[i]].type = NullType
                            \/ r.op \notin {"update", "get"} /\ r.in[i] = r.out
  \/ r.op = "merge" /\ \E i \in DOMAIN r.in :
       /\ before.info[r.in[i]].name = before.info[r.in[1]].name
       /\ before.info[r.in[i]] # before.info[r.in[1]]
  \/ r.op = "transform" /\ Len(before.files[r.in[1]].extents) > 1
  \/ r.op = "star" /\ ~(Keys(In(1)) \subseteq Keys(In(2)) /\ before.files[r.in[2]].extents # << >>)
  \/ r.op = "hash" /\ (before.files[r.in[1]].extents = << >> \/ Len(In(1)) >= r.max_rows)
  \/ r.op = "update" /\ \E i \in DOMAIN In(2) : In(2)[i].u \notin {UpdateInsert, UpdateReplace, UpdateDelete}

\* No assertion fails, and nothing invalid is dereferenced, while a request is
\* served, but for the ones that are known to do it.
DiesOnlyAsKnown == status = "dead" => Fatal(request)

\* Every request that was accepted is answered, or the server stops.
RequestsEnd == status \in {"write", "run", "returned", "rename", "error"} ~>
                 status \in {"idle", "dead", "killed"}

\* DataSeriesServer.thrift:136 promises a merge of the two tables: all of it.
UpdateIsComplete ==
  Answered /\ request.op = "update" /\ CanUpdate(In(1), In(2))
           /\ In(1) # << >> /\ In(2) # << >> =>
    Rows(files[request.in[1]]) = SortedUpdate(In(1), In(2))
=============================================================================
