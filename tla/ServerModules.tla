--------------------------- MODULE ServerModules ---------------------------
(***************************************************************************)
(* The modules of the server (src/server/*Module.cpp).  Each one is pulled   *)
(* for extents with getSharedExtent() and pulls its sources in turn.  One    *)
(* action is one turn of the module's loop over its input; it ends by        *)
(* returning an extent, NULL, or by going round again.  What pulls them, the *)
(* files and the requests are in DataSeriesServer.tla.                       *)
(*                                                                           *)
(* An extent is its rows, and its size their number.  96*1024 is Limit.      *)
(***************************************************************************)
EXTENDS TableOperators, FiniteSetsExt

CONSTANTS
  Tables,
  RowTypes,     \* the types of the tables that clients import
  NoExtent,     \* a NULL Extent::Ptr, and a series without extent
  NotOpened,    \* a source that was never asked for an extent
  Limit         \* rows in 96 KB

VARIABLES
  status,       \* what the server is doing: see DataSeriesServer
  files,        \* the files "ds."<table>
  request,      \* being served
  source,       \* TypeIndexModules: the table, the type, the extents left
  series,       \* per source, the rows that are left of its current extent
  output,       \* output_series, as rows
  output_type,  \* its type; NullType until the module saw its first extent
  mem,          \* what else the module remembers
  returned      \* the extent returned to the module that pulls

moduleVars == <<source, series, output, output_type, mem>>

\* A type has a name, which is all that is compared when a table is looked
\* for, and fields.
NullType == [name |-> <<"null">>, fields |-> << >>]

\* The type that an operation gives its output is named after a table or type;
\* its fields are made from those of its inputs, or are in the request.
TypeOf(op, of, from) == [name |-> <<op, of>>, fields |-> from]

SourceTypes == [i \in DOMAIN source |-> source[i].type]

----------------------------------------------------------------------------
\* Sources and outputs

Running(op) == status = "run" /\ request.op = op

\* A failed INVARIANT, SINVARIANT or FATAL_ERROR ends the server.
Die == /\ status' = "dead"
       /\ UNCHANGED <<source, series, output, output_type, mem, returned>>

\* TypeIndexModule: the extents of the type it looks for.  The type is not
\* found in a file that has none of its extents.
Extents(i) == LET f == files[source[i].table] IN
  IF source[i].left # NotOpened THEN source[i].left
  ELSE IF f.type = source[i].type THEN f.extents ELSE << >>

\* DataSeriesSource aborts on a file that was never finished.
Readable(i) == source[i].left # NotOpened \/ files[source[i].table].whole

\* source->getSharedExtent(), and what is done with the result.
Pull(i, Then(_)) ==
  IF ~Readable(i) THEN Die
  ELSE IF Extents(i) = << >>
    THEN source' = [source EXCEPT ![i].left = << >>] /\ Then(NoExtent)
    ELSE source' = [source EXCEPT ![i].left = Tail(Extents(i))] /\ Then(Head(Extents(i)))

\* The same until it returns NULL.
Drain(i, Then(_)) ==
  IF ~Readable(i) THEN Die
  ELSE source' = [source EXCEPT ![i].left = << >>] /\ Then(Extents(i))

Return(extent) == status' = "returned" /\ returned' = extent

GoOn == UNCHANGED <<status, returned>>

\* returnOutputSeries
ReturnOutput == Return(output) /\ output' = NoExtent

\* output_series.newExtent() when there is none.
Started == IF output = NoExtent THEN << >> ELSE output

Full(rows) == Len(rows) > Limit

ReturnWhenFull(rows) == IF Full(rows) THEN Return(rows) /\ output' = NoExtent
                        ELSE GoOn /\ output' = rows

Typed(type) == output_type' = IF output_type = NullType THEN type ELSE output_type

----------------------------------------------------------------------------
\* No module in between: importDataSeriesFiles and getTableData read files.
\* One TypeIndexModule reads several files; they must agree on the type.

NextFile == Min({i \in DOMAIN source : source[i].left # << >>} \cup {Len(source)})

FoundType(i) == IF files[source[i].table].type = source[i].type THEN source[i].type
                                                              ELSE NullType

\* INVARIANT(my_type == tmp) as a file is opened
SameType(i) == source[i].left = NotOpened => output_type \in {NullType, FoundType(i)}

CopyExtent ==
  /\ status = "run" /\ request.op \in {"import", "merge", "get"}
  /\ LET i == NextFile IN
     IF ~SameType(i) THEN Die
     ELSE Pull(i, LAMBDA e :
            /\ Typed(IF source[i].left = NotOpened THEN FoundType(i) ELSE NullType)
            /\ UNCHANGED <<series, output, mem>>
            /\ IF e = NoExtent /\ i < Len(source) THEN GoOn ELSE Return(e))

----------------------------------------------------------------------------
\* SelectModule and ProjectModule

Filter(f(_)) ==
  Pull(1, LAMBDA e :
    IF e = NoExtent THEN ReturnOutput /\ UNCHANGED <<series, output_type, mem>>
    ELSE /\ ReturnWhenFull(Started \o f(e))
         /\ Typed(IF request.op = "select" THEN source[1].type
                     ELSE TypeOf("project", source[1].type.name, SourceTypes))
         /\ UNCHANGED <<series, mem>>)

SelectRows(rows)  == Only(rows, Selected)
ProjectRows(rows) == [i \in DOMAIN rows |-> Projected(rows[i])]

SelectExtent  == Running("select") /\ Filter(SelectRows)
ProjectExtent == Running("project") /\ Filter(ProjectRows)

----------------------------------------------------------------------------
\* ExprTransformModule.  mem is the previous output row.

TransformStart ==
  /\ Running("transform") /\ output = NoExtent /\ series[1] # NoExtent
  /\ output' = << >>
  /\ UNCHANGED <<status, source, series, output_type, mem, returned>>

TransformPull ==
  /\ Running("transform") /\ series[1] = NoExtent
  /\ Pull(1, LAMBDA e :
       IF e = NoExtent THEN ReturnOutput /\ UNCHANGED <<series, output_type, mem>>
       ELSE IF output # NoExtent       \* SINVARIANT(!output_series.hasExtent())
         THEN /\ status' = "dead"
              /\ UNCHANGED <<series, output, output_type, mem, returned>>
         ELSE /\ series' = [series EXCEPT ![1] = e]
              /\ output' = << >>
              /\ Typed(TypeOf("transform", request.out, << >>))
              /\ mem' = IF output_type = NullType THEN NoPrevious ELSE mem
              /\ GoOn)

TransformRow ==
  /\ Running("transform") /\ output # NoExtent
  /\ series[1] \notin {NoExtent, << >>}
  /\ LET row == Transformed(Head(series[1]), mem) IN
       /\ mem' = row
       /\ ReturnWhenFull(Append(output, row))
  /\ series' = [series EXCEPT ![1] = Tail(@)]
  /\ UNCHANGED <<source, output_type>>

TransformNextExtent_not_cleared ==
  /\ Running("transform") /\ output # NoExtent /\ series[1] = << >>
  /\ UNCHANGED <<status, source, series, output, output_type, mem, returned>>

TransformNextExtent ==
  /\ Running("transform") /\ output # NoExtent /\ series[1] = << >>
  /\ series' = [series EXCEPT ![1] = NoExtent]
  /\ UNCHANGED <<status, source, output, output_type, mem, returned>>

----------------------------------------------------------------------------
\* HashJoinModule.  Source 1 is table a, source 2 table b; mem is a_hashmap,
\* as the rows of a.  Only the first extent of b makes it read a.

TooManyRows(rows) == Len(rows) >= request.max_rows

HashBuild ==
  /\ Running("hash") /\ series[2] # NoExtent /\ output_type = NullType
  /\ Drain(1, LAMBDA extents :
       IF extents = << >> \/ TooManyRows(FlattenSeq(extents))
         THEN /\ status' = "error"      \* requestError
              /\ UNCHANGED <<series, output, output_type, mem, returned>>
         ELSE /\ mem' = FlattenSeq(extents)
              /\ output_type' = TypeOf("hash", request.out, SourceTypes)
              /\ GoOn /\ UNCHANGED <<series, output>>)

HashPull ==
  /\ Running("hash") /\ series[2] = NoExtent
  /\ Pull(2, LAMBDA e :
       IF e = NoExtent THEN ReturnOutput /\ UNCHANGED <<series, output_type, mem>>
       ELSE /\ series' = [series EXCEPT ![2] = e]
            /\ GoOn /\ UNCHANGED <<output, output_type, mem>>)

HashExtent ==
  /\ Running("hash") /\ series[2] # NoExtent /\ output_type # NullType
  /\ ReturnWhenFull(Started \o HashJoin(mem, series[2]))
  /\ series' = [series EXCEPT ![2] = NoExtent]
  /\ UNCHANGED <<source, output_type, mem>>

----------------------------------------------------------------------------
\* StarJoinModule.  Source 1 is the fact table, source 2 the one of the
\* dimension; mem is dimension_data, as the rows it was filled from.

StarBuild ==
  /\ Running("star") /\ series[1] # NoExtent /\ output_type = NullType
  /\ Drain(2, LAMBDA extents :
       IF extents = << >>              \* SINVARIANT(dim->dimension_type != NULL)
         THEN /\ status' = "dead"
              /\ UNCHANGED <<series, output, output_type, mem, returned>>
         ELSE /\ mem' = FlattenSeq(extents)
              /\ output_type' = TypeOf("star", request.out, SourceTypes)
              /\ GoOn /\ UNCHANGED <<series, output>>)

StarPull ==
  /\ Running("star") /\ series[1] = NoExtent
  /\ Pull(1, LAMBDA e :
       IF e = NoExtent
         THEN Return(NoExtent) /\ UNCHANGED <<series, output, output_type, mem>>
         ELSE /\ series' = [series EXCEPT ![1] = e]
              /\ GoOn /\ UNCHANGED <<output, output_type, mem>>)

StarExtent ==
  /\ Running("star") /\ series[1] # NoExtent /\ output_type # NullType
  /\ IF Keys(series[1]) \subseteq Keys(mem)
       THEN /\ Return(StarJoin(mem, series[1]))
            /\ series' = [series EXCEPT ![1] = NoExtent]
            /\ UNCHANGED <<source, output, output_type, mem>>
       ELSE Die                        \* "unable to find key"
=============================================================================
