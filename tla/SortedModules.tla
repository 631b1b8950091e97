--------------------------- MODULE SortedModules ---------------------------
(***************************************************************************)
(* The modules of the server that merge: SortModule, UnionModule and        *)
(* SortedUpdateModule, in the terms of ServerModules.tla.                   *)
(***************************************************************************)
EXTENDS ServerModules

----------------------------------------------------------------------------
\* SortModule.  mem is what is left of the sorted extents, in their order.

SortLoad ==
  /\ Running("sort") /\ mem = << >>
  /\ Drain(1, LAMBDA extents :
       LET sorted == [i \in DOMAIN extents |-> StableSort(extents[i], request.by)] IN
       /\ CASE Len(extents) = 0 -> Return(NoExtent) /\ UNCHANGED <<mem, output>>
            [] Len(extents) = 1 -> Return(sorted[1]) /\ UNCHANGED <<mem, output>>
            [] OTHER            -> GoOn /\ mem' = sorted /\ output' = << >>
       /\ output_type' = IF extents = << >> THEN output_type ELSE source[1].type
       /\ UNCHANGED series)

\* The loser tree is stable: of equal rows it takes the one of the first extent.
FirstOf(head) ==
  CHOOSE i \in DOMAIN head : \A j \in DOMAIN head \ {i} :
    \/ Before(head[i], head[j], request.by)
    \/ i < j /\ ~Before(head[j], head[i], request.by)

SortMerge ==
  /\ Running("sort") /\ mem # << >>
  /\ LET left == {i \in DOMAIN mem : mem[i] # << >>} IN
     IF left = {}                      \* cleanupMultiMerge
       THEN /\ mem' = << >>
            /\ Return(Started) /\ output' = NoExtent
       ELSE LET i == FirstOf([n \in left |-> Head(mem[n])]) IN
            /\ mem' = [mem EXCEPT ![i] = Tail(@)]
            /\ ReturnWhenFull(Append(Started, Head(mem[i])))
  /\ UNCHANGED <<source, series, output_type>>

----------------------------------------------------------------------------
\* UnionModule.  mem is how many sources firstExtent has pulled.

UnionFirst ==
  /\ Running("union") /\ mem < Len(source)
  /\ Pull(mem + 1, LAMBDA e :
       /\ series' = [series EXCEPT ![mem + 1] = e]
       /\ mem' = mem + 1
       /\ output_type' = IF mem + 1 = Len(source)
                           THEN TypeOf("union", request.out, SourceTypes) ELSE output_type
       /\ GoOn /\ UNCHANGED output)

Queue == {i \in DOMAIN series : series[i] # NoExtent}

\* The fields of an extent without rows cannot be read.
Comparable(queue) == \A i \in queue : series[i] # << >>

UnionDone ==
  /\ Running("union") /\ mem = Len(source) /\ Queue = {}
  /\ ReturnOutput
  /\ UNCHANGED <<source, series, output_type, mem>>

UnionRow ==
  /\ Running("union") /\ mem = Len(source) /\ Queue # {}
  /\ IF ~Comparable(Queue) THEN Die
     ELSE LET best == FirstOf([i \in Queue |-> Head(series[i])])
              row  == Head(series[best])
              rest == Tail(series[best])
              Continue(e) == /\ series' = [series EXCEPT ![best] = e]
                             /\ ReturnWhenFull(Append(Started, row))
                             /\ UNCHANGED <<output_type, mem>>
          IN  IF rest = << >> THEN Pull(best, Continue)
                              ELSE Continue(rest) /\ UNCHANGED source

----------------------------------------------------------------------------
\* SortedUpdateModule.  Source 1 is the base table, source 2 the update.
\* mem is the place in getSharedExtent: the loop of processMergeExtents starts
\* at "base", then is at "update" and "merge"; the others are the loops of
\* processBaseExtents and processUpdateExtents.

Base   == series[1]
Update == series[2]

\* output->size() < 96*1024
Small(rows) == Len(rows) < Limit

Missing(extent) == extent = NoExtent

Fetch(i, at, next) ==
  /\ Running("update") /\ mem = at
  /\ IF Missing(series[i])
       THEN Pull(i, LAMBDA e : /\ series' = [series EXCEPT ![i] = e]
                               /\ mem' = next
                               /\ GoOn /\ UNCHANGED <<output, output_type>>)
       ELSE mem' = next /\ UNCHANGED <<status, source, series, output, output_type, returned>>

FetchBase   == Fetch(1, "base", "update")
FetchUpdate == Fetch(2, "update", "merge")

\* The extent after a row was used up; an empty extent is cleared.
Advanced(extent) == IF Len(extent) = 1 THEN NoExtent ELSE Tail(extent)

ReturnUpdated == ReturnOutput /\ mem' = "base" /\ UNCHANGED <<source, series, output_type>>

CopyBase == /\ output' = Append(Started, Head(Base))
            /\ series' = [series EXCEPT ![1] = Advanced(@)]
            /\ GoOn

SameKey == ~Missing(Base) /\ Head(Base).k = Head(Update).k

\* doUpdate, then advance(update_series)
DoUpdate ==
  LET row == Head(Update) IN
  IF row.u \notin {UpdateInsert, UpdateReplace, UpdateDelete}
    THEN status' = "error" /\ UNCHANGED <<series, output, returned>>
    ELSE /\ output' = IF row.u = UpdateDelete THEN Started ELSE Append(Started, Updated(row))
         /\ series' = << IF row.u # UpdateInsert /\ SameKey THEN Advanced(Base) ELSE Base,
                         Advanced(Update) >>
         /\ GoOn

\* The end of processMergeExtents, and what getSharedExtent does after it.
MergeEnds ==
  /\ Running("update") /\ mem = "merge"
  /\ Missing(Base) \/ Missing(Update)
  /\ IF output # NoExtent /\ Small(output) /\ ~(Missing(Base) /\ Missing(Update))
       THEN /\ mem' = IF Missing(Update) THEN "base only" ELSE "update only"
            /\ UNCHANGED <<status, source, series, output, output_type, returned>>
       ELSE ReturnUpdated

MergeRow ==
  /\ Running("update") /\ mem = "merge"
  /\ ~Missing(Base) /\ ~Missing(Update)
  /\ IF Base = << >> \/ Update = << >>
       THEN /\ series' = IF Base = << >> THEN [series EXCEPT ![1] = NoExtent]
                                         ELSE [series EXCEPT ![2] = NoExtent]
            /\ output' = Started
            /\ mem' = "base" /\ GoOn
            /\ UNCHANGED <<source, output_type>>
       ELSE IF ~Small(Started) THEN ReturnUpdated
       ELSE /\ mem' = "base"
            /\ UNCHANGED <<source, output_type>>
            /\ IF Head(Base).k < Head(Update).k THEN CopyBase ELSE DoUpdate

\* Only one input is left: its rows, until the output is full.
OnlyOne(i, at, TakeRow) ==
  /\ Running("update") /\ mem = at
  /\ IF Missing(series[i])
       THEN Pull(i, LAMBDA e :
              /\ IF e = NoExtent
                   THEN ReturnOutput /\ mem' = "base" /\ UNCHANGED series
                   ELSE /\ series' = [series EXCEPT ![i] = e]
                        /\ GoOn /\ UNCHANGED <<output, mem>>
              /\ UNCHANGED output_type)
     ELSE IF ~Small(output) THEN ReturnUpdated
     ELSE IF series[i] = << >> THEN Die
     ELSE TakeRow /\ UNCHANGED <<source, output_type, mem>>

BaseOnly   == OnlyOne(1, "base only", CopyBase)
UpdateOnly == OnlyOne(2, "update only", DoUpdate)
=============================================================================
