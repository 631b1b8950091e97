------------------------ MODULE DataSeriesSinkProofs ------------------------
(***************************************************************************)
(* Proofs about DataSeriesSink for any number of writers, compressors,      *)
(* calls and files and any extent sizes.                                    *)
(***************************************************************************)
EXTENDS DataSeriesSink, OperatorTheorems

----------------------------------------------------------------------------
\* Queues

\* Changing one element of a queue to another of the right type.
LEMMA SeqExcept ==
  ASSUME NEW S, NEW p \in Seq(S), NEW i \in 1..Len(p), NEW x \in S
  PROVE  /\ [p EXCEPT ![i] = x] \in Seq(S)
         /\ Len([p EXCEPT ![i] = x]) = Len(p)
         /\ \A j \in 1..Len(p) : [p EXCEPT ![i] = x][j] = IF j = i THEN x ELSE p[j]
  OBVIOUS

\* A part of a queue.
LEMMA SubSeqType ==
  ASSUME NEW S, NEW p \in Seq(S), NEW m \in 1..(Len(p) + 1), NEW n \in 0..Len(p)
  PROVE  SubSeq(p, m, n) \in Seq(S)
  OBVIOUS

\* The positions of a queue are finitely many.
LEMMA FinitePositions ==
  ASSUME NEW n \in Nat, NEW T \in SUBSET (1..n)
  PROVE  Cardinality(T) \in Nat
<1>1. 1 \in Int /\ n \in Int
  OBVIOUS
<1>2. IsFiniteSet(1..n)
  BY <1>1, FS_Interval, Zenon
<1> QED
  BY <1>2, FS_Subset, FS_CardinalityType, Zenon

\* The extents the actions make.
LEMMA ExtentTypes ==
  /\ \A w \in Writers : \A k \in 1..MaxCalls : <<w, k>> \in Extents
  /\ \A f \in 1..MaxFiles : <<Library, f>> \in Extents /\ <<Index, f>> \in Extents
  BY DEF Extents

\* What queueWriteExtent puts on the queue.
LEMMA NewWorkType ==
  ASSUME NEW e \in Extents, NEW s \in Writers \cup {NoStats}
  PROVE  NewWork(e, s) \in ToCompress
  BY DEF NewWork, ToCompress

----------------------------------------------------------------------------
\* Type correctness

\* A file has been opened once the owner has left "closed": the library and the
\* index extent of file number nfiles are extents.
FileNumbered == pc[Owner] # "closed" => nfiles > 0

TypeInv == TypeOK /\ FileNumbered

LEMMA TypeInit == Init => TypeInv
<1> SUFFICES ASSUME Init PROVE TypeInv
  OBVIOUS
<1> USE SinkAssumption DEF Init
<1>1. ClientTypes
  BY DEF ClientTypes, ClientPlaces, Clients
<1>2. QueueTypes /\ StatsTypes
  BY DEF QueueTypes, StatsTypes
<1>3. ThreadTypes
  BY DEF ThreadTypes, CompressorPlaces, WriterPlaces
<1>4. OutTypes
  BY DEF OutTypes, NoBatch
<1>5. FileTypes
  <2>1. NoTail \in [index_offset : Int, packed_size : Nat]
    BY DEF NoTail
  <2>2. << >> \in IndexEntries /\ << >> \in Seq(Extents)
    BY DEF IndexEntries
  <2>3. cur_offset \in Int
    OBVIOUS
  <2>4. nfiles \in 0..MaxFiles
    OBVIOUS
  <2>5. wrote_library \in BOOLEAN
    OBVIOUS
  <2> QED
    BY <2>1, <2>2, <2>3, <2>4, <2>5 DEF FileTypes
<1> QED
  BY <1>1, <1>2, <1>3, <1>4, <1>5 DEF TypeInv, TypeOK, FileNumbered, Clients

\* The wake-ups only move clients to other places they can be at, and the owner
\* neither to nor from "closed".
LEMMA NotifiedType ==
  ASSUME ClientTypes, NEW p, NEW b
  PROVE  /\ QueueBroadcast \in [Clients -> ClientPlaces]
         /\ Notified(p, b) \in [Clients -> ClientPlaces]
         /\ \A c \in Clients : QueueBroadcast[c] = "closed" <=> pc[c] = "closed"
         /\ \A c \in Clients : Notified(p, b)[c] = "closed" <=> pc[c] = "closed"
<1>1. \A c \in Clients : /\ Woken(c) \in ClientPlaces
                         /\ Woken(c) = "closed" <=> pc[c] = "closed"
  BY DEF ClientTypes, ClientPlaces, Woken
<1> QED
  BY <1>1 DEF ClientTypes, Notified, QueueBroadcast

LEMMA OpenType == TypeInv /\ ~aborted /\ Open => TypeInv'
<1> SUFFICES ASSUME TypeInv, ~aborted, Open PROVE TypeInv'
  OBVIOUS
<1> USE DEF TypeInv, TypeOK, Open
<1>1. ClientTypes' /\ FileNumbered'
  BY DEF ClientTypes, ClientPlaces, Clients, FileNumbered, FileTypes
<1>2. QueueTypes' /\ StatsTypes'
  BY DEF QueueTypes, StatsTypes, Invariant, queueVars, statsVars
<1>3. ThreadTypes'
  BY SinkAssumption, FS_CardinalityType
  DEF ThreadTypes, CompressorPlaces, WriterPlaces
<1>4. OutTypes'
  BY DEF OutTypes
<1>5. FileTypes'
  BY SinkAssumption DEF FileTypes, IndexEntries, NoTail, HeaderSize
<1> QED
  BY <1>1, <1>2, <1>3, <1>4, <1>5 DEF callbackVars, Invariant

LEMMA QueueType ==
  ASSUME TypeInv, ~aborted, NEW c \in Clients, NEW e \in Extents,
         NEW s \in Writers \cup {NoStats},
         queueWriteExtent(c, e, s), calls' \in [Writers -> 0..MaxCalls],
         c = Owner => pc[Owner] = "opened"
  PROVE  TypeInv'
<1> USE DEF TypeInv, TypeOK, queueWriteExtent
<1>1. ClientTypes' /\ FileNumbered'
  BY DEF ClientTypes, ClientPlaces, Clients, FileNumbered, fileVars, Return
<1>2. QueueTypes'
  <2>1. Enqueued(e, s) \in Seq(ToCompress)
    BY NewWorkType DEF QueueTypes, Enqueued
  <2> QED
    BY <2>1, SinkAssumption DEF QueueTypes, Invariant
<1>3. ThreadTypes'
  BY DEF ThreadTypes, CompressorPlaces, SignalWork
<1>4. OutTypes' /\ FileTypes'
  BY DEF OutTypes, FileTypes, fileVars
<1>5. StatsTypes'
  BY DEF StatsTypes, Invariant
<1> QED
  BY <1>1, <1>2, <1>3, <1>4, <1>5 DEF callbackVars, Invariant

LEMMA QueueWakeupType ==
  ASSUME TypeInv, ~aborted, NEW c \in Clients, QueueWakeup(c)
  PROVE  TypeInv'
<1> USE DEF TypeInv, TypeOK, QueueWakeup
<1>1. ClientTypes' /\ FileNumbered'
  BY DEF ClientTypes, ClientPlaces, Clients, FileNumbered, fileVars, Return
<1>2. QueueTypes' /\ StatsTypes'
  BY DEF QueueTypes, StatsTypes, queueVars, statsVars
<1>3. ThreadTypes' /\ OutTypes' /\ FileTypes'
  BY DEF ThreadTypes, threadVars, OutTypes, FileTypes, fileVars
<1> QED
  BY <1>1, <1>2, <1>3 DEF callbackVars, Invariant

LEMMA QueueLibraryType == TypeInv /\ ~aborted /\ QueueLibrary => TypeInv'
<1> SUFFICES ASSUME TypeInv, ~aborted, QueueLibrary PROVE TypeInv'
  OBVIOUS
<1>1. <<Library, nfiles>> \in Extents
  <2>1. nfiles \in 1..MaxFiles
    BY SinkAssumption DEF TypeInv, TypeOK, FileTypes, FileNumbered, QueueLibrary
  <2> QED
    BY <2>1, ExtentTypes
<1>2. calls' \in [Writers -> 0..MaxCalls]
  BY DEF TypeInv, TypeOK, ClientTypes, QueueLibrary
<1> QED
  BY <1>1, <1>2, QueueType DEF QueueLibrary, Clients

LEMMA MarkWroteLibraryType == TypeInv /\ ~aborted /\ MarkWroteLibrary => TypeInv'
<1> SUFFICES ASSUME TypeInv, ~aborted, MarkWroteLibrary PROVE TypeInv'
  OBVIOUS
<1> USE DEF TypeInv, TypeOK, MarkWroteLibrary
<1>1. ClientTypes' /\ FileNumbered'
  BY DEF ClientTypes, ClientPlaces, Clients, FileNumbered
<1>2. QueueTypes' /\ StatsTypes'
  BY DEF QueueTypes, StatsTypes, queueVars, statsVars
<1>3. ThreadTypes' /\ OutTypes' /\ FileTypes'
  BY DEF ThreadTypes, threadVars, OutTypes, FileTypes
<1> QED
  BY <1>1, <1>2, <1>3 DEF callbackVars, Invariant

\* A call of a writer; it is not the owner.
LEMMA CallType ==
  ASSUME TypeInv, NEW w \in Writers, Call(w)
  PROVE  /\ calls' \in [Writers -> 0..MaxCalls]
         /\ calls[w] + 1 \in 1..MaxCalls
         /\ w # Owner
  BY SinkAssumption DEF Call, TypeInv, TypeOK, ClientTypes

LEMMA WriteExtentType ==
  ASSUME TypeInv, ~aborted, NEW w \in Writers, WriteExtent(w)
  PROVE  TypeInv'
  BY CallType, ExtentTypes, QueueType DEF WriteExtent, Clients

LEMMA FlushTestType ==
  ASSUME TypeInv, ~aborted, NEW w \in Writers, FlushTest(w),
         calls' \in [Writers -> 0..MaxCalls]
  PROVE  TypeInv'
<1> USE DEF TypeInv, TypeOK, FlushTest
<1>1. ClientTypes' /\ FileNumbered'
  BY SinkAssumption DEF ClientTypes, ClientPlaces, Clients, FileNumbered, fileVars
<1>2. QueueTypes' /\ StatsTypes'
  BY DEF QueueTypes, StatsTypes, queueVars, statsVars
<1>3. ThreadTypes' /\ OutTypes' /\ FileTypes'
  BY DEF ThreadTypes, threadVars, OutTypes, FileTypes, fileVars
<1> QED
  BY <1>1, <1>2, <1>3

LEMMA FlushType ==
  ASSUME TypeInv, ~aborted, NEW w \in Writers, FlushPending(w) \/ FlushWakeup(w)
  PROVE  TypeInv'
<1>1. calls' \in [Writers -> 0..MaxCalls]
  BY CallType DEF FlushPending, FlushWakeup, TypeInv, TypeOK, ClientTypes
<1> QED
  BY <1>1, FlushTestType DEF FlushPending, FlushWakeup

LEMMA SetMaxBytesInProgressType ==
  ASSUME TypeInv, ~aborted, NEW w \in Writers, NEW nbytes \in MaxBytesChoices,
         SetMaxBytesInProgress(w, nbytes)
  PROVE  TypeInv'
<1> USE DEF TypeInv, TypeOK, SetMaxBytesInProgress
<1>1. ClientTypes' /\ FileNumbered'
  BY CallType, NotifiedType DEF ClientTypes, Clients, FileNumbered, fileVars
<1>2. QueueTypes' /\ StatsTypes'
  BY SinkAssumption DEF QueueTypes, StatsTypes, queueVars, statsVars
<1>3. ThreadTypes'
  BY DEF ThreadTypes, WorkBroadcast, CompressorPlaces
<1>4. OutTypes' /\ FileTypes'
  BY DEF OutTypes, FileTypes, fileVars
<1> QED
  BY <1>1, <1>2, <1>3, <1>4 DEF callbackVars

LEMMA SetExtentWriteCallbackType ==
  ASSUME TypeInv, ~aborted, NEW w \in Writers, SetExtentWriteCallback(w)
  PROVE  TypeInv'
<1> USE DEF TypeInv, TypeOK, SetExtentWriteCallback
<1>1. ClientTypes' /\ FileNumbered'
  BY CallType DEF ClientTypes, FileNumbered, fileVars
<1>2. QueueTypes' /\ StatsTypes'
  BY DEF QueueTypes, StatsTypes, queueVars, statsVars
<1>3. ThreadTypes' /\ OutTypes' /\ FileTypes'
  BY DEF ThreadTypes, threadVars, OutTypes, FileTypes, fileVars
<1> QED
  BY <1>1, <1>2, <1>3

LEMMA RemoveStatsUpdateType ==
  ASSUME TypeInv, ~aborted, NEW w \in Writers, RemoveStatsUpdate(w)
  PROVE  TypeInv'
<1> USE DEF TypeInv, TypeOK, RemoveStatsUpdate
<1>1. ClientTypes' /\ FileNumbered'
  BY SinkAssumption DEF ClientTypes, ClientPlaces, Clients, FileNumbered, fileVars
<1>2. QueueTypes'
  <2>1. ASSUME NEW i \in 1..Len(pending_work)
        PROVE  [pending_work[i] EXCEPT !.to_update = NoStats] \in ToCompress
    <3>1. pending_work[i] \in ToCompress
      BY DEF QueueTypes
    <3> QED
      BY <3>1 DEF ToCompress
  <2>2. pending_work' \in Seq(ToCompress)
    BY <2>1 DEF QueueTypes
  <2> QED
    BY <2>2 DEF QueueTypes
<1>3. StatsTypes'
  <2>1. Cardinality(WouldUpdate(w)) \in Nat
    <3>1. Len(pending_work) \in Nat /\ WouldUpdate(w) \in SUBSET (1..Len(pending_work))
      BY DEF QueueTypes, WouldUpdate
    <3> HIDE DEF TypeInv, TypeOK, RemoveStatsUpdate
    <3> QED
      BY <3>1, FinitePositions, Zenon
  <2>2. use_count' \in [Writers -> Int]
    BY <2>1 DEF StatsTypes
  <2>3. ~aborted' => use_count' \in [Writers -> Nat]
    <3>1. ~aborted' => use_count[w] >= Cardinality(WouldUpdate(w))
      BY DEF Invariant
    <3> QED
      BY <2>1, <3>1 DEF StatsTypes
  <2> QED
    BY <2>2, <2>3 DEF StatsTypes
<1>4. ThreadTypes' /\ OutTypes' /\ FileTypes'
  BY DEF ThreadTypes, threadVars, OutTypes, FileTypes, fileVars
<1> QED
  BY <1>1, <1>2, <1>3, <1>4 DEF callbackVars, Invariant

----------------------------------------------------------------------------
\* Type correctness of what the threads do

\* One round of compressorThread, which ends in a wait, in an exit or in packing.
LEMMA CompressorLoopType ==
  ASSUME TypeInv, NEW t \in Compressors, NEW p \in Seq(ToCompress), NEW b \in Int,
         NEW ok \in BOOLEAN, CompressorLoop(t, p, b, ok)
  PROVE  /\ pending_work' \in Seq(ToCompress)
         /\ bytes_in_progress' \in Int
         /\ compressor' \in [Compressors -> CompressorPlaces]
         /\ work' \in [Compressors -> Extents \cup {NoExtent}]
         /\ aborted' \in BOOLEAN
         /\ ~aborted' => ok
         /\ b \in Nat => bytes_in_progress' \in Nat
<1> USE DEF TypeInv, TypeOK, ThreadTypes, CompressorPlaces
<1>1. CASE \A i \in 1..Len(p) : ~Unclaimed(p[i])
  BY <1>1 DEF CompressorLoop, Invariant
<1>2. CASE \E i \in 1..Len(p) : Unclaimed(p[i])
  <2>1. PICK i \in 1..Len(p) :
          /\ Invariant(ok /\ b >= RawSize[p[i].extent] /\ cur_offset > 0)
          /\ pending_work' = [p EXCEPT ![i].in_progress = TRUE]
          /\ bytes_in_progress' = b + RawSize[p[i].extent]
          /\ work' = [work EXCEPT ![t] = p[i].extent]
          /\ compressor' = [compressor EXCEPT ![t] = "packing"]
    BY <1>2 DEF CompressorLoop
  <2>2. p[i] \in ToCompress
    OBVIOUS
  <2>3. /\ p[i].extent \in Extents
        /\ [p[i] EXCEPT !.in_progress = TRUE] \in ToCompress
    BY <2>2 DEF ToCompress
  <2>4. pending_work' \in Seq(ToCompress)
    BY <2>1, <2>3, SeqExcept
  <2>5. RawSize[p[i].extent] \in Nat
    BY <2>3, SinkAssumption
  <2>6. aborted' \in BOOLEAN /\ (~aborted' => ok)
    BY <2>1 DEF Invariant
  <2>7. bytes_in_progress' \in Int /\ (b \in Nat => bytes_in_progress' \in Nat)
    BY <2>1, <2>5
  <2>8. /\ compressor' \in [Compressors -> CompressorPlaces]
        /\ work' \in [Compressors -> Extents \cup {NoExtent}]
    BY <2>1, <2>3
  <2> QED
    BY <2>4, <2>6, <2>7, <2>8
<1> QED
  BY <1>1, <1>2

LEMMA CompressorRunType ==
  ASSUME TypeInv, ~aborted, NEW t \in Compressors, CompressorRun(t)
  PROVE  TypeInv'
<1> USE DEF TypeInv, TypeOK, CompressorRun
<1>1. /\ pending_work' \in Seq(ToCompress)
      /\ bytes_in_progress' \in Nat
      /\ compressor' \in [Compressors -> CompressorPlaces]
      /\ work' \in [Compressors -> Extents \cup {NoExtent}]
      /\ aborted' \in BOOLEAN
  BY CompressorLoopType DEF QueueTypes
<1>2. ClientTypes' /\ FileNumbered'
  BY DEF ClientTypes, clientVars, FileNumbered, fileVars
<1>3. QueueTypes' /\ StatsTypes'
  BY <1>1 DEF QueueTypes, StatsTypes, statsVars
<1>4. ThreadTypes' /\ OutTypes' /\ FileTypes'
  BY <1>1 DEF ThreadTypes, OutTypes, FileTypes, fileVars
<1> QED
  BY <1>1, <1>2, <1>3, <1>4 DEF callbackVars

LEMMA PackType ==
  ASSUME TypeInv, ~aborted, NEW t \in Compressors, Pack(t)
  PROVE  TypeInv'
<1> USE DEF TypeInv, TypeOK, Pack
<1>1. PICK i \in 1..Len(pending_work) :
        /\ pending_work[i].extent = work[t]
        /\ pending_work' = [pending_work EXCEPT ![i].compressed = PackedSize[work[t]]]
  OBVIOUS
<1>2. pending_work[i] \in ToCompress
  BY DEF QueueTypes
<1>3. PackedSize[work[t]] \in Nat
  BY <1>1, <1>2, SinkAssumption DEF ToCompress
<1>4. [pending_work[i] EXCEPT !.compressed = PackedSize[work[t]]] \in ToCompress
  BY <1>2, <1>3 DEF ToCompress
<1>5. pending_work' \in Seq(ToCompress)
  BY <1>1, <1>4, SeqExcept DEF QueueTypes
<1>6. ClientTypes' /\ FileNumbered'
  BY DEF ClientTypes, clientVars, FileNumbered, fileVars
<1>7. QueueTypes' /\ StatsTypes'
  BY <1>5 DEF QueueTypes, StatsTypes, statsVars
<1>8. ThreadTypes' /\ OutTypes' /\ FileTypes'
  BY DEF ThreadTypes, CompressorPlaces, OutTypes, FileTypes, fileVars
<1> QED
  BY <1>6, <1>7, <1>8 DEF callbackVars

\* The end of packing: the work at i leaves the queue's unfinished part.
LEMMA CompletedType ==
  ASSUME TypeInv, NEW i \in 1..Len(pending_work)
  PROVE  /\ Completed(i) \in Seq(ToCompress)
         /\ CompletedBytes(i) \in Int
         /\ bytes_in_progress >= 2 * RawSize[pending_work[i].extent] =>
              CompletedBytes(i) \in Nat
         /\ pending_work[i].to_update \in Writers \cup {NoStats}
<1>1. pending_work \in Seq(ToCompress) /\ bytes_in_progress \in Int
  BY DEF TypeInv, TypeOK, QueueTypes
<1>2. pending_work[i] \in ToCompress
  BY <1>1
<1>3. [pending_work[i] EXCEPT !.in_progress = FALSE, !.to_update = NoStats] \in ToCompress
  BY <1>2 DEF ToCompress
<1>4. Completed(i) \in Seq(ToCompress)
  <2>1. Completed(i) = [pending_work EXCEPT ![i] =
                          [@ EXCEPT !.in_progress = FALSE, !.to_update = NoStats]]
    BY <1>1, <1>2 DEF Completed, ToCompress
  <2> QED
    BY <1>1, <1>3, <2>1, SeqExcept
<1>5. RawSize[pending_work[i].extent] \in Nat /\ pending_work[i].compressed \in Nat
  BY <1>2, SinkAssumption DEF ToCompress
<1> QED
  BY <1>1, <1>2, <1>4, <1>5, SMTT(30) DEF CompletedBytes, ToCompress

LEMMA CountPackedType ==
  ASSUME StatsTypes, NEW s, CountPacked(s)
  PROVE  /\ stats' \in Nat /\ final_stats' \in Nat
         /\ counted' \in [Writers -> Nat] /\ use_count' \in [Writers -> Int]
         /\ use_count \in [Writers -> Nat] /\ (s \in Writers => use_count[s] > 0) =>
              use_count' \in [Writers -> Nat]
  BY DEF StatsTypes, CountPacked

LEMMA CompressorDoneType ==
  ASSUME TypeInv, ~aborted, NEW t \in Compressors, CompressorDone(t)
  PROVE  TypeInv'
<1> DEFINE ok(i) == /\ pending_work[i].to_update \in Writers =>
                         use_count[pending_work[i].to_update] > 0
                    /\ bytes_in_progress >= 2 * RawSize[work[t]]
<1>1. PICK i \in 1..Len(pending_work) :
        /\ pending_work[i].extent = work[t]
        /\ CountPacked(pending_work[i].to_update)
        /\ pc' = Notified(Completed(i), CompletedBytes(i))
        /\ writer' = IF frontReadyToWrite(Completed(i)) THEN WriterSignalled ELSE writer
        /\ CompressorLoop(t, Completed(i), CompletedBytes(i), ok(i))
  BY DEF CompressorDone
<1>2. UNCHANGED <<calls, ncompressors, fileVars, callbackVars, keep_going,
                  max_bytes_in_progress, out>>
  BY DEF CompressorDone
<1>3. ok(i) \in BOOLEAN
  OBVIOUS
<1> HIDE DEF ok
<1>4. /\ pending_work' \in Seq(ToCompress)
      /\ bytes_in_progress' \in Int
      /\ compressor' \in [Compressors -> CompressorPlaces]
      /\ work' \in [Compressors -> Extents \cup {NoExtent}]
      /\ aborted' \in BOOLEAN
      /\ ~aborted' => ok(i)
      /\ CompletedBytes(i) \in Nat => bytes_in_progress' \in Nat
  BY <1>1, <1>3, CompletedType, CompressorLoopType
<1>5. ~aborted' => bytes_in_progress' \in Nat
  BY <1>1, <1>4, CompletedType DEF ok
<1>6. ClientTypes' /\ FileNumbered'
  BY <1>1, <1>2, NotifiedType
  DEF TypeInv, TypeOK, ClientTypes, Clients, FileNumbered, fileVars
<1>7. QueueTypes'
  BY <1>2, <1>4, <1>5 DEF TypeInv, TypeOK, QueueTypes
<1>8. StatsTypes'
  <2>1. ~aborted' => (pending_work[i].to_update \in Writers =>
                        use_count[pending_work[i].to_update] > 0)
    BY <1>4 DEF ok
  <2> QED
    BY <1>1, <2>1, CountPackedType DEF TypeInv, TypeOK, StatsTypes
<1>9. ThreadTypes'
  BY <1>1, <1>2, <1>4 DEF TypeInv, TypeOK, ThreadTypes, WriterSignalled, WriterPlaces
<1>10. OutTypes' /\ FileTypes'
  BY <1>2 DEF TypeInv, TypeOK, OutTypes, FileTypes, fileVars
<1> QED
  BY <1>2, <1>4, <1>6, <1>7, <1>8, <1>9, <1>10 DEF TypeInv, TypeOK, callbackVars

\* Taking the ready prefix off a queue.
LEMMA BeginWriteOutType ==
  ASSUME TypeInv, NEW a \in Writing, NEW p \in Seq(ToCompress), BeginWriteOut(a, p)
  PROVE  OutTypes' /\ pending_work' \in Seq(ToCompress)
<1>1. PICK n \in 0..Len(p) :
        /\ out' = [out EXCEPT ![a] = [to_write |-> SubSeq(p, 1, n), bytes |-> 0,
                                      ewc |-> callback]]
        /\ pending_work' = SubSeq(p, n + 1, Len(p))
  BY DEF BeginWriteOut
<1>2. SubSeq(p, 1, n) \in Seq(ToCompress) /\ pending_work' \in Seq(ToCompress)
  BY <1>1, SubSeqType
<1> QED
  BY <1>1, <1>2 DEF TypeInv, TypeOK, OutTypes

LEMMA NoBatchType ==
  ASSUME TypeInv, NEW a \in Writing
  PROVE  [out EXCEPT ![a] = NoBatch]
           \in [Writing -> [to_write : Seq(ToCompress), bytes : Nat, ewc : Nat]]
<1>1. NoBatch \in [to_write : Seq(ToCompress), bytes : Nat, ewc : Nat]
  BY DEF NoBatch
<1> QED
  BY <1>1 DEF TypeInv, TypeOK, OutTypes

LEMMA WriteOutType ==
  ASSUME TypeInv, ~aborted, NEW a \in Writing, WriteOut(a)
  PROVE  TypeInv'
<1> DEFINE tc == Head(out[a].to_write)
<1>1. /\ out[a].to_write \in Seq(ToCompress) /\ out[a].to_write # << >>
      /\ out[a].bytes \in Nat /\ out[a].ewc \in Nat
  BY DEF WriteOut, TypeInv, TypeOK, OutTypes
<1>2. tc \in ToCompress /\ Tail(out[a].to_write) \in Seq(ToCompress)
  BY <1>1
<1>3. tc.extent \in Extents /\ tc.compressed \in Nat
  BY <1>2 DEF ToCompress
<1> HIDE DEF tc
<1>4. /\ index_series' = Append(IF tc.extent[1] = Index THEN << >> ELSE index_series,
                                IndexEntry(tc.extent))
      /\ disk' = Append(disk, tc.extent)
      /\ cur_offset' = cur_offset + tc.compressed
      /\ out' = [out EXCEPT ![a].to_write = Tail(@), ![a].bytes = @ + tc.compressed]
      /\ aborted' \in BOOLEAN
  BY DEF WriteOut, Invariant, tc
<1>5. UNCHANGED <<clientVars, queueVars, threadVars, wrote_library, nfiles,
                  packed_index, closing, tail, statsVars, callbackVars,
                  keep_going, max_bytes_in_progress>>
  BY DEF WriteOut
<1>6. OutTypes'
  <2> DEFINE rest == Tail(out[a].to_write)
             written == out[a].bytes + tc.compressed
  <2>1. out \in [Writing -> [to_write : Seq(ToCompress), bytes : Nat, ewc : Nat]]
    BY DEF TypeInv, TypeOK, OutTypes
  <2>2. out' = [out EXCEPT ![a].to_write = rest, ![a].bytes = written]
    BY <1>4
  <2>3. rest \in Seq(ToCompress) /\ written \in Nat
    BY <1>1, <1>2, <1>3
  <2> HIDE DEF rest, written
  <2> QED
    BY <2>1, <2>2, <2>3 DEF OutTypes
<1>7. FileTypes'
  <2>1. IndexEntry(tc.extent) \in [extent : Extents, offset : Int]
    BY <1>3 DEF IndexEntry, TypeInv, TypeOK, FileTypes
  <2>2. index_series' \in IndexEntries
    BY <1>4, <2>1 DEF IndexEntries, TypeInv, TypeOK, FileTypes
  <2>3. disk' \in Seq(Extents) /\ cur_offset' \in Int
    BY <1>3, <1>4 DEF TypeInv, TypeOK, FileTypes
  <2> QED
    BY <1>5, <2>2, <2>3 DEF TypeInv, TypeOK, FileTypes
<1>8. ClientTypes' /\ FileNumbered' /\ QueueTypes' /\ ThreadTypes' /\ StatsTypes'
  BY <1>5 DEF TypeInv, TypeOK, ClientTypes, clientVars, FileNumbered, QueueTypes,
              queueVars, ThreadTypes, threadVars, StatsTypes, statsVars
<1> QED
  BY <1>4, <1>5, <1>6, <1>7, <1>8 DEF TypeInv, TypeOK, callbackVars

\* Accounting for a batch never goes below zero: it is asserted.
LEMMA FinishWriteOutType ==
  ASSUME TypeInv, NEW a \in Writing, FinishWriteOut(a)
  PROVE  /\ bytes_in_progress' \in Int /\ aborted' \in BOOLEAN
         /\ ~aborted' => bytes_in_progress' \in Nat
<1>1. bytes_in_progress \in Int /\ out[a].bytes \in Nat
  BY DEF TypeInv, TypeOK, QueueTypes, OutTypes
<1>2. aborted' \in BOOLEAN /\ (~aborted' => bytes_in_progress >= out[a].bytes)
  BY DEF FinishWriteOut, Invariant
<1> QED
  BY <1>1, <1>2 DEF FinishWriteOut

LEMMA WriterLoopType ==
  ASSUME TypeInv, WriterLoop
  PROVE  OutTypes' /\ pending_work' \in Seq(ToCompress) /\ writer' \in WriterPlaces
<1>1. "writer" \in Writing /\ pending_work \in Seq(ToCompress)
  BY DEF Writing, TypeInv, TypeOK, QueueTypes
<1> QED
  BY <1>1, BeginWriteOutType, NoBatchType DEF WriterLoop, OutTypes, WriterPlaces

LEMMA WriterRunType == TypeInv /\ ~aborted /\ WriterRun => TypeInv'
<1> SUFFICES ASSUME TypeInv, ~aborted, WriterRun PROVE TypeInv'
  OBVIOUS
<1>1. OutTypes' /\ pending_work' \in Seq(ToCompress) /\ writer' \in WriterPlaces
  BY WriterLoopType DEF WriterRun
<1> USE DEF TypeInv, TypeOK, WriterRun
<1>2. ClientTypes' /\ FileNumbered' /\ FileTypes'
  BY DEF ClientTypes, clientVars, FileNumbered, FileTypes, fileVars
<1>3. QueueTypes' /\ StatsTypes' /\ ThreadTypes'
  BY <1>1 DEF QueueTypes, StatsTypes, statsVars, ThreadTypes
<1> QED
  BY <1>1, <1>2, <1>3 DEF callbackVars

LEMMA WriterDoneType == TypeInv /\ ~aborted /\ WriterDone => TypeInv'
<1> SUFFICES ASSUME TypeInv, ~aborted, WriterDone PROVE TypeInv'
  OBVIOUS
<1>1. OutTypes' /\ pending_work' \in Seq(ToCompress) /\ writer' \in WriterPlaces
  BY WriterLoopType DEF WriterDone
<1>2. /\ bytes_in_progress' \in Int /\ aborted' \in BOOLEAN
      /\ ~aborted' => bytes_in_progress' \in Nat
  BY FinishWriteOutType DEF WriterDone, Writing
<1>3. ClientTypes' /\ FileNumbered'
  BY NotifiedType DEF WriterDone, NotifiedAfter, TypeInv, TypeOK, ClientTypes, Clients,
                      FileNumbered, fileVars
<1> USE DEF TypeInv, TypeOK, WriterDone
<1>4. QueueTypes' /\ StatsTypes'
  BY <1>1, <1>2 DEF QueueTypes, StatsTypes, statsVars
<1>5. ThreadTypes' /\ FileTypes'
  BY <1>1 DEF ThreadTypes, FileTypes, fileVars
<1> QED
  BY <1>1, <1>2, <1>3, <1>4, <1>5 DEF callbackVars

----------------------------------------------------------------------------
\* Type correctness of close

LEMMA CloseBeginType == TypeInv /\ ~aborted /\ CloseBegin => TypeInv'
<1> SUFFICES ASSUME TypeInv, ~aborted, CloseBegin PROVE TypeInv'
  OBVIOUS
<1> USE DEF TypeInv, TypeOK, CloseBegin
<1>1. ClientTypes' /\ FileNumbered'
  BY DEF ClientTypes, ClientPlaces, Clients, FileNumbered, fileVars
<1>2. QueueTypes' /\ StatsTypes'
  BY DEF QueueTypes, StatsTypes, queueVars, statsVars
<1>3. ThreadTypes'
  BY DEF ThreadTypes, WorkBroadcast, WriterSignalled, CompressorPlaces, WriterPlaces
<1>4. OutTypes' /\ FileTypes'
  BY DEF OutTypes, FileTypes, fileVars
<1> QED
  BY <1>1, <1>2, <1>3, <1>4 DEF callbackVars, Invariant

LEMMA JoinCompressorsType == TypeInv /\ ~aborted /\ JoinCompressors => TypeInv'
<1> SUFFICES ASSUME TypeInv, ~aborted, JoinCompressors PROVE TypeInv'
  OBVIOUS
<1> USE DEF TypeInv, TypeOK, JoinCompressors
<1>1. ClientTypes' /\ FileNumbered'
  BY DEF ClientTypes, ClientPlaces, Clients, FileNumbered, fileVars
<1>2. QueueTypes' /\ StatsTypes'
  BY DEF QueueTypes, StatsTypes, queueVars, statsVars
<1>3. ThreadTypes' /\ OutTypes' /\ FileTypes'
  BY DEF ThreadTypes, CompressorPlaces, OutTypes, FileTypes, fileVars
<1> QED
  BY <1>1, <1>2, <1>3 DEF callbackVars

LEMMA JoinWriterType == TypeInv /\ ~aborted /\ JoinWriter => TypeInv'
<1> SUFFICES ASSUME TypeInv, ~aborted, JoinWriter PROVE TypeInv'
  OBVIOUS
<1>1. OutTypes' /\ pending_work' \in Seq(ToCompress)
  BY BeginWriteOutType DEF JoinWriter, Writing, TypeInv, TypeOK, QueueTypes
<1> USE DEF TypeInv, TypeOK, JoinWriter
<1>2. ClientTypes' /\ FileNumbered'
  BY DEF ClientTypes, ClientPlaces, Clients, FileNumbered, fileVars
<1>3. QueueTypes' /\ StatsTypes'
  BY <1>1 DEF QueueTypes, StatsTypes, statsVars
<1>4. ThreadTypes' /\ FileTypes'
  BY DEF ThreadTypes, WriterPlaces, FileTypes, fileVars
<1> QED
  BY <1>1, <1>2, <1>3, <1>4 DEF callbackVars, Invariant

LEMMA IndexExtent ==
  ASSUME TypeInv, pc[Owner] # "closed"
  PROVE  <<Index, nfiles>> \in Extents
<1>1. nfiles \in 1..MaxFiles
  BY SinkAssumption DEF TypeInv, TypeOK, FileTypes, FileNumbered
<1> QED
  BY <1>1, ExtentTypes

LEMMA CloseIndexType == TypeInv /\ ~aborted /\ CloseIndex => TypeInv'
<1> SUFFICES ASSUME TypeInv, ~aborted, CloseIndex PROVE TypeInv'
  OBVIOUS
<1> DEFINE e == <<Index, nfiles>>
           b == bytes_in_progress - out["closer"].bytes
<1>1. e \in Extents
  BY IndexExtent DEF CloseIndex
<1>2. RawSize[e] \in Nat /\ b \in Int
  BY <1>1, SinkAssumption DEF Writing, TypeInv, TypeOK, QueueTypes, OutTypes
<1>3. /\ aborted' \in BOOLEAN /\ (~aborted' => b = 0)
      /\ closing' = [closing EXCEPT !.index_offset = cur_offset]
      /\ index_series' = Append(index_series, IndexEntry(e))
      /\ bytes_in_progress' = b + 2 * RawSize[e]
      /\ pending_work' = Append(pending_work,
                                [NewWork(e, NoStats) EXCEPT !.in_progress = TRUE])
      /\ pc' = [NotifiedAfter("closer") EXCEPT ![Owner] = "pack_index"]
      /\ out' = [out EXCEPT !["closer"] = NoBatch]
  BY DEF CloseIndex, Invariant
<1>4. UNCHANGED <<calls, threadVars, wrote_library, cur_offset, nfiles, disk,
                  packed_index, tail, statsVars, callbackVars, keep_going,
                  max_bytes_in_progress>> /\ pc[Owner] = "drain"
  BY DEF CloseIndex
<1> HIDE DEF e, b
<1>5. ClientTypes' /\ FileNumbered'
  BY <1>3, <1>4, NotifiedType
  DEF TypeInv, TypeOK, ClientTypes, ClientPlaces, Clients, NotifiedAfter, FileNumbered
<1>6. QueueTypes'
  <2>1. [NewWork(e, NoStats) EXCEPT !.in_progress = TRUE] \in ToCompress
    BY <1>1 DEF NewWork, ToCompress
  <2> QED
    BY <1>2, <1>3, <1>4, <2>1, SMTT(30) DEF TypeInv, TypeOK, QueueTypes
<1>7. OutTypes'
  BY <1>3, NoBatchType DEF OutTypes, Writing
<1>8. FileTypes'
  <2>1. IndexEntry(e) \in [extent : Extents, offset : Int]
    BY <1>1 DEF IndexEntry, TypeInv, TypeOK, FileTypes
  <2>2. index_series' \in IndexEntries
    BY <1>3, <2>1 DEF IndexEntries, TypeInv, TypeOK, FileTypes
  <2> QED
    BY <1>3, <1>4, <2>2 DEF TypeInv, TypeOK, FileTypes
<1>9. ThreadTypes' /\ StatsTypes'
  BY <1>3, <1>4 DEF TypeInv, TypeOK, ThreadTypes, threadVars, StatsTypes, statsVars
<1> QED
  BY <1>3, <1>4, <1>5, <1>6, <1>7, <1>8, <1>9 DEF TypeInv, TypeOK, callbackVars

\* The index, packed, at the front of the queue.
LEMMA FirstPacked ==
  ASSUME NEW p \in Seq(ToCompress), Len(p) > 0, NEW c \in Nat
  PROVE  LET q == [p EXCEPT ![1].in_progress = FALSE, ![1].compressed = c] IN
         /\ q \in Seq(ToCompress) /\ Len(q) = Len(p)
         /\ q[1].extent = p[1].extent /\ ~q[1].in_progress
<1> DEFINE x == [p[1] EXCEPT !.in_progress = FALSE, !.compressed = c]
           q == [p EXCEPT ![1].in_progress = FALSE, ![1].compressed = c]
<1>1. 1 \in 1..Len(p) /\ p[1] \in ToCompress
  OBVIOUS
<1>2. x \in ToCompress /\ x.extent = p[1].extent /\ ~x.in_progress
  BY <1>1 DEF ToCompress
<1>3. q = [p EXCEPT ![1] = x]
  BY <1>1 DEF ToCompress
<1> HIDE DEF x, q
<1>4. /\ q \in Seq(ToCompress) /\ Len(q) = Len(p)
      /\ q[1].extent = p[1].extent /\ ~q[1].in_progress
  BY <1>1, <1>2, <1>3, SeqExcept
<1> QED
  BY <1>4 DEF q

LEMMA PackIndexType == TypeInv /\ ~aborted /\ PackIndex => TypeInv'
<1> SUFFICES ASSUME TypeInv, ~aborted, PackIndex PROVE TypeInv'
  OBVIOUS
<1> DEFINE e == <<Index, nfiles>>
           b == bytes_in_progress - 2 * RawSize[e] + PackedSize[e]
           q == [pending_work EXCEPT ![1].in_progress = FALSE,
                                     ![1].compressed = PackedSize[e]]
<1>1. e \in Extents
  BY IndexExtent DEF PackIndex
<1>2. RawSize[e] \in Nat /\ PackedSize[e] \in Nat /\ b \in Int
  BY <1>1, SinkAssumption DEF TypeInv, TypeOK, QueueTypes
<1>3. /\ aborted' \in BOOLEAN /\ (~aborted' => b = PackedSize[e])
      /\ packed_index' = index_series
      /\ closing' = [closing EXCEPT !.packed_size = PackedSize[e]]
      /\ bytes_in_progress' = b
      /\ CountPacked(NoStats)
      /\ BeginWriteOut("closer", q)
      /\ pc' = [pc EXCEPT ![Owner] = "write_index"]
  BY DEF PackIndex, Invariant
<1>4. UNCHANGED <<calls, threadVars, wrote_library, cur_offset, index_series,
                  nfiles, disk, tail, callbackVars, keep_going,
                  max_bytes_in_progress>> /\ pc[Owner] = "pack_index"
  BY DEF PackIndex
<1>5. q \in Seq(ToCompress)
  <2>1. pending_work \in Seq(ToCompress)
    BY DEF TypeInv, TypeOK, QueueTypes
  <2>2. CASE Len(pending_work) = 0
    <3>1. q = pending_work
      BY <2>1, <2>2
    <3> QED
      BY <2>1, <3>1
  <2>3. CASE Len(pending_work) > 0
    BY <1>2, <2>1, <2>3, FirstPacked
  <2> QED
    BY <2>1, <2>2, <2>3
<1> HIDE DEF e, b, q
<1>6. OutTypes' /\ pending_work' \in Seq(ToCompress)
  BY <1>3, <1>5, BeginWriteOutType DEF Writing
<1>7. ClientTypes' /\ FileNumbered'
  BY <1>3, <1>4 DEF TypeInv, TypeOK, ClientTypes, ClientPlaces, Clients, FileNumbered
<1>8. QueueTypes'
  BY <1>2, <1>3, <1>4, <1>6 DEF TypeInv, TypeOK, QueueTypes
<1>9. FileTypes'
  BY <1>2, <1>3, <1>4 DEF TypeInv, TypeOK, FileTypes
<1>10. StatsTypes'
  BY <1>3, CountPackedType, SinkAssumption DEF TypeInv, TypeOK, StatsTypes
<1>11. ThreadTypes'
  BY <1>4 DEF TypeInv, TypeOK, ThreadTypes, threadVars
<1> QED
  BY <1>3, <1>4, <1>6, <1>7, <1>8, <1>9, <1>10, <1>11 DEF TypeInv, TypeOK, callbackVars

LEMMA SealType == TypeInv /\ ~aborted /\ Seal => TypeInv'
<1> SUFFICES ASSUME TypeInv, ~aborted, Seal PROVE TypeInv'
  OBVIOUS
<1>1. bytes_in_progress \in Int /\ out["closer"].bytes \in Nat
  BY DEF Writing, TypeInv, TypeOK, QueueTypes, OutTypes
<1>2. /\ aborted' \in BOOLEAN
      /\ ~aborted' => bytes_in_progress = out["closer"].bytes
      /\ bytes_in_progress' = bytes_in_progress - out["closer"].bytes
  BY DEF Seal, Invariant
<1>3. ClientTypes' /\ FileNumbered'
  BY NotifiedType DEF Seal, NotifiedAfter, TypeInv, TypeOK, ClientTypes, ClientPlaces,
                      Clients, FileNumbered
<1>4. QueueTypes'
  BY <1>1, <1>2 DEF Seal, TypeInv, TypeOK, QueueTypes
<1>5. FileTypes'
  <2>1. NoTail \in [index_offset : Int, packed_size : Nat] /\ -1 \in Int
    BY DEF NoTail
  <2>2. << >> \in IndexEntries
    BY DEF IndexEntries
  <2> QED
    BY <2>1, <2>2 DEF Seal, TypeInv, TypeOK, FileTypes
<1>6. OutTypes'
  BY NoBatchType DEF Seal, Writing, OutTypes
<1>7. StatsTypes' /\ ThreadTypes'
  BY <1>2 DEF Seal, TypeInv, TypeOK, StatsTypes, ThreadTypes, threadVars
<1> QED
  BY <1>2, <1>3, <1>4, <1>5, <1>6, <1>7 DEF Seal, TypeInv, TypeOK, callbackVars

----------------------------------------------------------------------------
\* Every step preserves the types.
LEMMA TypeStep == TypeInv /\ [Next]_vars => TypeInv'
<1> SUFFICES ASSUME TypeInv, [Next]_vars PROVE TypeInv'
  OBVIOUS
<1>1. CASE UNCHANGED vars
  BY <1>1 DEF vars, clientVars, queueVars, threadVars, fileVars, statsVars,
              callbackVars, TypeInv, TypeOK, ClientTypes, QueueTypes, ThreadTypes,
              OutTypes, FileTypes, StatsTypes, FileNumbered
<1>2. CASE Next /\ ~UNCHANGED vars
  <2> USE <1>2
  <2>1. CASE Open
    BY <2>1, OpenType DEF Next
  <2>2. CASE CloseBegin
    BY <2>2, CloseBeginType DEF Next
  <2>3. CASE OwnerStep
    BY <2>3, QueueLibraryType, QueueWakeupType, MarkWroteLibraryType,
       JoinCompressorsType, JoinWriterType, WriteOutType, CloseIndexType,
       PackIndexType, SealType
    DEF OwnerStep, Next, Clients, Writing
  <2>4. CASE \E t \in Compressors : CompressorStep(t)
    BY <2>4, CompressorRunType, PackType, CompressorDoneType DEF CompressorStep, Next
  <2>5. CASE WriterStep
    BY <2>5, WriterRunType, WriteOutType, WriterDoneType
    DEF WriterStep, Next, Writing
  <2>6. ASSUME NEW w \in Writers, NewCall(w)
        PROVE  TypeInv'
    BY <2>6, WriteExtentType, FlushType, SetExtentWriteCallbackType,
       RemoveStatsUpdateType, SetMaxBytesInProgressType
    DEF NewCall, Next
  <2>7. ASSUME NEW w \in Writers, Wakeup(w)
        PROVE  TypeInv'
    BY <2>7, QueueWakeupType, FlushType DEF Wakeup, Next, Clients
  <2> QED
    BY <2>1, <2>2, <2>3, <2>4, <2>5, <2>6, <2>7 DEF Next, Finished
<1> QED
  BY <1>1, <1>2

\* Every reachable state of the sink is well typed, and the two unsigned
\* counters bytes_in_progress and use_count never wrap, for any number of
\* threads, calls and files (DataSeriesSink.cpp, the whole class).
THEOREM TypeCorrect == Spec => []TypeOK
<1>1. Init => TypeInv
  BY TypeInit
<1>2. TypeInv /\ [Next]_vars => TypeInv'
  BY TypeStep
<1> QED
  BY <1>1, <1>2, PTL DEF Spec, TypeInv

----------------------------------------------------------------------------
\* A compressor's work stays on the queue: the inductive invariant.  Claims are
\* only exclusive because no extent is on the queue twice; that needs the
\* extents a writer makes to be new, and the queue to be empty when the library
\* and the index are put on it.

LEMMA ElementType ==
  ASSUME NEW p \in Seq(ToCompress), NEW i \in 1..Len(p)
  PROVE  p[i] \in ToCompress /\ p[i].extent \in Extents /\ p[i].extent[2] \in Nat
<1>1. p[i] \in ToCompress
  OBVIOUS
<1>2. p[i].extent \in Extents
  BY <1>1 DEF ToCompress
<1>3. \A e \in Extents : e[2] \in Nat
  BY SinkAssumption DEF Extents
<1> QED
  BY <1>1, <1>2, <1>3

Distinct(p) == \A i, j \in 1..Len(p) : p[i].extent = p[j].extent => i = j

\* A writer's extents on the queue come from calls it has made.
FromPastCalls(p, c) == \A i \in 1..Len(p) :
  p[i].extent[1] \in Writers => p[i].extent[2] <= c[p[i].extent[1]]

EmptyBetweenFiles == pc[Owner] \in {"closed", "opened"} => pending_work = << >>

AllJoined == pc[Owner] \in {"join_writer", "drain", "pack_index", "write_index", "closed"} =>
               \A t \in Compressors : compressor[t] = "none"

QueueInv == /\ Distinct(pending_work)
            /\ FromPastCalls(pending_work, calls)
            /\ EmptyBetweenFiles
            /\ AllJoined
            /\ WorkStaysQueued

WorkInv == TypeInv /\ (~aborted => QueueInv)

\* What the invariant asks of the owner's place.
Phases == {"closed", "opened", "join_writer", "drain", "pack_index", "write_index"}

\* Waking clients up leaves the owner's phase alone.
LEMMA NotifiedPhase ==
  ASSUME TypeInv, NEW p, NEW b
  PROVE  /\ \A s \in Phases : Notified(p, b)[Owner] = s <=> pc[Owner] = s
         /\ \A s \in Phases : QueueBroadcast[Owner] = s <=> pc[Owner] = s
  BY DEF TypeInv, TypeOK, ClientTypes, Clients, Phases, Notified, QueueBroadcast, Woken

\* Two queues with the same extents, in the same order and equally claimed.
SameWork(p, q) ==
  /\ Len(p) = Len(q)
  /\ \A i \in 1..Len(q) : /\ p[i].extent = q[i].extent
                          /\ p[i].in_progress = q[i].in_progress

\* A step that leaves the queue and the claims alone.
LEMMA FrameWork ==
  ASSUME TypeInv, TypeInv', QueueInv, SameWork(pending_work', pending_work),
         \A t \in Compressors : Packing(t)' => Packing(t) /\ work'[t] = work[t],
         \A t \in Compressors : Packing(t) => Packing(t)' /\ work'[t] = work[t],
         \A w \in Writers : calls[w] <= calls'[w],
         EmptyBetweenFiles', AllJoined',
         (pc[Owner] = "pack_index") = (pc'[Owner] = "pack_index")
  PROVE  QueueInv'
<1>1. Distinct(pending_work)'
  BY DEF QueueInv, Distinct, SameWork
<1>2. FromPastCalls(pending_work, calls)'
  <2> SUFFICES ASSUME NEW i \in 1..Len(pending_work),
                      pending_work[i].extent[1] \in Writers
               PROVE  pending_work[i].extent[2] <= calls'[pending_work[i].extent[1]]
    BY DEF FromPastCalls, SameWork
  <2>1. pending_work[i].extent[2] \in Nat
    BY ElementType DEF TypeInv, TypeOK, QueueTypes
  <2>2. \A w \in Writers : calls[w] \in Nat /\ calls'[w] \in Nat
    BY SinkAssumption DEF TypeInv, TypeOK, ClientTypes
  <2> QED
    BY <2>1, <2>2 DEF QueueInv, FromPastCalls
<1>3. WorkStaysQueued'
  <2>1. ClaimedWorkIsQueued'
    BY DEF QueueInv, WorkStaysQueued, ClaimedWorkIsQueued, Positions, SameWork
  <2>2. ClaimsAreExclusive'
    BY DEF QueueInv, WorkStaysQueued, ClaimsAreExclusive
  <2>3. ClaimedByACompressor'
    BY DEF QueueInv, WorkStaysQueued, ClaimedByACompressor, Positions, SameWork
  <2> QED
    BY <2>1, <2>2, <2>3 DEF WorkStaysQueued
<1> QED
  BY <1>1, <1>2, <1>3 DEF QueueInv

\* Something new at the end of the queue that nobody works on.
LEMMA AppendWork ==
  ASSUME TypeInv, TypeInv', QueueInv, NEW e \in Extents, NEW s,
         pending_work' = Append(pending_work, NewWork(e, s)),
         \A i \in Positions : pending_work[i].extent # e,
         e[1] \in Writers => e[2] <= calls'[e[1]],
         \A t \in Compressors : Packing(t)' => Packing(t) /\ work'[t] = work[t],
         \A t \in Compressors : Packing(t) => Packing(t)' /\ work'[t] = work[t],
         \A w \in Writers : calls[w] <= calls'[w],
         EmptyBetweenFiles', AllJoined',
         pc[Owner] # "pack_index"
  PROVE  QueueInv'
<1> DEFINE n == Len(pending_work)
<1>1. /\ n \in Nat /\ Len(pending_work)' = n + 1
      /\ \A i \in 1..n : pending_work'[i] = pending_work[i]
      /\ pending_work'[n + 1] = NewWork(e, s)
  BY DEF TypeInv, TypeOK, QueueTypes
<1>2. NewWork(e, s).extent = e /\ ~NewWork(e, s).in_progress
  BY DEF NewWork
<1> HIDE DEF n
<1>3. Distinct(pending_work)'
  BY <1>1, <1>2 DEF QueueInv, Distinct, Positions, n
<1>4. FromPastCalls(pending_work, calls)'
  <2> SUFFICES ASSUME NEW i \in 1..(n + 1), pending_work'[i].extent[1] \in Writers
               PROVE  pending_work'[i].extent[2] <= calls'[pending_work'[i].extent[1]]
    BY <1>1 DEF FromPastCalls
  <2>1. CASE i = n + 1
    BY <1>1, <1>2, <2>1
  <2>2. CASE i \in 1..n
    <3>1. pending_work[i].extent[2] \in Nat
      BY <2>2, ElementType DEF TypeInv, TypeOK, QueueTypes, n
    <3>2. \A w \in Writers : calls[w] \in Nat /\ calls'[w] \in Nat
      BY SinkAssumption DEF TypeInv, TypeOK, ClientTypes
    <3> QED
      BY <1>1, <2>2, <3>1, <3>2 DEF QueueInv, FromPastCalls, n
  <2> QED
    BY <1>1, <2>1, <2>2
<1>5. WorkStaysQueued'
  <2>1. ClaimedWorkIsQueued'
    BY <1>1 DEF QueueInv, WorkStaysQueued, ClaimedWorkIsQueued, Positions, n
  <2>2. ClaimsAreExclusive'
    BY DEF QueueInv, WorkStaysQueued, ClaimsAreExclusive
  <2>3. ClaimedByACompressor'
    BY <1>1, <1>2 DEF QueueInv, WorkStaysQueued, ClaimedByACompressor, Positions, n
  <2> QED
    BY <2>1, <2>2, <2>3 DEF WorkStaysQueued
<1> QED
  BY <1>3, <1>4, <1>5 DEF QueueInv

\* What the other compressors have claimed of a queue p while t has nothing.
OthersClaims(t, p) ==
  /\ \A u \in Compressors \ {t} : Packing(u) =>
       \E i \in 1..Len(p) : p[i].extent = work[u] /\ p[i].in_progress
  /\ \A u, v \in Compressors \ {t} :
       Packing(u) /\ Packing(v) /\ work[u] = work[v] => u = v
  /\ \A i \in 1..Len(p) : p[i].in_progress =>
       \/ \E u \in Compressors \ {t} : Packing(u) /\ work[u] = p[i].extent
       \/ pc[Owner] = "pack_index"

\* A compressor claims at most one extent, which nobody else has.
LEMMA ClaimWork ==
  ASSUME TypeInv, NEW t \in Compressors, NEW p \in Seq(ToCompress), NEW b, NEW ok,
         Distinct(p), OthersClaims(t, p), CompressorLoop(t, p, b, ok),
         (pc[Owner] = "pack_index") = (pc'[Owner] = "pack_index")
  PROVE  /\ WorkStaysQueued'
         /\ Len(pending_work') = Len(p)
         /\ \A i \in 1..Len(p) : pending_work'[i].extent = p[i].extent
         /\ compressor'[t] # "none"
         /\ \A u \in Compressors \ {t} : compressor'[u] = compressor[u]
<1>0. /\ compressor \in [Compressors -> CompressorPlaces]
      /\ work \in [Compressors -> Extents \cup {NoExtent}]
  BY DEF TypeInv, TypeOK, ThreadTypes
<1>1. CASE \A i \in 1..Len(p) : ~Unclaimed(p[i])
  <2>1. /\ pending_work' = p
        /\ work' = [work EXCEPT ![t] = NoExtent]
        /\ compressor' = [compressor EXCEPT ![t] = IF keep_going THEN "waiting"
                                                                ELSE "exited"]
    BY <1>1 DEF CompressorLoop
  <2>2. ~Packing(t)' /\ compressor'[t] # "none"
    BY <1>0, <2>1 DEF Packing
  <2>3. \A u \in Compressors \ {t} : /\ compressor'[u] = compressor[u]
                                     /\ work'[u] = work[u]
                                     /\ Packing(u)' <=> Packing(u)
    BY <1>0, <2>1 DEF Packing
  <2>4. ClaimedWorkIsQueued' /\ ClaimsAreExclusive' /\ ClaimedByACompressor'
    BY <2>1, <2>2, <2>3
    DEF OthersClaims, ClaimedWorkIsQueued, ClaimsAreExclusive, ClaimedByACompressor,
        Positions
  <2> QED
    BY <2>1, <2>2, <2>3, <2>4 DEF WorkStaysQueued
<1>2. CASE \E i \in 1..Len(p) : Unclaimed(p[i])
  <2>1. PICK i \in 1..Len(p) :
          /\ Unclaimed(p[i])
          /\ pending_work' = [p EXCEPT ![i].in_progress = TRUE]
          /\ work' = [work EXCEPT ![t] = p[i].extent]
          /\ compressor' = [compressor EXCEPT ![t] = "packing"]
    BY <1>2 DEF CompressorLoop
  <2>2. p[i] \in ToCompress
    OBVIOUS
  <2>3. /\ Len(pending_work') = Len(p)
        /\ \A j \in 1..Len(p) : pending_work'[j].extent = p[j].extent
        /\ pending_work'[i].in_progress
        /\ \A j \in 1..Len(p) : j # i => pending_work'[j].in_progress = p[j].in_progress
    BY <2>1, <2>2 DEF ToCompress
  <2>4. Packing(t)' /\ compressor'[t] # "none" /\ work'[t] = p[i].extent
    BY <1>0, <2>1 DEF Packing
  <2>5. \A u \in Compressors \ {t} : /\ compressor'[u] = compressor[u]
                                     /\ work'[u] = work[u]
                                     /\ Packing(u)' <=> Packing(u)
    BY <1>0, <2>1 DEF Packing
  <2>6. \A u \in Compressors \ {t} : Packing(u) => work[u] # p[i].extent
    BY <2>1 DEF OthersClaims, Distinct, Unclaimed
  <2>7. ClaimedWorkIsQueued'
    BY <2>3, <2>4, <2>5 DEF OthersClaims, ClaimedWorkIsQueued, Positions
  <2>8. ClaimsAreExclusive'
    BY <2>4, <2>5, <2>6 DEF OthersClaims, ClaimsAreExclusive
  <2>9. ClaimedByACompressor'
    <3> SUFFICES ASSUME NEW j \in 1..Len(p), pending_work'[j].in_progress
                 PROVE  \/ \E u \in Compressors : /\ Packing(u)'
                                                  /\ work'[u] = pending_work'[j].extent
                        \/ pc'[Owner] = "pack_index"
      BY <2>3 DEF ClaimedByACompressor, Positions
    <3>1. CASE j = i
      BY <2>3, <2>4, <3>1
    <3>2. CASE j # i
      BY <2>3, <2>5, <3>2 DEF OthersClaims
    <3> QED
      BY <3>1, <3>2
  <2> QED
    BY <2>3, <2>4, <2>5, <2>7, <2>8, <2>9 DEF WorkStaysQueued
<1> QED
  BY <1>1, <1>2

\* Taking a ready prefix off a queue p takes nothing that is being packed.
LEMMA TakeReady ==
  ASSUME TypeInv, TypeInv', NEW p \in Seq(ToCompress), NEW a, BeginWriteOut(a, p),
         Distinct(p), FromPastCalls(p, calls), SameWork(p, pending_work),
         WorkStaysQueued, UNCHANGED <<compressor, work, calls>>,
         (pc[Owner] = "pack_index") = (pc'[Owner] = "pack_index")
  PROVE  /\ Distinct(pending_work')
         /\ FromPastCalls(pending_work', calls')
         /\ WorkStaysQueued'
<1>1. PICK n \in 0..Len(p) : /\ ReadyPrefix(p, n)
                             /\ pending_work' = SubSeq(p, n + 1, Len(p))
  BY DEF BeginWriteOut
<1>2. /\ Len(pending_work') = Len(p) - n
      /\ \A k \in 1..Len(pending_work') : k + n \in 1..Len(p) /\ pending_work'[k] = p[k + n]
      /\ \A k \in 1..Len(p) : k > n =>
           k - n \in 1..Len(pending_work') /\ pending_work'[k - n] = p[k]
  BY <1>1, SMTT(30)
<1>3. \A k \in 1..Len(p) : p[k].in_progress => k > n
  BY <1>1 DEF ReadyPrefix, readyToWrite
<1>4. Distinct(pending_work')
  BY <1>2, SMTT(30) DEF Distinct
<1>5. FromPastCalls(pending_work', calls')
  BY <1>2 DEF FromPastCalls
<1>6. ClaimedWorkIsQueued'
  <2> SUFFICES ASSUME NEW t \in Compressors, Packing(t)
               PROVE  \E k \in 1..Len(pending_work') :
                        /\ pending_work'[k].extent = work[t]
                        /\ pending_work'[k].in_progress
    BY DEF ClaimedWorkIsQueued, Packing, Positions
  <2>1. PICK k \in 1..Len(p) : p[k].extent = work[t] /\ p[k].in_progress
    BY DEF WorkStaysQueued, ClaimedWorkIsQueued, Positions, SameWork
  <2> QED
    BY <1>2, <1>3, <2>1
<1>7. ClaimsAreExclusive'
  BY DEF WorkStaysQueued, ClaimsAreExclusive, Packing
<1>8. ClaimedByACompressor'
  <2> SUFFICES ASSUME NEW k \in 1..Len(pending_work'), pending_work'[k].in_progress
               PROVE  \/ \E t \in Compressors :
                            Packing(t) /\ work[t] = pending_work'[k].extent
                      \/ pc[Owner] = "pack_index"
    BY DEF ClaimedByACompressor, Positions, Packing
  <2>1. k + n \in 1..Len(p) /\ p[k + n].in_progress
    BY <1>2
  <2>2. /\ k + n \in 1..Len(pending_work)
        /\ pending_work[k + n].in_progress
        /\ pending_work[k + n].extent = pending_work'[k].extent
    BY <1>2, <2>1 DEF SameWork
  <2> QED
    BY <2>2 DEF WorkStaysQueued, ClaimedByACompressor, Positions
<1> QED
  BY <1>4, <1>5, <1>6, <1>7, <1>8 DEF WorkStaysQueued

----------------------------------------------------------------------------
\* The steps preserve it, unless an assertion of the code stops the process.

LEMMA QueueInvInit == Init => QueueInv
  BY DEF Init, QueueInv, Distinct, FromPastCalls, EmptyBetweenFiles, AllJoined,
         WorkStaysQueued, ClaimedWorkIsQueued, ClaimsAreExclusive, ClaimedByACompressor,
         Packing, Positions

LEMMA OpenWork ==
  ASSUME TypeInv, TypeInv', QueueInv, ~aborted, Open
  PROVE  QueueInv'
<1>1. pc[Owner] = "closed" /\ pending_work = << >> /\ pending_work' = << >>
  BY DEF Open, queueVars, QueueInv, EmptyBetweenFiles
<1>2. pc'[Owner] = "opened"
  BY DEF Open, TypeInv, TypeOK, ClientTypes, Clients
<1>3. \A t \in Compressors : ~Packing(t)'
  BY DEF Open, Packing
<1> QED
  BY <1>1, <1>2, <1>3
  DEF QueueInv, Distinct, FromPastCalls, EmptyBetweenFiles, AllJoined, WorkStaysQueued,
      ClaimedWorkIsQueued, ClaimsAreExclusive, ClaimedByACompressor, Positions

\* Signals do not move a compressor that packs, or one that is gone.
LEMMA SignalsKeepClaims ==
  ASSUME TypeInv, SignalWork \/ compressor' = WorkBroadcast \/ UNCHANGED compressor
  PROVE  \A t \in Compressors : /\ Packing(t)' <=> Packing(t)
                                /\ compressor[t] = "none" => compressor'[t] = "none"
  BY DEF TypeInv, TypeOK, ThreadTypes, SignalWork, WorkBroadcast, Packing

LEMMA QueueLibraryWork ==
  ASSUME TypeInv, TypeInv', QueueInv, ~aborted, QueueLibrary
  PROVE  QueueInv'
<1> DEFINE e == <<Library, nfiles>>
<1>1. e \in Extents
  <2>1. nfiles \in 1..MaxFiles
    BY SinkAssumption DEF TypeInv, TypeOK, FileTypes, FileNumbered, QueueLibrary
  <2> QED
    BY <2>1, ExtentTypes
<1>2. pending_work = << >> /\ pc[Owner] = "opened"
  BY DEF QueueLibrary, QueueInv, EmptyBetweenFiles
<1>3. pc'[Owner] \in {"queued", "queue_wait"}
  BY DEF QueueLibrary, queueWriteExtent, Return, TypeInv, TypeOK, ClientTypes, Clients
<1>4. /\ pending_work' = Append(pending_work, NewWork(e, NoStats))
      /\ UNCHANGED <<calls, work>>
      /\ SignalWork \/ UNCHANGED compressor
  BY DEF QueueLibrary, queueWriteExtent, Enqueued
<1>5. e[1] \notin Writers
  BY SinkAssumption
<1>6. \A w \in Writers : calls[w] <= calls'[w]
  BY <1>4, SinkAssumption DEF TypeInv, TypeOK, ClientTypes
<1>7. EmptyBetweenFiles' /\ AllJoined'
  BY <1>3 DEF EmptyBetweenFiles, AllJoined
<1>8. \A i \in Positions : pending_work[i].extent # e
  BY <1>2 DEF Positions
<1> HIDE DEF e
<1> QED
  BY <1>1, <1>2, <1>4, <1>5, <1>6, <1>7, <1>8, SignalsKeepClaims, AppendWork

LEMMA WriteExtentWork ==
  ASSUME TypeInv, TypeInv', QueueInv, ~aborted, NEW w \in Writers, WriteExtent(w)
  PROVE  QueueInv'
<1> DEFINE e == <<w, calls[w] + 1>>
<1>1. e \in Extents /\ w # Owner
  BY CallType, ExtentTypes DEF WriteExtent
<1>2. calls' = [calls EXCEPT ![w] = @ + 1] /\ calls \in [Writers -> Nat]
  BY SinkAssumption DEF WriteExtent, Call, TypeInv, TypeOK, ClientTypes
<1>3. pc[Owner] = "idle" /\ pc'[Owner] = "idle"
  BY <1>1 DEF WriteExtent, queueWriteExtent, TypeInv, TypeOK, ClientTypes, Clients
<1>4. /\ pending_work' = Append(pending_work, NewWork(e, w))
      /\ UNCHANGED work
      /\ SignalWork \/ UNCHANGED compressor
  BY DEF WriteExtent, queueWriteExtent, Enqueued
<1>5. \A u \in Writers : calls[u] <= calls'[u]
  BY <1>2
<1>6. EmptyBetweenFiles' /\ AllJoined'
  BY <1>3 DEF EmptyBetweenFiles, AllJoined
<1>7. \A i \in Positions : pending_work[i].extent # e
  BY <1>2 DEF Positions, QueueInv, FromPastCalls
<1>8. e[2] <= calls'[e[1]]
  BY <1>2
<1> HIDE DEF e
<1> QED
  BY <1>1, <1>3, <1>4, <1>5, <1>6, <1>7, <1>8, SignalsKeepClaims, AppendWork

\* A step of a client that leaves the queue, the claims and the phase alone.
LEMMA ClientWork ==
  ASSUME TypeInv, TypeInv', QueueInv, SameWork(pending_work', pending_work),
         SignalWork \/ compressor' = WorkBroadcast \/ UNCHANGED compressor,
         UNCHANGED work, \A w \in Writers : calls[w] <= calls'[w],
         EmptyBetweenFiles', pc'[Owner] \in Phases => pc[Owner] = pc'[Owner],
         pc[Owner] = "pack_index" => pc'[Owner] = "pack_index"
  PROVE  QueueInv'
<1>1. AllJoined'
  BY SignalsKeepClaims DEF QueueInv, AllJoined, Phases
<1>2. (pc[Owner] = "pack_index") = (pc'[Owner] = "pack_index")
  BY DEF Phases
<1> QED
  BY <1>1, <1>2, SignalsKeepClaims, FrameWork

LEMMA SameQueue ==
  ASSUME UNCHANGED pending_work
  PROVE  SameWork(pending_work', pending_work)
  BY DEF SameWork

LEMMA QueueWakeupWork ==
  ASSUME TypeInv, TypeInv', QueueInv, NEW c \in Clients, QueueWakeup(c)
  PROVE  QueueInv'
<1>1. UNCHANGED <<pending_work, compressor, work, calls>>
  BY DEF QueueWakeup, queueVars, threadVars
<1>2. /\ pc'[Owner] \in Phases => pc[Owner] = pc'[Owner]
      /\ pc[Owner] = "pack_index" => pc'[Owner] = "pack_index"
  BY DEF QueueWakeup, Return, Phases, TypeInv, TypeOK, ClientTypes, Clients
<1>3. \A w \in Writers : calls[w] <= calls'[w]
  BY <1>1, SinkAssumption DEF TypeInv, TypeOK, ClientTypes
<1>4. EmptyBetweenFiles'
  BY <1>1, <1>2 DEF QueueInv, EmptyBetweenFiles, Phases
<1> QED
  BY <1>1, <1>2, <1>3, <1>4, SameQueue, ClientWork

LEMMA MarkWroteLibraryWork ==
  ASSUME TypeInv, TypeInv', QueueInv, MarkWroteLibrary
  PROVE  QueueInv'
<1>1. UNCHANGED <<pending_work, compressor, work, calls>>
  BY DEF MarkWroteLibrary, queueVars, threadVars
<1>2. pc[Owner] = "queued" /\ pc'[Owner] = "idle"
  BY DEF MarkWroteLibrary, TypeInv, TypeOK, ClientTypes, Clients
<1>3. \A w \in Writers : calls[w] <= calls'[w]
  BY <1>1, SinkAssumption DEF TypeInv, TypeOK, ClientTypes
<1>4. EmptyBetweenFiles'
  BY <1>2 DEF EmptyBetweenFiles
<1> QED
  BY <1>1, <1>2, <1>3, <1>4, SameQueue, ClientWork DEF Phases

\* The calls of a writer other than writeExtent.
LEMMA OtherCallsWork ==
  ASSUME TypeInv, TypeInv', QueueInv, NEW w \in Writers,
         \/ FlushPending(w) \/ FlushWakeup(w) \/ SetExtentWriteCallback(w)
         \/ \E nbytes \in MaxBytesChoices : SetMaxBytesInProgress(w, nbytes)
  PROVE  QueueInv'
<1>1. /\ UNCHANGED <<pending_work, work>>
      /\ compressor' = WorkBroadcast \/ UNCHANGED compressor
  BY DEF FlushPending, FlushWakeup, FlushTest, SetExtentWriteCallback,
         SetMaxBytesInProgress, queueVars, threadVars
<1>2. calls' = [calls EXCEPT ![w] = @ + 1] \/ UNCHANGED calls
  BY DEF FlushPending, FlushWakeup, SetExtentWriteCallback, SetMaxBytesInProgress, Call
<1>3. \A u \in Writers : calls[u] <= calls'[u]
  <2>1. \A u \in Writers : calls[u] \in Nat
    BY SinkAssumption DEF TypeInv, TypeOK, ClientTypes
  <2> QED
    BY <1>2, <2>1 DEF TypeInv, TypeOK, ClientTypes
<1>4. \A s \in Phases : pc'[Owner] = s <=> pc[Owner] = s
  <2>1. CASE pc' = QueueBroadcast
    BY <2>1, NotifiedPhase
  <2>2. CASE pc' = [pc EXCEPT ![w] = IF bytes_in_progress > 0 THEN "flush_wait"
                                                              ELSE "idle"]
    BY <2>2, SinkAssumption DEF TypeInv, TypeOK, ClientTypes
  <2>3. CASE UNCHANGED pc
    BY <2>3
  <2> QED
    BY <2>1, <2>2, <2>3
    DEF FlushPending, FlushWakeup, FlushTest, SetExtentWriteCallback,
        SetMaxBytesInProgress
<1>5. EmptyBetweenFiles'
  BY <1>1, <1>4 DEF QueueInv, EmptyBetweenFiles, Phases
<1> QED
  BY <1>1, <1>3, <1>4, <1>5, SameQueue, ClientWork DEF Phases

LEMMA RemoveStatsUpdateWork ==
  ASSUME TypeInv, TypeInv', QueueInv, NEW w \in Writers, RemoveStatsUpdate(w)
  PROVE  QueueInv'
<1>1. pending_work \in Seq(ToCompress)
  BY DEF TypeInv, TypeOK, QueueTypes
<1>2. SameWork(pending_work', pending_work)
  BY <1>1, ElementType DEF RemoveStatsUpdate, SameWork, ToCompress
<1>3. UNCHANGED <<compressor, work, calls>> /\ pc'[Owner] = pc[Owner]
  BY SinkAssumption DEF RemoveStatsUpdate, threadVars, TypeInv, TypeOK, ClientTypes
<1>4. \A u \in Writers : calls[u] <= calls'[u]
  BY <1>3, SinkAssumption DEF TypeInv, TypeOK, ClientTypes
<1>5. EmptyBetweenFiles'
  BY <1>1, <1>3 DEF RemoveStatsUpdate, QueueInv, EmptyBetweenFiles
<1> QED
  BY <1>2, <1>3, <1>4, <1>5, ClientWork

LEMMA PackWork ==
  ASSUME TypeInv, TypeInv', QueueInv, NEW t \in Compressors, Pack(t)
  PROVE  QueueInv'
<1>1. PICK i \in 1..Len(pending_work) :
        pending_work' = [pending_work EXCEPT ![i].compressed = PackedSize[work[t]]]
  BY DEF Pack
<1>2. pending_work \in Seq(ToCompress)
  BY DEF TypeInv, TypeOK, QueueTypes
<1>3. SameWork(pending_work', pending_work)
  BY <1>1, <1>2, ElementType DEF SameWork, ToCompress
<1>4. \A u \in Compressors : /\ Packing(u)' <=> Packing(u)
                             /\ compressor[u] = "none" => compressor'[u] = "none"
  BY DEF Pack, Packing, TypeInv, TypeOK, ThreadTypes
<1>5. UNCHANGED <<work, calls, pc>>
  BY DEF Pack, clientVars
<1>6. \A u \in Writers : calls[u] <= calls'[u]
  BY <1>5, SinkAssumption DEF TypeInv, TypeOK, ClientTypes
<1>7. EmptyBetweenFiles' /\ AllJoined'
  BY <1>1, <1>2, <1>4, <1>5 DEF QueueInv, EmptyBetweenFiles, AllJoined
<1> QED
  BY <1>3, <1>4, <1>5, <1>6, <1>7, FrameWork

\* What the claim of a compressor leaves of the rest of the invariant.
LEMMA ClaimRest ==
  ASSUME TypeInv, TypeInv', QueueInv, NEW t \in Compressors, NEW p \in Seq(ToCompress),
         NEW b, NEW ok, CompressorLoop(t, p, b, ok), compressor[t] # "none",
         Len(p) = Len(pending_work),
         \A i \in 1..Len(p) : p[i].extent = pending_work[i].extent,
         OthersClaims(t, p), UNCHANGED calls,
         \A s \in Phases : pc'[Owner] = s <=> pc[Owner] = s
  PROVE  QueueInv'
<1>1. Distinct(p) /\ FromPastCalls(p, calls)
  BY DEF QueueInv, Distinct, FromPastCalls
<1>2. (pc[Owner] = "pack_index") = (pc'[Owner] = "pack_index")
  BY DEF Phases
<1>3. /\ WorkStaysQueued'
      /\ Len(pending_work') = Len(p)
      /\ \A i \in 1..Len(p) : pending_work'[i].extent = p[i].extent
      /\ compressor'[t] # "none"
      /\ \A u \in Compressors \ {t} : compressor'[u] = compressor[u]
  BY <1>1, <1>2, ClaimWork
<1>4. Distinct(pending_work)' /\ FromPastCalls(pending_work, calls)'
  BY <1>1, <1>3 DEF Distinct, FromPastCalls
<1>5. EmptyBetweenFiles'
  <2>1. pending_work \in Seq(ToCompress) /\ pending_work' \in Seq(ToCompress)
    BY DEF TypeInv, TypeOK, QueueTypes
  <2> QED
    BY <1>3, <2>1 DEF QueueInv, EmptyBetweenFiles, Phases
<1>6. AllJoined'
  BY <1>3 DEF QueueInv, AllJoined, Phases
<1> QED
  BY <1>3, <1>4, <1>5, <1>6 DEF QueueInv

LEMMA CompressorRunWork ==
  ASSUME TypeInv, TypeInv', QueueInv, NEW t \in Compressors, CompressorRun(t)
  PROVE  QueueInv'
<1>1. /\ compressor[t] = "running"
      /\ CompressorLoop(t, pending_work, bytes_in_progress, TRUE)
      /\ UNCHANGED <<pc, calls>>
  BY DEF CompressorRun, clientVars
<1>2. pending_work \in Seq(ToCompress)
  BY DEF TypeInv, TypeOK, QueueTypes
<1>3. ~Packing(t)
  BY <1>1 DEF Packing
<1>4. OthersClaims(t, pending_work)
  BY <1>3 DEF OthersClaims, QueueInv, WorkStaysQueued, ClaimedWorkIsQueued,
              ClaimsAreExclusive, ClaimedByACompressor, Positions
<1> QED
  BY <1>1, <1>2, <1>4, ClaimRest

LEMMA CompressorDoneWork ==
  ASSUME TypeInv, TypeInv', QueueInv, NEW t \in Compressors, CompressorDone(t)
  PROVE  QueueInv'
<1>1. PICK i \in 1..Len(pending_work) :
        /\ pending_work[i].extent = work[t]
        /\ pc' = Notified(Completed(i), CompletedBytes(i))
        /\ \E ok : CompressorLoop(t, Completed(i), CompletedBytes(i), ok)
  BY DEF CompressorDone
<1>2. compressor[t] = "packed" /\ UNCHANGED calls
  BY DEF CompressorDone
<1>3. \A s \in Phases : pc'[Owner] = s <=> pc[Owner] = s
  BY <1>1, NotifiedPhase
<1>4. pending_work \in Seq(ToCompress)
  BY DEF TypeInv, TypeOK, QueueTypes
<1>5. /\ Completed(i) \in Seq(ToCompress)
      /\ Len(Completed(i)) = Len(pending_work)
      /\ \A j \in 1..Len(pending_work) :
           /\ Completed(i)[j].extent = pending_work[j].extent
           /\ j # i => Completed(i)[j].in_progress = pending_work[j].in_progress
      /\ ~Completed(i)[i].in_progress
  <2>1. pending_work[i] \in ToCompress
    BY <1>4
  <2>2. Completed(i) = [pending_work EXCEPT ![i] =
                          [@ EXCEPT !.in_progress = FALSE, !.to_update = NoStats]]
    BY <1>4, <2>1 DEF Completed, ToCompress
  <2> DEFINE x == [pending_work[i] EXCEPT !.in_progress = FALSE, !.to_update = NoStats]
  <2>3. /\ x \in ToCompress /\ x.extent = pending_work[i].extent /\ ~x.in_progress
        /\ Completed(i) = [pending_work EXCEPT ![i] = x]
    BY <2>1, <2>2 DEF ToCompress
  <2> HIDE DEF x
  <2> QED
    BY <1>4, <2>3, SeqExcept
<1>6. OthersClaims(t, Completed(i))
  <2>1. Packing(t)
    BY <1>2 DEF Packing
  <2>2. \A u \in Compressors \ {t} : Packing(u) => work[u] # work[t]
    BY <2>1 DEF QueueInv, WorkStaysQueued, ClaimsAreExclusive
  <2>3. ASSUME NEW u \in Compressors \ {t}, Packing(u)
        PROVE  \E j \in 1..Len(Completed(i)) : /\ Completed(i)[j].extent = work[u]
                                             /\ Completed(i)[j].in_progress
    <3>1. PICK j \in 1..Len(pending_work) : /\ pending_work[j].extent = work[u]
                                           /\ pending_work[j].in_progress
      BY <2>3 DEF QueueInv, WorkStaysQueued, ClaimedWorkIsQueued, Positions
    <3>2. j # i
      BY <1>1, <2>2, <2>3, <3>1
    <3> QED
      BY <1>5, <3>1, <3>2
  <2>4. ASSUME NEW j \in 1..Len(Completed(i)), Completed(i)[j].in_progress
        PROVE  \/ \E u \in Compressors \ {t} :
                    Packing(u) /\ work[u] = Completed(i)[j].extent
               \/ pc[Owner] = "pack_index"
    <3>1. j \in 1..Len(pending_work) /\ j # i /\ pending_work[j].in_progress
      BY <1>5, <2>4
    <3>2. pending_work[j].extent # work[t]
      BY <1>1, <3>1 DEF QueueInv, Distinct
    <3> QED
      BY <1>5, <3>1, <3>2 DEF QueueInv, WorkStaysQueued, ClaimedByACompressor, Positions
  <2> QED
    BY <2>3, <2>4 DEF OthersClaims, QueueInv, WorkStaysQueued, ClaimsAreExclusive
<1> QED
  BY <1>1, <1>2, <1>3, <1>5, <1>6, ClaimRest

LEMMA WriteOutWork ==
  ASSUME TypeInv, TypeInv', QueueInv, NEW a, WriteOut(a)
  PROVE  QueueInv'
<1>1. UNCHANGED <<pending_work, compressor, work, calls, pc>>
  BY DEF WriteOut, queueVars, threadVars, clientVars
<1>2. \A u \in Writers : calls[u] <= calls'[u]
  BY <1>1, SinkAssumption DEF TypeInv, TypeOK, ClientTypes
<1>3. EmptyBetweenFiles'
  BY <1>1 DEF QueueInv, EmptyBetweenFiles
<1> QED
  BY <1>1, <1>2, <1>3, SameQueue, ClientWork

\* One round of the writer thread, whatever it did before.
LEMMA WriterLoopWork ==
  ASSUME TypeInv, TypeInv', QueueInv, WriterLoop, UNCHANGED <<compressor, work, calls>>,
         \A s \in Phases : pc'[Owner] = s <=> pc[Owner] = s
  PROVE  QueueInv'
<1>1. CASE UNCHANGED pending_work
  <2>1. \A u \in Writers : calls[u] <= calls'[u]
    BY SinkAssumption DEF TypeInv, TypeOK, ClientTypes
  <2>2. EmptyBetweenFiles'
    BY <1>1 DEF QueueInv, EmptyBetweenFiles, Phases
  <2> QED
    BY <1>1, <2>1, <2>2, SameQueue, ClientWork DEF Phases
<1>2. CASE BeginWriteOut("writer", pending_work)
  <2>1. pending_work \in Seq(ToCompress) /\ SameWork(pending_work, pending_work)
    BY DEF SameWork, TypeInv, TypeOK, QueueTypes
  <2>2. (pc[Owner] = "pack_index") = (pc'[Owner] = "pack_index")
    BY DEF Phases
  <2>3. /\ Distinct(pending_work') /\ FromPastCalls(pending_work', calls')
        /\ WorkStaysQueued'
    BY <1>2, <2>1, <2>2, TakeReady DEF QueueInv
  <2>4. EmptyBetweenFiles'
    BY <1>2, <2>1 DEF BeginWriteOut, QueueInv, EmptyBetweenFiles, Phases
  <2>5. AllJoined'
    BY DEF QueueInv, AllJoined, Phases
  <2> QED
    BY <2>3, <2>4, <2>5 DEF QueueInv
<1> QED
  BY <1>1, <1>2 DEF WriterLoop

LEMMA WriterWork ==
  ASSUME TypeInv, TypeInv', QueueInv, WriterRun \/ WriterDone
  PROVE  QueueInv'
<1>1. WriterLoop /\ UNCHANGED <<compressor, work, calls>>
  BY DEF WriterRun, WriterDone, clientVars
<1>2. \A s \in Phases : pc'[Owner] = s <=> pc[Owner] = s
  BY NotifiedPhase DEF WriterRun, WriterDone, NotifiedAfter, clientVars
<1> QED
  BY <1>1, <1>2, WriterLoopWork

LEMMA CloseBeginWork ==
  ASSUME TypeInv, TypeInv', QueueInv, CloseBegin
  PROVE  QueueInv'
<1>1. UNCHANGED <<pending_work, work, calls>> /\ compressor' = WorkBroadcast
  BY DEF CloseBegin, queueVars
<1>2. pc[Owner] = "idle" /\ pc'[Owner] = "join_compressors"
  BY DEF CloseBegin, TypeInv, TypeOK, ClientTypes, Clients
<1>3. \A u \in Writers : calls[u] <= calls'[u]
  BY <1>1, SinkAssumption DEF TypeInv, TypeOK, ClientTypes
<1>4. EmptyBetweenFiles'
  BY <1>2 DEF EmptyBetweenFiles
<1> QED
  BY <1>1, <1>2, <1>3, <1>4, SameQueue, ClientWork DEF Phases

LEMMA JoinCompressorsWork ==
  ASSUME TypeInv, TypeInv', QueueInv, JoinCompressors
  PROVE  QueueInv'
<1>1. /\ UNCHANGED <<pending_work, work, calls>>
      /\ \A t \in Compressors : compressor[t] = "exited" /\ compressor'[t] = "none"
  BY DEF JoinCompressors, queueVars
<1>2. pc[Owner] = "join_compressors" /\ pc'[Owner] = "join_writer"
  BY DEF JoinCompressors, TypeInv, TypeOK, ClientTypes, Clients
<1>3. \A t \in Compressors : ~Packing(t) /\ ~Packing(t)'
  BY <1>1 DEF Packing
<1>4. \A u \in Writers : calls[u] <= calls'[u]
  BY <1>1, SinkAssumption DEF TypeInv, TypeOK, ClientTypes
<1>5. EmptyBetweenFiles' /\ AllJoined'
  BY <1>1, <1>2 DEF EmptyBetweenFiles, AllJoined
<1> QED
  BY <1>1, <1>2, <1>3, <1>4, <1>5, SameQueue, FrameWork

LEMMA JoinWriterWork ==
  ASSUME TypeInv, TypeInv', QueueInv, JoinWriter
  PROVE  QueueInv'
<1>1. /\ UNCHANGED <<compressor, work, calls>>
      /\ BeginWriteOut("closer", pending_work)
  BY DEF JoinWriter
<1>2. pc[Owner] = "join_writer" /\ pc'[Owner] = "drain"
  BY DEF JoinWriter, TypeInv, TypeOK, ClientTypes, Clients
<1>3. pending_work \in Seq(ToCompress) /\ SameWork(pending_work, pending_work)
  BY DEF SameWork, TypeInv, TypeOK, QueueTypes
<1>4. /\ Distinct(pending_work') /\ FromPastCalls(pending_work', calls')
      /\ WorkStaysQueued'
  BY <1>1, <1>2, <1>3, TakeReady DEF QueueInv
<1>5. EmptyBetweenFiles' /\ AllJoined'
  BY <1>1, <1>2 DEF QueueInv, EmptyBetweenFiles, AllJoined
<1> QED
  BY <1>4, <1>5 DEF QueueInv

\* The closer puts the index on an empty queue and works on it itself.
LEMMA CloseIndexWork ==
  ASSUME TypeInv, TypeInv', QueueInv, ~aborted', CloseIndex
  PROVE  QueueInv'
<1> DEFINE x == [NewWork(<<Index, nfiles>>, NoStats) EXCEPT !.in_progress = TRUE]
<1>1. pending_work = << >> /\ pending_work' = Append(pending_work, x)
  BY DEF CloseIndex, Invariant
<1>2. UNCHANGED <<compressor, work, calls>> /\ pc[Owner] = "drain"
  BY DEF CloseIndex, threadVars
<1>3. pc'[Owner] = "pack_index"
  BY NotifiedType DEF CloseIndex, NotifiedAfter, TypeInv, TypeOK, ClientTypes, Clients
<1>4. x.extent[1] \notin Writers
  BY SinkAssumption DEF NewWork
<1> HIDE DEF x
<1>5. Len(pending_work') = 1 /\ pending_work'[1] = x
  BY <1>1
<1>6. \A t \in Compressors : ~Packing(t) /\ ~Packing(t)' /\ compressor'[t] = "none"
  BY <1>2 DEF QueueInv, AllJoined, Packing
<1>7. Distinct(pending_work)' /\ FromPastCalls(pending_work, calls)'
  BY <1>4, <1>5 DEF Distinct, FromPastCalls
<1>8. EmptyBetweenFiles' /\ AllJoined'
  BY <1>3, <1>6 DEF EmptyBetweenFiles, AllJoined
<1>9. WorkStaysQueued'
  BY <1>3, <1>6 DEF WorkStaysQueued, ClaimedWorkIsQueued, ClaimsAreExclusive,
                    ClaimedByACompressor
<1> QED
  BY <1>7, <1>8, <1>9 DEF QueueInv

LEMMA PackIndexWork ==
  ASSUME TypeInv, TypeInv', QueueInv, ~aborted', PackIndex
  PROVE  QueueInv'
<1> DEFINE e == <<Index, nfiles>>
           q == [pending_work EXCEPT ![1].in_progress = FALSE,
                                     ![1].compressed = PackedSize[e]]
<1>1. Len(pending_work) = 1 /\ BeginWriteOut("closer", q)
  BY DEF PackIndex, Invariant
<1>2. UNCHANGED <<compressor, work, calls>> /\ pc[Owner] = "pack_index"
  BY DEF PackIndex, threadVars
<1>3. pc'[Owner] = "write_index"
  BY DEF PackIndex, TypeInv, TypeOK, ClientTypes, Clients
<1>4. pending_work \in Seq(ToCompress) /\ PackedSize[e] \in Nat
  BY <1>2, IndexExtent, SinkAssumption DEF TypeInv, TypeOK, QueueTypes
<1>5. /\ Len(q) = 1 /\ q[1].extent = pending_work[1].extent /\ ~q[1].in_progress
      /\ q \in Seq(ToCompress)
  <2>1. Len(pending_work) = 1 /\ Len(pending_work) > 0
    BY <1>1
  <2> HIDE DEF e
  <2>2. /\ Len(q) = Len(pending_work) /\ q[1].extent = pending_work[1].extent
        /\ ~q[1].in_progress /\ q \in Seq(ToCompress)
    BY <1>4, <2>1, FirstPacked
  <2> QED
    BY <2>1, <2>2
<1> HIDE DEF e, q
<1>6. PICK n \in 0..1 : pending_work' = SubSeq(q, n + 1, 1)
  BY <1>1, <1>5 DEF BeginWriteOut
<1>7. \/ pending_work' = << >>
      \/ Len(pending_work') = 1 /\ pending_work'[1] = q[1]
  BY <1>5, <1>6
<1>8. \A t \in Compressors : ~Packing(t)' /\ compressor'[t] = "none"
  BY <1>2 DEF QueueInv, AllJoined, Packing
<1>9. Distinct(pending_work)' /\ FromPastCalls(pending_work, calls)'
  BY <1>1, <1>2, <1>5, <1>7 DEF QueueInv, Distinct, FromPastCalls
<1>10. EmptyBetweenFiles' /\ AllJoined'
  BY <1>3, <1>8 DEF EmptyBetweenFiles, AllJoined
<1>11. WorkStaysQueued'
  BY <1>5, <1>7, <1>8 DEF WorkStaysQueued, ClaimedWorkIsQueued, ClaimsAreExclusive,
                         ClaimedByACompressor, Positions
<1> QED
  BY <1>9, <1>10, <1>11 DEF QueueInv

LEMMA SealWork ==
  ASSUME TypeInv, TypeInv', QueueInv, ~aborted', Seal
  PROVE  QueueInv'
<1>1. pending_work = << >> /\ UNCHANGED <<pending_work, compressor, work, calls>>
  BY DEF Seal, Invariant, threadVars
<1>2. pc[Owner] = "write_index" /\ pc'[Owner] = "closed"
  BY NotifiedType DEF Seal, NotifiedAfter, TypeInv, TypeOK, ClientTypes, Clients
<1>3. \A t \in Compressors : ~Packing(t)' /\ compressor'[t] = "none"
  BY <1>1, <1>2 DEF QueueInv, AllJoined, Packing
<1> QED
  BY <1>1, <1>3
  DEF QueueInv, Distinct, FromPastCalls, EmptyBetweenFiles, AllJoined, WorkStaysQueued,
      ClaimedWorkIsQueued, ClaimsAreExclusive, ClaimedByACompressor, Positions

\* Every step preserves the invariant.
LEMMA WorkStep == WorkInv /\ TypeInv' /\ [Next]_vars => WorkInv'
<1> SUFFICES ASSUME WorkInv, TypeInv', [Next]_vars, ~aborted' PROVE QueueInv'
  BY DEF WorkInv
<1>1. CASE UNCHANGED vars
  BY <1>1 DEF vars, clientVars, queueVars, threadVars, WorkInv, QueueInv, Distinct,
              FromPastCalls, EmptyBetweenFiles, AllJoined, WorkStaysQueued, Packing,
              ClaimedWorkIsQueued, ClaimsAreExclusive, ClaimedByACompressor, Positions
<1>2. CASE Next /\ ~UNCHANGED vars
  <2>1. TypeInv /\ QueueInv /\ ~aborted
    BY <1>2 DEF WorkInv, Next
  <2> USE <1>2, <2>1
  <2>2. CASE Open
    BY <2>2, OpenWork
  <2>3. CASE CloseBegin
    BY <2>3, CloseBeginWork
  <2>4. CASE OwnerStep
    BY <2>4, QueueLibraryWork, QueueWakeupWork, MarkWroteLibraryWork,
       JoinCompressorsWork, JoinWriterWork, WriteOutWork, CloseIndexWork,
       PackIndexWork, SealWork
    DEF OwnerStep, Clients
  <2>5. CASE \E t \in Compressors : CompressorStep(t)
    BY <2>5, CompressorRunWork, PackWork, CompressorDoneWork DEF CompressorStep
  <2>6. CASE WriterStep
    BY <2>6, WriterWork, WriteOutWork DEF WriterStep
  <2>7. ASSUME NEW w \in Writers, NewCall(w)
        PROVE  QueueInv'
    BY <2>7, WriteExtentWork, OtherCallsWork, RemoveStatsUpdateWork DEF NewCall
  <2>8. ASSUME NEW w \in Writers, Wakeup(w)
        PROVE  QueueInv'
    BY <2>8, QueueWakeupWork, OtherCallsWork DEF Wakeup, Clients
  <2> QED
    BY <2>2, <2>3, <2>4, <2>5, <2>6, <2>7, <2>8 DEF Next, Finished
<1> QED
  BY <1>1, <1>2

\* What a compressor packs without the mutex stays on the queue, claimed by it
\* alone, until it says so (DataSeriesSink.cpp:499: "the work pointer could
\* vanish under us"), for any number of compressors.  A failed assertion ends
\* the process, so nothing is claimed of the state it leaves.
THEOREM WorkIsNeverLost == Spec => [](NoAssertionFails => WorkStaysQueued)
<1>1. Init => WorkInv
  BY TypeInit, QueueInvInit DEF WorkInv
<1>2. WorkInv /\ TypeInv' /\ [Next]_vars => WorkInv'
  BY WorkStep
<1>3. WorkInv => (NoAssertionFails => WorkStaysQueued)
  BY DEF WorkInv, QueueInv, NoAssertionFails
<1>4. WorkInv => TypeInv
  BY DEF WorkInv
<1>5. TypeInv /\ [Next]_vars => TypeInv'
  BY TypeStep
<1> QED
  BY <1>1, <1>2, <1>3, <1>4, <1>5, PTL DEF Spec

----------------------------------------------------------------------------
\* The owner's place decides what the threads and the file are like

Opening == {"opened", "queue_wait", "queue_woken", "queued"}
Closing == {"join_compressors", "join_writer", "drain", "pack_index", "write_index"}
Accepting == Opening \cup {"idle"}
Compressing == Accepting \cup {"join_compressors"}
WithoutWriter == {"closed", "drain", "pack_index", "write_index"}

OwnerPhase ==
  /\ pc[Owner] \in {"closed"} \cup Accepting \cup Closing
  /\ keep_going <=> pc[Owner] \in Accepting
  /\ wrote_library <=> pc[Owner] \in {"idle"} \cup Closing
  /\ pc[Owner] = "closed" => cur_offset = -1 /\ index_series = << >>
  /\ pc[Owner] # "closed" => cur_offset > 0
  /\ \A w \in Writers : pc[w] \in {"queue_wait", "queue_woken"} => pc[Owner] = "idle"

\* A file without compressors has no writer thread either, and no extent can be
\* queued.
ThreadPhase ==
  /\ Compressors # {}
  /\ pc[Owner] \in Compressing => /\ ncompressors = Cardinality(Compressors)
                                  /\ \A t \in Compressors : compressor[t] # "none"
  /\ pc[Owner] \notin Compressing => ncompressors = 0
  /\ writer = "none" <=> pc[Owner] \in WithoutWriter
  /\ keep_going => writer # "exited" /\ \A t \in Compressors : compressor[t] # "exited"

BatchPhase ==
  /\ writer # "writing" => out["writer"] = NoBatch
  /\ pc[Owner] \notin {"drain", "write_index"} => out["closer"] = NoBatch

\* Once a compressor has left nothing is left to compress; once all have, all is
\* ready to be written.
QueuePhase ==
  /\ (\E t \in Compressors : compressor[t] = "exited") =>
       \A i \in Positions : ~Unclaimed(pending_work[i])
  /\ pc[Owner] = "join_writer" => \A i \in Positions : readyToWrite(pending_work[i])
  /\ pc[Owner] \in {"drain", "write_index"} => pending_work = << >>
  /\ pc[Owner] = "pack_index" =>
       pending_work = <<[NewWork(<<Index, nfiles>>, NoStats) EXCEPT !.in_progress = TRUE]>>

\* What is ready has been packed and has no Stats to update.
Item(i) == /\ i.compressed \in {0, PackedSize[i.extent]}
           /\ readyToWrite(i) => i.to_update = NoStats

ItemPhase ==
  /\ \A i \in Positions : Item(pending_work[i])
  /\ \A a \in Writing : \A i \in 1..Len(out[a].to_write) :
       Item(out[a].to_write[i]) /\ readyToWrite(out[a].to_write[i])
  /\ \A t \in Compressors : compressor[t] = "packed" =>
       \A i \in Positions : pending_work[i].extent = work[t] =>
         pending_work[i].compressed = PackedSize[work[t]]

PhaseInv == OwnerPhase /\ ThreadPhase /\ BatchPhase /\ QueuePhase /\ ItemPhase

LEMMA PhaseInit == Compressors # {} /\ Init => PhaseInv
<1> SUFFICES ASSUME Compressors # {}, Init PROVE PhaseInv
  OBVIOUS
<1> USE DEF Init
<1>1. OwnerPhase /\ ThreadPhase /\ BatchPhase
  BY SinkAssumption
  DEF OwnerPhase, ThreadPhase, BatchPhase, Opening, Closing, Accepting, Compressing,
      WithoutWriter, Clients, Writing
<1>2. QueuePhase /\ ItemPhase
  BY DEF QueuePhase, ItemPhase, Positions, Clients, NoBatch, Writing
<1> QED
  BY <1>1, <1>2 DEF PhaseInv

\* Next without its nesting.
LEMMA NextCases ==
  ASSUME Next
  PROVE  \/ Open \/ CloseBegin \/ QueueLibrary \/ MarkWroteLibrary \/ JoinCompressors
         \/ JoinWriter \/ CloseIndex \/ PackIndex \/ Seal \/ WriterRun \/ WriterDone
         \/ \E a \in Writing : WriteOut(a)
         \/ \E c \in Clients : QueueWakeup(c)
         \/ \E t \in Compressors : CompressorRun(t) \/ Pack(t) \/ CompressorDone(t)
         \/ \E w \in Writers :
              \/ WriteExtent(w) \/ FlushPending(w) \/ FlushWakeup(w)
              \/ SetExtentWriteCallback(w) \/ RemoveStatsUpdate(w)
              \/ \E nbytes \in MaxBytesChoices : SetMaxBytesInProgress(w, nbytes)
         \/ UNCHANGED vars
  BY DEF Next, OwnerStep, CompressorStep, WriterStep, NewCall, Wakeup, Finished, Writing,
         Clients

\* The wake-ups change nobody's phase.
LEMMA WokenPhase ==
  ASSUME TypeInv, NEW p, NEW b, NEW q, q = Notified(p, b) \/ q = QueueBroadcast \/ q = pc
  PROVE  /\ q \in [Clients -> ClientPlaces]
         /\ q[Owner] = pc[Owner] \/ (pc[Owner] = "queue_wait" /\ q[Owner] = "queue_woken")
                                \/ (pc[Owner] = "flush_wait" /\ q[Owner] = "flush_woken")
         /\ \A c \in Clients : q[c] \in {"queue_wait", "queue_woken"}
                               <=> pc[c] \in {"queue_wait", "queue_woken"}
  BY DEF TypeInv, TypeOK, ClientTypes, ClientPlaces, Clients, Notified, QueueBroadcast, Woken

\* Writing goes on only while there is a file, and what is written is an extent.
LEMMA BatchOpen ==
  ASSUME TypeInv, PhaseInv, NEW a \in Writing, out[a].to_write # << >>
  PROVE  /\ pc[Owner] # "closed" /\ cur_offset > 0
         /\ out[a].to_write \in Seq(ToCompress) /\ out[a].bytes \in Nat
         /\ Head(out[a].to_write) = out[a].to_write[1] /\ 1 \in 1..Len(out[a].to_write)
         /\ Head(out[a].to_write) \in ToCompress
         /\ a = "writer" => writer = "writing" /\ pc[Owner] \notin WithoutWriter
         /\ a = "closer" => pc[Owner] \in {"drain", "write_index"}
<1>1. /\ out[a].to_write \in Seq(ToCompress) /\ out[a].bytes \in Nat
      /\ out["writer"] = NoBatch => out["writer"].to_write = << >>
      /\ out["closer"] = NoBatch => out["closer"].to_write = << >>
  BY DEF TypeInv, TypeOK, OutTypes, NoBatch
<1>2. /\ a = "writer" => writer = "writing" /\ pc[Owner] \notin WithoutWriter
      /\ a = "closer" => pc[Owner] \in {"drain", "write_index"}
  BY <1>1 DEF PhaseInv, BatchPhase, ThreadPhase
<1>3. pc[Owner] # "closed" /\ cur_offset > 0
  BY <1>2 DEF PhaseInv, OwnerPhase, WithoutWriter, Writing
<1> QED
  BY <1>1, <1>2, <1>3

LEMMA OwnerPhaseStep ==
  ASSUME TypeInv, TypeInv', ~aborted, ~aborted', PhaseInv, QueueInv, Next
  PROVE  OwnerPhase'
<1> USE DEF OwnerPhase, Opening, Closing, Accepting
<1>0. /\ pc \in [Clients -> ClientPlaces] /\ Owner \in Clients
      /\ \A w \in Writers : w \in Clients /\ w # Owner
      /\ cur_offset \in Int /\ keep_going \in BOOLEAN /\ wrote_library \in BOOLEAN
  BY SinkAssumption DEF TypeInv, TypeOK, ClientTypes, Clients, FileTypes, ThreadTypes
<1>1. OwnerPhase
  BY DEF PhaseInv
<1>2. CASE Open
  BY <1>0, <1>1, <1>2, SinkAssumption DEF Open, HeaderSize
<1>3. CASE CloseBegin
  BY <1>0, <1>1, <1>3 DEF CloseBegin, NoWriteInProgress, fileVars
<1>4. CASE QueueLibrary
  BY <1>0, <1>1, <1>4 DEF QueueLibrary, queueWriteExtent, Return, fileVars
<1>5. CASE MarkWroteLibrary
  BY <1>0, <1>1, <1>5 DEF MarkWroteLibrary
<1>6. CASE JoinCompressors
  BY <1>0, <1>1, <1>6 DEF JoinCompressors, fileVars
<1>7. CASE JoinWriter
  BY <1>0, <1>1, <1>7 DEF JoinWriter, fileVars
<1>8. CASE CloseIndex
  BY <1>0, <1>1, <1>8, WokenPhase DEF CloseIndex, NotifiedAfter
<1>9. CASE PackIndex
  BY <1>0, <1>1, <1>9 DEF PackIndex
<1>10. CASE Seal
  BY <1>0, <1>1, <1>10, WokenPhase DEF Seal, NotifiedAfter
<1>11. CASE WriterRun \/ WriterDone
  BY <1>0, <1>1, <1>11, WokenPhase, SMTT(30) DEF WriterRun, WriterDone, NotifiedAfter, clientVars, fileVars
<1>12. ASSUME NEW a \in Writing, WriteOut(a)
       PROVE  OwnerPhase'
  <2>1. cur_offset' > 0
    <3>1. Head(out[a].to_write).compressed \in Nat
      BY <1>12, BatchOpen DEF WriteOut, ToCompress
    <3> QED
      BY <1>0, <1>12, <3>1, BatchOpen DEF WriteOut
  <2>2. pc[Owner] # "closed"
    BY <1>12, BatchOpen DEF WriteOut
  <2> QED
    BY <1>1, <1>12, <2>1, <2>2 DEF WriteOut, clientVars
<1>13. ASSUME NEW c \in Clients, QueueWakeup(c)
       PROVE  OwnerPhase'
  BY <1>0, <1>1, <1>13 DEF QueueWakeup, Return, fileVars
<1>14. ASSUME NEW t \in Compressors, CompressorRun(t) \/ Pack(t) \/ CompressorDone(t)
       PROVE  OwnerPhase'
  <2>1. CASE CompressorRun(t) \/ Pack(t)
    <3>1. UNCHANGED <<clientVars, fileVars, keep_going>>
      BY <2>1 DEF CompressorRun, Pack
    <3> QED
      BY <1>1, <3>1 DEF clientVars, fileVars
  <2>2. CASE CompressorDone(t)
    <3>1. /\ \E p, b : pc' = Notified(p, b)
          /\ UNCHANGED <<fileVars, keep_going>>
      BY <2>2 DEF CompressorDone
    <3> QED
      BY <1>0, <1>1, <3>1, WokenPhase DEF fileVars
  <2> QED
    BY <1>14, <2>1, <2>2
<1>15. ASSUME NEW w \in Writers, WriteExtent(w)
       PROVE  OwnerPhase'
  BY <1>0, <1>1, <1>15 DEF WriteExtent, queueWriteExtent, Return, fileVars
<1>16. ASSUME NEW w \in Writers,
              \/ FlushPending(w) \/ FlushWakeup(w) \/ SetExtentWriteCallback(w)
              \/ RemoveStatsUpdate(w)
       PROVE  OwnerPhase'
  BY <1>0, <1>1, <1>16
  DEF FlushPending, FlushWakeup, FlushTest, SetExtentWriteCallback, RemoveStatsUpdate, fileVars
<1>17. ASSUME NEW w \in Writers, NEW nbytes \in MaxBytesChoices,
              SetMaxBytesInProgress(w, nbytes)
       PROVE  OwnerPhase'
  BY <1>0, <1>1, <1>17, WokenPhase DEF SetMaxBytesInProgress, fileVars
<1>18. CASE UNCHANGED vars
  BY <1>1, <1>18 DEF vars, clientVars, fileVars
<1> QED
  BY <1>2, <1>3, <1>4, <1>5, <1>6, <1>7, <1>8, <1>9, <1>10, <1>11, <1>12, <1>13, <1>14,
     <1>15, <1>16, <1>17, <1>18, NextCases

LEMMA WokenOwner ==
  ASSUME TypeInv, OwnerPhase,
         pc' = pc \/ pc' = QueueBroadcast \/ \E p, b : pc' = Notified(p, b)
  PROVE  \/ pc'[Owner] = pc[Owner]
         \/ pc[Owner] = "queue_wait" /\ pc'[Owner] = "queue_woken"
<1>1. pc[Owner] # "flush_wait"
  BY DEF OwnerPhase, Opening, Closing, Accepting
<1> QED
  BY <1>1, WokenPhase

LEMMA ThreadPhaseStep ==
  ASSUME TypeInv, TypeInv', ~aborted, ~aborted', PhaseInv, QueueInv, Next
  PROVE  ThreadPhase'
<1> USE DEF ThreadPhase, Opening, Closing, Accepting, Compressing, WithoutWriter
<1>0. /\ pc \in [Clients -> ClientPlaces] /\ Owner \in Clients
      /\ \A w \in Writers : w \in Clients /\ w # Owner
      /\ compressor \in [Compressors -> CompressorPlaces] /\ ncompressors \in Nat
      /\ writer \in WriterPlaces /\ keep_going \in BOOLEAN
  BY SinkAssumption DEF TypeInv, TypeOK, ClientTypes, Clients, FileTypes, ThreadTypes
<1>1. OwnerPhase /\ ThreadPhase
  BY DEF PhaseInv
<1>2. CASE Open
  BY <1>0, <1>1, <1>2 DEF Open
<1>3. CASE CloseBegin
  BY <1>0, <1>1, <1>3 DEF CloseBegin, WorkBroadcast, WriterSignalled
<1>4. CASE QueueLibrary
  BY <1>0, <1>1, <1>4 DEF QueueLibrary, queueWriteExtent, Return, SignalWork
<1>5. CASE MarkWroteLibrary
  BY <1>0, <1>1, <1>5 DEF MarkWroteLibrary, threadVars
<1>6. CASE JoinCompressors
  BY <1>0, <1>1, <1>6 DEF JoinCompressors, OwnerPhase
<1>7. CASE JoinWriter
  BY <1>0, <1>1, <1>7 DEF JoinWriter, OwnerPhase
<1>8. CASE CloseIndex
  BY <1>0, <1>1, <1>8, WokenPhase DEF CloseIndex, NotifiedAfter, threadVars
<1>9. CASE PackIndex
  BY <1>0, <1>1, <1>9 DEF PackIndex, threadVars
<1>10. CASE Seal
  BY <1>0, <1>1, <1>10, WokenPhase DEF Seal, NotifiedAfter, threadVars
<1>11. CASE WriterRun \/ WriterDone
  <2>1. /\ UNCHANGED <<ncompressors, compressor, keep_going>>
        /\ pc' = pc \/ \E p, b : pc' = Notified(p, b)
        /\ writer # "none" /\ writer' # "none" /\ (keep_going => writer' # "exited")
    BY <1>11 DEF WriterRun, WriterDone, WriterLoop, NotifiedAfter, clientVars
  <2>2. pc'[Owner] \in Compressing <=> pc[Owner] \in Compressing
    BY <1>1, <2>1, WokenOwner
  <2>3. pc'[Owner] \in WithoutWriter <=> pc[Owner] \in WithoutWriter
    BY <1>1, <2>1, WokenOwner
  <2> QED
    BY <1>1, <2>1, <2>2, <2>3
<1>12. ASSUME NEW a \in Writing, WriteOut(a)
       PROVE  ThreadPhase'
  <2>1. UNCHANGED <<clientVars, threadVars, keep_going>>
    BY <1>12 DEF WriteOut
  <2> QED
    BY <1>1, <2>1 DEF clientVars, threadVars
<1>13. ASSUME NEW c \in Clients, QueueWakeup(c)
       PROVE  ThreadPhase'
  BY <1>0, <1>1, <1>13 DEF QueueWakeup, Return, threadVars
<1>14. ASSUME NEW t \in Compressors, CompressorRun(t) \/ Pack(t) \/ CompressorDone(t)
       PROVE  ThreadPhase'
  <2>1. /\ UNCHANGED <<ncompressors, keep_going>>
        /\ pc' = pc \/ \E p, b : pc' = Notified(p, b)
        /\ writer' = writer \/ (writer = "waiting" /\ writer' = "running")
    BY <1>14 DEF CompressorRun, Pack, CompressorDone, clientVars, WriterSignalled
  <2>2. /\ compressor[t] # "none" /\ compressor'[t] # "none"
        /\ keep_going => compressor'[t] # "exited"
        /\ \A u \in Compressors \ {t} : compressor'[u] = compressor[u]
    <3>1. \E s \in CompressorPlaces : /\ compressor' = [compressor EXCEPT ![t] = s]
                                      /\ s # "none" /\ (keep_going => s # "exited")
      BY <1>14 DEF CompressorRun, Pack, CompressorDone, CompressorLoop, CompressorPlaces
    <3>2. compressor[t] # "none"
      BY <1>14 DEF CompressorRun, Pack, CompressorDone
    <3> QED
      BY <1>0, <3>1, <3>2
  <2>3. pc'[Owner] \in Compressing <=> pc[Owner] \in Compressing
    BY <1>1, <2>1, WokenOwner
  <2>4. pc'[Owner] \in WithoutWriter <=> pc[Owner] \in WithoutWriter
    BY <1>1, <2>1, WokenOwner
  <2> QED
    BY <1>1, <2>1, <2>2, <2>3, <2>4
<1>15. ASSUME NEW w \in Writers, WriteExtent(w)
       PROVE  ThreadPhase'
  BY <1>0, <1>1, <1>15 DEF WriteExtent, queueWriteExtent, Return, SignalWork
<1>16. ASSUME NEW w \in Writers,
              \/ FlushPending(w) \/ FlushWakeup(w) \/ SetExtentWriteCallback(w)
              \/ RemoveStatsUpdate(w)
       PROVE  ThreadPhase'
  <2>1. UNCHANGED <<threadVars, keep_going>> /\ pc'[Owner] = pc[Owner]
    BY <1>0, <1>16
    DEF FlushPending, FlushWakeup, FlushTest, SetExtentWriteCallback, RemoveStatsUpdate
  <2> QED
    BY <1>1, <2>1 DEF threadVars
<1>17. ASSUME NEW w \in Writers, NEW nbytes \in MaxBytesChoices,
              SetMaxBytesInProgress(w, nbytes)
       PROVE  ThreadPhase'
  <2>1. /\ UNCHANGED <<ncompressors, writer, keep_going>>
        /\ pc' = pc \/ pc' = QueueBroadcast
        /\ compressor' = compressor \/ compressor' = WorkBroadcast
    BY <1>17 DEF SetMaxBytesInProgress
  <2>2. pc'[Owner] \in Compressing <=> pc[Owner] \in Compressing
    BY <1>1, <2>1, WokenOwner
  <2>3. pc'[Owner] \in WithoutWriter <=> pc[Owner] \in WithoutWriter
    BY <1>1, <2>1, WokenOwner
  <2> QED
    BY <1>0, <1>1, <2>1, <2>2, <2>3 DEF WorkBroadcast
<1>18. CASE UNCHANGED vars
  BY <1>1, <1>18 DEF vars, clientVars, threadVars
<1> QED
  BY <1>2, <1>3, <1>4, <1>5, <1>6, <1>7, <1>8, <1>9, <1>10, <1>11, <1>12, <1>13, <1>14,
     <1>15, <1>16, <1>17, <1>18, NextCases

\* A step that leaves the batches alone.
LEMMA SameBatches ==
  ASSUME BatchPhase, UNCHANGED out, writer' = "writing" <=> writer = "writing",
         pc'[Owner] \in {"drain", "write_index"} <=> pc[Owner] \in {"drain", "write_index"}
  PROVE  BatchPhase'
  BY DEF BatchPhase

LEMMA BatchPhaseStep ==
  ASSUME TypeInv, TypeInv', ~aborted, ~aborted', PhaseInv, QueueInv, Next
  PROVE  BatchPhase'
<1> DEFINE D == {"drain", "write_index"}
<1>0. /\ pc \in [Clients -> ClientPlaces] /\ Owner \in Clients
      /\ \A w \in Writers : w \in Clients /\ w # Owner
      /\ out \in [Writing -> [to_write : Seq(ToCompress), bytes : Nat, ewc : Nat]]
      /\ "writer" \in Writing /\ "closer" \in Writing
  BY SinkAssumption DEF TypeInv, TypeOK, ClientTypes, Clients, OutTypes, Writing
<1>1. OwnerPhase /\ ThreadPhase /\ BatchPhase
  BY DEF PhaseInv
<1>2. CASE Open \/ CloseBegin \/ QueueLibrary \/ MarkWroteLibrary \/ JoinCompressors
  <2>1. UNCHANGED out /\ (writer' = "writing" <=> writer = "writing")
    BY <1>1, <1>2 DEF Open, CloseBegin, QueueLibrary, queueWriteExtent, MarkWroteLibrary,
       JoinCompressors, threadVars, WriterSignalled, ThreadPhase, WithoutWriter
  <2>2. pc[Owner] \notin D /\ pc'[Owner] \notin D
    BY <1>0, <1>2 DEF Open, CloseBegin, QueueLibrary, queueWriteExtent, MarkWroteLibrary,
       JoinCompressors, Return
  <2> QED
    BY <1>1, <2>1, <2>2, SameBatches
<1>3. CASE JoinWriter
  <2>1. writer # "writing" /\ writer' = "none" /\ pc'[Owner] = "drain"
    BY <1>0, <1>3 DEF JoinWriter
  <2>2. out'["writer"] = out["writer"]
    BY <1>0, <1>3 DEF JoinWriter, BeginWriteOut
  <2> QED
    BY <1>1, <2>1, <2>2 DEF BatchPhase
<1>4. CASE CloseIndex \/ Seal
  <2>1. /\ pc[Owner] \in D /\ pc'[Owner] \notin D /\ writer' = writer
        /\ out' = [out EXCEPT !["closer"] = NoBatch]
    <3>1. /\ pc[Owner] \in D /\ pc'[Owner] \notin D
      <4>1. CASE CloseIndex
        BY <1>0, <4>1, WokenPhase DEF CloseIndex, NotifiedAfter
      <4>2. CASE Seal
        BY <1>0, <4>2, WokenPhase DEF Seal, NotifiedAfter
      <4> QED
        BY <1>4, <4>1, <4>2
    <3>2. /\ writer' = writer
          /\ out' = [out EXCEPT !["closer"] = NoBatch]
      BY <1>4 DEF CloseIndex, Seal, threadVars
    <3> QED
      BY <3>1, <3>2
  <2> QED
    BY <1>0, <1>1, <2>1 DEF BatchPhase
<1>5. CASE PackIndex
  <2>1. pc'[Owner] = "write_index" /\ writer' = writer /\ out'["writer"] = out["writer"]
    BY <1>0, <1>5 DEF PackIndex, threadVars, BeginWriteOut
  <2> QED
    BY <1>1, <2>1 DEF BatchPhase
<1>6. CASE WriterRun \/ WriterDone
  <2>1. pc'[Owner] \in D <=> pc[Owner] \in D
    <3>1. pc' = pc \/ \E p, b : pc' = Notified(p, b)
      BY <1>6 DEF WriterRun, WriterDone, NotifiedAfter, clientVars
    <3> QED
      BY <1>1, <3>1, WokenOwner
  <2>2. /\ out'["closer"] = out["closer"]
        /\ writer' # "writing" => out'["writer"] = NoBatch
    BY <1>0, <1>6 DEF WriterRun, WriterDone, WriterLoop, BeginWriteOut
  <2> QED
    BY <1>1, <2>1, <2>2 DEF BatchPhase
<1>7. ASSUME NEW a \in Writing, WriteOut(a)
      PROVE  BatchPhase'
  <2>1. /\ UNCHANGED <<clientVars, threadVars>>
        /\ \A u \in Writing : u # a => out'[u] = out[u]
        /\ out[a].to_write # << >>
    BY <1>0, <1>7 DEF WriteOut
  <2>2. /\ a = "writer" => writer = "writing"
        /\ a = "closer" => pc[Owner] \in D
    BY <2>1, BatchOpen
  <2> QED
    BY <1>0, <1>1, <2>1, <2>2 DEF BatchPhase, clientVars, threadVars
<1>8. ASSUME NEW c \in Clients, QueueWakeup(c)
      PROVE  BatchPhase'
  <2>1. UNCHANGED <<out, threadVars>> /\ (pc'[Owner] \in D <=> pc[Owner] \in D)
    BY <1>0, <1>8 DEF QueueWakeup, Return
  <2> QED
    BY <1>1, <2>1, SameBatches DEF threadVars
<1>9. ASSUME NEW t \in Compressors, CompressorRun(t) \/ Pack(t) \/ CompressorDone(t)
      PROVE  BatchPhase'
  <2>1. /\ UNCHANGED out
        /\ pc' = pc \/ \E p, b : pc' = Notified(p, b)
        /\ writer' = writer \/ (writer = "waiting" /\ writer' = "running")
    BY <1>9 DEF CompressorRun, Pack, CompressorDone, clientVars, WriterSignalled
  <2>2. pc'[Owner] \in D <=> pc[Owner] \in D
    BY <1>1, <2>1, WokenOwner
  <2> QED
    BY <1>1, <2>1, <2>2, SameBatches
<1>10. ASSUME NEW w \in Writers,
              \/ WriteExtent(w) \/ FlushPending(w) \/ FlushWakeup(w)
              \/ SetExtentWriteCallback(w) \/ RemoveStatsUpdate(w)
              \/ \E nbytes \in MaxBytesChoices : SetMaxBytesInProgress(w, nbytes)
       PROVE  BatchPhase'
  <2>1. UNCHANGED <<out, writer>>
    BY <1>10 DEF WriteExtent, queueWriteExtent, FlushPending, FlushWakeup, FlushTest,
       SetExtentWriteCallback, RemoveStatsUpdate, SetMaxBytesInProgress, threadVars
  <2>2. \/ \E x : pc' = [pc EXCEPT ![w] = x]
        \/ pc' = QueueBroadcast
        \/ pc' = pc
    BY <1>10 DEF WriteExtent, queueWriteExtent, FlushPending, FlushWakeup, FlushTest,
       SetExtentWriteCallback, RemoveStatsUpdate, SetMaxBytesInProgress
  <2>3. pc'[Owner] \in D <=> pc[Owner] \in D
    BY <1>0, <2>2, WokenPhase
  <2> QED
    BY <1>1, <2>1, <2>3, SameBatches
<1>11. CASE UNCHANGED vars
  BY <1>1, <1>11 DEF vars, clientVars, threadVars, BatchPhase
<1> QED
  BY <1>2, <1>3, <1>4, <1>5, <1>6, <1>7, <1>8, <1>9, <1>10, <1>11, NextCases

----------------------------------------------------------------------------
\* What the steps do to the queue, one element at a time

\* x is the element y with other fields.
IsItem(x, extent, to_update, in_progress, compressed) ==
  x = [extent |-> extent, to_update |-> to_update, in_progress |-> in_progress,
       compressed |-> compressed]

LEMMA ItemFields ==
  ASSUME NEW y \in ToCompress
  PROVE  /\ y.extent \in Extents /\ y.to_update \in Writers \cup {NoStats}
         /\ y.in_progress \in BOOLEAN /\ y.compressed \in Nat
         /\ RawSize[y.extent] \in Nat \ {0} /\ PackedSize[y.extent] \in Nat \ {0}
  BY SinkAssumption DEF ToCompress

LEMMA ChangedItem ==
  ASSUME NEW y \in ToCompress, NEW s \in Writers \cup {NoStats}, NEW b \in BOOLEAN,
         NEW n \in Nat, NEW x, IsItem(x, y.extent, s, b, n)
  PROVE  /\ x \in ToCompress /\ x.extent = y.extent /\ x.to_update = s
         /\ x.in_progress = b /\ x.compressed = n
  BY DEF ToCompress, IsItem

LEMMA ClaimedItem ==
  ASSUME NEW y \in ToCompress, NEW x, IsItem(x, y.extent, y.to_update, TRUE, 0)
  PROVE  /\ x \in ToCompress /\ x.extent = y.extent /\ x.to_update = y.to_update
         /\ x.in_progress = TRUE /\ x.compressed = 0
  BY DEF ToCompress, IsItem

LEMMA FinishedItem ==
  ASSUME NEW y \in ToCompress, NEW x, IsItem(x, y.extent, NoStats, FALSE, y.compressed)
  PROVE  /\ x \in ToCompress /\ x.extent = y.extent /\ x.to_update = NoStats
         /\ x.in_progress = FALSE /\ x.compressed = y.compressed
  BY DEF ToCompress, IsItem

\* A compressor's round either finds nothing or claims one element.
FoundNothing(t, p, b) ==
  /\ \A i \in 1..Len(p) : ~Unclaimed(p[i])
  /\ pending_work' = p /\ bytes_in_progress' = b
  /\ compressor' = [compressor EXCEPT ![t] = IF keep_going THEN "waiting" ELSE "exited"]

Claimed(t, p, b, i, x) ==
  /\ Unclaimed(p[i])
  /\ IsItem(x, p[i].extent, p[i].to_update, TRUE, 0)
  /\ pending_work' = [p EXCEPT ![i] = x]
  /\ bytes_in_progress' = b + RawSize[p[i].extent]
  /\ work' = [work EXCEPT ![t] = p[i].extent]
  /\ compressor' = [compressor EXCEPT ![t] = "packing"]

LEMMA ItemExcept ==
  ASSUME NEW y \in ToCompress, NEW b, NEW s, NEW n
  PROVE  /\ IsItem([y EXCEPT !.in_progress = b], y.extent, y.to_update, b, y.compressed)
         /\ IsItem([y EXCEPT !.in_progress = b, !.to_update = s], y.extent, s, b, y.compressed)
         /\ IsItem([y EXCEPT !.compressed = n], y.extent, y.to_update, y.in_progress, n)
         /\ IsItem([y EXCEPT !.in_progress = b, !.compressed = n], y.extent, y.to_update, b, n)
         /\ IsItem([y EXCEPT !.to_update = s], y.extent, s, y.in_progress, y.compressed)
<1> DEFINE e == y.extent
           u == y.to_update
           i == y.in_progress
           c == y.compressed
<1>1. y = [extent |-> e, to_update |-> u, in_progress |-> i, compressed |-> c]
  BY DEF ToCompress
<1> HIDE DEF e, u, i, c
<1>2. IsItem([y EXCEPT !.in_progress = b], e, u, b, c)
  BY <1>1 DEF IsItem
<1> DEFINE z == [y EXCEPT !.in_progress = b]
<1>7. /\ [y EXCEPT !.in_progress = b, !.to_update = s] = [z EXCEPT !.to_update = s]
      /\ [y EXCEPT !.in_progress = b, !.compressed = n] = [z EXCEPT !.compressed = n]
  BY <1>1
<1>8. z = [extent |-> e, to_update |-> u, in_progress |-> b, compressed |-> c]
  BY <1>2 DEF IsItem
<1> HIDE DEF z
<1>3. IsItem([z EXCEPT !.to_update = s], e, s, b, c)
  BY <1>8 DEF IsItem
<1>4. IsItem([y EXCEPT !.compressed = n], e, u, i, n)
  BY <1>1 DEF IsItem
<1>5. IsItem([z EXCEPT !.compressed = n], e, u, b, n)
  BY <1>8 DEF IsItem
<1>6. IsItem([y EXCEPT !.to_update = s], e, s, i, c)
  BY <1>1 DEF IsItem
<1> QED
  BY <1>2, <1>3, <1>4, <1>5, <1>6, <1>7 DEF e, u, i, c

LEMMA ClaimEffect ==
  ASSUME NEW t \in Compressors, NEW p \in Seq(ToCompress), NEW b, NEW ok,
         CompressorLoop(t, p, b, ok)
  PROVE  FoundNothing(t, p, b) \/ \E i \in 1..Len(p) : \E x : Claimed(t, p, b, i, x)
<1>1. CASE \A i \in 1..Len(p) : ~Unclaimed(p[i])
  BY <1>1 DEF CompressorLoop, FoundNothing
<1>2. CASE \E i \in 1..Len(p) : Unclaimed(p[i])
  <2>1. PICK i \in 1..Len(p) :
          /\ Unclaimed(p[i])
          /\ pending_work' = [p EXCEPT ![i].in_progress = TRUE]
          /\ bytes_in_progress' = b + RawSize[p[i].extent]
          /\ work' = [work EXCEPT ![t] = p[i].extent]
          /\ compressor' = [compressor EXCEPT ![t] = "packing"]
    BY <1>2 DEF CompressorLoop
  <2>2. p[i] \in ToCompress
    OBVIOUS
  <2>3. IsItem([p[i] EXCEPT !.in_progress = TRUE], p[i].extent, p[i].to_update, TRUE, 0)
    <3>1. p[i].compressed = 0
      BY <2>1 DEF Unclaimed
    <3> QED
      BY <2>2, <3>1, ItemExcept
  <2>4. pending_work' = [p EXCEPT ![i] = [p[i] EXCEPT !.in_progress = TRUE]]
    BY <2>1
  <2> QED
    BY <2>1, <2>3, <2>4 DEF Claimed
<1> QED
  BY <1>1, <1>2

LEMMA CompletedEffect ==
  ASSUME NEW i \in 1..Len(pending_work), pending_work \in Seq(ToCompress)
  PROVE  \E x : /\ IsItem(x, pending_work[i].extent, NoStats, FALSE, pending_work[i].compressed)
                /\ Completed(i) = [pending_work EXCEPT ![i] = x]
<1>1. pending_work[i] \in ToCompress
  OBVIOUS
<1> DEFINE x == [pending_work[i] EXCEPT !.in_progress = FALSE, !.to_update = NoStats]
<1>2. Completed(i) = [pending_work EXCEPT ![i] = x]
  BY <1>1 DEF Completed, ToCompress
<1>3. IsItem(x, pending_work[i].extent, NoStats, FALSE, pending_work[i].compressed)
  BY <1>1, ItemExcept
<1> QED
  BY <1>2, <1>3

LEMMA PackEffect ==
  ASSUME NEW t \in Compressors, Pack(t), pending_work \in Seq(ToCompress)
  PROVE  \E i \in 1..Len(pending_work) : \E x :
           /\ pending_work[i].extent = work[t]
           /\ IsItem(x, pending_work[i].extent, pending_work[i].to_update,
                     pending_work[i].in_progress, PackedSize[work[t]])
           /\ pending_work' = [pending_work EXCEPT ![i] = x]
<1>1. PICK i \in 1..Len(pending_work) :
        /\ pending_work[i].extent = work[t]
        /\ pending_work' = [pending_work EXCEPT ![i].compressed = PackedSize[work[t]]]
  BY DEF Pack
<1>2. pending_work[i] \in ToCompress
  OBVIOUS
<1> DEFINE x == [pending_work[i] EXCEPT !.compressed = PackedSize[work[t]]]
<1>3. pending_work' = [pending_work EXCEPT ![i] = x]
  BY <1>1
<1>4. IsItem(x, pending_work[i].extent, pending_work[i].to_update,
             pending_work[i].in_progress, PackedSize[work[t]])
  BY <1>2, ItemExcept
<1> QED
  BY <1>1, <1>3, <1>4

\* A batch is the ready front of the queue p, the rest stays.
Takes(a, p, n) ==
  /\ out' = [out EXCEPT ![a] = [to_write |-> SubSeq(p, 1, n), bytes |-> 0, ewc |-> callback]]
  /\ pending_work' = SubSeq(p, n + 1, Len(p))
  /\ \A i \in 1..n : readyToWrite(p[i])
  /\ n < Len(p) => ~readyToWrite(p[n + 1])

LEMMA TakeEffect ==
  ASSUME NEW a, NEW p, BeginWriteOut(a, p)
  PROVE  \E n \in 0..Len(p) : Takes(a, p, n)
  BY DEF BeginWriteOut, ReadyPrefix, Takes

\* The two parts of a queue.
LEMMA Parts ==
  ASSUME NEW p \in Seq(ToCompress), NEW n \in 0..Len(p)
  PROVE  /\ SubSeq(p, 1, n) \in Seq(ToCompress) /\ SubSeq(p, n + 1, Len(p)) \in Seq(ToCompress)
         /\ Len(SubSeq(p, 1, n)) = n /\ Len(SubSeq(p, n + 1, Len(p))) = Len(p) - n
         /\ Len(p) \in Nat /\ n \in Nat
         /\ \A i \in 1..n : SubSeq(p, 1, n)[i] = p[i] /\ i \in 1..Len(p)
         /\ \A i \in 1..(Len(p) - n) :
              SubSeq(p, n + 1, Len(p))[i] = p[n + i] /\ n + i \in 1..Len(p)
  OBVIOUS

LEMMA NewItem ==
  ASSUME NEW e \in Extents, NEW s \in Writers \cup {NoStats}
  PROVE  /\ IsItem(NewWork(e, s), e, s, FALSE, 0)
         /\ \A b \in BOOLEAN : IsItem([NewWork(e, s) EXCEPT !.in_progress = b], e, s, b, 0)
<1>1. IsItem(NewWork(e, s), e, s, FALSE, 0)
  BY DEF NewWork, IsItem
<1>2. NewWork(e, s) \in ToCompress
  BY NewWorkType
<1>3. /\ NewWork(e, s).extent = e /\ NewWork(e, s).to_update = s
      /\ NewWork(e, s).compressed = 0
  BY DEF NewWork
<1>4. \A b : IsItem([NewWork(e, s) EXCEPT !.in_progress = b], e, s, b, 0)
  BY <1>2, <1>3, ItemExcept
<1> QED
  BY <1>1, <1>4

\* What one step of the sink does to the queue and the batches; only a
\* compressor's first half, a batch and what close() does are not among them.
Appends(e, s) == /\ pending_work' = Append(pending_work, NewWork(e, s))
                 /\ bytes_in_progress' = bytes_in_progress + RawSize[e]
                 /\ e \in Extents /\ s \in Writers \cup {NoStats}
                 /\ keep_going
                 /\ use_count' = [w \in Writers |-> IF w = s THEN use_count[w] + 1
                                                             ELSE use_count[w]]
                 /\ UNCHANGED <<out, disk, work, writer, cur_offset, index_series,
                                stats, counted, final_stats, nfiles, keep_going>>

LEMMA QueueLibraryEffect ==
  ASSUME TypeInv, PhaseInv, QueueLibrary
  PROVE  Appends(<<Library, nfiles>>, NoStats) /\ UNCHANGED calls
<1>1. <<Library, nfiles>> \in Extents
  <2>1. nfiles \in 1..MaxFiles
    BY SinkAssumption DEF TypeInv, TypeOK, FileTypes, FileNumbered, QueueLibrary
  <2> QED
    BY <2>1, ExtentTypes
<1>2. keep_going
  BY DEF PhaseInv, OwnerPhase, QueueLibrary, Accepting, Opening
<1> QED
  BY <1>1, <1>2 DEF QueueLibrary, queueWriteExtent, Enqueued, Appends, fileVars

LEMMA WriteExtentEffect ==
  ASSUME TypeInv, NEW w \in Writers, WriteExtent(w)
  PROVE  /\ Appends(<<w, calls[w] + 1>>, w)
         /\ calls' = [calls EXCEPT ![w] = @ + 1]
         /\ pc[Owner] = "idle" /\ pc[w] = "idle"
<1>1. <<w, calls[w] + 1>> \in Extents
  BY CallType, ExtentTypes DEF WriteExtent
<1> QED
  BY <1>1 DEF WriteExtent, Call, queueWriteExtent, Enqueued, Appends, fileVars

\* The steps that touch neither the queue nor the batches.
Keeps == UNCHANGED <<pending_work, out, disk, bytes_in_progress, stats, counted, use_count,
                     work>>

LEMMA KeepsEffect ==
  /\ CloseBegin \/ MarkWroteLibrary \/ JoinCompressors => Keeps
  /\ \A c \in Clients : QueueWakeup(c) => Keeps
  /\ \A w \in Writers : FlushPending(w) \/ FlushWakeup(w) \/ SetExtentWriteCallback(w) => Keeps
  /\ \A w \in Writers, n \in MaxBytesChoices : SetMaxBytesInProgress(w, n) => Keeps
  /\ UNCHANGED vars => Keeps
  BY DEF CloseBegin, MarkWroteLibrary, JoinCompressors, QueueWakeup, FlushPending,
         FlushWakeup, FlushTest, SetExtentWriteCallback, SetMaxBytesInProgress, Keeps, vars,
         queueVars, fileVars, statsVars, threadVars

LEMMA KeepsClaims ==
  ASSUME TypeInv,
         \/ CloseBegin \/ MarkWroteLibrary \/ JoinCompressors \/ UNCHANGED vars
         \/ \E c \in Clients : QueueWakeup(c)
         \/ \E w \in Writers : FlushPending(w) \/ FlushWakeup(w) \/ SetExtentWriteCallback(w)
         \/ \E w \in Writers, n \in MaxBytesChoices : SetMaxBytesInProgress(w, n)
  PROVE  /\ Keeps
         /\ \A t \in Compressors : compressor'[t] = "packed" => compressor[t] = "packed"
         /\ \A t \in Compressors : compressor'[t] = "exited" => compressor[t] = "exited"
<1>1. Keeps
  BY KeepsEffect
<1>2. \/ compressor' = compressor
      \/ compressor' = WorkBroadcast
      \/ compressor' = [t \in Compressors |-> "none"]
  BY DEF CloseBegin, MarkWroteLibrary, JoinCompressors, QueueWakeup, FlushPending,
         FlushWakeup, FlushTest, SetExtentWriteCallback, SetMaxBytesInProgress, vars,
         threadVars
<1> QED
  BY <1>1, <1>2 DEF WorkBroadcast

----------------------------------------------------------------------------
\* What has been packed

ItemsOf(p) == \A i \in 1..Len(p) : Item(p[i])

BatchItems(q) == \A i \in 1..Len(q) : Item(q[i]) /\ readyToWrite(q[i])

PackedWork(p, place) == \A t \in Compressors : place[t] = "packed" =>
  \A i \in 1..Len(p) : p[i].extent = work[t] => p[i].compressed = PackedSize[work[t]]

LEMMA ItemPhaseParts ==
  ItemPhase <=> /\ ItemsOf(pending_work)
                /\ \A a \in Writing : BatchItems(out[a].to_write)
                /\ PackedWork(pending_work, compressor)
  BY DEF ItemPhase, ItemsOf, BatchItems, PackedWork, Positions

LEMMA KeepsItems ==
  ASSUME ItemPhase, Keeps,
         \A t \in Compressors : compressor'[t] = "packed" => compressor[t] = "packed"
  PROVE  ItemPhase'
  BY DEF ItemPhase, Keeps, Positions, Item, readyToWrite

\* A round of compressorThread on a queue p.
LEMMA ClaimItems ==
  ASSUME TypeInv, NEW t \in Compressors, NEW p \in Seq(ToCompress), NEW b, NEW ok,
         CompressorLoop(t, p, b, ok), ItemsOf(p),
         \A u \in Compressors \ {t} : compressor[u] = "packed" =>
           \A i \in 1..Len(p) : p[i].extent = work[u] => p[i].compressed = PackedSize[work[u]]
  PROVE  ItemsOf(pending_work') /\ PackedWork(pending_work, compressor)'
<1>0. /\ compressor \in [Compressors -> CompressorPlaces]
      /\ work \in [Compressors -> Extents \cup {NoExtent}]
  BY DEF TypeInv, TypeOK, ThreadTypes
<1>1. CASE FoundNothing(t, p, b)
  <2>1. compressor'[t] # "packed" /\ \A u \in Compressors \ {t} : compressor'[u] = compressor[u]
    BY <1>0, <1>1 DEF FoundNothing
  <2>2. \A u \in Compressors \ {t} : work'[u] = work[u]
    BY <1>0, <1>1 DEF CompressorLoop, FoundNothing
  <2> QED
    BY <1>1, <2>1, <2>2 DEF FoundNothing, ItemsOf, PackedWork
<1>2. ASSUME NEW i \in 1..Len(p), NEW x, Claimed(t, p, b, i, x)
      PROVE  ItemsOf(pending_work') /\ PackedWork(pending_work, compressor)'
  <2>1. p[i] \in ToCompress
    OBVIOUS
  <2>2. /\ x \in ToCompress /\ x.extent = p[i].extent /\ x.in_progress /\ x.compressed = 0
    BY <1>2, <2>1, ClaimedItem DEF Claimed
  <2>3. Len(pending_work') = Len(p) /\ \A j \in 1..Len(p) : pending_work'[j] = IF j = i THEN x ELSE p[j]
    BY <1>2, <2>2, SeqExcept DEF Claimed
  <2>4. Item(x)
    BY <2>2 DEF Item, readyToWrite
  <2>5. ItemsOf(pending_work')
    BY <2>3, <2>4 DEF ItemsOf
  <2>6. /\ compressor'[t] # "packed"
        /\ \A u \in Compressors \ {t} : compressor'[u] = compressor[u] /\ work'[u] = work[u]
    BY <1>0, <1>2 DEF Claimed
  <2>7. ASSUME NEW u \in Compressors \ {t}, compressor[u] = "packed", NEW j \in 1..Len(p),
               pending_work'[j].extent = work[u]
        PROVE  pending_work'[j].compressed = PackedSize[work[u]]
    <3>1. CASE j # i
      BY <2>3, <2>7, <3>1
    <3>2. CASE j = i
      <4>1. p[i].extent = work[u] /\ p[i].compressed = 0
        BY <1>2, <2>2, <2>3, <2>7, <3>2 DEF Claimed, Unclaimed
      <4>2. PackedSize[p[i].extent] # 0
        BY <2>1, ItemFields
      <4> QED
        BY <2>7, <4>1, <4>2
    <3> QED
      BY <3>1, <3>2
  <2> QED
    BY <2>3, <2>5, <2>6, <2>7 DEF PackedWork
<1> QED
  BY <1>1, <1>2, ClaimEffect

\* What the steps assume of the state before and after them.
Now == TypeInv /\ ~aborted /\ PhaseInv /\ QueueInv
Across == Now /\ TypeInv' /\ ~aborted' /\ QueueInv'

LEMMA NowTypes ==
  ASSUME Now
  PROVE  /\ pending_work \in Seq(ToCompress) /\ Len(pending_work) \in Nat
         /\ \A i \in 1..Len(pending_work) : pending_work[i] \in ToCompress
         /\ out \in [Writing -> [to_write : Seq(ToCompress), bytes : Nat, ewc : Nat]]
         /\ "writer" \in Writing /\ "closer" \in Writing /\ "writer" # "closer"
         /\ compressor \in [Compressors -> CompressorPlaces]
         /\ work \in [Compressors -> Extents \cup {NoExtent}]
         /\ pc \in [Clients -> ClientPlaces] /\ Owner \in Clients
         /\ \A w \in Writers : w \in Clients /\ w # Owner
         /\ bytes_in_progress \in Nat
         /\ cur_offset \in Int /\ disk \in Seq(Extents)
<1>1. /\ pending_work \in Seq(ToCompress)
      /\ bytes_in_progress \in Nat
      /\ out \in [Writing -> [to_write : Seq(ToCompress), bytes : Nat, ewc : Nat]]
      /\ compressor \in [Compressors -> CompressorPlaces]
      /\ work \in [Compressors -> Extents \cup {NoExtent}]
      /\ pc \in [Clients -> ClientPlaces]
      /\ cur_offset \in Int /\ disk \in Seq(Extents)
  BY DEF Now, TypeInv, TypeOK, ClientTypes, QueueTypes, ThreadTypes, OutTypes, FileTypes
<1>2. /\ Owner \in Clients /\ \A w \in Writers : w \in Clients /\ w # Owner
      /\ "writer" \in Writing /\ "closer" \in Writing
  BY SinkAssumption DEF Clients, Writing
<1>3. /\ Len(pending_work) \in Nat
      /\ \A i \in 1..Len(pending_work) : pending_work[i] \in ToCompress
  BY <1>1
<1> QED
  BY <1>1, <1>2, <1>3

LEMMA AcrossTypes ==
  ASSUME Across
  PROVE  /\ pending_work \in Seq(ToCompress) /\ pending_work' \in Seq(ToCompress)
         /\ Len(pending_work) \in Nat
         /\ \A i \in 1..Len(pending_work) : pending_work[i] \in ToCompress
         /\ out \in [Writing -> [to_write : Seq(ToCompress), bytes : Nat, ewc : Nat]]
         /\ "writer" \in Writing /\ "closer" \in Writing /\ "writer" # "closer"
         /\ compressor \in [Compressors -> CompressorPlaces]
         /\ work \in [Compressors -> Extents \cup {NoExtent}]
         /\ pc \in [Clients -> ClientPlaces] /\ Owner \in Clients
         /\ \A w \in Writers : w \in Clients /\ w # Owner
         /\ bytes_in_progress \in Nat /\ bytes_in_progress' \in Nat
         /\ cur_offset \in Int /\ disk \in Seq(Extents)
<1>1. pending_work' \in Seq(ToCompress) /\ bytes_in_progress' \in Nat
  BY DEF Across, Now, TypeInv, TypeOK, QueueTypes
<1> QED
  BY <1>1, NowTypes DEF Across, Now

LEMMA AppendParts ==
  ASSUME NEW S, NEW p \in Seq(S), NEW x \in S
  PROVE  /\ Append(p, x) \in Seq(S) /\ Len(Append(p, x)) = Len(p) + 1 /\ Len(p) \in Nat
         /\ \A i \in 1..(Len(p) + 1) : Append(p, x)[i] = IF i = Len(p) + 1 THEN x ELSE p[i]
  OBVIOUS

\* The index, as the closer puts it on the queue.
LEMMA IndexItem ==
  ASSUME NEW e \in Extents
  PROVE  /\ IsItem([NewWork(e, NoStats) EXCEPT !.in_progress = TRUE], e, NoStats, TRUE, 0)
         /\ [NewWork(e, NoStats) EXCEPT !.in_progress = TRUE] \in ToCompress
<1> DEFINE y == NewWork(e, NoStats)
<1>1. y \in ToCompress /\ y.extent = e /\ y.to_update = NoStats /\ y.compressed = 0
  BY NewWorkType DEF NewWork
<1> HIDE DEF y
<1>2. IsItem([y EXCEPT !.in_progress = TRUE], e, NoStats, TRUE, 0)
  BY <1>1, ItemExcept
<1>3. [y EXCEPT !.in_progress = TRUE] \in ToCompress
  BY <1>1 DEF ToCompress
<1> QED
  BY <1>2, <1>3 DEF y

\* An extent is put on the queue: no compressor works on it yet.
LEMMA AppendItems ==
  ASSUME Across, NEW e, NEW s, Appends(e, s),
         \A t \in Compressors : compressor'[t] = "packed" => compressor[t] = "packed"
  PROVE  ItemPhase'
<1> DEFINE n == Len(pending_work)
           x == NewWork(e, s)
<1>1. /\ pending_work' = Append(pending_work, x) /\ UNCHANGED <<out, work>>
      /\ e \in Extents /\ s \in Writers \cup {NoStats}
  BY DEF Appends
<1>2. x.extent = e /\ x.compressed = 0 /\ x \in ToCompress
  BY <1>1, NewWorkType DEF NewWork
<1> HIDE DEF x
<1>3. /\ Len(pending_work') = n + 1 /\ n \in Nat
      /\ \A i \in 1..(n + 1) : pending_work'[i] = IF i = n + 1 THEN x ELSE pending_work[i]
  BY <1>1, <1>2, AcrossTypes, AppendParts
<1> HIDE DEF n
<1>4. ItemsOf(pending_work) /\ PackedWork(pending_work, compressor)
      /\ \A a \in Writing : BatchItems(out[a].to_write)
  BY ItemPhaseParts DEF Across, Now, PhaseInv
<1>5. ItemsOf(pending_work')
  <2>1. Item(x)
    BY <1>2 DEF Item, readyToWrite
  <2> QED
    BY <1>3, <1>4, <2>1 DEF ItemsOf, n
<1>6. PackedWork(pending_work, compressor)'
  <2> SUFFICES ASSUME NEW t \in Compressors, compressor[t] = "packed",
                      NEW i \in 1..(n + 1), pending_work'[i].extent = work[t]
               PROVE  pending_work'[i].compressed = PackedSize[work[t]]
    BY <1>1, <1>3 DEF PackedWork
  <2>1. PICK k \in 1..n : pending_work[k].extent = work[t]
    BY DEF Across, Now, QueueInv, WorkStaysQueued, ClaimedWorkIsQueued, Packing, Positions, n
  <2>2. pending_work'[k].extent = work[t] /\ k \in 1..(n + 1)
    BY <1>3, <2>1
  <2>3. i = k
    BY <1>3, <2>2 DEF Across, Now, QueueInv, Distinct
  <2> QED
    BY <1>3, <1>4, <2>1, <2>3 DEF PackedWork, n
<1> QED
  BY <1>1, <1>4, <1>5, <1>6 DEF ItemPhase, ItemsOf, BatchItems, PackedWork, Positions

\* A batch is taken from a queue p.
LEMMA TakeItems ==
  ASSUME Across, NEW a \in Writing, NEW p \in Seq(ToCompress), NEW n \in 0..Len(p),
         Takes(a, p, n), ItemsOf(p), PackedWork(p, compressor), UNCHANGED <<compressor, work>>
  PROVE  ItemPhase'
<1> DEFINE front == SubSeq(p, 1, n)
           rest == SubSeq(p, n + 1, Len(p))
<1>1. /\ Len(front) = n /\ Len(rest) = Len(p) - n /\ Len(p) \in Nat /\ n \in Nat
      /\ \A i \in 1..n : front[i] = p[i] /\ i \in 1..Len(p)
      /\ \A i \in 1..(Len(p) - n) : rest[i] = p[n + i] /\ n + i \in 1..Len(p)
  BY Parts
<1>2. /\ pending_work' = rest
      /\ out'[a].to_write = front
      /\ \A c \in Writing \ {a} : out'[c] = out[c]
      /\ \A i \in 1..n : readyToWrite(p[i])
  BY AcrossTypes DEF Takes
<1> HIDE DEF front, rest
<1>3. ItemsOf(pending_work')
  BY <1>1, <1>2 DEF ItemsOf
<1>4. PackedWork(pending_work', compressor)
  <2> SUFFICES ASSUME NEW t \in Compressors, compressor[t] = "packed",
                      NEW i \in 1..Len(pending_work'), pending_work'[i].extent = work[t]
               PROVE  pending_work'[i].compressed = PackedSize[work[t]]
    BY DEF PackedWork
  <2>1. i \in 1..(Len(p) - n)
    BY <1>1, <1>2
  <2>2. pending_work'[i] = p[n + i] /\ n + i \in 1..Len(p)
    BY <1>1, <1>2, <2>1
  <2> QED
    BY <2>2 DEF PackedWork
<1>5. BatchItems(out'[a].to_write)
  BY <1>1, <1>2 DEF ItemsOf, BatchItems
<1>6. \A c \in Writing \ {a} : BatchItems(out'[c].to_write)
  BY <1>2, ItemPhaseParts DEF Across, Now, PhaseInv
<1> QED
  BY <1>3, <1>4, <1>5, <1>6 DEF ItemPhase, ItemsOf, BatchItems, PackedWork, Positions

\* A batch is shortened or dropped.
LEMMA BatchShrinks ==
  ASSUME ItemPhase, UNCHANGED <<pending_work, compressor, work>>,
         \A c \in Writing : \A i \in 1..Len(out'[c].to_write) :
           \E k \in 1..Len(out[c].to_write) : out'[c].to_write[i] = out[c].to_write[k]
  PROVE  ItemPhase'
<1>1. /\ ItemsOf(pending_work)' /\ PackedWork(pending_work, compressor)'
      /\ \A c \in Writing : BatchItems(out[c].to_write)
  BY ItemPhaseParts DEF ItemsOf, PackedWork
<1>2. ASSUME NEW c \in Writing PROVE BatchItems(out'[c].to_write)
  BY <1>1 DEF BatchItems
<1> QED
  BY <1>1, <1>2 DEF ItemPhase, ItemsOf, BatchItems, PackedWork, Positions

LEMMA WriteOutBatch ==
  ASSUME Across, NEW a \in Writing, WriteOut(a)
  PROVE  \A c \in Writing : \A i \in 1..Len(out'[c].to_write) :
           \E k \in 1..Len(out[c].to_write) : out'[c].to_write[i] = out[c].to_write[k]
<1>1. /\ out[a].to_write \in Seq(ToCompress) /\ out[a].to_write # << >>
      /\ \A c \in Writing : out'[c].to_write = IF c = a THEN Tail(out[c].to_write)
                                                        ELSE out[c].to_write
  BY AcrossTypes DEF WriteOut
<1>2. /\ Len(Tail(out[a].to_write)) = Len(out[a].to_write) - 1
      /\ Len(out[a].to_write) \in Nat
      /\ \A i \in 1..(Len(out[a].to_write) - 1) : Tail(out[a].to_write)[i] = out[a].to_write[i + 1]
  BY <1>1
<1>3. \A i \in 1..Len(Tail(out[a].to_write)) : i + 1 \in 1..Len(out[a].to_write)
  BY <1>2
<1> QED
  BY <1>1, <1>2, <1>3

\* One round of the writer thread.
LEMMA WriterLoopCases ==
  ASSUME WriterLoop
  PROVE  \/ \E n \in 0..Len(pending_work) : Takes("writer", pending_work, n)
         \/ out' = [out EXCEPT !["writer"] = NoBatch] /\ UNCHANGED pending_work
  BY TakeEffect DEF WriterLoop

LEMMA DropBatch ==
  ASSUME Across, NEW a \in Writing, out' = [out EXCEPT ![a] = NoBatch]
  PROVE  \A c \in Writing : \A i \in 1..Len(out'[c].to_write) :
           \E k \in 1..Len(out[c].to_write) : out'[c].to_write[i] = out[c].to_write[k]
<1>1. Len(out'[a].to_write) = 0 /\ \A c \in Writing \ {a} : out'[c] = out[c]
  BY AcrossTypes DEF NoBatch
<1> QED
  BY <1>1

\* The queue as it is when the closer takes the index it has packed.
LEMMA PackIndexEffect ==
  ASSUME Across, PackIndex
  PROVE  \E x : /\ IsItem(x, <<Index, nfiles>>, NoStats, FALSE, PackedSize[<<Index, nfiles>>])
                /\ x \in ToCompress
                /\ \E n \in 0..1 : Takes("closer", <<x>>, n)
                /\ UNCHANGED <<compressor, work>>
<1> DEFINE e == <<Index, nfiles>>
           y == [NewWork(e, NoStats) EXCEPT !.in_progress = TRUE]
           q == [pending_work EXCEPT ![1].in_progress = FALSE, ![1].compressed = PackedSize[e]]
           x == [y EXCEPT !.in_progress = FALSE, !.compressed = PackedSize[e]]
<1>1. pending_work = <<y>>
  BY DEF Across, Now, PhaseInv, QueuePhase, PackIndex
<1>2. e \in Extents /\ PackedSize[e] \in Nat
  BY IndexExtent, SinkAssumption DEF Across, Now, TypeInv, PackIndex
<1>3. IsItem(y, e, NoStats, TRUE, 0) /\ y \in ToCompress
  BY <1>2, IndexItem
<1>4. y.extent = e /\ y.to_update = NoStats
  BY <1>3 DEF IsItem
<1>5. q = <<x>>
  BY <1>1
<1> HIDE DEF y
<1>6. IsItem(x, e, NoStats, FALSE, PackedSize[e])
  BY <1>3, <1>4, ItemExcept
<1>7. x \in ToCompress
  BY <1>2, <1>6 DEF IsItem, ToCompress
<1>8. BeginWriteOut("closer", q) /\ UNCHANGED <<compressor, work>>
  BY DEF PackIndex, threadVars
<1> HIDE DEF x, q, e
<1>9. \E n \in 0..1 : Takes("closer", <<x>>, n)
  <2>1. Len(<<x>>) = 1
    OBVIOUS
  <2> QED
    BY <1>5, <1>8, <2>1, TakeEffect
<1> QED
  BY <1>6, <1>7, <1>8, <1>9 DEF e

\* What a compressor packs is marked.
LEMMA OwnWork ==
  ASSUME Now, NEW t \in Compressors, Packing(t), NEW i \in 1..Len(pending_work),
         pending_work[i].extent = work[t]
  PROVE  pending_work[i].in_progress
<1>1. PICK k \in Positions : pending_work[k].extent = work[t] /\ pending_work[k].in_progress
  BY DEF Now, QueueInv, WorkStaysQueued, ClaimedWorkIsQueued
<1>2. k = i
  BY <1>1 DEF Now, QueueInv, Distinct, Positions
<1> QED
  BY <1>1, <1>2

LEMMA PackItems ==
  ASSUME Across, NEW t \in Compressors, Pack(t)
  PROVE  ItemPhase'
<1>1a. PICK i \in 1..Len(pending_work) : \E x :
        /\ pending_work[i].extent = work[t]
        /\ IsItem(x, pending_work[i].extent, pending_work[i].to_update,
                  pending_work[i].in_progress, PackedSize[work[t]])
        /\ pending_work' = [pending_work EXCEPT ![i] = x]
  BY AcrossTypes, PackEffect
<1>1. PICK x :
        /\ pending_work[i].extent = work[t]
        /\ IsItem(x, pending_work[i].extent, pending_work[i].to_update,
                  pending_work[i].in_progress, PackedSize[work[t]])
        /\ pending_work' = [pending_work EXCEPT ![i] = x]
  BY <1>1a
<1>2. /\ compressor[t] = "packing" /\ UNCHANGED <<work, out>>
      /\ \A u \in Compressors \ {t} : compressor'[u] = compressor[u]
  BY AcrossTypes DEF Pack
<1>3. pending_work[i] \in ToCompress /\ PackedSize[pending_work[i].extent] \in Nat \ {0}
  BY AcrossTypes, ItemFields
<1>4. /\ x.extent = pending_work[i].extent /\ x.in_progress = pending_work[i].in_progress
      /\ x.compressed = PackedSize[x.extent] /\ x \in ToCompress
  BY <1>1, <1>3 DEF IsItem, ToCompress
<1>5. /\ Len(pending_work') = Len(pending_work)
      /\ \A j \in 1..Len(pending_work) : pending_work'[j] = IF j = i THEN x ELSE pending_work[j]
  BY <1>1, <1>4, AcrossTypes, SeqExcept
<1>6. pending_work[i].in_progress
  BY <1>1, <1>2, OwnWork DEF Packing, Across
<1>7. Item(x)
  BY <1>4, <1>6 DEF Item, readyToWrite
<1>8. /\ ItemsOf(pending_work) /\ PackedWork(pending_work, compressor)
      /\ \A a \in Writing : BatchItems(out[a].to_write)
  BY ItemPhaseParts DEF Across, Now, PhaseInv
<1>9. ItemsOf(pending_work')
  BY <1>5, <1>7, <1>8 DEF ItemsOf
<1>10. PackedWork(pending_work, compressor)'
  <2> SUFFICES ASSUME NEW u \in Compressors, compressor'[u] = "packed",
                      NEW j \in 1..Len(pending_work), pending_work'[j].extent = work[u]
               PROVE  pending_work'[j].compressed = PackedSize[work[u]]
    BY <1>2, <1>5 DEF PackedWork
  <2>1. CASE j = i
    BY <1>4, <1>5, <2>1
  <2>2. CASE j # i
    <3>1. pending_work'[j] = pending_work[j]
      BY <1>5, <2>2
    <3>2. CASE u # t
      BY <1>2, <1>8, <3>1, <3>2 DEF PackedWork
    <3>3. CASE u = t
      BY <1>1, <2>2, <3>1, <3>3 DEF Across, Now, QueueInv, Distinct
    <3> QED
      BY <3>2, <3>3
  <2> QED
    BY <2>1, <2>2
<1> QED
  BY <1>2, <1>8, <1>9, <1>10 DEF ItemPhase, ItemsOf, BatchItems, PackedWork, Positions

LEMMA CompressorRunItems ==
  ASSUME Across, NEW t \in Compressors, CompressorRun(t)
  PROVE  ItemPhase'
<1>1. /\ ItemsOf(pending_work) /\ PackedWork(pending_work, compressor)
      /\ \A a \in Writing : BatchItems(out[a].to_write)
  BY ItemPhaseParts DEF Across, Now, PhaseInv
<1>2. /\ CompressorLoop(t, pending_work, bytes_in_progress, TRUE) /\ UNCHANGED out
  BY DEF CompressorRun
<1>3. ItemsOf(pending_work') /\ PackedWork(pending_work, compressor)'
  BY <1>1, <1>2, AcrossTypes, ClaimItems DEF Across, Now, PackedWork
<1> QED
  BY <1>1, <1>2, <1>3 DEF ItemPhase, ItemsOf, BatchItems, PackedWork, Positions

\* What a compressor has finished, before its next round.
DoneEffects(t, i, x) ==
  /\ IsItem(x, pending_work[i].extent, NoStats, FALSE, PackedSize[pending_work[i].extent])
  /\ x \in ToCompress
  /\ pending_work[i].extent = work[t] /\ pending_work[i].in_progress
  /\ pending_work[i].compressed = PackedSize[pending_work[i].extent]
  /\ Completed(i) = [pending_work EXCEPT ![i] = x]
  /\ Completed(i) \in Seq(ToCompress)
  /\ CompletedBytes(i) = bytes_in_progress - 2 * RawSize[pending_work[i].extent]
                           + PackedSize[pending_work[i].extent]
  /\ CountPacked(pending_work[i].to_update)
  /\ pc' = Notified(Completed(i), CompletedBytes(i))
  /\ writer' = IF frontReadyToWrite(Completed(i)) THEN WriterSignalled ELSE writer
  /\ CompressorLoop(t, Completed(i), CompletedBytes(i),
       /\ pending_work[i].to_update \in Writers => use_count[pending_work[i].to_update] > 0
       /\ bytes_in_progress >= 2 * RawSize[work[t]])
LEMMA DoneEffect ==
  ASSUME Now, NEW t \in Compressors, CompressorDone(t)
  PROVE  \E i \in 1..Len(pending_work) : \E x : DoneEffects(t, i, x)
<1>1. PICK i \in 1..Len(pending_work) :
        /\ pending_work[i].extent = work[t]
        /\ CountPacked(pending_work[i].to_update)
        /\ pc' = Notified(Completed(i), CompletedBytes(i))
        /\ writer' = IF frontReadyToWrite(Completed(i)) THEN WriterSignalled ELSE writer
        /\ CompressorLoop(t, Completed(i), CompletedBytes(i),
             /\ pending_work[i].to_update \in Writers => use_count[pending_work[i].to_update] > 0
             /\ bytes_in_progress >= 2 * RawSize[work[t]])
  BY DEF CompressorDone
<1>2. compressor[t] = "packed"
  BY DEF CompressorDone
<1>3. pending_work[i].in_progress
  BY <1>1, <1>2, OwnWork DEF Packing
<1>4. pending_work[i].compressed = PackedSize[pending_work[i].extent]
  BY <1>1, <1>2 DEF Now, PhaseInv, ItemPhase, Positions
<1>5. PICK x : /\ IsItem(x, pending_work[i].extent, NoStats, FALSE, pending_work[i].compressed)
               /\ Completed(i) = [pending_work EXCEPT ![i] = x]
  BY NowTypes, CompletedEffect
<1>6. x \in ToCompress
  BY <1>5, NowTypes, FinishedItem
<1>7. Completed(i) \in Seq(ToCompress)
  BY <1>5, <1>6, NowTypes, SeqExcept
<1>8. CompletedBytes(i) = bytes_in_progress - 2 * RawSize[pending_work[i].extent]
                            + PackedSize[pending_work[i].extent]
  BY <1>4 DEF CompletedBytes
<1> QED
  BY <1>1, <1>3, <1>4, <1>5, <1>6, <1>7, <1>8 DEF DoneEffects

LEMMA CompressorDoneItems ==
  ASSUME Across, NEW t \in Compressors, CompressorDone(t)
  PROVE  ItemPhase'
<1>1. /\ ItemsOf(pending_work) /\ PackedWork(pending_work, compressor)
      /\ \A a \in Writing : BatchItems(out[a].to_write)
  BY ItemPhaseParts DEF Across, Now, PhaseInv
<1>2a. PICK i \in 1..Len(pending_work) : \E x :
        /\ IsItem(x, pending_work[i].extent, NoStats, FALSE, PackedSize[pending_work[i].extent])
        /\ x \in ToCompress
        /\ pending_work[i].compressed = PackedSize[pending_work[i].extent]
        /\ Completed(i) = [pending_work EXCEPT ![i] = x]
        /\ Completed(i) \in Seq(ToCompress)
        /\ \E b, ok : CompressorLoop(t, Completed(i), b, ok)
  BY DoneEffect DEF Across, Now, DoneEffects
<1>2. PICK x :
        /\ IsItem(x, pending_work[i].extent, NoStats, FALSE, PackedSize[pending_work[i].extent])
        /\ x \in ToCompress
        /\ pending_work[i].compressed = PackedSize[pending_work[i].extent]
        /\ Completed(i) = [pending_work EXCEPT ![i] = x]
        /\ Completed(i) \in Seq(ToCompress)
        /\ \E b, ok : CompressorLoop(t, Completed(i), b, ok)
  BY <1>2a
<1>3. UNCHANGED out
  BY DEF CompressorDone
<1>4. /\ x.extent = pending_work[i].extent /\ x.to_update = NoStats
      /\ x.compressed = PackedSize[pending_work[i].extent]
  BY <1>2 DEF IsItem
<1> DEFINE p == Completed(i)
<1>5. /\ Len(p) = Len(pending_work)
      /\ \A j \in 1..Len(pending_work) : p[j] = IF j = i THEN x ELSE pending_work[j]
  BY <1>2, AcrossTypes, SeqExcept, SMTT(30)
<1>6. p \in Seq(ToCompress) /\ \E b, ok : CompressorLoop(t, p, b, ok)
  BY <1>2
<1> HIDE DEF p
<1>7. ItemsOf(p)
  <2>1. Item(x)
    BY <1>4 DEF Item
  <2> QED
    BY <1>1, <1>5, <2>1 DEF ItemsOf
<1>8. ASSUME NEW u \in Compressors \ {t}, compressor[u] = "packed", NEW j \in 1..Len(p),
             p[j].extent = work[u]
      PROVE  p[j].compressed = PackedSize[work[u]]
  BY <1>1, <1>4, <1>5, <1>8 DEF PackedWork
<1>9. ItemsOf(pending_work') /\ PackedWork(pending_work, compressor)'
  BY <1>6, <1>7, <1>8, ClaimItems DEF Across, Now
<1> QED
  BY <1>1, <1>3, <1>9 DEF ItemPhase, ItemsOf, BatchItems, PackedWork, Positions

LEMMA RemoveItems ==
  ASSUME Across, NEW w \in Writers, RemoveStatsUpdate(w)
  PROVE  /\ Len(pending_work') = Len(pending_work)
         /\ \A i \in 1..Len(pending_work) :
              /\ pending_work'[i].extent = pending_work[i].extent
              /\ pending_work'[i].in_progress = pending_work[i].in_progress
              /\ pending_work'[i].compressed = pending_work[i].compressed
              /\ pending_work'[i].to_update = IF pending_work[i].to_update = w THEN NoStats
                                              ELSE pending_work[i].to_update
         /\ UNCHANGED <<compressor, work, out, bytes_in_progress, writer>>
         /\ ItemPhase'
<1>1. pending_work' = [i \in 1..Len(pending_work) |->
                         IF i \in WouldUpdate(w)
                         THEN [pending_work[i] EXCEPT !.to_update = NoStats]
                         ELSE pending_work[i]]
  BY DEF RemoveStatsUpdate
<1>2. Len(pending_work') = Len(pending_work)
  BY <1>1, AcrossTypes
<1>3. ASSUME NEW i \in 1..Len(pending_work)
      PROVE  /\ pending_work'[i].extent = pending_work[i].extent
             /\ pending_work'[i].in_progress = pending_work[i].in_progress
             /\ pending_work'[i].compressed = pending_work[i].compressed
             /\ pending_work'[i].to_update = IF pending_work[i].to_update = w THEN NoStats
                                              ELSE pending_work[i].to_update
  <2>1. pending_work[i] \in ToCompress
    BY AcrossTypes
  <2>2. CASE i \in WouldUpdate(w)
    <3>1. pending_work'[i] = [pending_work[i] EXCEPT !.to_update = NoStats]
      BY <1>1, <2>2
    <3> QED
      BY <2>1, <2>2, <3>1 DEF WouldUpdate, ToCompress
  <2>3. CASE i \notin WouldUpdate(w)
    <3>1. pending_work'[i] = pending_work[i]
      BY <1>1, <2>3
    <3> QED
      BY <2>3, <3>1 DEF WouldUpdate
  <2> QED
    BY <2>2, <2>3
<1>4. UNCHANGED <<compressor, work, out, bytes_in_progress, writer>>
  BY DEF RemoveStatsUpdate, threadVars
<1>5. /\ ItemsOf(pending_work) /\ PackedWork(pending_work, compressor)
      /\ \A a \in Writing : BatchItems(out[a].to_write)
  BY ItemPhaseParts DEF Across, Now, PhaseInv
<1>6. ItemsOf(pending_work')
  BY <1>2, <1>3, <1>5 DEF ItemsOf, Item, readyToWrite
<1>7. PackedWork(pending_work, compressor)'
  BY <1>2, <1>3, <1>4, <1>5 DEF PackedWork
<1> QED
  BY <1>2, <1>3, <1>4, <1>5, <1>6, <1>7 DEF ItemPhase, ItemsOf, BatchItems, PackedWork, Positions

\* While the closer works the compressors are gone.
LEMMA NoneAtEnd ==
  ASSUME Across, pc[Owner] \in {"join_writer", "drain", "pack_index", "write_index", "closed"}
  PROVE  \A t \in Compressors : compressor[t] = "none"
  BY DEF Across, Now, QueueInv, AllJoined

LEMMA CloseIndexEffect ==
  ASSUME Across, CloseIndex
  PROVE  \E x : /\ IsItem(x, <<Index, nfiles>>, NoStats, TRUE, 0) /\ x \in ToCompress
                /\ x = [NewWork(<<Index, nfiles>>, NoStats) EXCEPT !.in_progress = TRUE]
                /\ pending_work = << >> /\ pending_work' = <<x>>
                /\ out' = [out EXCEPT !["closer"] = NoBatch]
                /\ UNCHANGED <<compressor, work>>
                /\ <<Index, nfiles>> \in Extents
<1> DEFINE e == <<Index, nfiles>>
           x == [NewWork(e, NoStats) EXCEPT !.in_progress = TRUE]
<1>1. e \in Extents
  BY IndexExtent DEF Across, Now, CloseIndex
<1>2. IsItem(x, e, NoStats, TRUE, 0) /\ x \in ToCompress
  BY <1>1, IndexItem
<1>3. pending_work = << >> /\ pending_work' = Append(pending_work, x)
  BY DEF CloseIndex, Invariant, Across, Now
<1>4. out' = [out EXCEPT !["closer"] = NoBatch] /\ UNCHANGED <<compressor, work>>
  BY DEF CloseIndex, threadVars
<1>5. x = [NewWork(e, NoStats) EXCEPT !.in_progress = TRUE]
  OBVIOUS
<1> HIDE DEF x, e
<1>6. pending_work' = <<x>>
  BY <1>3
<1> QED
  BY <1>1, <1>2, <1>3, <1>4, <1>5, <1>6 DEF e

LEMMA CloseItems ==
  ASSUME Across, JoinWriter \/ CloseIndex \/ PackIndex \/ Seal
  PROVE  ItemPhase'
<1>1. /\ ItemsOf(pending_work) /\ PackedWork(pending_work, compressor)
      /\ \A a \in Writing : BatchItems(out[a].to_write)
  BY ItemPhaseParts DEF Across, Now, PhaseInv
<1>2. CASE JoinWriter
  <2>1. BeginWriteOut("closer", pending_work) /\ UNCHANGED <<compressor, work>>
    BY <1>2 DEF JoinWriter
  <2> QED
    BY <1>1, <2>1, AcrossTypes, TakeEffect, TakeItems
<1>3. CASE CloseIndex
  <2>1. PICK x : /\ IsItem(x, <<Index, nfiles>>, NoStats, TRUE, 0)
                 /\ pending_work' = <<x>>
                 /\ out' = [out EXCEPT !["closer"] = NoBatch]
                 /\ UNCHANGED <<compressor, work>>
    BY <1>3, CloseIndexEffect
  <2>2. \A t \in Compressors : compressor'[t] = "none"
    BY <1>3, <2>1, NoneAtEnd DEF CloseIndex
  <2>3. Item(x)
    BY <2>1 DEF IsItem, Item, readyToWrite
  <2>4. ItemsOf(pending_work')
    BY <2>1, <2>3 DEF ItemsOf
  <2>5. \A a \in Writing : BatchItems(out'[a].to_write)
    BY <1>1, <2>1, AcrossTypes, SMTT(30) DEF BatchItems, NoBatch
  <2> QED
    BY <2>1, <2>2, <2>4, <2>5 DEF ItemPhase, ItemsOf, BatchItems, PackedWork, Positions
<1>4. CASE PackIndex
  <2>1. PICK x : /\ IsItem(x, <<Index, nfiles>>, NoStats, FALSE, PackedSize[<<Index, nfiles>>])
                 /\ x \in ToCompress
                 /\ \E n \in 0..1 : Takes("closer", <<x>>, n)
                 /\ UNCHANGED <<compressor, work>>
    BY <1>4, PackIndexEffect
  <2>2. \A t \in Compressors : compressor[t] = "none"
    BY <1>4, NoneAtEnd DEF PackIndex
  <2>3. Item(x)
    BY <2>1 DEF IsItem, Item
  <2> DEFINE p == <<x>>
  <2>4. p \in Seq(ToCompress) /\ Len(p) = 1 /\ p[1] = x
    BY <2>1
  <2>5. PICK n \in 0..Len(p) : Takes("closer", p, n)
    BY <2>1, <2>4
  <2> HIDE DEF p
  <2>6. ItemsOf(p) /\ PackedWork(p, compressor)
    BY <2>2, <2>3, <2>4 DEF ItemsOf, PackedWork
  <2> QED
    BY <2>1, <2>4, <2>5, <2>6, AcrossTypes, TakeItems
<1>5. CASE Seal
  <2>1. /\ out' = [out EXCEPT !["closer"] = NoBatch]
        /\ UNCHANGED <<pending_work, compressor, work>>
    BY <1>5 DEF Seal, threadVars
  <2> QED
    BY <2>1, AcrossTypes, DropBatch, BatchShrinks DEF Across, Now, PhaseInv
<1> QED
  BY <1>2, <1>3, <1>4, <1>5

LEMMA ItemPhaseStep ==
  ASSUME Across, Next
  PROVE  ItemPhase'
<1>1. CASE Open
  <2>1. UNCHANGED <<pending_work, out, work>> /\ \A t \in Compressors : compressor'[t] # "packed"
    BY <1>1 DEF Open, queueVars
  <2> QED
    BY <2>1 DEF ItemPhase, Positions, Item, readyToWrite, Across, Now, PhaseInv
<1>2. CASE QueueLibrary
  <2>1. \A t \in Compressors : compressor'[t] = "packed" => compressor[t] = "packed"
    BY <1>2, AcrossTypes DEF QueueLibrary, queueWriteExtent, SignalWork
  <2> QED
    BY <1>2, <2>1, QueueLibraryEffect, AppendItems DEF Across, Now
<1>3. ASSUME NEW w \in Writers, WriteExtent(w)
      PROVE  ItemPhase'
  <2>1. \A t \in Compressors : compressor'[t] = "packed" => compressor[t] = "packed"
    BY <1>3, AcrossTypes DEF WriteExtent, queueWriteExtent, SignalWork
  <2> QED
    BY <1>3, <2>1, WriteExtentEffect, AppendItems DEF Across, Now
<1>4. CASE WriterRun \/ WriterDone
  <2>1. WriterLoop /\ UNCHANGED <<compressor, work>>
    BY <1>4 DEF WriterRun, WriterDone
  <2>2. ItemsOf(pending_work) /\ PackedWork(pending_work, compressor)
    BY ItemPhaseParts DEF Across, Now, PhaseInv
  <2>3. ASSUME NEW n \in 0..Len(pending_work), Takes("writer", pending_work, n)
        PROVE  ItemPhase'
    BY <2>1, <2>2, <2>3, AcrossTypes, TakeItems
  <2>4. CASE out' = [out EXCEPT !["writer"] = NoBatch] /\ UNCHANGED pending_work
    BY <2>1, <2>4, AcrossTypes, DropBatch, BatchShrinks DEF Across, Now, PhaseInv
  <2> QED
    BY <2>1, <2>3, <2>4, WriterLoopCases
<1>5. ASSUME NEW a \in Writing, WriteOut(a)
      PROVE  ItemPhase'
  <2>1. UNCHANGED <<pending_work, compressor, work>>
    BY <1>5 DEF WriteOut, queueVars, threadVars
  <2> QED
    BY <1>5, <2>1, WriteOutBatch, BatchShrinks DEF Across, Now, PhaseInv
<1>6. ASSUME NEW t \in Compressors, CompressorRun(t) \/ Pack(t) \/ CompressorDone(t)
      PROVE  ItemPhase'
  BY <1>6, CompressorRunItems, PackItems, CompressorDoneItems
<1>7. ASSUME NEW w \in Writers, RemoveStatsUpdate(w)
      PROVE  ItemPhase'
  BY <1>7, RemoveItems
<1>8. CASE JoinWriter \/ CloseIndex \/ PackIndex \/ Seal
  BY <1>8, CloseItems
<1>9. CASE \/ CloseBegin \/ MarkWroteLibrary \/ JoinCompressors \/ UNCHANGED vars
           \/ \E c \in Clients : QueueWakeup(c)
           \/ \E w \in Writers : FlushPending(w) \/ FlushWakeup(w) \/ SetExtentWriteCallback(w)
           \/ \E w \in Writers, n \in MaxBytesChoices : SetMaxBytesInProgress(w, n)
  BY <1>9, KeepsClaims, KeepsItems DEF Across, Now, PhaseInv
<1> QED
  BY <1>1, <1>2, <1>3, <1>4, <1>5, <1>6, <1>7, <1>8, <1>9, NextCases

----------------------------------------------------------------------------
\* What is left to do

NoneUnclaimed(p) == \A i \in 1..Len(p) : ~Unclaimed(p[i])
AllReady(p) == \A i \in 1..Len(p) : readyToWrite(p[i])
SomeExited(place) == \E t \in Compressors : place[t] = "exited"

Ending == {"join_writer", "drain", "pack_index", "write_index"}

LEMMA QueuePhaseParts ==
  QueuePhase <=>
    /\ SomeExited(compressor) => NoneUnclaimed(pending_work)
    /\ pc[Owner] = "join_writer" => AllReady(pending_work)
    /\ pc[Owner] \in {"drain", "write_index"} => pending_work = << >>
    /\ pc[Owner] = "pack_index" =>
         pending_work = <<[NewWork(<<Index, nfiles>>, NoStats) EXCEPT !.in_progress = TRUE]>>
  BY DEF QueuePhase, NoneUnclaimed, AllReady, SomeExited, Positions

LEMMA WhileAccepting ==
  ASSUME OwnerPhase', ThreadPhase', keep_going'
  PROVE  QueuePhase'
<1>1. ~SomeExited(compressor)' /\ pc'[Owner] \notin Ending
  BY DEF OwnerPhase, ThreadPhase, SomeExited, Ending, Accepting, Opening
<1> QED
  BY <1>1 DEF QueuePhase, SomeExited, Ending

LEMMA SameQueuePhase ==
  ASSUME QueuePhase, UNCHANGED <<pending_work, nfiles>>,
         \A t \in Compressors : compressor'[t] = "exited" => compressor[t] = "exited",
         pc'[Owner] \in Ending => pc'[Owner] = pc[Owner]
  PROVE  QueuePhase'
  BY DEF QueuePhase, Positions, Unclaimed, readyToWrite, Ending

LEMMA ClaimQueue ==
  ASSUME Across, NEW t \in Compressors, NEW p \in Seq(ToCompress), NEW b, NEW ok,
         CompressorLoop(t, p, b, ok), SomeExited(compressor) => NoneUnclaimed(p)
  PROVE  SomeExited(compressor') => NoneUnclaimed(pending_work')
<1>1. CASE FoundNothing(t, p, b)
  BY <1>1 DEF FoundNothing, NoneUnclaimed
<1>2. ASSUME NEW i \in 1..Len(p), NEW x, Claimed(t, p, b, i, x)
      PROVE  SomeExited(compressor') => NoneUnclaimed(pending_work')
  <2>1. \A u \in Compressors : compressor'[u] = "exited" => compressor[u] = "exited"
    BY <1>2, AcrossTypes DEF Claimed
  <2>2. ~NoneUnclaimed(p)
    BY <1>2 DEF Claimed, NoneUnclaimed
  <2> QED
    BY <2>1, <2>2 DEF SomeExited
<1> QED
  BY <1>1, <1>2, ClaimEffect

\* A compressor runs only before the owner has joined it.
LEMMA CompressorQueue ==
  ASSUME Across, NEW t \in Compressors, CompressorRun(t) \/ Pack(t) \/ CompressorDone(t)
  PROVE  QueuePhase'
<1>1. pc[Owner] \notin Ending
  BY DEF Across, Now, QueueInv, AllJoined, Ending, CompressorRun, Pack, CompressorDone
<1>2. pc'[Owner] \notin Ending
  <2>1. pc' = pc \/ \E p, b : pc' = Notified(p, b)
    BY DEF CompressorRun, Pack, CompressorDone, clientVars
  <2> QED
    BY <1>1, <2>1, WokenOwner DEF Across, Now, PhaseInv, Ending
<1>3. SomeExited(compressor) => NoneUnclaimed(pending_work)
  BY QueuePhaseParts DEF Across, Now, PhaseInv
<1>4. SomeExited(compressor') => NoneUnclaimed(pending_work')
  <2>1. CASE CompressorRun(t)
    BY <1>3, <2>1, AcrossTypes, ClaimQueue DEF CompressorRun
  <2>2. CASE Pack(t)
    <3>1a. PICK i \in 1..Len(pending_work) : \E x :
            /\ IsItem(x, pending_work[i].extent, pending_work[i].to_update,
                      pending_work[i].in_progress, PackedSize[work[t]])
            /\ pending_work[i].extent = work[t]
            /\ pending_work' = [pending_work EXCEPT ![i] = x]
      BY <2>2, AcrossTypes, PackEffect
    <3>1. PICK x :
            /\ IsItem(x, pending_work[i].extent, pending_work[i].to_update,
                      pending_work[i].in_progress, PackedSize[work[t]])
            /\ pending_work[i].extent = work[t]
            /\ pending_work' = [pending_work EXCEPT ![i] = x]
      BY <3>1a
    <3>2. pending_work[i] \in ToCompress /\ PackedSize[pending_work[i].extent] \in Nat \ {0}
      BY AcrossTypes, ItemFields
    <3>3. x.compressed # 0 /\ x \in ToCompress
      BY <3>1, <3>2 DEF IsItem, ToCompress
    <3>4. NoneUnclaimed(pending_work) => NoneUnclaimed(pending_work')
      BY <3>1, <3>3, AcrossTypes, SeqExcept DEF NoneUnclaimed, Unclaimed
    <3>5. \A u \in Compressors : compressor'[u] = "exited" => compressor[u] = "exited"
      BY <2>2, AcrossTypes DEF Pack
    <3> QED
      BY <1>3, <3>4, <3>5 DEF SomeExited
  <2>3. CASE CompressorDone(t)
    <3>1a. PICK i \in 1..Len(pending_work) : \E x :
            /\ IsItem(x, pending_work[i].extent, NoStats, FALSE,
                      PackedSize[pending_work[i].extent])
            /\ x \in ToCompress
            /\ Completed(i) = [pending_work EXCEPT ![i] = x]
            /\ Completed(i) \in Seq(ToCompress)
            /\ \E b, ok : CompressorLoop(t, Completed(i), b, ok)
      BY <2>3, DoneEffect DEF Across, Now, DoneEffects
    <3>1. PICK x :
            /\ IsItem(x, pending_work[i].extent, NoStats, FALSE,
                      PackedSize[pending_work[i].extent])
            /\ x \in ToCompress
            /\ Completed(i) = [pending_work EXCEPT ![i] = x]
            /\ Completed(i) \in Seq(ToCompress)
            /\ \E b, ok : CompressorLoop(t, Completed(i), b, ok)
      BY <3>1a
    <3>2. PackedSize[pending_work[i].extent] \in Nat \ {0}
      BY AcrossTypes, ItemFields
    <3>3. x.compressed # 0
      BY <3>1, <3>2 DEF IsItem
    <3>4. NoneUnclaimed(pending_work) => NoneUnclaimed(Completed(i))
      BY <3>1, <3>3, AcrossTypes, SeqExcept DEF NoneUnclaimed, Unclaimed
    <3> QED
      BY <1>3, <3>1, <3>4, ClaimQueue
  <2> QED
    BY <2>1, <2>2, <2>3
<1> QED
  BY <1>2, <1>4 DEF QueuePhase, NoneUnclaimed, SomeExited, Positions, Ending

\* The writer thread takes from the front; what it leaves is as it was.
LEMMA WriterQueue ==
  ASSUME Across, WriterRun \/ WriterDone
  PROVE  QueuePhase'
<1>1. /\ UNCHANGED <<compressor, nfiles>> /\ WriterLoop /\ writer # "none"
      /\ pc' = pc \/ \E p, b : pc' = Notified(p, b)
  BY DEF WriterRun, WriterDone, clientVars, fileVars, NotifiedAfter
<1>2. pc[Owner] \notin WithoutWriter
  BY <1>1 DEF Across, Now, PhaseInv, ThreadPhase
<1>3. pc'[Owner] \in Ending => pc'[Owner] = pc[Owner]
  BY <1>1, WokenOwner DEF Across, Now, PhaseInv, Ending
<1>4. CASE UNCHANGED pending_work
  BY <1>1, <1>3, <1>4, SameQueuePhase DEF Across, Now, PhaseInv
<1>5. ASSUME NEW n \in 0..Len(pending_work), Takes("writer", pending_work, n)
      PROVE  QueuePhase'
  <2>1. \A i \in 1..Len(pending_work') : \E k \in 1..Len(pending_work) :
          pending_work'[i] = pending_work[k]
    <3>1. pending_work' = SubSeq(pending_work, n + 1, Len(pending_work))
      BY <1>5 DEF Takes
    <3>2. /\ Len(pending_work') = Len(pending_work) - n
          /\ \A i \in 1..(Len(pending_work) - n) :
               pending_work'[i] = pending_work[n + i] /\ n + i \in 1..Len(pending_work)
      BY <3>1, AcrossTypes, Parts
    <3> QED
      BY <3>2
  <2>2. /\ NoneUnclaimed(pending_work) => NoneUnclaimed(pending_work')
        /\ AllReady(pending_work) => AllReady(pending_work')
    BY <2>1 DEF NoneUnclaimed, AllReady
  <2>3. pc'[Owner] \notin {"drain", "write_index", "pack_index"}
    BY <1>2, <1>3 DEF WithoutWriter, Ending
  <2>4. /\ SomeExited(compressor) => NoneUnclaimed(pending_work)
        /\ pc[Owner] = "join_writer" => AllReady(pending_work)
    BY QueuePhaseParts DEF Across, Now, PhaseInv
  <2>5. /\ SomeExited(compressor') => NoneUnclaimed(pending_work')
        /\ pc'[Owner] = "join_writer" => AllReady(pending_work')
    BY <1>1, <1>3, <2>2, <2>4 DEF Ending
  <2> QED
    BY <2>3, <2>5 DEF QueuePhase, NoneUnclaimed, AllReady, SomeExited, Positions
<1> QED
  BY <1>1, <1>4, <1>5, WriterLoopCases

\* After the last compressor everything on the queue is ready.
LEMMA JoinCompressorsQueue ==
  ASSUME Across, JoinCompressors
  PROVE  QueuePhase'
<1>1. /\ \A t \in Compressors : compressor[t] = "exited" /\ compressor'[t] = "none"
      /\ pc[Owner] = "join_compressors" /\ pc'[Owner] = "join_writer"
      /\ UNCHANGED pending_work
  BY AcrossTypes DEF JoinCompressors, queueVars
<1>2. SomeExited(compressor)
  BY <1>1 DEF SomeExited, Across, Now, PhaseInv, ThreadPhase
<1>3. NoneUnclaimed(pending_work)
  BY <1>2, QueuePhaseParts DEF Across, Now, PhaseInv
<1>4. ASSUME NEW i \in 1..Len(pending_work)
      PROVE  readyToWrite(pending_work[i])
  <2>1. ~pending_work[i].in_progress
    BY <1>1 DEF Across, Now, QueueInv, WorkStaysQueued, ClaimedByACompressor, Packing, Positions
  <2>2. pending_work[i].compressed # 0 /\ pending_work[i].compressed \in Nat
    <3>1. pending_work[i] \in ToCompress
      BY AcrossTypes
    <3> QED
      BY <1>3, <2>1, <3>1, ItemFields DEF NoneUnclaimed, Unclaimed
  <2> QED
    BY <2>1, <2>2 DEF readyToWrite
<1> QED
  BY <1>1, <1>4 DEF QueuePhase, Positions

\* A batch of a queue that is ready leaves nothing.
LEMMA TakesAll ==
  ASSUME NEW a, NEW p \in Seq(ToCompress), NEW n \in 0..Len(p), Takes(a, p, n), AllReady(p)
  PROVE  n = Len(p) /\ pending_work' = << >>
<1>1. n = Len(p)
  <2>1. n < Len(p) => n + 1 \in 1..Len(p)
    OBVIOUS
  <2> QED
    BY <2>1 DEF Takes, AllReady
<1>2. SubSeq(p, Len(p) + 1, Len(p)) = << >>
  OBVIOUS
<1> QED
  BY <1>1, <1>2 DEF Takes

LEMMA CloseQueue ==
  ASSUME Across, JoinWriter \/ CloseIndex \/ PackIndex \/ Seal
  PROVE  QueuePhase'
<1>1. \A t \in Compressors : compressor[t] = "none"
  BY NoneAtEnd DEF JoinWriter, CloseIndex, PackIndex, Seal
<1>2. ~SomeExited(compressor')
  <2>1. UNCHANGED compressor
    BY DEF JoinWriter, CloseIndex, PackIndex, Seal, threadVars
  <2> QED
    BY <1>1, <2>1 DEF SomeExited
<1>3. CASE JoinWriter
  <2>1. BeginWriteOut("closer", pending_work) /\ pc'[Owner] = "drain"
    BY <1>3, AcrossTypes DEF JoinWriter
  <2>2. AllReady(pending_work)
    BY <1>3, QueuePhaseParts DEF Across, Now, PhaseInv, JoinWriter
  <2>3. pending_work' = << >>
    BY <2>1, <2>2, AcrossTypes, TakeEffect, TakesAll
  <2> QED
    BY <1>2, <2>1, <2>3 DEF QueuePhase, SomeExited
<1>4. CASE CloseIndex
  <2>1. pending_work' = <<[NewWork(<<Index, nfiles>>, NoStats) EXCEPT !.in_progress = TRUE]>>
    BY <1>4, CloseIndexEffect
  <2>2. pc'[Owner] = "pack_index" /\ UNCHANGED nfiles
    BY <1>4, AcrossTypes, WokenPhase DEF CloseIndex, NotifiedAfter, Across, Now
  <2> QED
    BY <1>2, <2>1, <2>2 DEF QueuePhase, SomeExited
<1>5. CASE PackIndex
  <2>1. PICK x : /\ IsItem(x, <<Index, nfiles>>, NoStats, FALSE, PackedSize[<<Index, nfiles>>])
                 /\ x \in ToCompress
                 /\ \E n \in 0..1 : Takes("closer", <<x>>, n)
    BY <1>5, PackIndexEffect
  <2> DEFINE p == <<x>>
  <2>2. p \in Seq(ToCompress) /\ Len(p) = 1 /\ p[1] = x
    BY <2>1
  <2>3. PICK n \in 0..Len(p) : Takes("closer", p, n)
    BY <2>1, <2>2
  <2> HIDE DEF p
  <2>4. AllReady(p)
    <3>1. PackedSize[<<Index, nfiles>>] \in Nat \ {0}
      BY <1>5, IndexExtent, SinkAssumption DEF Across, Now, PackIndex
    <3> QED
      BY <2>1, <2>2, <3>1 DEF AllReady, readyToWrite, IsItem
  <2>5. pending_work' = << >>
    BY <2>2, <2>3, <2>4, TakesAll
  <2>6. pc'[Owner] = "write_index"
    BY <1>5, AcrossTypes DEF PackIndex
  <2> QED
    BY <1>2, <2>5, <2>6 DEF QueuePhase, SomeExited
<1>6. CASE Seal
  <2>1. pc'[Owner] = "closed"
    BY <1>6, AcrossTypes, WokenPhase, ZenonT(60) DEF Seal, NotifiedAfter, Across, Now
  <2> QED
    BY <1>2, <2>1 DEF QueuePhase, SomeExited
<1> QED
  BY <1>3, <1>4, <1>5, <1>6

LEMMA RemoveQueue ==
  ASSUME Across, NEW w \in Writers, RemoveStatsUpdate(w)
  PROVE  QueuePhase'
<1>1. /\ Len(pending_work') = Len(pending_work)
      /\ \A i \in 1..Len(pending_work) :
           /\ pending_work'[i].in_progress = pending_work[i].in_progress
           /\ pending_work'[i].compressed = pending_work[i].compressed
      /\ UNCHANGED compressor
  BY RemoveItems
<1>2. pc'[Owner] = pc[Owner] /\ UNCHANGED nfiles
  BY AcrossTypes DEF RemoveStatsUpdate, fileVars
<1>3. QueuePhase
  BY DEF Across, Now, PhaseInv
<1>4. pc[Owner] = "pack_index" => UNCHANGED pending_work
  <2> DEFINE y == [NewWork(<<Index, nfiles>>, NoStats) EXCEPT !.in_progress = TRUE]
  <2> SUFFICES ASSUME pc[Owner] = "pack_index" PROVE UNCHANGED pending_work
    OBVIOUS
  <2>1. pending_work = <<y>>
    BY <1>3 DEF QueuePhase
  <2>2. y.to_update = NoStats
    BY DEF NewWork
  <2> HIDE DEF y
  <2>3. WouldUpdate(w) = {}
    BY <2>1, <2>2, SinkAssumption DEF WouldUpdate
  <2> QED
    BY <2>1, <2>3 DEF RemoveStatsUpdate
<1>5. pending_work = << >> => pending_work' = << >>
  BY <1>1, AcrossTypes
<1> QED
  BY <1>1, <1>2, <1>3, <1>4, <1>5 DEF QueuePhase, Positions, Unclaimed, readyToWrite

LEMMA QueuePhaseStep ==
  ASSUME Across, OwnerPhase', ThreadPhase', Next
  PROVE  QueuePhase'
<1>1. CASE Open \/ QueueLibrary \/ \E w \in Writers : WriteExtent(w)
  <2>1. keep_going'
    <3>1. Open => keep_going'
      BY DEF Open
    <3>2. \A e, s : Appends(e, s) => keep_going'
      BY DEF Appends
    <3>3. QueueLibrary => keep_going'
      BY <3>2, QueueLibraryEffect DEF Across, Now
    <3>4. ASSUME NEW w \in Writers, WriteExtent(w) PROVE keep_going'
      BY <3>2, <3>4, WriteExtentEffect DEF Across, Now
    <3> QED
      BY <1>1, <3>1, <3>3, <3>4
  <2> QED
    BY <2>1, WhileAccepting
<1>2. CASE JoinCompressors
  BY <1>2, JoinCompressorsQueue
<1>3. CASE WriterRun \/ WriterDone
  BY <1>3, WriterQueue
<1>4. ASSUME NEW a \in Writing, WriteOut(a)
      PROVE  QueuePhase'
  <2>1. UNCHANGED <<pending_work, compressor, pc, nfiles>>
    BY <1>4 DEF WriteOut, queueVars, threadVars, clientVars
  <2> QED
    BY <2>1, SameQueuePhase DEF Across, Now, PhaseInv
<1>5. ASSUME NEW t \in Compressors, CompressorRun(t) \/ Pack(t) \/ CompressorDone(t)
      PROVE  QueuePhase'
  BY <1>5, CompressorQueue
<1>6. ASSUME NEW w \in Writers, RemoveStatsUpdate(w)
      PROVE  QueuePhase'
  BY <1>6, RemoveQueue
<1>7. CASE JoinWriter \/ CloseIndex \/ PackIndex \/ Seal
  BY <1>7, CloseQueue
<1>8. CASE \/ CloseBegin \/ MarkWroteLibrary \/ UNCHANGED vars
           \/ \E c \in Clients : QueueWakeup(c)
           \/ \E w \in Writers : FlushPending(w) \/ FlushWakeup(w) \/ SetExtentWriteCallback(w)
           \/ \E w \in Writers, n \in MaxBytesChoices : SetMaxBytesInProgress(w, n)
  <2>1. /\ UNCHANGED <<pending_work, nfiles>>
        /\ \A t \in Compressors : compressor'[t] = "exited" => compressor[t] = "exited"
    <3>1. UNCHANGED nfiles
      BY <1>8 DEF CloseBegin, MarkWroteLibrary, QueueWakeup, FlushPending, FlushWakeup,
         FlushTest, SetExtentWriteCallback, SetMaxBytesInProgress, vars, fileVars
    <3> QED
      BY <1>8, <3>1, KeepsClaims DEF Across, Now, Keeps
  <2>2. pc'[Owner] \in Ending => pc'[Owner] = pc[Owner]
    <3>1. CASE CloseBegin \/ MarkWroteLibrary
      BY <3>1, AcrossTypes DEF CloseBegin, MarkWroteLibrary, Ending
    <3>2. ASSUME NEW c \in Clients, QueueWakeup(c)
          PROVE  pc'[Owner] \in Ending => pc'[Owner] = pc[Owner]
      BY <3>2, AcrossTypes DEF QueueWakeup, Return, Ending
    <3>3. ASSUME NEW w \in Writers,
                 FlushPending(w) \/ FlushWakeup(w) \/ SetExtentWriteCallback(w)
          PROVE  pc'[Owner] \in Ending => pc'[Owner] = pc[Owner]
      BY <3>3, AcrossTypes DEF FlushPending, FlushWakeup, FlushTest, SetExtentWriteCallback
    <3>4. ASSUME NEW w \in Writers, NEW n \in MaxBytesChoices, SetMaxBytesInProgress(w, n)
          PROVE  pc'[Owner] \in Ending => pc'[Owner] = pc[Owner]
      BY <3>4, WokenOwner DEF SetMaxBytesInProgress, Across, Now, PhaseInv, Ending
    <3>5. UNCHANGED vars => UNCHANGED pc
      BY DEF vars, clientVars
    <3> QED
      BY <1>8, <3>1, <3>2, <3>3, <3>4, <3>5
  <2> QED
    BY <2>1, <2>2, SameQueuePhase DEF Across, Now, PhaseInv
<1> QED
  BY <1>1, <1>2, <1>3, <1>4, <1>5, <1>6, <1>7, <1>8, NextCases

\* The steps preserve it all, as long as no assertion fails.
LEMMA PhaseStep ==
  ASSUME Across, Next
  PROVE  PhaseInv'
  BY OwnerPhaseStep, ThreadPhaseStep, BatchPhaseStep, QueuePhaseStep, ItemPhaseStep
  DEF Across, Now, PhaseInv

----------------------------------------------------------------------------
\* The safety properties.
\*
\* The inductive invariant is SafeInv: the type and queue invariants and the phases
\* above, that no assertion has failed, and the exact sums behind bytes_in_progress
\* (BytesInv) and the Stats (CountInv).  It has to be one invariant: an assertion
\* holds because of the sums, and the sums are kept because no assertion has failed.
\* On top of it WakeInv (nobody sleeps through what it waits for), LogInv (what has
\* been accepted), IndexInv (what the index lists) and FlushInv each carry one
\* property further.

----------------------------------------------------------------------------
\* What the work on a queue weighs: in bytes, in Stats it will update, and in
\* extents that are ready

Bytes == [i \in ToCompress |-> Footprint(i)]
Updates(w) == [i \in ToCompress |-> IF i.to_update = w THEN 1 ELSE 0]
Ready == [i \in ToCompress |-> IF readyToWrite(i) THEN 1 ELSE 0]

Weighs(f) == \A x \in ToCompress : f[x] \in Nat

LEMMA Weights3 ==
  /\ Weighs(Bytes) /\ Weighs(Ready) /\ \A w : Weighs(Updates(w))
<1>1. Weighs(Bytes)
  <2> SUFFICES ASSUME NEW x \in ToCompress PROVE Footprint(x) \in Nat
    BY DEF Weighs, Bytes
  <2> QED
    BY ItemFields DEF Footprint
<1>2. Weighs(Ready) /\ \A w : Weighs(Updates(w))
  BY DEF Weighs, Ready, Updates
<1> QED
  BY <1>1, <1>2

LEMMA ItemWeights ==
  ASSUME NEW x \in ToCompress
  PROVE  /\ Bytes[x] = IF x.in_progress THEN 2 * RawSize[x.extent]
                       ELSE IF x.compressed > 0 THEN x.compressed ELSE RawSize[x.extent]
         /\ Ready[x] = IF x.compressed > 0 /\ ~x.in_progress THEN 1 ELSE 0
         /\ \A w : Updates(w)[x] = IF x.to_update = w THEN 1 ELSE 0
  BY ItemFields DEF Bytes, Ready, Updates, readyToWrite, Footprint

LEMMA QueueWeight ==
  ASSUME NEW f, Weighs(f), NEW p \in Seq(ToCompress)
  PROVE  /\ Weight(f, p) \in Nat
         /\ \A i \in 1..Len(p) : f[p[i]] \in Nat /\ f[p[i]] <= Weight(f, p)
  <1>1. \A x \in ToCompress : f[x] \in Nat
    BY DEF Weighs
  <1>2. \A i \in 1..Len(p) : p[i] \in ToCompress
    OBVIOUS
  <1>3. Weight(f, p) \in Nat /\ \A i \in 1..Len(p) : f[p[i]] <= Weight(f, p)
    BY <1>1, WeightNat
  <1> QED
    BY <1>1, <1>2, <1>3

LEMMA AppendedWeight ==
  ASSUME NEW f, Weighs(f), NEW p \in Seq(ToCompress), NEW x \in ToCompress
  PROVE  Weight(f, Append(p, x)) = Weight(f, p) + f[x]
<1>1. \A y \in ToCompress : f[y] \in Int
  BY DEF Weighs
<1> QED
  BY <1>1, WeightAppend

LEMMA ChangedWeight ==
  ASSUME NEW f, Weighs(f), NEW p \in Seq(ToCompress), NEW i \in 1..Len(p), NEW x \in ToCompress
  PROVE  Weight(f, [p EXCEPT ![i] = x]) = Weight(f, p) - f[p[i]] + f[x]
<1>1. \A y \in ToCompress : f[y] \in Int
  BY DEF Weighs
<1>2. \A g : (\A y \in ToCompress : g[y] \in Int) =>
        \A q \in Seq(ToCompress) : \A k \in 1..Len(q), y \in ToCompress :
          Weight(g, [q EXCEPT ![k] = y]) = Weight(g, q) - g[q[k]] + g[y]
  BY WeightExcept
<1>3. \A q \in Seq(ToCompress) : \A k \in 1..Len(q), y \in ToCompress :
        Weight(f, [q EXCEPT ![k] = y]) = Weight(f, q) - f[q[k]] + f[y]
  BY <1>1, <1>2, Zenon
<1> QED
  BY <1>3, Zenon

LEMMA TakenWeight ==
  ASSUME NEW f, Weighs(f), NEW p \in Seq(ToCompress), NEW n \in 0..Len(p)
  PROVE  Weight(f, p) = Weight(f, SubSeq(p, 1, n)) + Weight(f, SubSeq(p, n + 1, Len(p)))
<1>1. \A y \in ToCompress : f[y] \in Int
  BY DEF Weighs
<1> QED
  BY <1>1, WeightSplit

LEMMA WrittenWeight ==
  ASSUME NEW f, Weighs(f), NEW p \in Seq(ToCompress), p # << >>
  PROVE  Weight(f, p) = f[Head(p)] + Weight(f, Tail(p))
<1>1. \A y \in ToCompress : f[y] \in Int
  BY DEF Weighs
<1> QED
  BY <1>1, WeightTail

LEMMA FootprintIsWeight ==
  ASSUME NEW p \in Seq(ToCompress)
  PROVE  FootprintOf(p) = Weight(Bytes, p)
<1>1. \A i \in 1..Len(p) : Bytes[p[i]] = Footprint(p[i])
  BY DEF Bytes
<1>2. [i \in 1..Len(p) |-> Bytes[p[i]]] = [i \in 1..Len(p) |-> Footprint(p[i])]
  BY <1>1
<1> QED
  BY <1>2 DEF FootprintOf, Weight

LEMMA ReferringIsWeight ==
  ASSUME NEW w, pending_work \in Seq(ToCompress)
  PROVE  Cardinality(Referring(w)) = Weight(Updates(w), pending_work)
<1> DEFINE n == Len(pending_work)
           p == pending_work
<1>1. n \in Nat /\ Referring(w) \in SUBSET (1..n)
  BY DEF Referring, Positions
<1>2. Cardinality(Referring(w)) = Total(Indicator(n, Referring(w)))
  BY <1>1, CountIsTotal
<1>3. \A i \in 1..n : Updates(w)[p[i]] = IF i \in Referring(w) THEN 1 ELSE 0
  BY DEF Updates, Referring, Positions
<1>4. [i \in 1..n |-> Updates(w)[p[i]]] = [i \in 1..n |-> IF i \in Referring(w) THEN 1 ELSE 0]
  BY <1>3
<1> QED
  BY <1>2, <1>4 DEF Weight, Indicator

----------------------------------------------------------------------------
\* The bytes in progress

Held(a) == out[a].bytes + Weight(Bytes, out[a].to_write)

BytesInv == bytes_in_progress = Weight(Bytes, pending_work) + Held("writer") + Held("closer")

LEMMA HeldTypes ==
  ASSUME TypeInv
  PROVE  /\ Weight(Bytes, pending_work) \in Nat
         /\ \A a \in Writing : /\ Held(a) \in Nat /\ out[a].bytes \in Nat
                               /\ out[a].to_write \in Seq(ToCompress)
                               /\ Weight(Bytes, out[a].to_write) \in Nat
<1>1. pending_work \in Seq(ToCompress)
  BY DEF TypeInv, TypeOK, QueueTypes
<1>2. \A a \in Writing : out[a].bytes \in Nat /\ out[a].to_write \in Seq(ToCompress)
  BY DEF TypeInv, TypeOK, OutTypes
<1>3. Weighs(Bytes)
  BY Weights3
<1>4. Weight(Bytes, pending_work) \in Nat
  BY <1>1, <1>3, QueueWeight
<1>5. \A a \in Writing : Weight(Bytes, out[a].to_write) \in Nat
  BY <1>2, <1>3, QueueWeight
<1> QED
  BY <1>2, <1>4, <1>5 DEF Held

LEMMA NothingHeld ==
  ASSUME NEW a, out[a] = NoBatch
  PROVE  Held(a) = 0
  BY WeightEmpty DEF NoBatch, Held

LEMMA BytesIsAccounting ==
  ASSUME TypeInv, ~aborted, BytesInv
  PROVE  BytesAccounting
<1>1. /\ pending_work \in Seq(ToCompress) /\ "writer" \in Writing /\ "closer" \in Writing
      /\ out["writer"].to_write \in Seq(ToCompress) /\ out["closer"].to_write \in Seq(ToCompress)
  BY HeldTypes DEF TypeInv, TypeOK, QueueTypes, Writing
<1>2. /\ FootprintOf(pending_work) = Weight(Bytes, pending_work)
      /\ FootprintOf(out["writer"].to_write) = Weight(Bytes, out["writer"].to_write)
      /\ FootprintOf(out["closer"].to_write) = Weight(Bytes, out["closer"].to_write)
  BY <1>1, FootprintIsWeight
<1> QED
  BY <1>2 DEF BytesAccounting, BytesInv, Held, TypeInv, NoAssertionFails

----------------------------------------------------------------------------
\* What the Stats have counted

CountInv ==
  /\ \A w \in Writers :
       /\ use_count[w] = Weight(Updates(w), pending_work)
       /\ pc[w] = "removed" => Weight(Updates(w), pending_work) = 0
       /\ counted[w] + use_count[w] <= calls[w]
  /\ pc[Owner] = "closed" => stats = 0
  /\ pc[Owner] # "closed" =>
       stats = Len(disk) + Len(out["writer"].to_write) + Len(out["closer"].to_write)
               + Weight(Ready, pending_work)
  /\ pc[Owner] = "closed" /\ nfiles > 0 => final_stats = Len(disk)

SafeInv == Now /\ BytesInv /\ CountInv

LEMMA SafeTypes ==
  ASSUME SafeInv
  PROVE  /\ pending_work \in Seq(ToCompress) /\ Len(pending_work) \in Nat
         /\ \A i \in 1..Len(pending_work) : pending_work[i] \in ToCompress
         /\ out \in [Writing -> [to_write : Seq(ToCompress), bytes : Nat, ewc : Nat]]
         /\ "writer" \in Writing /\ "closer" \in Writing /\ "writer" # "closer"
         /\ Owner \in Clients /\ \A w \in Writers : w \in Clients /\ w # Owner
         /\ bytes_in_progress \in Nat /\ cur_offset \in Int /\ disk \in Seq(Extents)
         /\ keep_going \in BOOLEAN /\ wrote_library \in BOOLEAN /\ ncompressors \in Nat
         /\ Weight(Bytes, pending_work) \in Nat
         /\ Held("writer") \in Nat /\ Held("closer") \in Nat
         /\ out["writer"].bytes \in Nat /\ out["closer"].bytes \in Nat
         /\ bytes_in_progress = Weight(Bytes, pending_work) + Held("writer") + Held("closer")
<1>1. /\ pending_work \in Seq(ToCompress)
      /\ bytes_in_progress \in Nat
      /\ out \in [Writing -> [to_write : Seq(ToCompress), bytes : Nat, ewc : Nat]]
      /\ cur_offset \in Int /\ disk \in Seq(Extents)
      /\ keep_going \in BOOLEAN /\ wrote_library \in BOOLEAN /\ ncompressors \in Nat
  BY DEF SafeInv, Now, TypeInv, TypeOK, QueueTypes, ThreadTypes, OutTypes, FileTypes
<1>2. /\ Owner \in Clients /\ \A w \in Writers : w \in Clients /\ w # Owner
      /\ "writer" \in Writing /\ "closer" \in Writing
  BY SinkAssumption DEF Clients, Writing
<1>3. /\ Len(pending_work) \in Nat
      /\ \A i \in 1..Len(pending_work) : pending_work[i] \in ToCompress
  BY <1>1
<1>4. /\ Weight(Bytes, pending_work) \in Nat
      /\ Held("writer") \in Nat /\ Held("closer") \in Nat
      /\ out["writer"].bytes \in Nat /\ out["closer"].bytes \in Nat
  BY <1>2, HeldTypes DEF SafeInv, Now
<1> QED
  BY <1>1, <1>2, <1>3, <1>4 DEF SafeInv, Now, BytesInv

----------------------------------------------------------------------------
\* No assertion fails

LEMMA OpenSafe ==
  ASSUME SafeInv, Open
  PROVE  ~aborted'
<1>1. pc[Owner] = "closed"
  BY DEF Open
<1>2. pending_work = << >> /\ stats = 0
  BY <1>1 DEF SafeInv, Now, QueueInv, EmptyBetweenFiles, CountInv
<1>3. ~keep_going /\ ~wrote_library /\ cur_offset = -1 /\ index_series = << >>
  BY <1>1, SafeTypes DEF SafeInv, Now, PhaseInv, OwnerPhase, Accepting, Opening, Closing
<1>4. ncompressors = 0 /\ writer = "none"
  BY <1>1 DEF SafeInv, Now, PhaseInv, ThreadPhase, Compressing, Accepting, Opening, WithoutWriter
<1>5. Held("writer") = 0 /\ Held("closer") = 0
  BY <1>1, <1>4, NothingHeld DEF SafeInv, Now, PhaseInv, BatchPhase
<1>6. bytes_in_progress = 0
  BY <1>2, <1>5, SafeTypes, WeightEmpty
<1> QED
  BY <1>2, <1>3, <1>4, <1>6 DEF Open, Invariant, isQuiesced

LEMMA QueueSafe ==
  ASSUME SafeInv, NEW c, NEW e, NEW s, queueWriteExtent(c, e, s), pc[Owner] \in Accepting
  PROVE  ~aborted'
<1>1. ncompressors > 0
  <2>1. ncompressors = Cardinality(Compressors) /\ Compressors # {}
    BY DEF SafeInv, Now, PhaseInv, ThreadPhase, Compressing
  <2>2. IsFiniteSet(Compressors)
    BY SinkAssumption
  <2>3. Cardinality(Compressors) \in Nat /\ Cardinality(Compressors) # 0
    BY <2>1, <2>2, FS_CardinalityType, FS_EmptySet
  <2> QED
    BY <2>1, <2>3
<1>2. keep_going /\ cur_offset > 0
  BY SafeTypes DEF SafeInv, Now, PhaseInv, OwnerPhase, Accepting, Opening
<1>3. ncompressors = 0 => FALSE
  BY <1>1
<1>4. Invariant(keep_going /\ cur_offset > 0)
  BY <1>3 DEF queueWriteExtent
<1> QED
  BY <1>2, <1>4 DEF Invariant

LEMMA QueueWakeupSafe ==
  ASSUME SafeInv, NEW c \in Clients, QueueWakeup(c)
  PROVE  ~aborted'
<1>1. pc[Owner] \in Accepting
  <2>1. CASE c = Owner
    BY <2>1 DEF QueueWakeup, Accepting, Opening
  <2>2. CASE c \in Writers
    BY <2>2 DEF QueueWakeup, SafeInv, Now, PhaseInv, OwnerPhase, Accepting
  <2> QED
    BY <2>1, <2>2 DEF Clients
<1>2. keep_going /\ cur_offset > 0
  BY <1>1, SafeTypes DEF SafeInv, Now, PhaseInv, OwnerPhase, Accepting, Opening
<1> QED
  BY <1>2 DEF QueueWakeup, Invariant

LEMMA RemoveSafe ==
  ASSUME SafeInv, NEW w \in Writers, RemoveStatsUpdate(w)
  PROVE  ~aborted'
<1>1. WouldUpdate(w) = Referring(w)
  BY DEF WouldUpdate, Referring, Positions
<1>2. use_count[w] = Cardinality(WouldUpdate(w))
  BY <1>1, SafeTypes, ReferringIsWeight DEF SafeInv, Now, CountInv
<1>3. use_count[w] \in Nat
  BY DEF SafeInv, Now, TypeInv, TypeOK, StatsTypes
<1>4. use_count[w] >= Cardinality(WouldUpdate(w))
  BY <1>2, <1>3
<1> QED
  BY <1>4 DEF RemoveStatsUpdate, Invariant

LEMMA ClaimSafe ==
  ASSUME SafeInv, NEW t \in Compressors, NEW p \in Seq(ToCompress), NEW b, NEW ok, ok,
         CompressorLoop(t, p, b, ok), NEW h \in Nat, b = Weight(Bytes, p) + h,
         compressor[t] # "none"
  PROVE  ~aborted'
<1>1. cur_offset > 0
  BY DEF SafeInv, Now, PhaseInv, OwnerPhase, QueueInv, AllJoined
<1>2. CASE \A i \in 1..Len(p) : ~Unclaimed(p[i])
  BY <1>2 DEF CompressorLoop, Invariant
<1>3. CASE \E i \in 1..Len(p) : Unclaimed(p[i])
  <2>1. PICK i \in 1..Len(p) :
          /\ Unclaimed(p[i])
          /\ Invariant(ok /\ b >= RawSize[p[i].extent] /\ cur_offset > 0)
    BY <1>3 DEF CompressorLoop
  <2>2. p[i] \in ToCompress
    OBVIOUS
  <2>3. Bytes[p[i]] = RawSize[p[i].extent]
    BY <2>1, <2>2, ItemWeights DEF Unclaimed
  <2>4. Weight(Bytes, p) \in Nat /\ RawSize[p[i].extent] \in Nat
        /\ RawSize[p[i].extent] <= Weight(Bytes, p)
    BY <2>3, QueueWeight, Weights3
  <2>5. b >= RawSize[p[i].extent]
    BY <2>4
  <2> QED
    BY <1>1, <2>1, <2>5 DEF Invariant
<1> QED
  BY <1>2, <1>3

LEMMA CompressorRunSafe ==
  ASSUME SafeInv, NEW t \in Compressors, CompressorRun(t)
  PROVE  ~aborted'
<1>1. /\ CompressorLoop(t, pending_work, bytes_in_progress, TRUE) /\ compressor[t] # "none"
  BY DEF CompressorRun
<1>2. /\ Held("writer") + Held("closer") \in Nat
      /\ bytes_in_progress = Weight(Bytes, pending_work) + (Held("writer") + Held("closer"))
  BY SafeTypes, SMTT(30)
<1> QED
  BY <1>1, <1>2, SafeTypes, ClaimSafe


\* The bytes of the finished work count once more, those of its buffers no
\* longer.
LEMMA DoneBytes ==
  ASSUME SafeInv, NEW t \in Compressors, NEW i \in 1..Len(pending_work), NEW x,
         DoneEffects(t, i, x)
  PROVE  /\ bytes_in_progress >= 2 * RawSize[work[t]]
         /\ Held("writer") + Held("closer") \in Nat
         /\ CompletedBytes(i) = Weight(Bytes, Completed(i)) + (Held("writer") + Held("closer"))
<1> DEFINE y == pending_work[i]
           p == Completed(i)
<1>2. /\ y \in ToCompress /\ y.in_progress /\ y.extent = work[t]
      /\ RawSize[y.extent] \in Nat \ {0} /\ PackedSize[y.extent] \in Nat \ {0}
  BY SafeTypes, ItemFields DEF DoneEffects
<1>3. Bytes[y] = 2 * RawSize[y.extent]
  BY <1>2, ItemWeights
<1>13. pending_work \in Seq(ToCompress) /\ Weighs(Bytes)
  BY SafeTypes, Weights3
<1>4. Bytes[y] <= Weight(Bytes, pending_work)
  BY <1>13, QueueWeight
<1>5. bytes_in_progress >= 2 * RawSize[work[t]]
  <2>1. Bytes[y] <= bytes_in_progress
    <3> HIDE DEF y
    <3>1. Bytes[y] \in Nat
      BY <1>2, <1>3
    <3>2. /\ bytes_in_progress = Weight(Bytes, pending_work) + Held("writer") + Held("closer")
          /\ Weight(Bytes, pending_work) \in Nat
          /\ Held("writer") \in Nat /\ Held("closer") \in Nat
      BY SafeTypes
    <3> QED
      BY <1>4, <3>1, <3>2
  <2> QED
    BY <1>2, <1>3, <2>1, SafeTypes
<1>8. p = [pending_work EXCEPT ![i] = x] /\ x \in ToCompress /\ p \in Seq(ToCompress)
  BY DEF DoneEffects
<1>9. Bytes[x] = PackedSize[y.extent]
  <2>1. /\ x.extent = y.extent /\ x.in_progress = FALSE /\ x.compressed = PackedSize[y.extent]
    BY DEF DoneEffects, IsItem
  <2>2. PackedSize[y.extent] > 0
    BY <1>2
  <2> QED
    BY <1>8, <2>1, <2>2, ItemWeights
<1>10. Weight(Bytes, p) = Weight(Bytes, pending_work) - Bytes[y] + Bytes[x]
  <2>1. Weight(Bytes, [pending_work EXCEPT ![i] = x])
          = Weight(Bytes, pending_work) - Bytes[pending_work[i]] + Bytes[x]
    BY <1>8, <1>13, ChangedWeight
  <2> QED
    BY <1>8, <2>1
<1> DEFINE h == Held("writer") + Held("closer")
           b == CompletedBytes(i)
<1>11. b = bytes_in_progress - 2 * RawSize[y.extent] + PackedSize[y.extent]
  BY DEF DoneEffects
<1> HIDE DEF p, b, y
<1>12. h \in Nat /\ b = Weight(Bytes, p) + h
  <2>1. Weight(Bytes, p) \in Nat
    BY <1>8, QueueWeight, Weights3
  <2>2. h \in Nat /\ bytes_in_progress = Weight(Bytes, pending_work) + h
    <3> DEFINE u == Held("writer")
               k == Held("closer")
               z == Weight(Bytes, pending_work)
    <3>1. bytes_in_progress = z + u + k /\ z \in Nat /\ u \in Nat /\ k \in Nat
      BY SafeTypes
    <3>2. h = u + k
      OBVIOUS
    <3> HIDE DEF u, k, z, h
    <3>3. h \in Nat /\ bytes_in_progress = z + h
      BY <3>1, <3>2
    <3> QED
      BY <3>3 DEF z
  <2> HIDE DEF h
  <2>3. Weight(Bytes, pending_work) \in Nat /\ bytes_in_progress \in Nat
    BY SafeTypes
  <2>4. Weight(Bytes, p) = Weight(Bytes, pending_work) - 2 * RawSize[y.extent] + PackedSize[y.extent]
    BY <1>3, <1>9, <1>10
  <2>5. b = (Weight(Bytes, pending_work) + h) - 2 * RawSize[y.extent] + PackedSize[y.extent]
    BY <1>11, <2>2
  <2>6. RawSize[y.extent] \in Int /\ PackedSize[y.extent] \in Int
    BY <1>2
  <2>7. h \in Nat
    BY <2>2
  <2> DEFINE w == Weight(Bytes, pending_work)
             v == Weight(Bytes, p)
             r == RawSize[y.extent]
             q == PackedSize[y.extent]
  <2>8. v \in Nat /\ w \in Nat /\ r \in Int /\ q \in Int
    BY <2>1, <2>3, <2>6
  <2>9. v = w - 2 * r + q /\ b = (w + h) - 2 * r + q
    BY <2>4, <2>5
  <2> HIDE DEF w, v, r, q
  <2>10. b = v + h
    BY <2>7, <2>8, <2>9
  <2> QED
    BY <2>7, <2>10 DEF v
<1> QED
  BY <1>5, <1>12 DEF p, b

LEMMA CompressorDoneSafe ==
  ASSUME SafeInv, NEW t \in Compressors, CompressorDone(t)
  PROVE  ~aborted'
<1>1a. PICK i \in 1..Len(pending_work) : \E x : DoneEffects(t, i, x)
  BY DoneEffect DEF SafeInv
<1>1. PICK x : DoneEffects(t, i, x)
  BY <1>1a
<1> DEFINE y == pending_work[i]
           ok == /\ y.to_update \in Writers => use_count[y.to_update] > 0
                 /\ bytes_in_progress >= 2 * RawSize[work[t]]
<1>2. y \in ToCompress
  BY SafeTypes
<1>3. /\ bytes_in_progress >= 2 * RawSize[work[t]]
      /\ Held("writer") + Held("closer") \in Nat
      /\ CompletedBytes(i) = Weight(Bytes, Completed(i)) + (Held("writer") + Held("closer"))
  BY <1>1, DoneBytes
<1>6. y.to_update \in Writers => use_count[y.to_update] > 0
  <2> SUFFICES ASSUME y.to_update \in Writers PROVE use_count[y.to_update] > 0
    OBVIOUS
  <2> DEFINE w == y.to_update
  <2>1. Updates(w)[y] = 1
    BY <1>2, ItemWeights
  <2>2. Weighs(Updates(w))
    BY Weights3
  <2>3. Weight(Updates(w), pending_work) \in Nat /\ Updates(w)[y] <= Weight(Updates(w), pending_work)
    BY <2>2, SafeTypes, QueueWeight
  <2>4. use_count[w] = Weight(Updates(w), pending_work)
    BY DEF SafeInv, CountInv
  <2> QED
    BY <2>1, <2>3, <2>4
<1>7. ok
  BY <1>3, <1>6
<1>8. /\ CompressorLoop(t, Completed(i), CompletedBytes(i), ok) /\ compressor[t] # "none"
      /\ Completed(i) \in Seq(ToCompress)
  BY <1>1 DEF DoneEffects, CompressorDone
<1> HIDE DEF ok
<1> QED
  BY <1>3, <1>7, <1>8, ClaimSafe

LEMMA WriterDoneSafe ==
  ASSUME SafeInv, WriterDone
  PROVE  ~aborted'
<1>1. Invariant(bytes_in_progress >= out["writer"].bytes) /\ out["writer"].to_write = << >>
  BY DEF WriterDone, FinishWriteOut
<1>2. Held("writer") = out["writer"].bytes
  BY <1>1, SafeTypes, WeightEmpty DEF Held
<1>3. bytes_in_progress >= out["writer"].bytes
  BY <1>2, SafeTypes, SMTT(30)
<1> QED
  BY <1>1, <1>3 DEF Invariant

\* While the closer works nothing else is held.
LEMMA CloserAlone ==
  ASSUME SafeInv, pc[Owner] \in {"drain", "pack_index", "write_index"}
  PROVE  /\ Held("writer") = 0 /\ out["writer"] = NoBatch
         /\ pc[Owner] \in {"drain", "write_index"} =>
              pending_work = << >> /\ Weight(Bytes, pending_work) = 0
         /\ pc[Owner] = "pack_index" => Held("closer") = 0 /\ out["closer"] = NoBatch
<1>1. out["writer"] = NoBatch
  BY DEF SafeInv, Now, PhaseInv, ThreadPhase, BatchPhase, WithoutWriter
<1>2. pc[Owner] \in {"drain", "write_index"} =>
        pending_work = << >> /\ Weight(Bytes, pending_work) = 0
  BY WeightEmpty DEF SafeInv, Now, PhaseInv, QueuePhase
<1>3. pc[Owner] = "pack_index" => out["closer"] = NoBatch
  BY DEF SafeInv, Now, PhaseInv, BatchPhase
<1> QED
  BY <1>1, <1>2, <1>3, NothingHeld

LEMMA CloseIndexSafe ==
  ASSUME SafeInv, CloseIndex
  PROVE  /\ ~aborted' /\ bytes_in_progress = out["closer"].bytes
<1>1. /\ pc[Owner] = "drain" /\ out["closer"].to_write = << >>
  BY DEF CloseIndex
<1>2. Held("closer") = out["closer"].bytes
  BY <1>1, SafeTypes, WeightEmpty DEF Held
<1>3. bytes_in_progress = out["closer"].bytes /\ pending_work = << >>
  BY <1>1, <1>2, SafeTypes, CloserAlone
<1>4. cur_offset > 0
  BY <1>1 DEF SafeInv, Now, PhaseInv, OwnerPhase
<1>5. bytes_in_progress >= out["closer"].bytes /\ bytes_in_progress - out["closer"].bytes = 0
  BY <1>3, SafeTypes
<1> QED
  BY <1>3, <1>4, <1>5 DEF CloseIndex, Invariant

LEMMA PackIndexSafe ==
  ASSUME SafeInv, PackIndex
  PROVE  /\ ~aborted' /\ bytes_in_progress = 2 * RawSize[<<Index, nfiles>>]
         /\ <<Index, nfiles>> \in Extents
<1> DEFINE e == <<Index, nfiles>>
           y == [NewWork(e, NoStats) EXCEPT !.in_progress = TRUE]
<1>1. pc[Owner] = "pack_index" /\ e \in Extents
  BY IndexExtent DEF PackIndex, SafeInv, Now
<1>2. pending_work = <<y>>
  BY <1>1 DEF SafeInv, Now, PhaseInv, QueuePhase
<1>3. IsItem(y, e, NoStats, TRUE, 0) /\ y \in ToCompress
  BY <1>1, IndexItem
<1> HIDE DEF y
<1>4. Bytes[y] = 2 * RawSize[e]
  <2>1. y.extent = e /\ y.in_progress = TRUE
    BY <1>3 DEF IsItem
  <2> QED
    BY <1>3, <2>1, ItemWeights
<1> HIDE DEF e
<1>5. Weight(Bytes, <<y>>) = Bytes[y]
  <2>1. << >> \in Seq(ToCompress) /\ <<y>> = Append(<< >>, y)
    OBVIOUS
  <2>2. Bytes[y] \in Nat
    BY <1>3, Weights3 DEF Weighs
  <2>3. Weight(Bytes, Append(<< >>, y)) = Weight(Bytes, << >>) + Bytes[y]
    BY <1>3, <2>1, AppendedWeight, Weights3
  <2> QED
    BY <2>1, <2>2, <2>3, WeightEmpty
<1>6. bytes_in_progress = 2 * RawSize[e]
  <2>1. Held("writer") = 0 /\ Held("closer") = 0
    BY <1>1, CloserAlone
  <2>2. 2 * RawSize[e] \in Nat /\ 2 * RawSize[e] \in Int
    BY <1>1, SinkAssumption
  <2> QED
    BY <1>2, <1>4, <1>5, <2>1, <2>2, SafeTypes
<1>7. PackedSize[e] \in Nat /\ RawSize[e] \in Nat
  BY <1>1, SinkAssumption
<1>8. Len(pending_work) = 1
  BY <1>2
<1>9. /\ bytes_in_progress >= 2 * RawSize[e]
      /\ bytes_in_progress - 2 * RawSize[e] + PackedSize[e] = PackedSize[e]
  BY <1>6, <1>7
<1> QED
  BY <1>1, <1>6, <1>8, <1>9 DEF PackIndex, Invariant, e

LEMMA SealSafe ==
  ASSUME SafeInv, Seal
  PROVE  ~aborted' /\ pending_work = << >> /\ bytes_in_progress = out["closer"].bytes
<1>1. /\ pc[Owner] = "write_index" /\ out["closer"].to_write = << >>
  BY DEF Seal
<1>2. Held("closer") = out["closer"].bytes
  BY <1>1, SafeTypes, WeightEmpty DEF Held
<1>3. bytes_in_progress = out["closer"].bytes /\ pending_work = << >>
  BY <1>1, <1>2, SafeTypes, CloserAlone
<1> QED
  BY <1>3 DEF Seal, Invariant

\* None of the INVARIANTs of the code can fail in a step.
LEMMA NeverAborts ==
  ASSUME SafeInv, Next
  PROVE  ~aborted'
<1>0. ~aborted
  BY DEF SafeInv, Now
<1>1. CASE QueueLibrary
  BY <1>1, QueueSafe DEF QueueLibrary, Accepting, Opening
<1>2. ASSUME NEW w \in Writers, WriteExtent(w) PROVE ~aborted'
  BY <1>2, QueueSafe DEF WriteExtent, Accepting
<1>3. CASE MarkWroteLibrary
  BY <1>3 DEF MarkWroteLibrary, Invariant, SafeInv, Now, PhaseInv, OwnerPhase, Closing
<1>4. CASE JoinCompressors \/ WriterRun \/ UNCHANGED vars
  BY <1>0, <1>4 DEF JoinCompressors, WriterRun, vars
<1>5. CASE JoinWriter
  BY <1>5 DEF JoinWriter, Invariant, SafeInv, Now, PhaseInv, ThreadPhase, WithoutWriter
<1>6. CASE CloseBegin
  <2>1. wrote_library /\ cur_offset >= 0
    BY <1>6, SafeTypes DEF CloseBegin, SafeInv, Now, PhaseInv, OwnerPhase
  <2> QED
    BY <1>6, <2>1 DEF CloseBegin, Invariant
<1>7. ASSUME NEW a \in Writing, WriteOut(a) PROVE ~aborted'
  <2>1. cur_offset > 0
    BY <1>7, BatchOpen DEF WriteOut, SafeInv, Now
  <2> QED
    BY <1>7, <2>1 DEF WriteOut, Invariant
<1>8. ASSUME NEW t \in Compressors, Pack(t) PROVE ~aborted'
  BY <1>0, <1>8 DEF Pack
<1>9. ASSUME NEW w \in Writers,
             FlushPending(w) \/ FlushWakeup(w) \/ SetExtentWriteCallback(w)
      PROVE  ~aborted'
  BY <1>0, <1>9 DEF FlushPending, FlushWakeup, FlushTest, SetExtentWriteCallback
<1>10. ASSUME NEW w \in Writers, NEW n \in MaxBytesChoices, SetMaxBytesInProgress(w, n)
       PROVE  ~aborted'
  BY <1>0, <1>10 DEF SetMaxBytesInProgress
<1> QED
  BY <1>1, <1>2, <1>3, <1>4, <1>5, <1>6, <1>7, <1>8, <1>9, <1>10, NextCases, OpenSafe,
     QueueWakeupSafe, RemoveSafe, CompressorRunSafe, CompressorDoneSafe, WriterDoneSafe,
     CloseIndexSafe, PackIndexSafe, SealSafe

----------------------------------------------------------------------------
\* The bytes in progress, step by step

Step == SafeInv /\ Across /\ PhaseInv'

\* The equation that is BytesInv, with what the batches hold given.
LEMMA BytesFrom ==
  ASSUME Step, NEW v, NEW c, Held("writer")' = v, Held("closer")' = c, v \in Nat, c \in Nat,
         bytes_in_progress' = Weight(Bytes, pending_work') + (v + c)
  PROVE  BytesInv'
<1>1. Weight(Bytes, pending_work') \in Nat
  BY QueueWeight, Weights3, AcrossTypes DEF Step
<1>2. bytes_in_progress' = Weight(Bytes, pending_work') + v + c
  BY <1>1
<1> QED
  BY <1>2 DEF BytesInv

LEMMA SameBytes ==
  ASSUME BytesInv, UNCHANGED <<pending_work, out, bytes_in_progress>>
  PROVE  BytesInv'
  BY DEF BytesInv, Held

LEMMA AppendBytes ==
  ASSUME Step, NEW e, NEW s, Appends(e, s)
  PROVE  BytesInv'
<1> DEFINE x == NewWork(e, s)
<1>1. /\ x \in ToCompress /\ x.extent = e /\ x.in_progress = FALSE /\ x.compressed = 0
      /\ e \in Extents
  BY NewWorkType DEF Appends, NewWork
<1>2. pending_work' = Append(pending_work, x) /\ UNCHANGED out
      /\ bytes_in_progress' = bytes_in_progress + RawSize[e]
  BY DEF Appends
<1> HIDE DEF x
<1>3. Bytes[x] = RawSize[e] /\ RawSize[e] \in Nat
  BY <1>1, ItemWeights, SinkAssumption
<1>4. Weight(Bytes, pending_work') = Weight(Bytes, pending_work) + Bytes[x]
  BY <1>1, <1>2, SafeTypes, Weights3, AppendedWeight DEF Step
<1>5. Held("writer")' = Held("writer") /\ Held("closer")' = Held("closer")
  BY <1>2 DEF Held
<1> DEFINE v == Held("writer")
           c == Held("closer")
           b == Weight(Bytes, pending_work)
           r == RawSize[e]
<1>6. /\ v \in Nat /\ c \in Nat /\ b \in Nat /\ bytes_in_progress = b + v + c
  BY SafeTypes DEF Step
<1>7. /\ r \in Nat /\ Weight(Bytes, pending_work') = b + r
      /\ bytes_in_progress' = bytes_in_progress + r
  BY <1>2, <1>3, <1>4
<1>8. Held("writer")' = v /\ Held("closer")' = c
  BY <1>5
<1> HIDE DEF v, c, b, r
<1>9. bytes_in_progress' = Weight(Bytes, pending_work') + (v + c)
  BY <1>6, <1>7
<1> QED
  BY <1>6, <1>8, <1>9, BytesFrom

LEMMA ClaimBytes ==
  ASSUME NEW t \in Compressors, NEW p \in Seq(ToCompress), NEW b, NEW ok, NEW h \in Nat,
         CompressorLoop(t, p, b, ok), b = Weight(Bytes, p) + h
  PROVE  bytes_in_progress' = Weight(Bytes, pending_work') + h
<1>1. CASE FoundNothing(t, p, b)
  BY <1>1 DEF FoundNothing
<1>2. ASSUME NEW i \in 1..Len(p), NEW x, Claimed(t, p, b, i, x)
      PROVE  bytes_in_progress' = Weight(Bytes, pending_work') + h
  <2>1. p[i] \in ToCompress
    OBVIOUS
  <2>2. /\ x \in ToCompress /\ x.extent = p[i].extent /\ x.in_progress = TRUE
    BY <1>2, <2>1, ClaimedItem DEF Claimed
  <2>3. Bytes[x] = 2 * RawSize[p[i].extent] /\ RawSize[p[i].extent] \in Nat
    BY <2>1, <2>2, ItemWeights, ItemFields
  <2>4. Bytes[p[i]] = RawSize[p[i].extent]
    BY <1>2, <2>1, ItemWeights DEF Claimed, Unclaimed
  <2>5. pending_work' = [p EXCEPT ![i] = x] /\ bytes_in_progress' = b + RawSize[p[i].extent]
    BY <1>2 DEF Claimed
  <2> DEFINE w == Weight(Bytes, p)
             v == Weight(Bytes, pending_work')
             r == RawSize[p[i].extent]
  <2>6. v = w - Bytes[p[i]] + Bytes[x]
    BY <2>2, <2>5, Weights3, ChangedWeight
  <2>7. v = w - r + 2 * r
    BY <2>3, <2>4, <2>6
  <2>8. w \in Nat /\ r \in Nat /\ bytes_in_progress' = (w + h) + r
    BY <2>3, <2>5, QueueWeight, Weights3
  <2> HIDE DEF w, v, r
  <2>9. bytes_in_progress' = v + h
    BY <2>7, <2>8
  <2> QED
    BY <2>9 DEF v
<1> QED
  BY <1>1, <1>2, ClaimEffect

LEMMA OthersHeld ==
  ASSUME Step
  PROVE  /\ Held("writer") + Held("closer") \in Nat
         /\ bytes_in_progress = Weight(Bytes, pending_work) + (Held("writer") + Held("closer"))
  BY SafeTypes, SMTT(30) DEF Step

LEMMA CompressorRunBytes ==
  ASSUME Step, NEW t \in Compressors, CompressorRun(t)
  PROVE  BytesInv'
<1>1. CompressorLoop(t, pending_work, bytes_in_progress, TRUE) /\ UNCHANGED out
  BY DEF CompressorRun
<1>2. pending_work \in Seq(ToCompress)
  BY SafeTypes DEF Step
<1> DEFINE h == Held("writer") + Held("closer")
<1>3. h \in Nat /\ bytes_in_progress = Weight(Bytes, pending_work) + h
  BY OthersHeld
<1>4. /\ Held("writer")' = Held("writer") /\ Held("closer")' = Held("closer")
      /\ Held("writer") \in Nat /\ Held("closer") \in Nat
  BY <1>1, SafeTypes DEF Held, Step
<1> HIDE DEF h
<1>5. bytes_in_progress' = Weight(Bytes, pending_work') + h
  BY <1>1, <1>2, <1>3, ClaimBytes
<1> QED
  BY <1>4, <1>5, BytesFrom DEF h

\* Packing in place does not change what is counted: the extent counts twice its
\* size until it is complete.
LEMMA PackBytes ==
  ASSUME Step, NEW t \in Compressors, Pack(t)
  PROVE  BytesInv'
<1>0. pending_work \in Seq(ToCompress)
  BY SafeTypes DEF Step
<1>1a. PICK i \in 1..Len(pending_work) : \E x :
        /\ pending_work[i].extent = work[t]
        /\ IsItem(x, pending_work[i].extent, pending_work[i].to_update,
                  pending_work[i].in_progress, PackedSize[work[t]])
        /\ pending_work' = [pending_work EXCEPT ![i] = x]
  BY <1>0, PackEffect
<1>1. PICK x :
        /\ pending_work[i].extent = work[t]
        /\ IsItem(x, pending_work[i].extent, pending_work[i].to_update,
                  pending_work[i].in_progress, PackedSize[work[t]])
        /\ pending_work' = [pending_work EXCEPT ![i] = x]
  BY <1>1a
<1> DEFINE y == pending_work[i]
<1>2. y \in ToCompress /\ PackedSize[y.extent] \in Nat
  BY <1>0, ItemFields
<1>3. /\ x.extent = y.extent /\ x.in_progress = y.in_progress /\ x \in ToCompress
  BY <1>1, <1>2 DEF IsItem, ToCompress
<1>4. y.in_progress
  BY <1>1, OwnWork DEF Step, Across, Pack, Packing
<1>5. Bytes[x] = Bytes[y] /\ Bytes[y] \in Nat
  <2>1. Bytes[x] = 2 * RawSize[y.extent]
    BY <1>3, <1>4, ItemWeights
  <2>2. Bytes[y] = 2 * RawSize[y.extent]
    BY <1>2, <1>4, ItemWeights
  <2>3. Bytes[y] \in Nat
    BY <1>2, Weights3 DEF Weighs
  <2> QED
    BY <2>1, <2>2, <2>3
<1>6. Weight(Bytes, pending_work') = Weight(Bytes, pending_work) - Bytes[y] + Bytes[x]
  BY <1>0, <1>1, <1>3, Weights3, ChangedWeight
<1>7. Weight(Bytes, pending_work') = Weight(Bytes, pending_work)
  <2>1. Weight(Bytes, pending_work) \in Nat
    BY <1>0, QueueWeight, Weights3
  <2> HIDE DEF y
  <2> QED
    BY <1>5, <1>6, <2>1
<1>8. UNCHANGED <<out, bytes_in_progress>>
  BY DEF Pack
<1>9. Held("writer")' = Held("writer") /\ Held("closer")' = Held("closer")
  BY <1>8 DEF Held
<1> QED
  BY <1>7, <1>8, <1>9 DEF Step, SafeInv, BytesInv

LEMMA CompressorDoneBytes ==
  ASSUME Step, NEW t \in Compressors, CompressorDone(t)
  PROVE  BytesInv'
<1>1a. PICK i \in 1..Len(pending_work) : \E x : DoneEffects(t, i, x)
  BY DoneEffect DEF Step, SafeInv
<1>1. PICK x : DoneEffects(t, i, x)
  BY <1>1a
<1>2. /\ Completed(i) \in Seq(ToCompress)
      /\ \E ok : CompressorLoop(t, Completed(i), CompletedBytes(i), ok)
  BY <1>1 DEF DoneEffects
<1> DEFINE h == Held("writer") + Held("closer")
<1>3. h \in Nat /\ CompletedBytes(i) = Weight(Bytes, Completed(i)) + h
  BY <1>1, DoneBytes DEF Step
<1>4. UNCHANGED out
  BY DEF CompressorDone
<1>5. /\ Held("writer")' = Held("writer") /\ Held("closer")' = Held("closer")
      /\ Held("writer") \in Nat /\ Held("closer") \in Nat
  BY <1>4, SafeTypes DEF Held, Step
<1> HIDE DEF h
<1>6. bytes_in_progress' = Weight(Bytes, pending_work') + h
  BY <1>2, <1>3, ClaimBytes
<1> QED
  BY <1>5, <1>6, BytesFrom DEF h

LEMMA RemoveBytes ==
  ASSUME Step, NEW w \in Writers, RemoveStatsUpdate(w)
  PROVE  BytesInv'
<1>1. /\ Len(pending_work') = Len(pending_work)
      /\ \A i \in 1..Len(pending_work) :
           /\ pending_work'[i].extent = pending_work[i].extent
           /\ pending_work'[i].in_progress = pending_work[i].in_progress
           /\ pending_work'[i].compressed = pending_work[i].compressed
      /\ UNCHANGED <<out, bytes_in_progress>>
  BY RemoveItems DEF Step
<1>2. ASSUME NEW i \in 1..Len(pending_work)
      PROVE  Bytes[pending_work'[i]] = Bytes[pending_work[i]]
  <2>1. pending_work[i] \in ToCompress
    BY SafeTypes DEF Step
  <2>2. pending_work'[i] \in ToCompress
    <3>1. pending_work' \in Seq(ToCompress) /\ i \in 1..Len(pending_work')
      BY <1>1, AcrossTypes DEF Step
    <3> QED
      BY <3>1
  <2> QED
    BY <1>1, <2>1, <2>2, ItemWeights
<1>3. Weight(Bytes, pending_work') = Weight(Bytes, pending_work)
  BY <1>1, <1>2, WeightSame
<1>4. Held("writer")' = Held("writer") /\ Held("closer")' = Held("closer")
  BY <1>1 DEF Held
<1> QED
  BY <1>1, <1>3, <1>4 DEF Step, SafeInv, BytesInv

\* An extent that has been written still counts, now in the bytes that
\* writeOutPending will subtract.
LEMMA WriteOutHeld ==
  ASSUME Step, NEW a \in Writing, WriteOut(a)
  PROVE  /\ Held(a)' = Held(a) /\ \A c \in Writing \ {a} : out'[c] = out[c]
         /\ Head(out[a].to_write) \in ToCompress
         /\ Head(out[a].to_write).compressed \in Nat
         /\ Head(out[a].to_write).compressed = PackedSize[Head(out[a].to_write).extent]
<1> DEFINE q == out[a].to_write
           x == Head(q)
<1>1. /\ q # << >> /\ q \in Seq(ToCompress) /\ x = q[1] /\ 1 \in 1..Len(q) /\ x \in ToCompress
      /\ out[a].bytes \in Nat
  BY BatchOpen DEF WriteOut, Step, SafeInv, Now
<1>2. Item(x) /\ readyToWrite(x)
  BY <1>1 DEF Step, SafeInv, Now, PhaseInv, ItemPhase
<1>3. /\ Bytes[x] = x.compressed /\ x.compressed \in Nat
      /\ x.compressed = PackedSize[x.extent]
  <2>1. x.compressed > 0 /\ x.in_progress = FALSE /\ x.compressed \in Nat
    BY <1>1, <1>2, ItemFields DEF readyToWrite
  <2>2. x.compressed = PackedSize[x.extent]
    BY <1>2, <2>1 DEF Item
  <2> HIDE DEF x
  <2> QED
    BY <1>1, <2>1, <2>2, ItemWeights
<1>4. /\ out'[a].to_write = Tail(q) /\ out'[a].bytes = out[a].bytes + x.compressed
      /\ \A c \in Writing \ {a} : out'[c] = out[c]
  BY SafeTypes DEF WriteOut, Step
<1>5. Weight(Bytes, q) = Bytes[x] + Weight(Bytes, Tail(q)) /\ Weight(Bytes, Tail(q)) \in Nat
  <2>1. Tail(q) \in Seq(ToCompress)
    BY <1>1
  <2> QED
    BY <1>1, <2>1, Weights3, WrittenWeight, QueueWeight
<1> HIDE DEF x
<1>6. out'[a].bytes + Weight(Bytes, Tail(q)) = out[a].bytes + Weight(Bytes, q)
  BY <1>1, <1>3, <1>4, <1>5
<1>7. Held(a)' = Held(a)
  BY <1>4, <1>6 DEF Held
<1> QED
  BY <1>1, <1>3, <1>4, <1>7 DEF x

LEMMA WriteOutBytes ==
  ASSUME Step, NEW a \in Writing, WriteOut(a)
  PROVE  BytesInv'
<1>1. UNCHANGED <<pending_work, bytes_in_progress>>
  BY DEF WriteOut, queueVars
<1>2. \A c \in Writing : Held(c)' = Held(c)
  BY WriteOutHeld DEF Held
<1>3. Held("writer")' = Held("writer") /\ Held("closer")' = Held("closer")
  BY <1>2 DEF Writing
<1> QED
  BY <1>1, <1>3 DEF Step, SafeInv, BytesInv

\* What a batch takes from the queue it holds.
LEMMA TakeHeld ==
  ASSUME Step, NEW a \in Writing, NEW p \in Seq(ToCompress), NEW n \in 0..Len(p), Takes(a, p, n)
  PROVE  /\ Weight(Bytes, p) = Weight(Bytes, pending_work') + Held(a)'
         /\ Held(a)' \in Nat
         /\ \A c \in Writing \ {a} : Held(c)' = Held(c)
<1> DEFINE front == SubSeq(p, 1, n)
           rest == SubSeq(p, n + 1, Len(p))
<1>1. front \in Seq(ToCompress) /\ rest \in Seq(ToCompress)
  BY Parts
<1>2. Weight(Bytes, p) = Weight(Bytes, front) + Weight(Bytes, rest)
  BY Weights3, TakenWeight
<1>3. Weight(Bytes, front) \in Nat /\ Weight(Bytes, rest) \in Nat
  BY <1>1, Weights3, QueueWeight
<1>4. /\ out'[a].to_write = front /\ out'[a].bytes = 0 /\ pending_work' = rest
      /\ \A c \in Writing \ {a} : out'[c] = out[c]
  BY SafeTypes DEF Step, Takes
<1> HIDE DEF front, rest
<1>5. Held(a)' = Weight(Bytes, front)
  BY <1>3, <1>4 DEF Held
<1>6. \A c \in Writing \ {a} : Held(c)' = Held(c)
  BY <1>4 DEF Held
<1> QED
  BY <1>2, <1>3, <1>4, <1>5, <1>6

\* One round of the writer thread: what it held is given back.
LEMMA WriterLoopBytes ==
  ASSUME Step, WriterLoop, NEW b, b = Weight(Bytes, pending_work) + Held("closer"),
         bytes_in_progress' = b
  PROVE  BytesInv'
<1>0. /\ pending_work \in Seq(ToCompress) /\ "writer" \in Writing /\ "closer" \in Writing \ {"writer"}
      /\ Weight(Bytes, pending_work) \in Nat /\ Held("closer") \in Nat
  BY SafeTypes DEF Step
<1>1. ASSUME NEW n \in 0..Len(pending_work), Takes("writer", pending_work, n)
      PROVE  BytesInv'
  <2> DEFINE v == Held("writer")'
             c == Held("closer")
             w == Weight(Bytes, pending_work')
  <2>1. Weight(Bytes, pending_work) = w + v /\ v \in Nat /\ Held("closer")' = c
    BY <1>0, <1>1, TakeHeld
  <2>2. w \in Nat
    BY Weights3, QueueWeight, AcrossTypes DEF Step
  <2>3. bytes_in_progress' = (w + v) + c /\ c \in Nat
    BY <1>0, <2>1
  <2> HIDE DEF v, c, w
  <2>4. bytes_in_progress' = w + (v + c)
    BY <2>1, <2>2, <2>3
  <2> QED
    BY <1>0, <2>1, <2>4, BytesFrom DEF v, c, w
<1>2. CASE out' = [out EXCEPT !["writer"] = NoBatch] /\ UNCHANGED pending_work
  <2>1. out'["writer"] = NoBatch /\ out'["closer"] = out["closer"]
    BY <1>0, <1>2, SafeTypes DEF Step
  <2>2. Held("writer")' = 0 /\ Held("closer")' = Held("closer")
    BY <2>1, WeightEmpty DEF Held, NoBatch
  <2>3. bytes_in_progress' = Weight(Bytes, pending_work') + (0 + Held("closer"))
    BY <1>0, <1>2
  <2> QED
    BY <1>0, <2>2, <2>3, BytesFrom
<1> QED
  BY <1>1, <1>2, WriterLoopCases

LEMMA WriterBytes ==
  ASSUME Step, WriterRun \/ WriterDone
  PROVE  BytesInv'
<1> DEFINE w == Weight(Bytes, pending_work)
           c == Held("closer")
<1>0. w \in Nat /\ c \in Nat /\ bytes_in_progress = w + Held("writer") + c
  BY SafeTypes DEF Step
<1>1. CASE WriterRun
  <2>1. Held("writer") = 0
    BY <1>1, NothingHeld DEF WriterRun, Step, SafeInv, Now, PhaseInv, BatchPhase
  <2>2. WriterLoop /\ bytes_in_progress' = bytes_in_progress
    BY <1>1 DEF WriterRun
  <2>3. bytes_in_progress' = w + c
    BY <1>0, <2>1, <2>2
  <2> QED
    BY <2>2, <2>3, WriterLoopBytes
<1>2. CASE WriterDone
  <2>1. /\ WriterLoop /\ bytes_in_progress' = bytes_in_progress - out["writer"].bytes
        /\ out["writer"].to_write = << >>
    BY <1>2 DEF WriterDone, FinishWriteOut
  <2>2. Held("writer") = out["writer"].bytes /\ out["writer"].bytes \in Nat
    BY <2>1, SafeTypes, WeightEmpty DEF Held, Step
  <2>3. bytes_in_progress' = w + c
    <3> HIDE DEF w, c
    <3> QED
      BY <1>0, <2>1, <2>2
  <2> QED
    BY <2>1, <2>3, WriterLoopBytes
<1> QED
  BY <1>1, <1>2

LEMMA SingleWeight ==
  ASSUME NEW f, Weighs(f), NEW x \in ToCompress
  PROVE  Weight(f, <<x>>) = f[x] /\ f[x] \in Nat /\ <<x>> \in Seq(ToCompress)
<1>1. << >> \in Seq(ToCompress) /\ <<x>> = Append(<< >>, x) /\ <<x>> \in Seq(ToCompress)
  OBVIOUS
<1>2. f[x] \in Nat
  BY DEF Weighs
<1>3. Weight(f, Append(<< >>, x)) = Weight(f, << >>) + f[x]
  BY <1>1, AppendedWeight
<1> QED
  BY <1>1, <1>2, <1>3, WeightEmpty

LEMMA JoinWriterBytes ==
  ASSUME Step, JoinWriter
  PROVE  BytesInv'
<1>0. /\ pending_work \in Seq(ToCompress) /\ "closer" \in Writing /\ "writer" \in Writing \ {"closer"}
      /\ Weight(Bytes, pending_work) \in Nat /\ Held("writer") \in Nat /\ Held("closer") \in Nat
      /\ bytes_in_progress = Weight(Bytes, pending_work) + Held("writer") + Held("closer")
  BY SafeTypes DEF Step
<1>1. pc[Owner] = "join_writer" /\ bytes_in_progress' = bytes_in_progress
      /\ BeginWriteOut("closer", pending_work)
  BY DEF JoinWriter
<1>2. PICK n \in 0..Len(pending_work) : Takes("closer", pending_work, n)
  BY <1>1, TakeEffect
<1>3. Held("closer") = 0
  BY <1>1, NothingHeld DEF Step, SafeInv, Now, PhaseInv, BatchPhase
<1> DEFINE w == Weight(Bytes, pending_work)
           v == Held("writer")
           c == Held("closer")'
           q == Weight(Bytes, pending_work')
<1>4. w = q + c /\ c \in Nat /\ Held("writer")' = v
  BY <1>0, <1>2, TakeHeld
<1>5. q \in Nat
  BY Weights3, QueueWeight, AcrossTypes DEF Step
<1>6. bytes_in_progress' = w + v /\ v \in Nat
  BY <1>0, <1>1, <1>3
<1> HIDE DEF w, v, c, q
<1>7. bytes_in_progress' = q + (v + c)
  BY <1>4, <1>5, <1>6
<1> QED
  BY <1>4, <1>6, <1>7, BytesFrom DEF v, c, q

LEMMA CloseIndexBytes ==
  ASSUME Step, CloseIndex
  PROVE  BytesInv'
<1> DEFINE e == <<Index, nfiles>>
<1>1. PICK x : /\ IsItem(x, e, NoStats, TRUE, 0) /\ x \in ToCompress
               /\ pending_work' = <<x>> /\ e \in Extents
               /\ out' = [out EXCEPT !["closer"] = NoBatch]
  BY CloseIndexEffect DEF Step
<1>2. pc[Owner] = "drain" /\ out["writer"] = NoBatch
  BY CloserAlone DEF CloseIndex, Step
<1>3. out'["closer"] = NoBatch /\ out'["writer"] = NoBatch
  BY <1>1, <1>2, SafeTypes DEF Step
<1>4. Held("closer")' = 0 /\ Held("writer")' = 0
  BY <1>3, WeightEmpty DEF Held, NoBatch
<1>5. x.extent = e /\ x.in_progress = TRUE
  BY <1>1 DEF IsItem
<1>6. Weight(Bytes, pending_work') = 2 * RawSize[e]
  BY <1>1, <1>5, ItemWeights, SingleWeight, Weights3
<1>7. bytes_in_progress' = (bytes_in_progress - out["closer"].bytes) + 2 * RawSize[e]
  BY DEF CloseIndex
<1>8. bytes_in_progress = out["closer"].bytes /\ bytes_in_progress \in Nat /\ RawSize[e] \in Nat
  BY <1>1, CloseIndexSafe, SafeTypes, SinkAssumption DEF Step
<1> HIDE DEF e
<1>9. bytes_in_progress' = Weight(Bytes, pending_work') + (0 + 0)
  BY <1>6, <1>7, <1>8
<1> QED
  BY <1>4, <1>9, BytesFrom

LEMMA PackIndexBytes ==
  ASSUME Step, PackIndex
  PROVE  BytesInv'
<1> DEFINE e == <<Index, nfiles>>
<1>0. /\ "closer" \in Writing /\ "writer" \in Writing \ {"closer"}
  BY SafeTypes DEF Step
<1>1. PICK x : /\ IsItem(x, e, NoStats, FALSE, PackedSize[e]) /\ x \in ToCompress
               /\ \E n \in 0..1 : Takes("closer", <<x>>, n)
  BY PackIndexEffect DEF Step
<1>2. bytes_in_progress = 2 * RawSize[e] /\ e \in Extents
  BY PackIndexSafe DEF Step
<1>3. RawSize[e] \in Nat /\ PackedSize[e] \in Nat /\ PackedSize[e] > 0
  BY <1>2, SinkAssumption
<1>4. bytes_in_progress' = bytes_in_progress - 2 * RawSize[e] + PackedSize[e]
  BY DEF PackIndex
<1>5. x.in_progress = FALSE /\ x.compressed = PackedSize[e]
  BY <1>1 DEF IsItem
<1>6. Bytes[x] = PackedSize[e]
  BY <1>1, <1>3, <1>5, ItemWeights
<1>7. Weight(Bytes, <<x>>) = PackedSize[e] /\ <<x>> \in Seq(ToCompress)
  BY <1>1, <1>6, SingleWeight, Weights3
<1>8. PICK n \in 0..1 : Takes("closer", <<x>>, n)
  BY <1>1
<1>9. n \in 0..Len(<<x>>)
  BY <1>8
<1>10. Held("writer") = 0 /\ pc[Owner] = "pack_index"
  BY CloserAlone DEF PackIndex, Step
<1> DEFINE c == Held("closer")'
           q == Weight(Bytes, pending_work')
           k == PackedSize[e]
           r == RawSize[e]
<1>11. Weight(Bytes, <<x>>) = q + c /\ c \in Nat /\ Held("writer")' = Held("writer")
  BY <1>0, <1>7, <1>8, <1>9, TakeHeld
<1>12. q \in Nat
  BY Weights3, QueueWeight, AcrossTypes DEF Step
<1>13. k = q + c /\ bytes_in_progress' = 2 * r - 2 * r + k /\ r \in Nat /\ k \in Nat
  BY <1>2, <1>3, <1>4, <1>7, <1>11
<1> HIDE DEF e, c, q, k, r
<1>14. bytes_in_progress' = q + (0 + c)
  BY <1>11, <1>12, <1>13
<1> QED
  BY <1>10, <1>11, <1>14, BytesFrom DEF c, q

LEMMA SealBytes ==
  ASSUME Step, Seal
  PROVE  BytesInv'
<1>1. pending_work = << >> /\ bytes_in_progress = out["closer"].bytes
  BY SealSafe DEF Step
<1>2. /\ pc[Owner] = "write_index" /\ pending_work' = pending_work
      /\ out' = [out EXCEPT !["closer"] = NoBatch]
      /\ bytes_in_progress' = bytes_in_progress - out["closer"].bytes
  BY DEF Seal
<1>3. out["writer"] = NoBatch
  BY <1>2, CloserAlone DEF Step
<1>4. out'["closer"] = NoBatch /\ out'["writer"] = NoBatch
  BY <1>2, <1>3, SafeTypes DEF Step
<1>5. Held("closer")' = 0 /\ Held("writer")' = 0
  BY <1>4, WeightEmpty DEF Held, NoBatch
<1>6. bytes_in_progress \in Nat
  BY SafeTypes DEF Step
<1>7. bytes_in_progress' = Weight(Bytes, pending_work') + (0 + 0)
  BY <1>1, <1>2, <1>6, WeightEmpty
<1> QED
  BY <1>5, <1>7, BytesFrom

LEMMA BytesStep ==
  ASSUME Step, Next
  PROVE  BytesInv'
<1>0. BytesInv /\ TypeInv
  BY DEF Step, SafeInv, Now
<1>1. ASSUME Keeps PROVE BytesInv'
  BY <1>0, <1>1, SameBytes DEF Keeps
<1>2. CASE CloseBegin \/ MarkWroteLibrary \/ JoinCompressors \/ UNCHANGED vars
  BY <1>1, <1>2, KeepsEffect
<1>3. ASSUME NEW c \in Clients, QueueWakeup(c) PROVE BytesInv'
  BY <1>1, <1>3, KeepsEffect
<1>4. ASSUME NEW w \in Writers, FlushPending(w) \/ FlushWakeup(w) \/ SetExtentWriteCallback(w)
      PROVE  BytesInv'
  BY <1>1, <1>4, KeepsEffect
<1>5. ASSUME NEW w \in Writers, NEW n \in MaxBytesChoices, SetMaxBytesInProgress(w, n)
      PROVE  BytesInv'
  BY <1>1, <1>5, KeepsEffect
<1>6. CASE Open
  BY <1>0, <1>6, SameBytes DEF Open, queueVars
<1>7. CASE QueueLibrary
  BY <1>7, QueueLibraryEffect, AppendBytes DEF Step, SafeInv, Now
<1>8. ASSUME NEW w \in Writers, WriteExtent(w) PROVE BytesInv'
  BY <1>8, WriteExtentEffect, AppendBytes DEF Step, SafeInv, Now
<1> QED
  BY <1>2, <1>3, <1>4, <1>5, <1>6, <1>7, <1>8, NextCases, RemoveBytes, CompressorRunBytes,
     PackBytes, CompressorDoneBytes, WriteOutBytes, WriterBytes, JoinWriterBytes,
     CloseIndexBytes, PackIndexBytes, SealBytes

----------------------------------------------------------------------------
\* What the Stats have counted, step by step

Uses(w) == Weight(Updates(w), pending_work)
Filed == Len(disk) + Len(out["writer"].to_write) + Len(out["closer"].to_write)
         + Weight(Ready, pending_work)

WriterCount(w) == /\ use_count[w] = Uses(w)
                  /\ pc[w] = "removed" => Uses(w) = 0
                  /\ counted[w] + use_count[w] <= calls[w]

SinkCount == /\ pc[Owner] = "closed" => stats = 0
             /\ pc[Owner] # "closed" => stats = Filed
             /\ pc[Owner] = "closed" /\ nfiles > 0 => final_stats = Len(disk)

LEMMA CountParts == CountInv <=> (\A w \in Writers : WriterCount(w)) /\ SinkCount
  BY DEF CountInv, WriterCount, SinkCount, Uses, Filed

LEMMA CountTypes ==
  ASSUME Step, NEW w \in Writers
  PROVE  /\ calls[w] \in Nat /\ calls'[w] \in Nat /\ counted[w] \in Nat
         /\ use_count[w] \in Nat /\ Uses(w) \in Nat /\ w \in Clients /\ w # Owner
         /\ pending_work \in Seq(ToCompress) /\ Weighs(Updates(w)) /\ WriterCount(w)
         /\ pc \in [Clients -> ClientPlaces] /\ w # NoStats
         /\ calls \in [Writers -> 0..MaxCalls]
<1>1. /\ calls \in [Writers -> 0..MaxCalls] /\ calls' \in [Writers -> 0..MaxCalls]
      /\ counted[w] \in Nat /\ use_count[w] \in Nat /\ pending_work \in Seq(ToCompress)
      /\ pc \in [Clients -> ClientPlaces]
  BY DEF Step, SafeInv, Across, Now, TypeInv, TypeOK, ClientTypes, StatsTypes, QueueTypes
<1>2. calls[w] \in Nat /\ calls'[w] \in Nat
  BY <1>1, SinkAssumption
<1>3. Weighs(Updates(w))
  BY Weights3
<1>4. Uses(w) \in Nat
  BY <1>1, <1>3, QueueWeight DEF Uses
<1>5. w \in Clients /\ w # Owner /\ w # NoStats
  BY SinkAssumption DEF Clients
<1>6. WriterCount(w)
  BY CountParts DEF Step, SafeInv
<1> QED
  BY <1>1, <1>2, <1>3, <1>4, <1>5, <1>6

\* A step may remove a Stats only by removeStatsUpdate.
LEMMA RemovedBy ==
  ASSUME Step, Next, NEW w \in Writers, pc'[w] = "removed"
  PROVE  pc[w] = "removed" \/ RemoveStatsUpdate(w)
<1>1. /\ pc \in [Clients -> ClientPlaces] /\ w \in Clients /\ w # Owner
  BY CountTypes
<1>2. ASSUME NEW p, NEW b, pc' = Notified(p, b) \/ pc' = QueueBroadcast \/ pc' = pc
      PROVE  pc[w] = "removed"
  BY <1>1, <1>2 DEF Notified, QueueBroadcast, Woken
<1>3. ASSUME NEW p, NEW b, NEW x, pc' = [Notified(p, b) EXCEPT ![Owner] = x]
      PROVE  pc[w] = "removed"
  BY <1>1, <1>3 DEF Notified, QueueBroadcast, Woken
<1>4. ASSUME NEW c, NEW x, x # "removed", pc' = [pc EXCEPT ![c] = x]
      PROVE  pc[w] = "removed"
  BY <1>1, <1>4
<1>5. CASE Open \/ CloseBegin \/ MarkWroteLibrary \/ JoinCompressors \/ JoinWriter \/ PackIndex
  BY <1>4, <1>5 DEF Open, CloseBegin, MarkWroteLibrary, JoinCompressors, JoinWriter, PackIndex
<1>6. CASE CloseIndex \/ Seal
  <2>1. \E x : pc' = [NotifiedAfter("closer") EXCEPT ![Owner] = x]
    BY <1>6 DEF CloseIndex, Seal
  <2> QED
    BY <1>3, <2>1 DEF NotifiedAfter
<1>7. CASE WriterRun \/ WriterDone \/ UNCHANGED vars \/ \E a \in Writing : WriteOut(a)
  BY <1>2, <1>7 DEF WriterRun, WriterDone, NotifiedAfter, WriteOut, clientVars, vars
<1>8. CASE \E t \in Compressors : CompressorRun(t) \/ Pack(t) \/ CompressorDone(t)
  BY <1>2, <1>8 DEF CompressorRun, Pack, CompressorDone, clientVars
<1>9. ASSUME NEW c, NEW e, NEW s, queueWriteExtent(c, e, s) PROVE pc[w] = "removed"
  <2>1. Return(c) # "removed"
    BY DEF Return
  <2> QED
    BY <1>4, <1>9, <2>1 DEF queueWriteExtent
<1>10. ASSUME NEW c \in Clients, QueueWakeup(c) PROVE pc[w] = "removed"
  <2>1. Return(c) # "removed"
    BY DEF Return
  <2> QED
    BY <1>4, <1>10, <2>1 DEF QueueWakeup
<1>11. ASSUME NEW u \in Writers, FlushPending(u) \/ FlushWakeup(u) PROVE pc[w] = "removed"
  BY <1>4, <1>11 DEF FlushPending, FlushWakeup, FlushTest
<1>12. ASSUME NEW u \in Writers, SetExtentWriteCallback(u) PROVE pc[w] = "removed"
  BY <1>2, <1>12 DEF SetExtentWriteCallback
<1>13. ASSUME NEW u \in Writers, NEW n \in MaxBytesChoices, SetMaxBytesInProgress(u, n)
       PROVE  pc[w] = "removed"
  BY <1>2, <1>13 DEF SetMaxBytesInProgress
<1>14. ASSUME NEW u \in Writers, RemoveStatsUpdate(u), u # w PROVE pc[w] = "removed"
  BY <1>1, <1>14 DEF RemoveStatsUpdate
<1> QED
  BY <1>5, <1>6, <1>7, <1>8, <1>9, <1>10, <1>11, <1>12, <1>13, <1>14, NextCases
  DEF QueueLibrary, WriteExtent

LEMMA SameCount ==
  ASSUME Step, NEW w \in Writers, Uses(w)' = Uses(w), use_count'[w] = use_count[w],
         counted'[w] = counted[w], calls'[w] >= calls[w],
         pc'[w] = "removed" => pc[w] = "removed"
  PROVE  WriterCount(w)'
<1> DEFINE k == counted[w]
           u == use_count[w]
           n == calls[w]
           m == calls'[w]
<1>1. k \in Nat /\ u \in Nat /\ n \in Nat /\ m \in Nat /\ k + u <= n /\ m >= n
  BY CountTypes DEF WriterCount
<1>2. counted'[w] = k /\ use_count'[w] = u /\ calls'[w] = m
  OBVIOUS
<1>3. use_count'[w] = Uses(w)' /\ (pc'[w] = "removed" => Uses(w)' = 0)
  BY CountTypes DEF WriterCount
<1> HIDE DEF k, u, n, m
<1>4. k + u <= m
  BY <1>1
<1>5. counted'[w] + use_count'[w] <= calls'[w]
  BY <1>2, <1>4
<1> QED
  BY <1>3, <1>5 DEF WriterCount

----------------------------------------------------------------------------
\* What a step does to the weight of the queue in Stats

\* A compressor's claim: it changes neither what updates a Stats nor what is ready.
LEMMA ClaimKeepsWeight ==
  ASSUME NEW t \in Compressors, NEW p \in Seq(ToCompress), NEW b, NEW ok,
         CompressorLoop(t, p, b, ok), NEW f, Weighs(f),
         f = Ready \/ \E w : f = Updates(w)
  PROVE  Weight(f, pending_work') = Weight(f, p)
<1>1. CASE FoundNothing(t, p, b)
  BY <1>1 DEF FoundNothing
<1>2. ASSUME NEW i \in 1..Len(p), NEW x, Claimed(t, p, b, i, x)
      PROVE  Weight(f, pending_work') = Weight(f, p)
  <2> DEFINE y == p[i]
  <2>1. y \in ToCompress
    OBVIOUS
  <2>2. /\ x \in ToCompress /\ x.extent = y.extent /\ x.to_update = y.to_update
        /\ x.in_progress = TRUE /\ x.compressed = 0
    BY <1>2, <2>1, ClaimedItem DEF Claimed
  <2>3. y.compressed = 0
    BY <1>2 DEF Claimed, Unclaimed
  <2> HIDE DEF y
  <2>4. Ready[x] = 0 /\ Ready[y] = 0
    BY <2>1, <2>2, <2>3, ItemWeights
  <2>5. \A w : Updates(w)[x] = Updates(w)[y]
    BY <2>1, <2>2, ItemWeights
  <2>6. f[x] = f[y] /\ f[y] \in Nat
    BY <2>1, <2>4, <2>5 DEF Weighs
  <2>7. Weight(f, [p EXCEPT ![i] = x]) = Weight(f, p) - f[y] + f[x]
    BY <2>2, ChangedWeight DEF y
  <2>8. Weight(f, p) \in Nat
    BY QueueWeight
  <2>9. Weight(f, [p EXCEPT ![i] = x]) = Weight(f, p)
    BY <2>6, <2>7, <2>8
  <2>10. pending_work' = [p EXCEPT ![i] = x]
    BY <1>2 DEF Claimed
  <2> QED
    BY <2>9, <2>10
<1> QED
  BY <1>1, <1>2, ClaimEffect

\* Packing in place changes neither, either: the work is claimed.
LEMMA PackKeepsWeight ==
  ASSUME Step, NEW t \in Compressors, Pack(t), NEW f, Weighs(f),
         f = Ready \/ \E w : f = Updates(w)
  PROVE  Weight(f, pending_work') = Weight(f, pending_work)
<1>0. pending_work \in Seq(ToCompress)
  BY SafeTypes DEF Step
<1>1a. PICK i \in 1..Len(pending_work) : \E x :
        /\ pending_work[i].extent = work[t]
        /\ IsItem(x, pending_work[i].extent, pending_work[i].to_update,
                  pending_work[i].in_progress, PackedSize[work[t]])
        /\ pending_work' = [pending_work EXCEPT ![i] = x]
  BY <1>0, PackEffect
<1>1. PICK x :
        /\ pending_work[i].extent = work[t]
        /\ IsItem(x, pending_work[i].extent, pending_work[i].to_update,
                  pending_work[i].in_progress, PackedSize[work[t]])
        /\ pending_work' = [pending_work EXCEPT ![i] = x]
  BY <1>1a
<1> DEFINE y == pending_work[i]
<1>2. y \in ToCompress /\ PackedSize[y.extent] \in Nat
  BY <1>0, ItemFields
<1>3. /\ x.to_update = y.to_update /\ x.in_progress = y.in_progress /\ x \in ToCompress
  BY <1>1, <1>2 DEF IsItem, ToCompress
<1>4. y.in_progress
  BY <1>1, OwnWork DEF Step, Across, Pack, Packing
<1> HIDE DEF y
<1>5. Ready[x] = 0 /\ Ready[y] = 0
  BY <1>2, <1>3, <1>4, ItemWeights
<1>6. \A w : Updates(w)[x] = Updates(w)[y]
  BY <1>2, <1>3, ItemWeights
<1>7. f[x] = f[y] /\ f[y] \in Nat
  BY <1>2, <1>5, <1>6 DEF Weighs
<1>8. Weight(f, [pending_work EXCEPT ![i] = x]) = Weight(f, pending_work) - f[y] + f[x]
  BY <1>0, <1>3, ChangedWeight DEF y
<1>9. Weight(f, pending_work) \in Nat
  BY <1>0, QueueWeight
<1> QED
  BY <1>1, <1>7, <1>8, <1>9

\* What is taken off the queue is ready, so it updates no Stats any more and each
\* of it counts once.
LEMMA TakenCounts ==
  ASSUME Step, NEW a \in Writing, NEW p \in Seq(ToCompress), NEW n \in 0..Len(p),
         Takes(a, p, n), ItemsOf(p)
  PROVE  /\ \A w \in Writers : Weight(Updates(w), pending_work') = Weight(Updates(w), p)
         /\ Weight(Ready, p) = Len(out'[a].to_write) + Weight(Ready, pending_work')
         /\ Len(out'[a].to_write) \in Nat
<1> DEFINE front == SubSeq(p, 1, n)
           rest == SubSeq(p, n + 1, Len(p))
<1>1. /\ front \in Seq(ToCompress) /\ rest \in Seq(ToCompress) /\ Len(front) = n /\ n \in Nat
      /\ \A i \in 1..n : front[i] = p[i] /\ i \in 1..Len(p)
  BY Parts
<1>2. /\ out'[a].to_write = front /\ pending_work' = rest
  BY SafeTypes DEF Step, Takes
<1>3. ASSUME NEW i \in 1..n
      PROVE  p[i] \in ToCompress /\ readyToWrite(p[i]) /\ p[i].to_update = NoStats
             /\ front[i] = p[i]
  BY <1>1 DEF Takes, ItemsOf, Item
<1>4. \A i \in 1..n : Ready[front[i]] = 1
  BY <1>3, ItemWeights DEF readyToWrite
<1>5. ASSUME NEW w \in Writers PROVE \A i \in 1..n : Updates(w)[front[i]] = 0
  <2>1. w # NoStats
    BY SinkAssumption
  <2> QED
    BY <1>3, <2>1, ItemWeights
<1>6. Weight(Ready, front) = n
  BY <1>1, <1>4, WeightOne
<1>7. \A f : Weighs(f) => Weight(f, p) = Weight(f, front) + Weight(f, rest)
                          /\ Weight(f, rest) \in Nat
  BY <1>1, TakenWeight, QueueWeight
<1>8. ASSUME NEW w \in Writers PROVE Weight(Updates(w), rest) = Weight(Updates(w), p)
  <2>1. Weight(Updates(w), front) = 0
    BY <1>1, <1>5, WeightZero
  <2>2. Weighs(Updates(w))
    BY Weights3
  <2> HIDE DEF front, rest
  <2>3. Weight(Updates(w), p) = 0 + Weight(Updates(w), rest) /\ Weight(Updates(w), rest) \in Nat
    BY <1>7, <2>1, <2>2
  <2> QED
    BY <2>3
<1>9. Weight(Ready, p) = n + Weight(Ready, rest)
  BY <1>6, <1>7, Weights3
<1> QED
  BY <1>1, <1>2, <1>8, <1>9

SinkParts == /\ disk' = disk /\ final_stats' = final_stats /\ nfiles' = nfiles

\* The sink's own Stats: while a file is open a step counts what it makes ready.
LEMMA SinkCountFrom ==
  ASSUME pc'[Owner] # "closed", stats' = Filed'
  PROVE  SinkCount'
  BY DEF SinkCount

\* The owner's place, as far as the Stats go.
OwnerStays == /\ pc'[Owner] = "closed" <=> pc[Owner] = "closed"
              /\ nfiles' = nfiles /\ final_stats' = final_stats

LEMMA SameSinkCount ==
  ASSUME Step, OwnerStays, stats' = stats, Filed' = Filed, disk' = disk
  PROVE  SinkCount'
<1>1. SinkCount
  BY CountParts DEF Step, SafeInv
<1> QED
  BY <1>1 DEF SinkCount, OwnerStays

LEMMA FiledTypes ==
  ASSUME Step
  PROVE  /\ Len(disk) \in Nat /\ Len(out["writer"].to_write) \in Nat
         /\ Len(out["closer"].to_write) \in Nat /\ Weight(Ready, pending_work) \in Nat
         /\ Weight(Ready, pending_work') \in Nat /\ SinkCount /\ stats \in Nat
         /\ ItemsOf(pending_work)
         /\ "writer" \in Writing /\ "closer" \in Writing \ {"writer"} /\ "writer" \in Writing \ {"closer"}
<1>1. /\ disk \in Seq(Extents) /\ out["writer"].to_write \in Seq(ToCompress)
      /\ out["closer"].to_write \in Seq(ToCompress) /\ pending_work \in Seq(ToCompress)
  BY SafeTypes DEF Step
<1>2. pending_work' \in Seq(ToCompress)
  BY AcrossTypes DEF Step
<1>3. Weight(Ready, pending_work) \in Nat /\ Weight(Ready, pending_work') \in Nat
  BY <1>1, <1>2, Weights3, QueueWeight
<1>4. SinkCount
  BY CountParts DEF Step, SafeInv
<1>5. stats \in Nat /\ ItemsOf(pending_work)
  BY ItemPhaseParts DEF Step, SafeInv, Now, TypeInv, TypeOK, StatsTypes, PhaseInv
<1>6. "writer" \in Writing /\ "closer" \in Writing \ {"writer"} /\ "writer" \in Writing \ {"closer"}
  BY DEF Writing
<1> QED
  BY <1>1, <1>3, <1>4, <1>5, <1>6

\* Where the owner is does not change by the others' steps, as far as it counts.
LEMMA OwnerUnmoved ==
  ASSUME Step, pc' = pc \/ pc' = QueueBroadcast \/ \E p, b : pc' = Notified(p, b)
  PROVE  pc'[Owner] = "closed" <=> pc[Owner] = "closed"
<1>1. \/ pc'[Owner] = pc[Owner]
      \/ pc[Owner] = "queue_wait" /\ pc'[Owner] = "queue_woken"
  BY WokenOwner DEF Step, SafeInv, Now, PhaseInv
<1> QED
  BY <1>1

----------------------------------------------------------------------------
\* The steps

LEMMA KeepsCount ==
  ASSUME Step, Next, Keeps, OwnerStays, \A w \in Writers : calls'[w] >= calls[w],
         \A w \in Writers : ~RemoveStatsUpdate(w)
  PROVE  (\A w \in Writers : WriterCount(w)') /\ SinkCount'
<1>1. ASSUME NEW w \in Writers PROVE WriterCount(w)'
  <2>1. Uses(w)' = Uses(w) /\ use_count'[w] = use_count[w] /\ counted'[w] = counted[w]
    BY DEF Keeps, Uses
  <2> QED
    BY <2>1, SameCount, RemovedBy
<1>2. Filed' = Filed /\ stats' = stats /\ disk' = disk
  BY DEF Keeps, Filed
<1> QED
  BY <1>1, <1>2, SameSinkCount

LEMMA AppendSink ==
  ASSUME Step, NEW e, NEW s, Appends(e, s), pc'[Owner] # "closed"
  PROVE  SinkCount'
<1> DEFINE x == NewWork(e, s)
<1>1. x \in ToCompress /\ x.compressed = 0
  BY NewWorkType DEF Appends, NewWork
<1>2. pending_work' = Append(pending_work, x)
  BY DEF Appends
<1> HIDE DEF x
<1>3. Ready[x] = 0 /\ pending_work \in Seq(ToCompress)
  BY <1>1, ItemWeights, SafeTypes, SMTT(30) DEF Step
<1>4. Weight(Ready, pending_work') = Weight(Ready, pending_work) + 0
  BY <1>1, <1>2, <1>3, Weights3, AppendedWeight
<1>5. Weight(Ready, pending_work') = Weight(Ready, pending_work)
  BY <1>4, FiledTypes
<1>6. Filed' = Filed /\ stats' = stats
  BY <1>5 DEF Appends, Filed
<1>7. pc[Owner] # "closed"
  BY DEF Appends, Step, SafeInv, Now, PhaseInv, OwnerPhase, Accepting, Opening
<1>8. stats = Filed
  BY <1>7, FiledTypes DEF SinkCount
<1> QED
  BY <1>6, <1>8, SinkCountFrom

LEMMA AppendCount ==
  ASSUME Step, Next, NEW e, NEW s, Appends(e, s), NEW w \in Writers,
         s = NoStats => calls' = calls,
         s # NoStats => s \in Writers /\ calls' = [calls EXCEPT ![s] = @ + 1],
         s # NoStats => pc[s] = "idle", ~RemoveStatsUpdate(w)
  PROVE  WriterCount(w)'
<1> DEFINE x == NewWork(e, s)
           f == Updates(w)
<1>1. x \in ToCompress /\ x.to_update = s
  BY NewWorkType DEF Appends, NewWork
<1>2. pending_work' = Append(pending_work, x) /\ counted'[w] = counted[w]
      /\ use_count'[w] = IF w = s THEN use_count[w] + 1 ELSE use_count[w]
  BY DEF Appends
<1> HIDE DEF x
<1>3. f[x] = IF s = w THEN 1 ELSE 0
  BY <1>1, ItemWeights
<1>4. Weight(f, pending_work') = Weight(f, pending_work) + f[x]
  BY <1>1, <1>2, CountTypes, AppendedWeight
<1>5. CASE s # w
  <2>1. Uses(w)' = Uses(w) + 0
    BY <1>3, <1>4, <1>5 DEF Uses
  <2>2. Uses(w)' = Uses(w)
    BY <2>1, CountTypes
  <2>3. calls'[w] >= calls[w]
    BY <1>5, CountTypes
  <2> QED
    BY <1>2, <1>5, <2>2, <2>3, SameCount, RemovedBy
<1>6. CASE s = w
  <2>1. Uses(w)' = Uses(w) + 1 /\ use_count'[w] = use_count[w] + 1
    BY <1>2, <1>3, <1>4, <1>6 DEF Uses
  <2>2. calls'[w] = calls[w] + 1 /\ pc[w] = "idle"
    BY <1>6, CountTypes
  <2>3. pc'[w] # "removed"
    BY <2>2, RemovedBy
  <2>4. counted[w] + use_count[w] <= calls[w] /\ use_count[w] = Uses(w)
    BY CountTypes DEF WriterCount
  <2>5. counted[w] \in Nat /\ use_count[w] \in Nat /\ calls[w] \in Nat
    BY CountTypes
  <2>6. counted[w] + (use_count[w] + 1) <= calls[w] + 1
    BY <2>4, <2>5
  <2> QED
    BY <1>2, <2>1, <2>2, <2>3, <2>4, <2>6 DEF WriterCount
<1> QED
  BY <1>5, <1>6

\* removeStatsUpdate takes from the counter what it takes from the queue.
LEMMA RemoveCount ==
  ASSUME Step, Next, NEW u \in Writers, RemoveStatsUpdate(u)
  PROVE  (\A w \in Writers : WriterCount(w)') /\ SinkCount'
<1>1. /\ Len(pending_work') = Len(pending_work)
      /\ \A i \in 1..Len(pending_work) :
           /\ pending_work'[i].in_progress = pending_work[i].in_progress
           /\ pending_work'[i].compressed = pending_work[i].compressed
           /\ pending_work'[i].to_update = IF pending_work[i].to_update = u THEN NoStats
                                           ELSE pending_work[i].to_update
  BY RemoveItems DEF Step
<1>2. /\ use_count' = [use_count EXCEPT ![u] = @ - Cardinality(WouldUpdate(u))]
      /\ UNCHANGED <<calls, stats, final_stats, counted, out, disk, nfiles>>
      /\ pc' = [pc EXCEPT ![u] = "removed"] /\ pc[u] = "idle"
  BY DEF RemoveStatsUpdate, fileVars
<1>3. /\ \A i \in 1..Len(pending_work) : pending_work[i] \in ToCompress
      /\ \A i \in 1..Len(pending_work) : pending_work'[i] \in ToCompress
      /\ Len(pending_work) \in Nat /\ pending_work \in Seq(ToCompress)
  <2>1. /\ pending_work \in Seq(ToCompress) /\ pending_work' \in Seq(ToCompress)
        /\ \A i \in 1..Len(pending_work) : pending_work[i] \in ToCompress
        /\ Len(pending_work) \in Nat
    BY SafeTypes, AcrossTypes DEF Step
  <2>2. \A i \in 1..Len(pending_work) : pending_work'[i] \in ToCompress
    BY <1>1, <2>1
  <2> QED
    BY <2>1, <2>2
<1>4. \A i \in 1..Len(pending_work) : Ready[pending_work'[i]] = Ready[pending_work[i]]
  BY <1>1, <1>3, ItemWeights
<1>5. Weight(Ready, pending_work') = Weight(Ready, pending_work)
  BY <1>1, <1>4, WeightSame
<1>6. Filed' = Filed
  BY <1>2, <1>5 DEF Filed
<1>7. OwnerStays
  <2>1. Owner # u /\ pc \in [Clients -> ClientPlaces]
    BY CountTypes
  <2> QED
    BY <1>2, <2>1 DEF OwnerStays
<1>8. SinkCount'
  BY <1>2, <1>6, <1>7, SameSinkCount
<1>9. ASSUME NEW w \in Writers, w # u PROVE WriterCount(w)'
  <2>1. w # NoStats
    BY CountTypes
  <2>2. \A i \in 1..Len(pending_work) : Updates(w)[pending_work'[i]] = Updates(w)[pending_work[i]]
    BY <1>1, <1>3, <1>9, <2>1, ItemWeights
  <2>3. Uses(w)' = Uses(w)
    BY <1>1, <2>2, WeightSame DEF Uses
  <2>4. use_count \in [Writers -> Nat] /\ pc \in [Clients -> ClientPlaces] /\ w \in Clients
        /\ calls[w] \in Nat
    BY CountTypes DEF Step, SafeInv, Now, TypeInv, TypeOK, StatsTypes
  <2>5. use_count'[w] = use_count[w] /\ counted'[w] = counted[w] /\ calls'[w] >= calls[w]
        /\ pc'[w] = pc[w]
    BY <1>2, <1>9, <2>4
  <2> QED
    BY <2>3, <2>5, SameCount
<1>10. WriterCount(u)'
  <2>1. u # NoStats
    BY CountTypes
  <2>2. \A i \in 1..Len(pending_work') : Updates(u)[pending_work'[i]] = 0
    BY <1>1, <1>3, <2>1, ItemWeights
  <2>3. Uses(u)' = 0
    BY <1>1, <1>3, <2>2, WeightZero DEF Uses
  <2>4. WouldUpdate(u) = Referring(u)
    BY DEF WouldUpdate, Referring, Positions
  <2>5. Cardinality(WouldUpdate(u)) = use_count[u]
    BY <1>3, <2>4, ReferringIsWeight, CountTypes DEF WriterCount, Uses
  <2>6. use_count \in [Writers -> Nat]
    BY DEF Step, SafeInv, Now, TypeInv, TypeOK, StatsTypes
  <2>7. use_count'[u] = use_count[u] - use_count[u]
    BY <1>2, <2>5, <2>6
  <2>8. /\ use_count[u] \in Nat /\ counted[u] \in Nat /\ calls[u] \in Nat
        /\ counted[u] + use_count[u] <= calls[u]
    BY CountTypes DEF WriterCount
  <2>9. use_count'[u] = 0 /\ counted[u] + 0 <= calls[u]
    BY <2>7, <2>8
  <2> QED
    BY <1>2, <2>3, <2>9 DEF WriterCount
<1> QED
  BY <1>8, <1>9, <1>10

Sum4(d, v, c, r) == d + v + c + r

LEMMA FiledIs ==
  /\ Filed = Sum4(Len(disk), Len(out["writer"].to_write), Len(out["closer"].to_write),
                  Weight(Ready, pending_work))
  /\ Filed' = Sum4(Len(disk'), Len(out'["writer"].to_write), Len(out'["closer"].to_write),
                   Weight(Ready, pending_work'))
  BY DEF Filed, Sum4

LEMMA SumDone ==
  ASSUME NEW d \in Nat, NEW v \in Nat, NEW c \in Nat, NEW r \in Nat, NEW q, q = r + 1
  PROVE  Sum4(d, v, c, q) = Sum4(d, v, c, r) + 1
  BY DEF Sum4

LEMMA SumWritten ==
  ASSUME NEW d \in Nat, NEW v \in Nat, NEW c \in Nat, NEW r \in Nat, NEW e, e = d + 1, NEW k
  PROVE  /\ k = v - 1 => Sum4(e, k, c, r) = Sum4(d, v, c, r)
         /\ k = c - 1 => Sum4(e, v, k, r) = Sum4(d, v, c, r)
  BY DEF Sum4

LEMMA SumTaken ==
  ASSUME NEW d \in Nat, NEW v \in Nat, NEW r \in Nat, NEW k \in Nat, NEW q, q = k + r
  PROVE  Sum4(d, k, v, r) = Sum4(d, 0, v, q)
  BY DEF Sum4

LEMMA SumTakenToClose ==
  ASSUME NEW d \in Nat, NEW v \in Nat, NEW r \in Nat, NEW k \in Nat, NEW q, q = k + r
  PROVE  Sum4(d, v, k, r) = Sum4(d, v, 0, q)
  BY DEF Sum4

\* The writers' counts after a step that leaves what updates them alone.
LEMMA SameCounts ==
  ASSUME Step, Next, UNCHANGED <<calls, counted, use_count>>,
         \A w \in Writers : ~RemoveStatsUpdate(w),
         \A w \in Writers : Weight(Updates(w), pending_work') = Weight(Updates(w), pending_work)
  PROVE  \A w \in Writers : WriterCount(w)'
<1> SUFFICES ASSUME NEW w \in Writers PROVE WriterCount(w)'
  OBVIOUS
<1>1. Uses(w)' = Uses(w)
  BY DEF Uses
<1>2. use_count'[w] = use_count[w] /\ counted'[w] = counted[w] /\ calls'[w] >= calls[w]
  BY CountTypes
<1> QED
  BY <1>1, <1>2, SameCount, RemovedBy

\* The Stats a compressor has counted.
LEMMA CountedOne ==
  ASSUME Step, NEW w \in Writers, NEW s, NEW u, NEW v,
         counted'[w] = IF w = s THEN counted[w] + 1 ELSE counted[w],
         use_count'[w] = IF w = s THEN use_count[w] - 1 ELSE use_count[w],
         v = Uses(w) - u + 0, u = IF s = w THEN 1 ELSE 0, Uses(w)' = v, calls' = calls,
         v \in Nat, pc'[w] = "removed" => pc[w] = "removed"
  PROVE  WriterCount(w)'
<1>1. /\ counted[w] \in Nat /\ use_count[w] \in Nat /\ calls[w] \in Nat
      /\ counted[w] + use_count[w] <= calls[w] /\ use_count[w] = Uses(w)
      /\ pc[w] = "removed" => Uses(w) = 0
  BY CountTypes DEF WriterCount
<1>2. calls'[w] = calls[w]
  OBVIOUS
<1>3. counted'[w] + use_count'[w] = counted[w] + use_count[w]
  BY <1>1
<1>4. use_count'[w] = v
  BY <1>1
<1>5. pc[w] = "removed" => v = 0
  BY <1>1
<1> QED
  BY <1>1, <1>2, <1>3, <1>4, <1>5 DEF WriterCount

LEMMA CompressorRunCount ==
  ASSUME Step, Next, NEW t \in Compressors, CompressorRun(t) \/ Pack(t),
         \A w \in Writers : ~RemoveStatsUpdate(w)
  PROVE  (\A w \in Writers : WriterCount(w)') /\ SinkCount'
<1>1. UNCHANGED <<pc, calls, counted, use_count, stats, final_stats, disk, nfiles, out>>
  BY DEF CompressorRun, Pack, clientVars, statsVars, fileVars
<1>2. pending_work \in Seq(ToCompress)
  BY SafeTypes DEF Step
<1>3. ASSUME NEW f, Weighs(f), f = Ready \/ \E w : f = Updates(w)
      PROVE  Weight(f, pending_work') = Weight(f, pending_work)
  <2>1. CASE CompressorRun(t)
    <3>1. CompressorLoop(t, pending_work, bytes_in_progress, TRUE)
      BY <2>1 DEF CompressorRun
    <3> QED
      BY <1>2, <1>3, <3>1, ClaimKeepsWeight
  <2> QED
    BY <1>3, <2>1, PackKeepsWeight
<1>4. \A w \in Writers : Weight(Updates(w), pending_work') = Weight(Updates(w), pending_work)
  BY <1>3, Weights3
<1>5. Weight(Ready, pending_work') = Weight(Ready, pending_work)
  BY <1>3, Weights3
<1>6. Filed' = Filed
  BY <1>1, <1>5 DEF Filed
<1>7. OwnerStays
  BY <1>1 DEF OwnerStays
<1> QED
  BY <1>1, <1>4, <1>6, <1>7, SameCounts, SameSinkCount

\* What a compressor has finished: one extent more is ready.
LEMMA DoneWeights ==
  ASSUME Step, NEW t \in Compressors, NEW i \in 1..Len(pending_work), NEW x, DoneEffects(t, i, x)
  PROVE  /\ Weight(Ready, pending_work') = Weight(Ready, pending_work) + 1
         /\ \A w \in Writers :
              Weight(Updates(w), pending_work')
                = Weight(Updates(w), pending_work)
                  - (IF pending_work[i].to_update = w THEN 1 ELSE 0) + 0
<1> DEFINE y == pending_work[i]
<1>0. pending_work \in Seq(ToCompress)
  BY SafeTypes DEF Step
<1>11. y \in ToCompress
  BY <1>0
<1>12. PackedSize[y.extent] \in Nat \ {0}
  BY <1>11, ItemFields
<1>1. /\ pending_work \in Seq(ToCompress) /\ y \in ToCompress
      /\ PackedSize[y.extent] \in Nat /\ PackedSize[y.extent] > 0
  BY <1>0, <1>11, <1>12
<1>2. /\ x \in ToCompress /\ x.to_update = NoStats /\ x.in_progress = FALSE
      /\ x.compressed = PackedSize[y.extent]
      /\ y.in_progress
      /\ Completed(i) = [pending_work EXCEPT ![i] = x] /\ Completed(i) \in Seq(ToCompress)
      /\ \E ok : CompressorLoop(t, Completed(i), CompletedBytes(i), ok)
  BY DEF DoneEffects, IsItem
<1> DEFINE s == y.to_update
<1> HIDE DEF y
<1>3. Ready[x] = 1 /\ Ready[y] = 0
  BY <1>1, <1>2, ItemWeights
<1>4. \A w \in Writers : Updates(w)[x] = 0 /\ Updates(w)[y] = IF s = w THEN 1 ELSE 0
  <2>1. NoStats \notin Writers
    BY SinkAssumption
  <2> QED
    BY <1>1, <1>2, <2>1, ItemWeights
<1>5. ASSUME NEW f, Weighs(f), f = Ready \/ \E w : f = Updates(w)
      PROVE  Weight(f, pending_work') = Weight(f, pending_work) - f[y] + f[x]
  <2>1. Weight(f, pending_work') = Weight(f, Completed(i))
    BY <1>2, <1>5, ClaimKeepsWeight
  <2>2. Weight(f, [pending_work EXCEPT ![i] = x]) = Weight(f, pending_work) - f[y] + f[x]
    BY <1>1, <1>2, <1>5, ChangedWeight DEF y
  <2> QED
    BY <1>2, <2>1, <2>2
<1>6. Weight(Ready, pending_work') = Weight(Ready, pending_work) - 0 + 1
  BY <1>3, <1>5, Weights3
<1>7. Weight(Ready, pending_work') = Weight(Ready, pending_work) + 1
  BY <1>6, FiledTypes
<1>8. ASSUME NEW w \in Writers
      PROVE  Weight(Updates(w), pending_work')
                = Weight(Updates(w), pending_work) - (IF s = w THEN 1 ELSE 0) + 0
  BY <1>4, <1>5, Weights3
<1> QED
  BY <1>7, <1>8 DEF y

LEMMA CompressorDoneCount ==
  ASSUME Step, Next, NEW t \in Compressors, CompressorDone(t),
         \A w \in Writers : ~RemoveStatsUpdate(w)
  PROVE  (\A w \in Writers : WriterCount(w)') /\ SinkCount'
<1>1a. PICK i \in 1..Len(pending_work) : \E x : DoneEffects(t, i, x)
  BY DoneEffect DEF Step, SafeInv
<1>1. PICK x : DoneEffects(t, i, x)
  BY <1>1a
<1> DEFINE s == pending_work[i].to_update
<1>2. /\ CountPacked(s) /\ pc' = Notified(Completed(i), CompletedBytes(i))
  BY <1>1 DEF DoneEffects
<1>3. UNCHANGED <<calls, out, disk, nfiles>>
  BY DEF CompressorDone, fileVars
<1>4. ASSUME NEW w \in Writers PROVE WriterCount(w)'
  <2>1. Weight(Updates(w), pending_work') = Uses(w) - (IF s = w THEN 1 ELSE 0) + 0
    BY <1>1, DoneWeights DEF Uses
  <2>2. Weight(Updates(w), pending_work') \in Nat
    BY CountTypes, AcrossTypes, QueueWeight DEF Step
  <2>3. /\ counted'[w] = IF w = s THEN counted[w] + 1 ELSE counted[w]
        /\ use_count'[w] = IF w = s THEN use_count[w] - 1 ELSE use_count[w]
    BY <1>2 DEF CountPacked
  <2>4. pc'[w] = "removed" => pc[w] = "removed"
    BY RemovedBy
  <2>5. Uses(w)' = Weight(Updates(w), pending_work')
    BY DEF Uses
  <2> HIDE DEF s
  <2> QED
    BY <1>3, <2>1, <2>2, <2>3, <2>4, <2>5, CountedOne
<1>5. Weight(Ready, pending_work') = Weight(Ready, pending_work) + 1
  BY <1>1, DoneWeights
<1>6. Filed' = Filed + 1
  <2> DEFINE d == Len(disk)
             v == Len(out["writer"].to_write)
             c == Len(out["closer"].to_write)
             r == Weight(Ready, pending_work)
             q == Weight(Ready, pending_work')
  <2>1. Filed = Sum4(d, v, c, r) /\ Filed' = Sum4(d, v, c, q)
    BY <1>3, FiledIs
  <2>2. d \in Nat /\ v \in Nat /\ c \in Nat /\ r \in Nat /\ q = r + 1
    BY <1>5, FiledTypes
  <2> HIDE DEF d, v, c, r, q
  <2> QED
    BY <2>1, <2>2, SumDone
<1>7. stats' = stats + 1
  BY <1>2 DEF CountPacked
<1>8. pc[Owner] # "closed"
  BY DEF CompressorDone, Step, SafeInv, Now, QueueInv, AllJoined
<1>9. pc'[Owner] # "closed"
  BY <1>2, <1>8, OwnerUnmoved
<1>10. stats = Filed
  BY <1>8, FiledTypes DEF SinkCount
<1> QED
  BY <1>4, <1>6, <1>7, <1>9, <1>10, SinkCountFrom

\* A batch writes one extent.
LEMMA WriteOutCount ==
  ASSUME Step, Next, NEW a \in Writing, WriteOut(a), \A w \in Writers : ~RemoveStatsUpdate(w)
  PROVE  (\A w \in Writers : WriterCount(w)') /\ SinkCount'
<1>1. UNCHANGED <<pc, calls, counted, use_count, stats, pending_work>>
  BY DEF WriteOut, clientVars, statsVars, queueVars
<1>2. \A w \in Writers : WriterCount(w)'
  BY <1>1, SameCounts
<1>3. pc[Owner] # "closed" /\ out[a].to_write \in Seq(ToCompress) /\ out[a].to_write # << >>
  BY BatchOpen DEF WriteOut, Step, SafeInv, Now
<1>4. Len(out'[a].to_write) = Len(out[a].to_write) - 1 /\ Len(out[a].to_write) \in Nat
  <2>1. out'[a].to_write = Tail(out[a].to_write)
    BY SafeTypes DEF WriteOut, Step
  <2> QED
    BY <1>3, <2>1
<1>5. \A c \in Writing \ {a} : out'[c] = out[c]
  BY SafeTypes DEF WriteOut, Step
<1>6. Len(disk') = Len(disk) + 1
  <2>1. disk \in Seq(Extents) /\ disk' = Append(disk, Head(out[a].to_write).extent)
    BY SafeTypes DEF WriteOut, Step
  <2> QED
    BY <2>1
<1>7. a = "writer" \/ a = "closer"
  BY DEF Writing
<1>8. Filed' = Filed
  <2>1. CASE a = "writer"
    <3>1. out'["closer"] = out["closer"]
      BY <1>5, <2>1, FiledTypes
    <3> DEFINE d == Len(disk)
               v == Len(out["writer"].to_write)
               c == Len(out["closer"].to_write)
               r == Weight(Ready, pending_work)
               e == Len(disk')
               k == Len(out'["writer"].to_write)
    <3>2. Filed = Sum4(d, v, c, r) /\ Filed' = Sum4(e, k, c, r)
      BY <1>1, <3>1, FiledIs
    <3>3. d \in Nat /\ v \in Nat /\ c \in Nat /\ r \in Nat /\ e = d + 1 /\ k = v - 1
      BY <1>4, <1>6, <2>1, FiledTypes
    <3> HIDE DEF d, v, c, r, e, k
    <3> QED
      BY <3>2, <3>3, SumWritten
  <2>2. CASE a = "closer"
    <3>1. out'["writer"] = out["writer"]
      BY <1>5, <2>2, FiledTypes
    <3> DEFINE d == Len(disk)
               v == Len(out["writer"].to_write)
               c == Len(out["closer"].to_write)
               r == Weight(Ready, pending_work)
               e == Len(disk')
               k == Len(out'["closer"].to_write)
    <3>2. Filed = Sum4(d, v, c, r) /\ Filed' = Sum4(e, v, k, r)
      BY <1>1, <3>1, FiledIs
    <3>3. d \in Nat /\ v \in Nat /\ c \in Nat /\ r \in Nat /\ e = d + 1 /\ k = c - 1
      BY <1>4, <1>6, <2>2, FiledTypes
    <3> HIDE DEF d, v, c, r, e, k
    <3> QED
      BY <3>2, <3>3, SumWritten
  <2> QED
    BY <1>7, <2>1, <2>2
<1>9. stats = Filed
  BY <1>3, FiledTypes DEF SinkCount
<1> QED
  BY <1>1, <1>2, <1>3, <1>8, <1>9, SinkCountFrom

\* A batch taken from the queue counts as much as before.
LEMMA TakeCount ==
  ASSUME Step, Next, NEW a \in Writing, NEW n \in 0..Len(pending_work),
         Takes(a, pending_work, n), out[a].to_write = << >>,
         UNCHANGED <<calls, counted, use_count, stats, disk, nfiles, final_stats>>,
         pc'[Owner] = "closed" <=> pc[Owner] = "closed",
         \A w \in Writers : ~RemoveStatsUpdate(w)
  PROVE  (\A w \in Writers : WriterCount(w)') /\ SinkCount'
<1>1. /\ \A w \in Writers : Weight(Updates(w), pending_work') = Weight(Updates(w), pending_work)
      /\ Weight(Ready, pending_work) = Len(out'[a].to_write) + Weight(Ready, pending_work')
      /\ Len(out'[a].to_write) \in Nat
  BY FiledTypes, SafeTypes, TakenCounts DEF Step
<1>2. \A c \in Writing \ {a} : out'[c] = out[c]
  BY SafeTypes DEF Step, Takes
<1>3. Len(out[a].to_write) = 0 /\ (a = "writer" \/ a = "closer")
  BY DEF Writing
<1>4. Filed' = Filed
  <2>1. CASE a = "writer"
    <3>1. out'["closer"] = out["closer"] /\ Len(out["writer"].to_write) = 0
      BY <1>2, <1>3, <2>1, FiledTypes
    <3> DEFINE d == Len(disk)
               v == Len(out["closer"].to_write)
               k == Len(out'["writer"].to_write)
               r == Weight(Ready, pending_work')
               q == Weight(Ready, pending_work)
    <3>2. Filed = Sum4(d, 0, v, q) /\ Filed' = Sum4(d, k, v, r)
      BY <3>1, FiledIs
    <3>3. d \in Nat /\ v \in Nat /\ k \in Nat /\ r \in Nat /\ q = k + r
      BY <1>1, <2>1, FiledTypes
    <3> HIDE DEF d, v, k, r, q
    <3> QED
      BY <3>2, <3>3, SumTaken
  <2>2. CASE a = "closer"
    <3>1. out'["writer"] = out["writer"] /\ Len(out["closer"].to_write) = 0
      BY <1>2, <1>3, <2>2, FiledTypes
    <3> DEFINE d == Len(disk)
               v == Len(out["writer"].to_write)
               k == Len(out'["closer"].to_write)
               r == Weight(Ready, pending_work')
               q == Weight(Ready, pending_work)
    <3>2. Filed = Sum4(d, v, 0, q) /\ Filed' = Sum4(d, v, k, r)
      BY <3>1, FiledIs
    <3>3. d \in Nat /\ v \in Nat /\ k \in Nat /\ r \in Nat /\ q = k + r
      BY <1>1, <2>2, FiledTypes
    <3> HIDE DEF d, v, k, r, q
    <3> QED
      BY <3>2, <3>3, SumTakenToClose
  <2> QED
    BY <1>3, <2>1, <2>2
<1>5. OwnerStays
  BY DEF OwnerStays
<1> QED
  BY <1>1, <1>4, <1>5, SameCounts, SameSinkCount

LEMMA DropCount ==
  ASSUME Step, Next, NEW a \in Writing, out' = [out EXCEPT ![a] = NoBatch], out[a].to_write = << >>,
         UNCHANGED <<pending_work, calls, counted, use_count, stats, disk, nfiles, final_stats>>,
         pc'[Owner] = "closed" <=> pc[Owner] = "closed",
         \A w \in Writers : ~RemoveStatsUpdate(w)
  PROVE  (\A w \in Writers : WriterCount(w)') /\ SinkCount'
<1>1. /\ \A c \in Writing : Len(out'[c].to_write) = Len(out[c].to_write)
  BY SafeTypes DEF Step, NoBatch
<1>2. Filed' = Filed
  BY <1>1 DEF Filed, Writing
<1>3. OwnerStays
  BY DEF OwnerStays
<1> QED
  BY <1>2, <1>3, SameCounts, SameSinkCount

LEMMA WriterCounts ==
  ASSUME Step, Next, WriterRun \/ WriterDone, \A w \in Writers : ~RemoveStatsUpdate(w)
  PROVE  (\A w \in Writers : WriterCount(w)') /\ SinkCount'
<1>1. /\ UNCHANGED <<calls, counted, use_count, stats, disk, nfiles, final_stats>>
      /\ WriterLoop
      /\ pc' = pc \/ \E p, b : pc' = Notified(p, b)
  BY DEF WriterRun, WriterDone, NotifiedAfter, clientVars, statsVars, fileVars
<1>2. out["writer"].to_write = << >>
  <2>1. CASE WriterRun
    BY <2>1 DEF WriterRun, Step, SafeInv, Now, PhaseInv, BatchPhase, NoBatch
  <2> QED
    BY <2>1 DEF WriterDone, FinishWriteOut
<1>3. pc'[Owner] = "closed" <=> pc[Owner] = "closed"
  BY <1>1, OwnerUnmoved
<1>4. ASSUME NEW n \in 0..Len(pending_work), Takes("writer", pending_work, n)
      PROVE  (\A w \in Writers : WriterCount(w)') /\ SinkCount'
  BY <1>1, <1>2, <1>3, <1>4, FiledTypes, TakeCount
<1>5. CASE out' = [out EXCEPT !["writer"] = NoBatch] /\ UNCHANGED pending_work
  BY <1>1, <1>2, <1>3, <1>5, FiledTypes, DropCount
<1> QED
  BY <1>1, <1>4, <1>5, WriterLoopCases

LEMMA JoinWriterCount ==
  ASSUME Step, Next, JoinWriter, \A w \in Writers : ~RemoveStatsUpdate(w)
  PROVE  (\A w \in Writers : WriterCount(w)') /\ SinkCount'
<1>1. /\ UNCHANGED <<calls, counted, use_count, stats, disk, nfiles, final_stats>>
      /\ pc[Owner] = "join_writer" /\ pc' = [pc EXCEPT ![Owner] = "drain"]
      /\ BeginWriteOut("closer", pending_work)
  BY DEF JoinWriter, statsVars, fileVars
<1>2. out["closer"].to_write = << >>
  BY <1>1 DEF Step, SafeInv, Now, PhaseInv, BatchPhase, NoBatch
<1>3. pc'[Owner] = "closed" <=> pc[Owner] = "closed"
  BY <1>1, AcrossTypes DEF Step
<1>4. PICK n \in 0..Len(pending_work) : Takes("closer", pending_work, n)
  BY <1>1, TakeEffect
<1> QED
  BY <1>1, <1>2, <1>3, <1>4, FiledTypes, TakeCount

LEMMA CloseIndexCount ==
  ASSUME Step, Next, CloseIndex, \A w \in Writers : ~RemoveStatsUpdate(w)
  PROVE  (\A w \in Writers : WriterCount(w)') /\ SinkCount'
<1>1. PICK x : /\ IsItem(x, <<Index, nfiles>>, NoStats, TRUE, 0) /\ x \in ToCompress
               /\ pending_work = << >> /\ pending_work' = <<x>>
               /\ out' = [out EXCEPT !["closer"] = NoBatch]
  BY CloseIndexEffect DEF Step
<1>2. /\ UNCHANGED <<calls, counted, use_count, stats, disk, nfiles, final_stats>>
      /\ pc[Owner] = "drain" /\ out["closer"].to_write = << >>
      /\ pc' = [NotifiedAfter("closer") EXCEPT ![Owner] = "pack_index"]
  BY DEF CloseIndex, statsVars, fileVars
<1>3. x.to_update = NoStats /\ x.in_progress = TRUE
  BY <1>1 DEF IsItem
<1>4. ASSUME NEW f, Weighs(f), f[x] = 0
      PROVE  Weight(f, pending_work') = Weight(f, pending_work)
  BY <1>1, <1>4, SingleWeight, WeightEmpty
<1>5. ASSUME NEW w \in Writers
      PROVE  Weight(Updates(w), pending_work') = Weight(Updates(w), pending_work)
  <2>1. w # NoStats
    BY SinkAssumption
  <2>2. Updates(w)[x] = 0
    BY <1>1, <1>3, <2>1, ItemWeights
  <2> QED
    BY <1>4, <2>2, Weights3
<1>6. Weight(Ready, pending_work') = Weight(Ready, pending_work)
  <2>1. Ready[x] = 0
    BY <1>1, <1>3, ItemWeights
  <2> QED
    BY <1>4, <2>1, Weights3
<1>7. /\ out'["writer"] = out["writer"] /\ Len(out'["closer"].to_write) = Len(out["closer"].to_write)
  BY <1>1, <1>2, SafeTypes DEF Step, NoBatch
<1>8. Filed' = Filed
  BY <1>2, <1>6, <1>7 DEF Filed
<1>9. pc'[Owner] = "pack_index"
  <2>1. NotifiedAfter("closer") \in [Clients -> ClientPlaces] /\ Owner \in Clients
    BY NotifiedType, AcrossTypes DEF NotifiedAfter, Step, SafeInv, Now, TypeInv, TypeOK
  <2> QED
    BY <1>2, <2>1
<1>10. stats = Filed
  BY <1>2, FiledTypes DEF SinkCount
<1> QED
  BY <1>2, <1>5, <1>8, <1>9, <1>10, SameCounts, SinkCountFrom

LEMMA PackIndexCount ==
  ASSUME Step, Next, PackIndex, \A w \in Writers : ~RemoveStatsUpdate(w)
  PROVE  (\A w \in Writers : WriterCount(w)') /\ SinkCount'
<1> DEFINE e == <<Index, nfiles>>
           y == [NewWork(e, NoStats) EXCEPT !.in_progress = TRUE]
<1>0. /\ pc[Owner] = "pack_index" /\ CountPacked(NoStats) /\ UNCHANGED <<calls, disk, nfiles>>
      /\ pc' = [pc EXCEPT ![Owner] = "write_index"]
  BY DEF PackIndex
<1>1. PICK x : /\ IsItem(x, e, NoStats, FALSE, PackedSize[e]) /\ x \in ToCompress
               /\ \E n \in 0..1 : Takes("closer", <<x>>, n)
  BY PackIndexEffect DEF Step
<1>2. e \in Extents /\ PackedSize[e] > 0
  BY PackIndexSafe, SinkAssumption DEF Step
<1>3. pending_work = <<y>> /\ IsItem(y, e, NoStats, TRUE, 0) /\ y \in ToCompress
  BY <1>0, <1>2, IndexItem DEF Step, SafeInv, Now, PhaseInv, QueuePhase
<1> HIDE DEF y
<1>4. /\ x.to_update = NoStats /\ x.in_progress = FALSE /\ x.compressed = PackedSize[e]
      /\ y.to_update = NoStats /\ y.in_progress = TRUE /\ x.extent = e
  BY <1>1, <1>3 DEF IsItem
<1>5. Ready[x] = 1 /\ Ready[y] = 0
  BY <1>1, <1>2, <1>3, <1>4, ItemWeights
<1>6. \A w \in Writers : Updates(w)[x] = 0 /\ Updates(w)[y] = 0
  <2>1. NoStats \notin Writers
    BY SinkAssumption
  <2> QED
    BY <1>1, <1>3, <1>4, <2>1, ItemWeights
<1>7. Weight(Ready, pending_work) = 0 /\ Weight(Ready, <<x>>) = 1 /\ <<x>> \in Seq(ToCompress)
  BY <1>1, <1>3, <1>5, SingleWeight, Weights3
<1>8. PICK n \in 0..1 : Takes("closer", <<x>>, n)
  BY <1>1
<1>9. n \in 0..Len(<<x>>) /\ ItemsOf(<<x>>)
  BY <1>4, <1>8 DEF ItemsOf, Item
<1>10. /\ \A w \in Writers : Weight(Updates(w), pending_work') = Weight(Updates(w), <<x>>)
       /\ Weight(Ready, <<x>>) = Len(out'["closer"].to_write) + Weight(Ready, pending_work')
       /\ Len(out'["closer"].to_write) \in Nat
  BY <1>7, <1>8, <1>9, FiledTypes, TakenCounts
<1>11. ASSUME NEW w \in Writers
       PROVE  Weight(Updates(w), pending_work') = Weight(Updates(w), pending_work)
  <2>1. Weighs(Updates(w)) /\ Updates(w)[x] = 0 /\ Updates(w)[y] = 0
    BY <1>6, Weights3
  <2>2. Weight(Updates(w), <<x>>) = 0 /\ Weight(Updates(w), <<y>>) = 0
    BY <1>1, <1>3, <2>1, SingleWeight
  <2> QED
    BY <1>3, <1>10, <2>2
<1>12. UNCHANGED <<counted, use_count>>
  <2>1. counted \in [Writers -> Nat] /\ use_count \in [Writers -> Int] /\ NoStats \notin Writers
    BY SinkAssumption DEF Step, SafeInv, Now, TypeInv, TypeOK, StatsTypes
  <2> QED
    BY <1>0, <2>1 DEF CountPacked
<1>13. \A w \in Writers : WriterCount(w)'
  BY <1>0, <1>11, <1>12, SameCounts
<1>14. out["writer"] = NoBatch /\ out["closer"] = NoBatch
  BY <1>0, CloserAlone DEF Step
<1>15. /\ out'["writer"] = NoBatch /\ Len(NoBatch.to_write) = 0
  BY <1>8, <1>14, SafeTypes DEF Takes, NoBatch, Step
<1> DEFINE d == Len(disk)
           k == Len(out'["closer"].to_write)
           r == Weight(Ready, pending_work')
<1>16. /\ Filed = Sum4(d, 0, 0, 0) /\ Filed' = Sum4(d, 0, k, r)
  BY <1>0, <1>7, <1>14, <1>15, FiledIs
<1>17. d \in Nat /\ k \in Nat /\ r \in Nat /\ k + r = 1
  BY <1>7, <1>10, FiledTypes
<1> HIDE DEF d, k, r
<1>18. Filed' = Filed + 1
  BY <1>16, <1>17 DEF Sum4
<1>19. stats = Filed /\ stats' = stats + 1
  BY <1>0, FiledTypes DEF SinkCount, CountPacked
<1>20. pc'[Owner] # "closed"
  BY <1>0, AcrossTypes DEF Step
<1> QED
  BY <1>13, <1>18, <1>19, <1>20, SinkCountFrom

LEMMA SealCount ==
  ASSUME Step, Next, Seal, \A w \in Writers : ~RemoveStatsUpdate(w)
  PROVE  (\A w \in Writers : WriterCount(w)') /\ SinkCount'
<1>1. /\ UNCHANGED <<calls, counted, use_count, pending_work, disk, nfiles>>
      /\ pc[Owner] = "write_index" /\ stats' = 0 /\ final_stats' = stats
      /\ out["closer"].to_write = << >>
      /\ pc' = [NotifiedAfter("closer") EXCEPT ![Owner] = "closed"]
  BY DEF Seal
<1>2. \A w \in Writers : WriterCount(w)'
  BY <1>1, SameCounts
<1>3. out["writer"] = NoBatch /\ pending_work = << >>
  BY <1>1, CloserAlone DEF Step
<1>4. Weight(Ready, pending_work) = 0 /\ Len(out["writer"].to_write) = 0
      /\ Len(out["closer"].to_write) = 0
  BY <1>1, <1>3, WeightEmpty DEF NoBatch
<1>5. Filed = Sum4(Len(disk), 0, 0, 0)
  BY <1>4, FiledIs
<1>6. Len(disk) \in Nat
  BY FiledTypes
<1> DEFINE d == Len(disk)
<1>7. Filed = Len(disk)
  <2>1. d \in Nat /\ Filed = Sum4(d, 0, 0, 0)
    BY <1>5, <1>6
  <2> HIDE DEF d
  <2>2. Filed = d
    BY <2>1 DEF Sum4
  <2> QED
    BY <2>2 DEF d
<1>8. stats = Filed
  BY <1>1, FiledTypes DEF SinkCount
<1>9. pc'[Owner] = "closed"
  <2>1. NotifiedAfter("closer") \in [Clients -> ClientPlaces] /\ Owner \in Clients
    BY NotifiedType, AcrossTypes DEF NotifiedAfter, Step, SafeInv, Now, TypeInv, TypeOK
  <2> QED
    BY <1>1, <2>1
<1> QED
  BY <1>1, <1>2, <1>7, <1>8, <1>9 DEF SinkCount

LEMMA OpenCount ==
  ASSUME Step, Next, Open, \A w \in Writers : ~RemoveStatsUpdate(w)
  PROVE  (\A w \in Writers : WriterCount(w)') /\ SinkCount'
<1>1. /\ UNCHANGED <<calls, counted, use_count, pending_work, stats, out>>
      /\ pc[Owner] = "closed" /\ disk' = << >>
      /\ pc' = [pc EXCEPT ![Owner] = "opened"]
  BY DEF Open, queueVars, statsVars
<1>2. \A w \in Writers : WriterCount(w)'
  BY <1>1, SameCounts
<1>3. pending_work = << >> /\ stats = 0
  BY <1>1, FiledTypes DEF Step, SafeInv, Now, QueueInv, EmptyBetweenFiles, SinkCount
<1>4. out["writer"] = NoBatch /\ out["closer"] = NoBatch
  BY <1>1 DEF Step, SafeInv, Now, PhaseInv, BatchPhase, ThreadPhase, WithoutWriter
<1>5. Filed' = Sum4(0, 0, 0, 0)
  <2>1. /\ Len(disk') = 0 /\ Len(out'["writer"].to_write) = 0
        /\ Len(out'["closer"].to_write) = 0 /\ Weight(Ready, pending_work') = 0
    BY <1>1, <1>3, <1>4, WeightEmpty DEF NoBatch
  <2> QED
    BY <2>1, FiledIs
<1>6. Filed' = 0
  BY <1>5 DEF Sum4
<1>7. pc'[Owner] # "closed"
  BY <1>1, AcrossTypes DEF Step
<1> QED
  BY <1>1, <1>2, <1>3, <1>6, <1>7, SinkCountFrom

LEMMA QueueLibraryCount ==
  ASSUME Step, Next, QueueLibrary, \A w \in Writers : ~RemoveStatsUpdate(w)
  PROVE  (\A w \in Writers : WriterCount(w)') /\ SinkCount'
<1>1. Appends(<<Library, nfiles>>, NoStats) /\ UNCHANGED calls
  BY QueueLibraryEffect DEF Step, SafeInv, Now
<1>2. pc'[Owner] # "closed"
  BY AcrossTypes DEF QueueLibrary, queueWriteExtent, Return, Step
<1> QED
  BY <1>1, <1>2, AppendSink, AppendCount

LEMMA WriteExtentCount ==
  ASSUME Step, Next, NEW u \in Writers, WriteExtent(u), \A w \in Writers : ~RemoveStatsUpdate(w)
  PROVE  (\A w \in Writers : WriterCount(w)') /\ SinkCount'
<1>1. /\ Appends(<<u, calls[u] + 1>>, u)
      /\ calls' = [calls EXCEPT ![u] = @ + 1]
      /\ pc[Owner] = "idle" /\ pc[u] = "idle"
  BY WriteExtentEffect DEF Step, SafeInv, Now
<1>2. pc'[Owner] # "closed"
  <2>1. u # Owner
    BY CountTypes
  <2> QED
    BY <1>1, <2>1, AcrossTypes DEF WriteExtent, queueWriteExtent, Step
<1>3. u # NoStats
  BY CountTypes
<1>4. ASSUME NEW w \in Writers PROVE WriterCount(w)'
  BY <1>1, <1>3, AppendCount
<1> QED
  BY <1>1, <1>2, <1>4, AppendSink

LEMMA CallCounts ==
  ASSUME Step, NEW u \in Writers, Call(u) \/ calls' = calls
  PROVE  \A w \in Writers : calls'[w] >= calls[w]
<1> SUFFICES ASSUME NEW w \in Writers PROVE calls'[w] >= calls[w]
  OBVIOUS
<1>1. calls[w] \in Nat /\ calls \in [Writers -> 0..MaxCalls]
  BY CountTypes
<1>2. calls' = [calls EXCEPT ![u] = @ + 1] \/ calls' = calls
  BY DEF Call
<1>3. calls'[w] = calls[w] + 1 \/ calls'[w] = calls[w]
  BY <1>1, <1>2
<1> QED
  BY <1>1, <1>3

LEMMA OwnerMoves ==
  ASSUME Step, NEW c \in Clients, NEW x, x # "closed", pc[c] # "closed",
         pc' = [pc EXCEPT ![c] = x], UNCHANGED <<nfiles, final_stats>>
  PROVE  OwnerStays
<1>1. pc \in [Clients -> ClientPlaces] /\ Owner \in Clients
  BY AcrossTypes DEF Step
<1>2. pc'[Owner] = "closed" <=> pc[Owner] = "closed"
  BY <1>1
<1> QED
  BY <1>2 DEF OwnerStays

LEMMA OwnerKeepsCount ==
  ASSUME Step, Next, \A w \in Writers : ~RemoveStatsUpdate(w),
         \/ CloseBegin \/ MarkWroteLibrary \/ JoinCompressors \/ UNCHANGED vars
         \/ \E c \in Clients : QueueWakeup(c)
  PROVE  (\A w \in Writers : WriterCount(w)') /\ SinkCount'
<1>1. Keeps
  BY KeepsEffect
<1>2. UNCHANGED <<calls, nfiles, final_stats>>
  BY DEF CloseBegin, MarkWroteLibrary, JoinCompressors, QueueWakeup, vars, clientVars, fileVars,
         statsVars
<1>3. OwnerStays
  <2>1. CASE CloseBegin \/ MarkWroteLibrary \/ JoinCompressors
    <3>1. \E x : x # "closed" /\ pc[Owner] # "closed" /\ pc' = [pc EXCEPT ![Owner] = x]
      BY <2>1 DEF CloseBegin, MarkWroteLibrary, JoinCompressors
    <3> QED
      BY <1>2, <3>1, OwnerMoves, AcrossTypes DEF Step
  <2>2. CASE UNCHANGED vars
    BY <1>2, <2>2 DEF vars, clientVars, OwnerStays
  <2>3. ASSUME NEW c \in Clients, QueueWakeup(c) PROVE OwnerStays
    <3>1. \E x : x # "closed" /\ pc[c] # "closed" /\ pc' = [pc EXCEPT ![c] = x]
      BY <2>3 DEF QueueWakeup, Return
    <3> QED
      BY <1>2, <3>1, OwnerMoves
  <2> QED
    BY <2>1, <2>2, <2>3
<1>4. \A w \in Writers : calls'[w] >= calls[w]
  BY <1>2, CallCounts
<1> QED
  BY <1>1, <1>3, <1>4, KeepsCount

LEMMA CallKeepsCount ==
  ASSUME Step, Next, \A w \in Writers : ~RemoveStatsUpdate(w), NEW u \in Writers,
         \/ FlushPending(u) \/ FlushWakeup(u) \/ SetExtentWriteCallback(u)
         \/ \E n \in MaxBytesChoices : SetMaxBytesInProgress(u, n)
  PROVE  (\A w \in Writers : WriterCount(w)') /\ SinkCount'
<1>1. Keeps
  BY KeepsEffect
<1>2. UNCHANGED <<nfiles, final_stats>> /\ (Call(u) \/ calls' = calls)
  BY DEF FlushPending, FlushWakeup, FlushTest, SetExtentWriteCallback, SetMaxBytesInProgress,
         fileVars, statsVars
<1>3. OwnerStays
  <2>1. CASE FlushPending(u) \/ FlushWakeup(u)
    <3>1. \E x : x # "closed" /\ pc[u] # "closed" /\ pc' = [pc EXCEPT ![u] = x]
      BY <2>1 DEF FlushPending, FlushWakeup, FlushTest, Call
    <3> QED
      BY <1>2, <3>1, OwnerMoves, CountTypes
  <2>2. ASSUME pc' = pc \/ pc' = QueueBroadcast PROVE OwnerStays
    BY <1>2, <2>2, OwnerUnmoved DEF OwnerStays
  <2> QED
    BY <2>1, <2>2 DEF SetExtentWriteCallback, SetMaxBytesInProgress
<1>4. \A w \in Writers : calls'[w] >= calls[w]
  BY <1>2, CallCounts
<1> QED
  BY <1>1, <1>3, <1>4, KeepsCount

LEMMA CountStep ==
  ASSUME Step, Next
  PROVE  CountInv'
<1> DEFINE Counts == (\A w \in Writers : WriterCount(w)') /\ SinkCount'
<1>1. ASSUME NEW u \in Writers, RemoveStatsUpdate(u) PROVE Counts
  BY <1>1, RemoveCount
<1>2. ASSUME \A w \in Writers : ~RemoveStatsUpdate(w) PROVE Counts
  <2> USE <1>2
  <2>1. CASE CloseBegin \/ MarkWroteLibrary \/ JoinCompressors \/ UNCHANGED vars
             \/ \E c \in Clients : QueueWakeup(c)
    BY <2>1, OwnerKeepsCount
  <2>2. ASSUME NEW u \in Writers,
               \/ FlushPending(u) \/ FlushWakeup(u) \/ SetExtentWriteCallback(u)
               \/ \E n \in MaxBytesChoices : SetMaxBytesInProgress(u, n)
        PROVE  Counts
    BY <2>2, CallKeepsCount
  <2>3. CASE Open \/ QueueLibrary \/ JoinWriter \/ CloseIndex \/ PackIndex \/ Seal
    BY <2>3, OpenCount, QueueLibraryCount, JoinWriterCount, CloseIndexCount, PackIndexCount,
       SealCount
  <2>4. ASSUME NEW u \in Writers, WriteExtent(u) PROVE Counts
    BY <2>4, WriteExtentCount
  <2>5. ASSUME NEW t \in Compressors, CompressorRun(t) \/ Pack(t) \/ CompressorDone(t) PROVE Counts
    BY <2>5, CompressorRunCount, CompressorDoneCount
  <2>6. ASSUME NEW a \in Writing, WriteOut(a) PROVE Counts
    BY <2>6, WriteOutCount
  <2>7. CASE WriterRun \/ WriterDone
    BY <2>7, WriterCounts
  <2> HIDE DEF Counts
  <2> QED
    BY <2>1, <2>2, <2>3, <2>4, <2>5, <2>6, <2>7, NextCases
<1>3. Counts
  BY <1>1, <1>2
<1>4. CountInv' <=> (\A w \in Writers : WriterCount(w)') /\ SinkCount'
  BY DEF CountInv, WriterCount, SinkCount, Uses, Filed
<1> QED
  BY <1>3, <1>4

----------------------------------------------------------------------------
\* The invariant of the sink

LEMMA SafeInit == Compressors # {} /\ Init => SafeInv
<1> SUFFICES ASSUME Compressors # {}, Init PROVE SafeInv
  OBVIOUS
<1>1. Now
  BY TypeInit, PhaseInit, QueueInvInit DEF Now, Init
<1>2. /\ pending_work = << >> /\ bytes_in_progress = 0
      /\ out["writer"] = NoBatch /\ out["closer"] = NoBatch
  BY DEF Init, Writing
<1>3. BytesInv
  <2>1. Held("writer") = 0 /\ Held("closer") = 0 /\ Weight(Bytes, pending_work) = 0
    BY <1>2, NothingHeld, WeightEmpty
  <2> QED
    BY <1>2, <2>1 DEF BytesInv
<1>4. CountInv
  <2>1. ASSUME NEW w \in Writers PROVE WriterCount(w)
    <3>1. use_count[w] = 0 /\ counted[w] = 0 /\ calls[w] = 0
      BY DEF Init
    <3>2. Uses(w) = 0
      BY <1>2, WeightEmpty DEF Uses
    <3> QED
      BY <3>1, <3>2 DEF WriterCount
  <2>2. SinkCount
    BY SinkAssumption DEF Init, SinkCount, Clients
  <2> QED
    BY <2>1, <2>2, CountParts
<1> QED
  BY <1>1, <1>3, <1>4 DEF SafeInv

LEMMA StepHolds ==
  ASSUME SafeInv, Next
  PROVE  Step
<1>1. ~aborted'
  BY NeverAborts
<1>2. TypeInv'
  BY TypeStep DEF SafeInv, Now
<1>3. QueueInv'
  BY <1>1, <1>2, WorkStep DEF SafeInv, Now, WorkInv
<1>4. Across
  BY <1>1, <1>2, <1>3 DEF SafeInv, Across
<1>5. PhaseInv'
  BY <1>4, PhaseStep
<1> QED
  BY <1>4, <1>5 DEF Step

LEMMA SafeStep == SafeInv /\ [Next]_vars => SafeInv'
<1>1. ASSUME SafeInv, Next PROVE SafeInv'
  <2>1. Step
    BY <1>1, StepHolds
  <2>2. BytesInv' /\ CountInv'
    BY <1>1, <2>1, BytesStep, CountStep
  <2> QED
    BY <2>1, <2>2 DEF Step, Across, SafeInv, Now
<1>2. ASSUME SafeInv, UNCHANGED vars PROVE SafeInv'
  <2>1. TypeInv' /\ ~aborted'
    BY <1>2, TypeStep DEF SafeInv, Now, vars
  <2>2. QueueInv'
    BY <1>2, <2>1, WorkStep DEF SafeInv, Now, WorkInv
  <2>3. PhaseInv'
    BY <1>2 DEF SafeInv, Now, PhaseInv, OwnerPhase, ThreadPhase, BatchPhase, QueuePhase, ItemPhase,
       Positions, Item, readyToWrite, Unclaimed, vars, clientVars, queueVars, threadVars, fileVars
  <2>4. BytesInv'
    BY <1>2, SameBytes DEF vars, queueVars, SafeInv
  <2>5. CountInv'
    BY <1>2 DEF SafeInv, CountInv, vars, clientVars, queueVars, fileVars, statsVars
  <2> QED
    BY <2>1, <2>2, <2>3, <2>4, <2>5 DEF SafeInv, Now
<1> QED
  BY <1>1, <1>2

LEMMA SafeAlways == ASSUME Compressors # {} PROVE Spec => []SafeInv
<1>1. Init => SafeInv
  BY SafeInit
<1>2. SafeInv /\ [Next]_vars => SafeInv'
  BY SafeStep
<1> QED
  BY <1>1, <1>2, PTL DEF Spec

\* As far as bytes_in_progress goes the code's assertions cannot fail, and it
\* is exactly the memory the pipeline holds: what queueWriteExtent adds, a
\* compressor doubles and takes back, and writeOutPending subtracts only after
\* it has written without the mutex, adds up at every moment.
THEOREM AccountingIsExact == ASSUME Compressors # {} PROVE Spec => []BytesAccounting
<1>1. SafeInv => BytesAccounting
  BY BytesIsAccounting DEF SafeInv, Now
<1> QED
  BY <1>1, SafeAlways, PTL

\* What a compressor packs without the mutex stays on the queue, claimed by it
\* alone (the comment at DataSeriesSink.cpp:499), until it takes the mutex again
\* in lockedProcessToCompress; no assertion has to be assumed to hold for it.
THEOREM WorkIsAlwaysQueued == ASSUME Compressors # {} PROVE Spec => []WorkStaysQueued
<1>1. SafeInv => WorkStaysQueued
  BY DEF SafeInv, Now, QueueInv
<1> QED
  BY <1>1, SafeAlways, PTL

\* use_count of each Stats is the number of extents on the queue that will
\* update it, through queueWriteExtent, lockedProcessToCompress and
\* removeStatsUpdate, so a removed Stats is never written to; and what close()
\* adds to its argument has counted each extent of the file once.
THEOREM StatsAreExact == ASSUME Compressors # {} PROVE Spec => []StatsExact
<1>1. SafeInv => StatsExact
  <2> SUFFICES ASSUME SafeInv PROVE StatsExact
    OBVIOUS
  <2>1. \A w \in Writers : Cardinality(Referring(w)) = Weight(Updates(w), pending_work)
    BY SafeTypes, ReferringIsWeight
  <2>2. ASSUME NEW w \in Writers, pc[w] = "removed" PROVE Referring(w) = {}
    <3>1. Weight(Updates(w), pending_work) = 0
      BY <2>2 DEF SafeInv, CountInv
    <3>2. Referring(w) \in SUBSET (1..Len(pending_work)) /\ Len(pending_work) \in Nat
      BY SafeTypes DEF Referring, Positions
    <3>3. IsFiniteSet(Referring(w))
      <4>1. IsFiniteSet(1..Len(pending_work))
        BY <3>2, FS_Interval
      <4> QED
        BY <3>2, <4>1, FS_Subset
    <3> QED
      BY <2>1, <3>1, <3>3, FS_EmptySet
  <2> QED
    BY <2>1, <2>2 DEF SafeInv, CountInv, StatsExact
<1> QED
  BY <1>1, SafeAlways, PTL

----------------------------------------------------------------------------
\* No wake-up is lost

WriterAwake == writer = "waiting" => ~frontReadyToWrite(pending_work)

CompressorsAwake ==
  (\E i \in Positions : Unclaimed(pending_work[i])) /\ ncompressors > 0 =>
    \E t \in Compressors : compressor[t] \notin {"waiting", "exited"}

QueuersAwake ==
  \A c \in Clients : pc[c] = "queue_wait" =>
    \/ ~canQueueWork(pending_work, bytes_in_progress)
    \/ writer = "writing"

FlushersAwake ==
  /\ keep_going /\ nfiles = 1 /\ (\E c \in Clients : pc[c] = "flush_wait") =>
       bytes_in_progress > 0
  /\ nfiles = 0 => \A c \in Clients : pc[c] # "flush_wait"

WakeInv == WriterAwake /\ CompressorsAwake /\ QueuersAwake /\ FlushersAwake

\* A step from and to states in which all that was proved above holds.
Sound == Step /\ SafeInv'

LEMMA SoundTypes ==
  ASSUME Sound
  PROVE  /\ pending_work \in Seq(ToCompress) /\ pending_work' \in Seq(ToCompress)
         /\ bytes_in_progress \in Nat /\ bytes_in_progress' \in Nat
         /\ max_bytes_in_progress \in Nat /\ ncompressors \in Nat
         /\ compressor \in [Compressors -> CompressorPlaces]
         /\ pc \in [Clients -> ClientPlaces] /\ Owner \in Clients
         /\ writer \in WriterPlaces /\ Compressors # {}
         /\ OwnerPhase /\ ThreadPhase /\ OwnerPhase' /\ ThreadPhase'
         /\ RawSize \in [Extents -> Nat \ {0}]
<1>1. /\ pending_work \in Seq(ToCompress) /\ pending_work' \in Seq(ToCompress)
      /\ bytes_in_progress \in Nat /\ bytes_in_progress' \in Nat
      /\ compressor \in [Compressors -> CompressorPlaces]
      /\ pc \in [Clients -> ClientPlaces] /\ Owner \in Clients
  BY AcrossTypes DEF Sound, Step
<1>2. max_bytes_in_progress \in Nat /\ ncompressors \in Nat /\ writer \in WriterPlaces
  BY DEF Sound, Step, SafeInv, Now, TypeInv, TypeOK, QueueTypes, ThreadTypes
<1>3. OwnerPhase /\ ThreadPhase /\ OwnerPhase' /\ ThreadPhase'
  BY DEF Sound, Step, SafeInv, Now, PhaseInv
<1> QED
  BY <1>1, <1>2, <1>3, SinkAssumption DEF ThreadPhase

\* A compressor's round on a queue p makes nothing ready and the queue no shorter.
LEMMA ClaimKeepsFront ==
  ASSUME NEW t \in Compressors, NEW p \in Seq(ToCompress), NEW b \in Int, NEW ok,
         CompressorLoop(t, p, b, ok), compressor \in [Compressors -> CompressorPlaces]
  PROVE  /\ frontReadyToWrite(pending_work') => frontReadyToWrite(p)
         /\ Len(pending_work') = Len(p) /\ bytes_in_progress' >= b /\ bytes_in_progress' \in Int
         /\ \/ \A i \in 1..Len(pending_work') : ~Unclaimed(pending_work'[i])
            \/ compressor'[t] = "packing"
<1>1. CASE FoundNothing(t, p, b)
  BY <1>1 DEF FoundNothing
<1>2. ASSUME NEW i \in 1..Len(p), NEW x, Claimed(t, p, b, i, x)
      PROVE  /\ frontReadyToWrite(pending_work') => frontReadyToWrite(p)
             /\ Len(pending_work') = Len(p) /\ bytes_in_progress' >= b
             /\ bytes_in_progress' \in Int
             /\ compressor'[t] = "packing"
  <2>1. p[i] \in ToCompress
    OBVIOUS
  <2>2. x \in ToCompress /\ x.in_progress = TRUE /\ RawSize[p[i].extent] \in Nat
    BY <1>2, <2>1, ClaimedItem, ItemFields DEF Claimed
  <2>3. /\ pending_work' = [p EXCEPT ![i] = x]
        /\ bytes_in_progress' = b + RawSize[p[i].extent]
        /\ compressor' = [compressor EXCEPT ![t] = "packing"]
    BY <1>2 DEF Claimed
  <2>4. Len(pending_work') = Len(p) /\ \A j \in 1..Len(p) : pending_work'[j] = IF j = i THEN x ELSE p[j]
    BY <2>2, <2>3, SeqExcept
  <2>5. p # << >> /\ 1 \in 1..Len(p)
    OBVIOUS
  <2>6. frontReadyToWrite(pending_work') => frontReadyToWrite(p)
    BY <2>2, <2>4, <2>5 DEF frontReadyToWrite, readyToWrite
  <2>7. bytes_in_progress' >= b /\ bytes_in_progress' \in Int
    BY <2>2, <2>3
  <2> QED
    BY <2>3, <2>4, <2>6, <2>7
<1> QED
  BY <1>1, <1>2, ClaimEffect

LEMMA AppendKeepsFront ==
  ASSUME Sound, NEW e, NEW s, Appends(e, s)
  PROVE  /\ frontReadyToWrite(pending_work') => frontReadyToWrite(pending_work)
         /\ Len(pending_work') = Len(pending_work) + 1
         /\ bytes_in_progress' >= bytes_in_progress
<1> DEFINE x == NewWork(e, s)
<1>1. x \in ToCompress /\ x.compressed = 0 /\ RawSize[e] \in Nat
  BY NewWorkType, SoundTypes DEF Appends, NewWork
<1>2. pending_work' = Append(pending_work, x) /\ pending_work \in Seq(ToCompress)
      /\ bytes_in_progress' = bytes_in_progress + RawSize[e] /\ bytes_in_progress \in Nat
  BY SoundTypes DEF Appends
<1> HIDE DEF x
<1>3. Len(pending_work') = Len(pending_work) + 1 /\ Len(pending_work) \in Nat
      /\ pending_work'[1] = IF Len(pending_work) = 0 THEN x ELSE pending_work[1]
  BY <1>1, <1>2
<1>4. CASE Len(pending_work) = 0
  <2>1. ~readyToWrite(pending_work'[1])
    BY <1>1, <1>3, <1>4 DEF readyToWrite
  <2> QED
    BY <1>1, <1>2, <1>3, <2>1 DEF frontReadyToWrite
<1>5. CASE Len(pending_work) # 0
  <2>1. pending_work # << >> /\ pending_work'[1] = pending_work[1]
    BY <1>2, <1>3, <1>5
  <2> QED
    BY <1>1, <1>2, <1>3, <2>1 DEF frontReadyToWrite
<1> QED
  BY <1>4, <1>5

LEMMA RemoveKeepsFront ==
  ASSUME Sound, NEW w \in Writers, RemoveStatsUpdate(w)
  PROVE  /\ frontReadyToWrite(pending_work') => frontReadyToWrite(pending_work)
         /\ Len(pending_work') = Len(pending_work)
         /\ \A i \in 1..Len(pending_work) : Unclaimed(pending_work'[i]) <=> Unclaimed(pending_work[i])
<1>1. /\ Len(pending_work') = Len(pending_work)
      /\ \A i \in 1..Len(pending_work) :
           /\ pending_work'[i].in_progress = pending_work[i].in_progress
           /\ pending_work'[i].compressed = pending_work[i].compressed
  BY RemoveItems DEF Sound, Step
<1>2. \A i \in 1..Len(pending_work) : Unclaimed(pending_work'[i]) <=> Unclaimed(pending_work[i])
  BY <1>1 DEF Unclaimed
<1>3. \A i \in 1..Len(pending_work) : readyToWrite(pending_work'[i]) => readyToWrite(pending_work[i])
  BY <1>1 DEF readyToWrite
<1>4. ASSUME pending_work' # << >> PROVE pending_work # << >> /\ 1 \in 1..Len(pending_work)
  BY <1>1, <1>4, SoundTypes
<1> QED
  BY <1>1, <1>2, <1>3, <1>4 DEF frontReadyToWrite

LEMMA PackKeepsFront ==
  ASSUME Sound, NEW t \in Compressors, Pack(t)
  PROVE  /\ frontReadyToWrite(pending_work') => frontReadyToWrite(pending_work)
         /\ Len(pending_work') = Len(pending_work)
<1>0. pending_work \in Seq(ToCompress)
  BY SoundTypes
<1>1a. PICK i \in 1..Len(pending_work) : \E x :
        /\ pending_work[i].extent = work[t]
        /\ IsItem(x, pending_work[i].extent, pending_work[i].to_update,
                  pending_work[i].in_progress, PackedSize[work[t]])
        /\ pending_work' = [pending_work EXCEPT ![i] = x]
  BY <1>0, PackEffect
<1>1. PICK x :
        /\ pending_work[i].extent = work[t]
        /\ IsItem(x, pending_work[i].extent, pending_work[i].to_update,
                  pending_work[i].in_progress, PackedSize[work[t]])
        /\ pending_work' = [pending_work EXCEPT ![i] = x]
  BY <1>1a
<1>2. pending_work[i].in_progress
  BY <1>1, OwnWork DEF Sound, Step, Across, Pack, Packing
<1>3. x.in_progress = pending_work[i].in_progress
  BY <1>1 DEF IsItem
<1>4. /\ Len(pending_work') = Len(pending_work)
      /\ \A j \in 1..Len(pending_work) : pending_work'[j] = IF j = i THEN x ELSE pending_work[j]
  BY <1>0, <1>1
<1>5. pending_work # << >> /\ 1 \in 1..Len(pending_work)
  BY <1>0
<1> QED
  BY <1>2, <1>3, <1>4, <1>5 DEF frontReadyToWrite, readyToWrite

LEMMA RunFront ==
  ASSUME Sound, NEW t \in Compressors, CompressorRun(t)
  PROVE  /\ frontReadyToWrite(pending_work') => frontReadyToWrite(pending_work)
         /\ Len(pending_work') = Len(pending_work)
         /\ bytes_in_progress' >= bytes_in_progress
         /\ \/ \A i \in 1..Len(pending_work') : ~Unclaimed(pending_work'[i])
            \/ compressor'[t] = "packing"
<1>1. CompressorLoop(t, pending_work, bytes_in_progress, TRUE)
  BY DEF CompressorRun
<1>2. bytes_in_progress \in Int
  BY SoundTypes
<1> QED
  BY <1>1, <1>2, SoundTypes, ClaimKeepsFront

LEMMA DoneFront ==
  ASSUME Sound, NEW t \in Compressors, CompressorDone(t)
  PROVE  \E p \in Seq(ToCompress), b \in Int :
           /\ frontReadyToWrite(pending_work') => frontReadyToWrite(p)
           /\ Len(pending_work') = Len(p) /\ bytes_in_progress' >= b
           /\ \/ \A i \in 1..Len(pending_work') : ~Unclaimed(pending_work'[i])
              \/ compressor'[t] = "packing"
           /\ pc' = Notified(p, b) /\ Len(p) > 0
           /\ writer' = IF frontReadyToWrite(p) THEN WriterSignalled ELSE writer
           /\ UNCHANGED <<ncompressors, max_bytes_in_progress, nfiles, keep_going>>
<1>1a. PICK i \in 1..Len(pending_work) : \E x : DoneEffects(t, i, x)
  BY DoneEffect DEF Sound, Step, SafeInv
<1>1. PICK x : DoneEffects(t, i, x)
  BY <1>1a
<1> DEFINE p == Completed(i)
           b == CompletedBytes(i)
<1>2. /\ p \in Seq(ToCompress) /\ pc' = Notified(p, b)
      /\ writer' = IF frontReadyToWrite(p) THEN WriterSignalled ELSE writer
      /\ \E ok : CompressorLoop(t, p, b, ok)
      /\ p = [pending_work EXCEPT ![i] = x] /\ x \in ToCompress
  BY <1>1 DEF DoneEffects
<1>3. b \in Int
  BY CompletedType DEF Sound, Step, SafeInv, Now
<1>4. Len(p) > 0
  BY <1>2, SoundTypes
<1>5. UNCHANGED <<ncompressors, max_bytes_in_progress, nfiles, keep_going>>
  BY DEF CompressorDone, fileVars
<1> HIDE DEF p, b
<1> QED
  BY <1>2, <1>3, <1>4, <1>5, SoundTypes, ClaimKeepsFront

LEMMA SameWriterAwake ==
  ASSUME WriterAwake, writer' = writer \/ writer' # "waiting",
         frontReadyToWrite(pending_work') => frontReadyToWrite(pending_work)
  PROVE  WriterAwake'
  BY DEF WriterAwake, frontReadyToWrite, readyToWrite

LEMMA WriterAwakeStep ==
  ASSUME Sound, WriterAwake, Next
  PROVE  WriterAwake'
<1>1. CASE UNCHANGED <<pending_work, writer>>
  BY <1>1 DEF WriterAwake, frontReadyToWrite, readyToWrite
<1>2. CASE CloseBegin \/ MarkWroteLibrary \/ JoinCompressors \/ UNCHANGED vars
  <2>1. UNCHANGED pending_work /\ (writer' = writer \/ writer' # "waiting")
    BY <1>2 DEF CloseBegin, MarkWroteLibrary, JoinCompressors, vars, queueVars, threadVars,
       WriterSignalled
  <2>2. frontReadyToWrite(pending_work') => frontReadyToWrite(pending_work)
    BY <2>1
  <2> QED
    BY <2>1, <2>2, SameWriterAwake
<1>3. ASSUME NEW c \in Clients, QueueWakeup(c) PROVE WriterAwake'
  BY <1>1, <1>3 DEF QueueWakeup, queueVars, threadVars
<1>4. ASSUME NEW w \in Writers, FlushPending(w) \/ FlushWakeup(w) \/ SetExtentWriteCallback(w)
      PROVE  WriterAwake'
  BY <1>1, <1>4 DEF FlushPending, FlushWakeup, FlushTest, SetExtentWriteCallback, queueVars,
     threadVars
<1>5. ASSUME NEW w \in Writers, NEW n \in MaxBytesChoices, SetMaxBytesInProgress(w, n)
      PROVE  WriterAwake'
  BY <1>1, <1>5 DEF SetMaxBytesInProgress, queueVars
<1>6. CASE Open
  BY <1>6, SoundTypes DEF Open, WriterAwake
<1>7. ASSUME NEW e, NEW s, Appends(e, s) PROVE WriterAwake'
  BY <1>7, AppendKeepsFront, SameWriterAwake DEF Appends
<1>8. CASE QueueLibrary
  BY <1>7, <1>8, QueueLibraryEffect DEF Sound, Step, SafeInv, Now
<1>9. ASSUME NEW w \in Writers, WriteExtent(w) PROVE WriterAwake'
  BY <1>7, <1>9, WriteExtentEffect DEF Sound, Step, SafeInv, Now
<1>10. ASSUME NEW w \in Writers, RemoveStatsUpdate(w) PROVE WriterAwake'
  BY <1>10, RemoveKeepsFront, SameWriterAwake DEF RemoveStatsUpdate, threadVars
<1>11. ASSUME NEW t \in Compressors, CompressorRun(t) PROVE WriterAwake'
  BY <1>11, RunFront, SameWriterAwake DEF CompressorRun
<1>12. ASSUME NEW t \in Compressors, Pack(t) PROVE WriterAwake'
  BY <1>12, PackKeepsFront, SameWriterAwake DEF Pack
<1>13. ASSUME NEW t \in Compressors, CompressorDone(t) PROVE WriterAwake'
  <2>1. PICK p \in Seq(ToCompress), b \in Int :
          /\ frontReadyToWrite(pending_work') => frontReadyToWrite(p)
          /\ writer' = IF frontReadyToWrite(p) THEN WriterSignalled ELSE writer
    BY <1>13, DoneFront
  <2>2. frontReadyToWrite(p) => writer' # "waiting"
    BY <2>1 DEF WriterSignalled
  <2> QED
    BY <2>1, <2>2 DEF WriterAwake
<1>14. ASSUME NEW a \in Writing, WriteOut(a) PROVE WriterAwake'
  BY <1>1, <1>14 DEF WriteOut, queueVars, threadVars
<1>15. CASE WriterRun \/ WriterDone
  BY <1>15 DEF WriterRun, WriterDone, WriterLoop, WriterAwake, frontReadyToWrite
<1>16. CASE JoinWriter \/ CloseIndex \/ PackIndex \/ Seal
  <2>1. writer' # "waiting"
    BY <1>16, SoundTypes DEF JoinWriter, CloseIndex, PackIndex, Seal, threadVars, ThreadPhase,
       WithoutWriter
  <2> QED
    BY <2>1 DEF WriterAwake
<1> QED
  BY <1>2, <1>3, <1>4, <1>5, <1>6, <1>8, <1>9, <1>10, <1>11, <1>12, <1>13, <1>14, <1>15, <1>16,
     NextCases

----------------------------------------------------------------------------

SomeUnclaimed(p) == \E i \in 1..Len(p) : Unclaimed(p[i])
SomeAwake(place) == \E t \in Compressors : place[t] \notin {"waiting", "exited"}

LEMMA CompressorsAwakeIs ==
  CompressorsAwake <=> (SomeUnclaimed(pending_work) /\ ncompressors > 0 => SomeAwake(compressor))
  BY DEF CompressorsAwake, SomeUnclaimed, SomeAwake, Positions

LEMMA SignalsAwake ==
  ASSUME Sound, SignalWork, keep_going, \A t \in Compressors : compressor[t] # "exited"
  PROVE  SomeAwake(compressor')
<1>1. ASSUME NEW t \in Compressors, compressor' = [compressor EXCEPT ![t] = "running"]
      PROVE  SomeAwake(compressor')
  <2>1. compressor'[t] = "running"
    BY <1>1, SoundTypes
  <2> QED
    BY <2>1 DEF SomeAwake
<1>2. CASE (\A t \in Compressors : compressor[t] # "waiting") /\ compressor' = compressor
  <2>1. PICK t \in Compressors : TRUE
    BY SoundTypes
  <2> QED
    BY <1>2, <2>1 DEF SomeAwake
<1> QED
  BY <1>1, <1>2 DEF SignalWork

LEMMA BroadcastAwake ==
  ASSUME Sound, SomeAwake(compressor), compressor' = WorkBroadcast \/ compressor' = compressor
  PROVE  SomeAwake(compressor')
<1>1. PICK t \in Compressors : compressor[t] \notin {"waiting", "exited"}
  BY DEF SomeAwake
<1>2. compressor'[t] = compressor[t]
  BY <1>1 DEF WorkBroadcast
<1> QED
  BY <1>1, <1>2 DEF SomeAwake

LEMMA SameCompressorsAwake ==
  ASSUME Sound, CompressorsAwake, compressor' = WorkBroadcast \/ compressor' = compressor,
         SomeUnclaimed(pending_work') => SomeUnclaimed(pending_work), UNCHANGED ncompressors
  PROVE  CompressorsAwake'
<1>1. SomeUnclaimed(pending_work') /\ ncompressors' > 0 => SomeAwake(compressor')
  BY BroadcastAwake, CompressorsAwakeIs
<1> QED
  BY <1>1 DEF CompressorsAwake, SomeUnclaimed, SomeAwake, Positions

LEMMA AwakeBy ==
  ASSUME NEW t \in Compressors,
         \/ \A i \in 1..Len(pending_work') : ~Unclaimed(pending_work'[i])
         \/ compressor'[t] = "packing" \/ compressor'[t] = "packed"
  PROVE  CompressorsAwake'
  BY DEF CompressorsAwake, Positions, Unclaimed

LEMMA CompressorsAwakeStep ==
  ASSUME Sound, CompressorsAwake, Next
  PROVE  CompressorsAwake'
<1>1. ASSUME UNCHANGED <<pending_work, ncompressors>>,
             compressor' = WorkBroadcast \/ compressor' = compressor
      PROVE  CompressorsAwake'
  BY <1>1, SameCompressorsAwake
<1>2. CASE CloseBegin \/ MarkWroteLibrary \/ UNCHANGED vars
  BY <1>1, <1>2 DEF CloseBegin, MarkWroteLibrary, vars, queueVars, threadVars
<1>17. ASSUME ncompressors' = 0 PROVE CompressorsAwake'
  BY <1>17 DEF CompressorsAwake
<1>18. CASE JoinCompressors
  BY <1>17, <1>18 DEF JoinCompressors
<1>3. ASSUME NEW c \in Clients, QueueWakeup(c) PROVE CompressorsAwake'
  BY <1>1, <1>3 DEF QueueWakeup, queueVars, threadVars
<1>4. ASSUME NEW w \in Writers, FlushPending(w) \/ FlushWakeup(w) \/ SetExtentWriteCallback(w)
      PROVE  CompressorsAwake'
  BY <1>1, <1>4 DEF FlushPending, FlushWakeup, FlushTest, SetExtentWriteCallback, queueVars,
     threadVars
<1>5. ASSUME NEW w \in Writers, NEW n \in MaxBytesChoices, SetMaxBytesInProgress(w, n)
      PROVE  CompressorsAwake'
  BY <1>1, <1>5 DEF SetMaxBytesInProgress, queueVars
<1>6. CASE Open
  <2>1. pending_work' = << >>
    BY <1>6 DEF Open, queueVars, Sound, Step, SafeInv, Now, QueueInv, EmptyBetweenFiles
  <2> QED
    BY <2>1 DEF CompressorsAwake, Positions
<1>7. ASSUME NEW c, NEW e, NEW s, queueWriteExtent(c, e, s), pc[Owner] \in Accepting
      PROVE  CompressorsAwake'
  <2>1. keep_going /\ \A t \in Compressors : compressor[t] # "exited"
    BY <1>7, SoundTypes DEF OwnerPhase, ThreadPhase
  <2>2. ncompressors' = ncompressors /\ ncompressors \in Nat
    BY <1>7, SoundTypes DEF queueWriteExtent
  <2>3. ncompressors > 0 => SignalWork
    BY <1>7, <2>2 DEF queueWriteExtent
  <2>4. ncompressors > 0 => SomeAwake(compressor')
    BY <2>1, <2>3, SignalsAwake
  <2> QED
    BY <2>2, <2>4 DEF CompressorsAwake, SomeAwake
<1>8. CASE QueueLibrary
  BY <1>7, <1>8 DEF QueueLibrary, Accepting, Opening
<1>9. ASSUME NEW w \in Writers, WriteExtent(w) PROVE CompressorsAwake'
  BY <1>7, <1>9 DEF WriteExtent, Accepting
<1>10. ASSUME NEW w \in Writers, RemoveStatsUpdate(w) PROVE CompressorsAwake'
  <2>1. SomeUnclaimed(pending_work') => SomeUnclaimed(pending_work)
    BY <1>10, RemoveKeepsFront DEF SomeUnclaimed
  <2> QED
    BY <1>10, <2>1, SameCompressorsAwake DEF RemoveStatsUpdate, threadVars
<1>11. ASSUME NEW t \in Compressors, CompressorRun(t) PROVE CompressorsAwake'
  BY <1>11, RunFront, AwakeBy
<1>12. ASSUME NEW t \in Compressors, Pack(t) PROVE CompressorsAwake'
  <2>1. compressor'[t] = "packed"
    BY <1>12, SoundTypes DEF Pack
  <2> QED
    BY <2>1, AwakeBy
<1>13. ASSUME NEW t \in Compressors, CompressorDone(t) PROVE CompressorsAwake'
  BY <1>13, DoneFront, AwakeBy
<1>14. ASSUME NEW a \in Writing, WriteOut(a) PROVE CompressorsAwake'
  BY <1>1, <1>14 DEF WriteOut, queueVars, threadVars
<1>15. CASE WriterRun \/ WriterDone
  <2>1. WriterLoop /\ UNCHANGED <<ncompressors, compressor>>
    BY <1>15 DEF WriterRun, WriterDone
  <2>2. SomeUnclaimed(pending_work') => SomeUnclaimed(pending_work)
    <3>1. ASSUME NEW n \in 0..Len(pending_work), Takes("writer", pending_work, n)
          PROVE  SomeUnclaimed(pending_work') => SomeUnclaimed(pending_work)
      <4>1. /\ pending_work' = SubSeq(pending_work, n + 1, Len(pending_work))
            /\ Len(pending_work') = Len(pending_work) - n
            /\ \A i \in 1..(Len(pending_work) - n) :
                 pending_work'[i] = pending_work[n + i] /\ n + i \in 1..Len(pending_work)
        BY <3>1, Parts, SoundTypes DEF Takes
      <4> QED
        BY <4>1 DEF SomeUnclaimed
    <3> QED
      BY <2>1, <3>1, WriterLoopCases
  <2> QED
    BY <2>1, <2>2, SameCompressorsAwake
<1>16. CASE JoinWriter \/ CloseIndex \/ PackIndex \/ Seal
  <2>1. ncompressors' = 0
    BY <1>16, SoundTypes DEF JoinWriter, CloseIndex, PackIndex, Seal, threadVars, ThreadPhase,
       Compressing, Accepting, Opening
  <2> QED
    BY <1>17, <2>1
<1> QED
  BY <1>2, <1>3, <1>4, <1>5, <1>6, <1>8, <1>9, <1>10, <1>11, <1>12, <1>13, <1>14, <1>15, <1>16,
     <1>18, NextCases

Busy == SafeInv => (pending_work # << >> => bytes_in_progress > 0)

LEMMA QueueCounts == Busy
<1> SUFFICES ASSUME SafeInv, pending_work # << >> PROVE bytes_in_progress > 0
  BY DEF Busy
<1>1. pending_work \in Seq(ToCompress) /\ 1 \in 1..Len(pending_work)
  BY SafeTypes
<1>2. pending_work[1] \in ToCompress
  BY <1>1
<1>3. Bytes[pending_work[1]] \in Nat /\ Bytes[pending_work[1]] > 0
  BY <1>2, ItemWeights, ItemFields
<1>4. Bytes[pending_work[1]] <= Weight(Bytes, pending_work)
  BY <1>1, QueueWeight, Weights3
<1> DEFINE w == Weight(Bytes, pending_work)
           x == Bytes[pending_work[1]]
<1>5. w \in Nat /\ Held("writer") \in Nat /\ Held("closer") \in Nat
      /\ bytes_in_progress = w + Held("writer") + Held("closer") /\ x \in Nat /\ x > 0 /\ x <= w
  BY <1>3, <1>4, SafeTypes
<1> HIDE DEF w, x
<1> QED
  BY <1>5

LEMMA QueueCountsNext ==
  ASSUME Sound, pending_work' # << >>
  PROVE  bytes_in_progress' > 0
<1>1. Busy'
  BY QueueCounts, PTL
<1> QED
  BY <1>1 DEF Busy, Sound

Full(b, m, k, n) == ~(b < m /\ k < 2 * n)

LEMMA Fuller ==
  ASSUME NEW b \in Nat, NEW d \in Int, NEW k \in Nat, NEW l \in Nat, NEW m \in Nat, NEW r \in Nat,
         NEW n \in Nat, Full(b, m, k, n), d >= b, l >= k, r <= m
  PROVE  Full(d, r, l, n)
  BY DEF Full

LEMMA FullIs ==
  /\ \A p, b : ~canQueueWork(p, b) <=> Full(b, max_bytes_in_progress, Len(p), ncompressors)
  /\ ~canQueueWork(pending_work, bytes_in_progress)'
       <=> Full(bytes_in_progress', max_bytes_in_progress', Len(pending_work'), ncompressors')
  BY DEF canQueueWork, Full

\* Nobody waits for space once close() has begun.
LEMMA NoQueuers ==
  ASSUME Sound, pc'[Owner] \notin Accepting
  PROVE  \A c \in Clients : pc'[c] # "queue_wait"
  BY SoundTypes DEF OwnerPhase, Accepting, Opening, Clients

LEMMA SameQueuersAwake ==
  ASSUME Sound, QueuersAwake, UNCHANGED ncompressors, writer = "writing" => writer' = "writing",
         max_bytes_in_progress' \in Nat, max_bytes_in_progress' <= max_bytes_in_progress,
         Len(pending_work') >= Len(pending_work), bytes_in_progress' >= bytes_in_progress,
         NEW c \in Clients, pc'[c] = "queue_wait", pc[c] = "queue_wait"
  PROVE  \/ ~canQueueWork(pending_work, bytes_in_progress)'
         \/ writer' = "writing"
<1> SUFFICES ASSUME writer' # "writing" PROVE ~canQueueWork(pending_work, bytes_in_progress)'
  OBVIOUS
<1>1. ~canQueueWork(pending_work, bytes_in_progress)
  BY DEF QueuersAwake
<1>2. Full(bytes_in_progress, max_bytes_in_progress, Len(pending_work), ncompressors)
  BY <1>1, FullIs
<1>3. Len(pending_work) \in Nat /\ Len(pending_work') \in Nat
  BY SoundTypes
<1>4. /\ bytes_in_progress \in Nat /\ bytes_in_progress' \in Int
      /\ max_bytes_in_progress \in Nat /\ ncompressors \in Nat
  BY SoundTypes
<1>5. Full(bytes_in_progress', max_bytes_in_progress', Len(pending_work'), ncompressors)
  BY <1>2, <1>3, <1>4, Fuller
<1> QED
  BY <1>5, FullIs

\* A call that has found the queue full.
LEMMA FoundFull ==
  ASSUME NEW c, pc' = [pc EXCEPT ![c] = "queue_wait"], pc \in [Clients -> ClientPlaces]
  PROVE  \A u \in Clients \ {c} : pc'[u] = pc[u]
  OBVIOUS

LEMMA NotifiedFull ==
  ASSUME NEW p, NEW b, NEW c \in Clients, pc' = Notified(p, b),
         pc'[c] = "queue_wait" \/ pc'[c] = "flush_wait", pc \in [Clients -> ClientPlaces]
  PROVE  ~canQueueWork(p, b) /\ pc'[c] = pc[c]
  BY DEF Notified, QueueBroadcast, Woken

LEMMA QueuersAwakeStep ==
  ASSUME Sound, QueuersAwake, Next
  PROVE  QueuersAwake'
<1> DEFINE Awake == \/ ~canQueueWork(pending_work, bytes_in_progress)'
                    \/ writer' = "writing"
<1> SUFFICES ASSUME NEW c \in Clients, pc'[c] = "queue_wait" PROVE Awake
  BY DEF QueuersAwake, canQueueWork
<1>0. pc \in [Clients -> ClientPlaces] /\ Owner \in Clients /\ max_bytes_in_progress \in Nat
      /\ Len(pending_work) \in Nat /\ bytes_in_progress \in Nat
  BY SoundTypes
<1>01. Len(pending_work) >= Len(pending_work) /\ bytes_in_progress >= bytes_in_progress
       /\ max_bytes_in_progress <= max_bytes_in_progress
  BY <1>0
<1>1. ASSUME UNCHANGED <<ncompressors, writer, max_bytes_in_progress>>, pc[c] = "queue_wait",
             Len(pending_work') >= Len(pending_work), bytes_in_progress' >= bytes_in_progress
      PROVE  Awake
  BY <1>0, <1>01, <1>1, SameQueuersAwake
<1>2. ASSUME UNCHANGED <<ncompressors, writer, max_bytes_in_progress, pending_work,
                         bytes_in_progress>>, pc[c] = "queue_wait"
      PROVE  Awake
  BY <1>01, <1>1, <1>2
<1>3. CASE CloseBegin \/ JoinCompressors \/ JoinWriter \/ PackIndex
  <2>1. pc'[Owner] \notin Accepting
    BY <1>0, <1>3 DEF CloseBegin, JoinCompressors, JoinWriter, PackIndex, Accepting, Opening
  <2> QED
    BY <2>1, NoQueuers
<1>4. CASE CloseIndex \/ Seal
  <2>1. NotifiedAfter("closer") \in [Clients -> ClientPlaces]
    BY NotifiedType DEF NotifiedAfter, Sound, Step, SafeInv, Now, TypeInv, TypeOK
  <2>2. pc'[Owner] \notin Accepting
    BY <1>0, <1>4, <2>1 DEF CloseIndex, Seal, Accepting, Opening
  <2> QED
    BY <2>2, NoQueuers
<1>5. CASE Open
  <2>1. pc'[Owner] = "opened" /\ pc'[Owner] # "idle"
    BY <1>0, <1>5 DEF Open
  <2> QED
    BY <2>1, SoundTypes DEF OwnerPhase, Clients
<1>6. CASE MarkWroteLibrary \/ UNCHANGED vars
  <2>1. pc[c] = "queue_wait"
    BY <1>0, <1>6 DEF MarkWroteLibrary, vars, clientVars
  <2> QED
    BY <1>2, <1>6, <2>1 DEF MarkWroteLibrary, vars, queueVars, threadVars
<1>7. ASSUME NEW u, NEW e, NEW s, queueWriteExtent(u, e, s), Appends(e, s) PROVE Awake
  <2>1. CASE pc[c] = "queue_wait" /\ u # c
    <3>1. Len(pending_work') >= Len(pending_work) /\ bytes_in_progress' >= bytes_in_progress
      BY <1>0, <1>7, AppendKeepsFront
    <3> QED
      BY <1>1, <1>7, <2>1, <3>1 DEF queueWriteExtent
  <2>2. CASE u = c
    <3>1. /\ pc' = [pc EXCEPT ![c] = IF canQueueWork(pending_work', bytes_in_progress')
                                     THEN Return(c) ELSE "queue_wait"]
          /\ UNCHANGED <<ncompressors, max_bytes_in_progress>>
      BY <1>7, <2>2 DEF queueWriteExtent
    <3>2. ~canQueueWork(pending_work', bytes_in_progress')
      BY <1>0, <3>1 DEF Return
    <3> QED
      BY <3>1, <3>2 DEF canQueueWork
  <2>3. u # c => pc[c] = "queue_wait"
    BY <1>0, <1>7 DEF queueWriteExtent
  <2> QED
    BY <2>1, <2>2, <2>3
<1>8. CASE QueueLibrary
  BY <1>7, <1>8, QueueLibraryEffect DEF QueueLibrary, Sound, Step, SafeInv, Now
<1>9. ASSUME NEW w \in Writers, WriteExtent(w) PROVE Awake
  BY <1>7, <1>9, WriteExtentEffect DEF WriteExtent, Sound, Step, SafeInv, Now
<1>10. ASSUME NEW u \in Clients, QueueWakeup(u) PROVE Awake
  <2>1. UNCHANGED <<ncompressors, writer, max_bytes_in_progress, pending_work, bytes_in_progress>>
        /\ pc' = [pc EXCEPT ![u] = IF canQueueWork(pending_work, bytes_in_progress)
                             THEN Return(u) ELSE "queue_wait"]
    BY <1>10 DEF QueueWakeup, queueVars, threadVars
  <2>2. CASE u = c
    <3>1. ~canQueueWork(pending_work, bytes_in_progress)
      BY <1>0, <2>1, <2>2 DEF Return
    <3> QED
      BY <2>1, <3>1 DEF canQueueWork
  <2>3. CASE u # c
    <3>1. pc[c] = "queue_wait"
      BY <1>0, <2>1, <2>3
    <3> QED
      BY <1>2, <2>1, <3>1
  <2> QED
    BY <2>2, <2>3
<1>11. ASSUME NEW w \in Writers, FlushPending(w) \/ FlushWakeup(w) \/ SetExtentWriteCallback(w)
       PROVE  Awake
  <2>1. pc[c] = "queue_wait"
    BY <1>0, <1>11 DEF FlushPending, FlushWakeup, FlushTest, SetExtentWriteCallback
  <2> QED
    BY <1>2, <1>11, <2>1 DEF FlushPending, FlushWakeup, FlushTest, SetExtentWriteCallback, queueVars,
       threadVars
<1>12. ASSUME NEW w \in Writers, NEW n \in MaxBytesChoices, SetMaxBytesInProgress(w, n)
       PROVE  Awake
  <2>0. n \in Nat /\ max_bytes_in_progress' = n /\ UNCHANGED <<ncompressors, writer, queueVars>>
    BY <1>12, SinkAssumption DEF SetMaxBytesInProgress
  <2>1. CASE n > max_bytes_in_progress
    <3>1. pc' = QueueBroadcast
      BY <1>0, <1>12, <2>0, <2>1 DEF SetMaxBytesInProgress
    <3> QED
      BY <1>0, <3>1 DEF QueueBroadcast, Woken
  <2>2. CASE n <= max_bytes_in_progress
    <3>1. pc' = pc
      BY <1>0, <1>12, <2>0, <2>2 DEF SetMaxBytesInProgress
    <3> QED
      BY <1>0, <1>01, <2>0, <2>2, <3>1, SameQueuersAwake DEF queueVars
  <2> QED
    BY <1>0, <2>0, <2>1, <2>2
<1>13. ASSUME NEW w \in Writers, RemoveStatsUpdate(w) PROVE Awake
  <2>1. pc[c] = "queue_wait"
    BY <1>0, <1>13 DEF RemoveStatsUpdate
  <2>2. Len(pending_work') >= Len(pending_work)
    BY <1>0, <1>13, RemoveKeepsFront
  <2> QED
    BY <1>01, <1>1, <1>13, <2>1, <2>2 DEF RemoveStatsUpdate, threadVars
<1>14. ASSUME NEW t \in Compressors, CompressorRun(t) PROVE Awake
  <2>1. Len(pending_work') >= Len(pending_work) /\ bytes_in_progress' >= bytes_in_progress
    BY <1>0, <1>14, RunFront
  <2> QED
    BY <1>1, <1>14, <2>1 DEF CompressorRun, clientVars
<1>15. ASSUME NEW t \in Compressors, Pack(t) PROVE Awake
  <2>1. Len(pending_work') >= Len(pending_work)
    BY <1>0, <1>15, PackKeepsFront
  <2> QED
    BY <1>01, <1>1, <1>15, <2>1 DEF Pack, clientVars
<1>16. ASSUME NEW t \in Compressors, CompressorDone(t) PROVE Awake
  <2>1. PICK p \in Seq(ToCompress), b \in Int :
           /\ Len(pending_work') = Len(p) /\ bytes_in_progress' >= b
           /\ pc' = Notified(p, b)
           /\ UNCHANGED <<ncompressors, max_bytes_in_progress>>
    BY <1>16, DoneFront
  <2>2. Full(b, max_bytes_in_progress, Len(p), ncompressors)
    BY <1>0, <2>1, NotifiedFull, FullIs
  <2>3. Full(bytes_in_progress', max_bytes_in_progress', Len(pending_work'), ncompressors')
    BY <2>1, <2>2, SoundTypes DEF Full
  <2> QED
    BY <2>3, FullIs
<1>17. ASSUME NEW a \in Writing, WriteOut(a) PROVE Awake
  BY <1>2, <1>17 DEF WriteOut, queueVars, threadVars, clientVars
<1>18. CASE WriterRun
  <2>1. CASE writer' = "writing"
    BY <2>1
  <2>2. CASE writer' # "writing"
    <3>1. /\ UNCHANGED <<pending_work, bytes_in_progress, ncompressors, max_bytes_in_progress, pc>>
          /\ writer # "writing"
      BY <1>18, <2>2 DEF WriterRun, WriterLoop, clientVars
    <3> QED
      BY <1>01, <1>0, <3>1, SameQueuersAwake
  <2> QED
    BY <2>1, <2>2
<1>19. CASE WriterDone
  <2>1. CASE writer' = "writing"
    BY <2>1
  <2>2. CASE writer' # "writing"
    <3>1. /\ pending_work' = pending_work
          /\ bytes_in_progress' = bytes_in_progress - out["writer"].bytes
          /\ UNCHANGED <<ncompressors, max_bytes_in_progress>>
          /\ pc' = NotifiedAfter("writer")
      BY <1>19, <2>2 DEF WriterDone, WriterLoop, FinishWriteOut
    <3>2. pc' = Notified(pending_work', bytes_in_progress')
      BY <3>1 DEF NotifiedAfter
    <3>3. ~canQueueWork(pending_work', bytes_in_progress')
      BY <1>0, <3>2, NotifiedFull
    <3> QED
      BY <3>1, <3>3 DEF canQueueWork
  <2> QED
    BY <2>1, <2>2
<1> HIDE DEF Awake
<1> QED
  BY <1>3, <1>4, <1>5, <1>6, <1>8, <1>9, <1>10, <1>11, <1>12, <1>13, <1>14, <1>15, <1>16, <1>17,
     <1>18, <1>19, NextCases

\* Between two files the pipeline is empty.
LEMMA ClosedIsEmpty ==
  ASSUME SafeInv, pc[Owner] = "closed"
  PROVE  bytes_in_progress = 0
<1>1. pending_work = << >>
  BY DEF SafeInv, Now, QueueInv, EmptyBetweenFiles
<1>2. writer = "none"
  BY DEF SafeInv, Now, PhaseInv, ThreadPhase, WithoutWriter
<1>3. Held("writer") = 0 /\ Held("closer") = 0
  BY <1>2, NothingHeld DEF SafeInv, Now, PhaseInv, BatchPhase
<1> QED
  BY <1>1, <1>3, SafeTypes, WeightEmpty

LEMMA SameFlushersAwake ==
  ASSUME Sound, FlushersAwake, UNCHANGED nfiles, keep_going' => keep_going,
         \A c \in Clients : pc'[c] = "flush_wait" => pc[c] = "flush_wait",
         bytes_in_progress' >= bytes_in_progress
  PROVE  FlushersAwake'
<1>1. bytes_in_progress \in Nat /\ bytes_in_progress' \in Nat
  BY SoundTypes
<1> QED
  BY <1>1 DEF FlushersAwake

LEMMA FlushersFree ==
  ASSUME nfiles' # 0, keep_going' /\ nfiles' = 1 => bytes_in_progress' > 0
  PROVE  FlushersAwake'
  BY DEF FlushersAwake

LEMMA FileTypesNow ==
  ASSUME Sound
  PROVE  /\ nfiles \in Nat /\ keep_going \in BOOLEAN
         /\ nfiles = 0 => pc[Owner] = "closed"
         /\ pc[Owner] = "closed" => bytes_in_progress = 0
<1>1. nfiles \in 0..MaxFiles /\ (pc[Owner] # "closed" => nfiles > 0) /\ keep_going \in BOOLEAN
  BY DEF Sound, Step, SafeInv, Now, TypeInv, TypeOK, FileTypes, ThreadTypes, FileNumbered
<1>2. pc[Owner] = "closed" => bytes_in_progress = 0
  BY ClosedIsEmpty DEF Sound, Step
<1> QED
  BY <1>1, <1>2, SinkAssumption

\* After a batch is accounted for what is still queued is in bytes_in_progress.
LEMMA LeftAfterBatch ==
  ASSUME Sound, WriterDone, pending_work # << >>
  PROVE  bytes_in_progress' > 0
<1>1. out["writer"].to_write = << >> /\ bytes_in_progress' = bytes_in_progress - out["writer"].bytes
  BY DEF WriterDone, FinishWriteOut
<1>2. Held("writer") = out["writer"].bytes
  <2>1. out["writer"].bytes \in Nat
    BY SafeTypes DEF Sound, Step
  <2> QED
    BY <1>1, <2>1, WeightEmpty DEF Held
<1>3. pending_work \in Seq(ToCompress) /\ 1 \in 1..Len(pending_work)
  BY SoundTypes
<1>4. pending_work[1] \in ToCompress
  BY <1>3
<1>5. Bytes[pending_work[1]] \in Nat /\ Bytes[pending_work[1]] > 0
  BY <1>4, ItemWeights, ItemFields
<1>6. Bytes[pending_work[1]] <= Weight(Bytes, pending_work)
  BY <1>3, QueueWeight, Weights3
<1> DEFINE w == Weight(Bytes, pending_work)
           x == Bytes[pending_work[1]]
           v == out["writer"].bytes
           d == Held("closer")
<1>7. w \in Nat /\ v \in Nat /\ d \in Nat /\ bytes_in_progress = w + v + d
      /\ x \in Nat /\ x > 0 /\ x <= w
      /\ bytes_in_progress' = bytes_in_progress - v
  BY <1>1, <1>2, <1>5, <1>6, SafeTypes DEF Sound, Step
<1> HIDE DEF w, x, v, d
<1> QED
  BY <1>7

LEMMA FlushersAwakeStep ==
  ASSUME Sound, FlushersAwake, Next
  PROVE  FlushersAwake'
<1>0. pc \in [Clients -> ClientPlaces] /\ Owner \in Clients /\ max_bytes_in_progress \in Nat
      /\ bytes_in_progress \in Nat /\ bytes_in_progress' \in Nat
      /\ Len(pending_work) \in Nat
  BY SoundTypes
<1>1. ASSUME UNCHANGED <<nfiles, bytes_in_progress>>, keep_going' => keep_going,
             \A c \in Clients : pc'[c] = "flush_wait" => pc[c] = "flush_wait"
      PROVE  FlushersAwake'
  BY <1>0, <1>1, SameFlushersAwake
<1>2. CASE CloseBegin \/ MarkWroteLibrary \/ JoinCompressors \/ UNCHANGED vars
  <2>1. UNCHANGED <<nfiles, bytes_in_progress>> /\ (keep_going' => keep_going)
    BY <1>2 DEF CloseBegin, MarkWroteLibrary, JoinCompressors, vars, queueVars, fileVars
  <2>2. \A c \in Clients : pc'[c] = "flush_wait" => pc[c] = "flush_wait"
    BY <1>0, <1>2 DEF CloseBegin, MarkWroteLibrary, JoinCompressors, vars, clientVars
  <2> QED
    BY <1>1, <2>1, <2>2
<1>3. ASSUME NEW c \in Clients, QueueWakeup(c) PROVE FlushersAwake'
  <2>1. UNCHANGED <<nfiles, bytes_in_progress, keep_going>>
    BY <1>3 DEF QueueWakeup, queueVars, fileVars
  <2>2. \A u \in Clients : pc'[u] = "flush_wait" => pc[u] = "flush_wait"
    BY <1>0, <1>3 DEF QueueWakeup, Return
  <2> QED
    BY <1>1, <2>1, <2>2
<1>4. ASSUME NEW w \in Writers, FlushPending(w) \/ FlushWakeup(w) PROVE FlushersAwake'
  <2>1. UNCHANGED <<nfiles, bytes_in_progress, keep_going>>
        /\ pc' = [pc EXCEPT ![w] = IF bytes_in_progress > 0 THEN "flush_wait" ELSE "idle"]
    BY <1>4 DEF FlushPending, FlushWakeup, FlushTest, queueVars, fileVars
  <2>2. CASE bytes_in_progress > 0
    <3>1. nfiles' # 0
      BY <1>0, <2>1, <2>2, FileTypesNow
    <3> QED
      BY <2>1, <2>2, <3>1, FlushersFree
  <2>3. CASE ~(bytes_in_progress > 0)
    <3>1. \A u \in Clients : pc'[u] = "flush_wait" => pc[u] = "flush_wait"
      BY <1>0, <2>1, <2>3
    <3> QED
      BY <1>1, <2>1, <3>1
  <2> QED
    BY <2>2, <2>3
<1>5. ASSUME NEW w \in Writers, SetExtentWriteCallback(w) PROVE FlushersAwake'
  BY <1>1, <1>5 DEF SetExtentWriteCallback, queueVars, fileVars
<1>6. ASSUME NEW w \in Writers, NEW n \in MaxBytesChoices, SetMaxBytesInProgress(w, n)
      PROVE  FlushersAwake'
  <2>1. \A u \in Clients : pc'[u] = "flush_wait" => pc[u] = "flush_wait"
    BY <1>0, <1>6 DEF SetMaxBytesInProgress, QueueBroadcast, Woken
  <2> QED
    BY <1>1, <1>6, <2>1 DEF SetMaxBytesInProgress, queueVars, fileVars
<1>7. CASE Open
  <2>1. nfiles' = nfiles + 1 /\ pc' = [pc EXCEPT ![Owner] = "opened"] /\ nfiles \in Nat
    BY <1>7, FileTypesNow DEF Open
  <2>2. CASE nfiles = 0
    <3>1. \A u \in Clients : pc'[u] # "flush_wait"
      BY <1>0, <2>1, <2>2 DEF FlushersAwake
    <3> QED
      BY <3>1 DEF FlushersAwake
  <2>3. CASE nfiles # 0
    BY <2>1, <2>3, FlushersFree
  <2> QED
    BY <2>2, <2>3
<1>8. ASSUME NEW u, NEW e, NEW s, queueWriteExtent(u, e, s), Appends(e, s) PROVE FlushersAwake'
  <2>1. UNCHANGED <<nfiles, keep_going>>
        /\ \E x \in {"queued", "idle", "queue_wait"} : pc' = [pc EXCEPT ![u] = x]
    BY <1>8 DEF queueWriteExtent, fileVars, Return
  <2>2. \A c \in Clients : pc'[c] = "flush_wait" => pc[c] = "flush_wait"
    BY <1>0, <2>1
  <2>3. bytes_in_progress' >= bytes_in_progress
    BY <1>8, AppendKeepsFront
  <2> QED
    BY <2>1, <2>2, <2>3, SameFlushersAwake
<1>9. CASE QueueLibrary
  BY <1>8, <1>9, QueueLibraryEffect DEF QueueLibrary, Sound, Step, SafeInv, Now
<1>10. ASSUME NEW w \in Writers, WriteExtent(w) PROVE FlushersAwake'
  BY <1>8, <1>10, WriteExtentEffect DEF WriteExtent, Sound, Step, SafeInv, Now
<1>11. ASSUME NEW w \in Writers, RemoveStatsUpdate(w) PROVE FlushersAwake'
  <2>1. \A u \in Clients : pc'[u] = "flush_wait" => pc[u] = "flush_wait"
    BY <1>0, <1>11 DEF RemoveStatsUpdate
  <2> QED
    BY <1>1, <1>11, <2>1 DEF RemoveStatsUpdate, fileVars
<1>12. ASSUME NEW t \in Compressors, CompressorRun(t) PROVE FlushersAwake'
  <2>1. bytes_in_progress' >= bytes_in_progress
    BY <1>12, RunFront
  <2>2. UNCHANGED <<nfiles, keep_going, pc>>
    BY <1>12 DEF CompressorRun, clientVars, fileVars
  <2> QED
    BY <2>1, <2>2, SameFlushersAwake
<1>13. ASSUME NEW t \in Compressors, Pack(t) PROVE FlushersAwake'
  BY <1>1, <1>13 DEF Pack, clientVars, fileVars
<1>14. ASSUME NEW t \in Compressors, CompressorDone(t) PROVE FlushersAwake'
  <2>1. PICK p \in Seq(ToCompress), b \in Int :
          /\ Len(pending_work') = Len(p) /\ Len(p) > 0
          /\ pc' = Notified(p, b) /\ UNCHANGED <<nfiles, keep_going>>
    BY <1>14, DoneFront
  <2>2. pending_work' # << >>
    BY <2>1
  <2>3. bytes_in_progress' > 0
    BY <2>2, QueueCountsNext
  <2>4. \A c \in Clients : pc'[c] = "flush_wait" => pc[c] = "flush_wait"
    BY <1>0, <2>1, NotifiedFull
  <2> QED
    BY <2>1, <2>3, <2>4 DEF FlushersAwake
<1>15. ASSUME NEW a \in Writing, WriteOut(a) PROVE FlushersAwake'
  BY <1>1, <1>15 DEF WriteOut, queueVars, clientVars, fileVars
<1>16. CASE WriterRun
  BY <1>1, <1>16 DEF WriterRun, clientVars, fileVars
<1>17. CASE WriterDone
  <2>1. /\ UNCHANGED <<nfiles, keep_going, ncompressors, max_bytes_in_progress>>
        /\ pc' = Notified(pending_work, bytes_in_progress')
    BY <1>17 DEF WriterDone, FinishWriteOut, NotifiedAfter, fileVars
  <2>2. \A c \in Clients : pc'[c] = "flush_wait" =>
          pc[c] = "flush_wait" /\ ~canQueueWork(pending_work, bytes_in_progress')
    BY <1>0, <2>1, NotifiedFull
  <2>3. ASSUME keep_going, NEW c \in Clients, pc'[c] = "flush_wait" PROVE bytes_in_progress' > 0
    <3>1. \/ bytes_in_progress' >= max_bytes_in_progress
          \/ Len(pending_work) >= 2 * ncompressors
      BY <1>0, <2>2, <2>3, SoundTypes DEF canQueueWork
    <3>2. max_bytes_in_progress > 0
      BY DEF Sound, Step, SafeInv, Now, TypeInv, TypeOK, QueueTypes
    <3>3. ncompressors > 0
      <4>1. ncompressors = Cardinality(Compressors) /\ Compressors # {}
        BY <2>3, SoundTypes DEF OwnerPhase, ThreadPhase, Compressing
      <4>2. Cardinality(Compressors) \in Nat /\ Cardinality(Compressors) # 0
        BY <4>1, SinkAssumption, FS_CardinalityType, FS_EmptySet
      <4> QED
        BY <4>1, <4>2
    <3>4. CASE bytes_in_progress' >= max_bytes_in_progress
      BY <1>0, <3>2, <3>4
    <3>5. CASE Len(pending_work) >= 2 * ncompressors
      <4>1. Len(pending_work) > 0
        BY <1>0, <3>3, <3>5, SoundTypes
      <4>2. pending_work # << >>
        BY <4>1
      <4> QED
        BY <1>17, <4>2, LeftAfterBatch
    <3> QED
      BY <3>1, <3>4, <3>5
  <2> QED
    BY <2>1, <2>2, <2>3 DEF FlushersAwake
<1>18. CASE JoinWriter \/ CloseIndex \/ PackIndex \/ Seal
  <2>1. UNCHANGED <<nfiles, keep_going>> /\ pc[Owner] \in {"join_writer", "drain", "pack_index", "write_index"}
    BY <1>18 DEF JoinWriter, CloseIndex, PackIndex, Seal, fileVars
  <2>2. ~keep_going /\ nfiles # 0
    BY <2>1, SoundTypes, FileTypesNow DEF OwnerPhase, Accepting, Opening
  <2> QED
    BY <2>1, <2>2, FlushersFree
<1> QED
  BY <1>2, <1>3, <1>4, <1>5, <1>6, <1>7, <1>9, <1>10, <1>11, <1>12, <1>13, <1>14, <1>15, <1>16,
     <1>17, <1>18, NextCases

----------------------------------------------------------------------------

LEMMA WakeInit == Init => WakeInv
<1> SUFFICES ASSUME Init PROVE WakeInv
  OBVIOUS
<1>1. writer = "none" /\ ncompressors = 0 /\ ~keep_going
      /\ pc = [c \in Clients |-> IF c = Owner THEN "closed" ELSE "idle"]
  BY DEF Init
<1> QED
  BY <1>1 DEF WakeInv, WriterAwake, CompressorsAwake, QueuersAwake, FlushersAwake

LEMMA WakeStep == SafeInv /\ WakeInv /\ SafeInv' /\ [Next]_vars => WakeInv'
<1> SUFFICES ASSUME SafeInv, WakeInv, SafeInv', [Next]_vars PROVE WakeInv'
  OBVIOUS
<1>1. CASE UNCHANGED vars
  BY <1>1
  DEF vars, clientVars, queueVars, threadVars, fileVars, WakeInv, WriterAwake, CompressorsAwake,
      QueuersAwake, FlushersAwake, frontReadyToWrite, readyToWrite, canQueueWork, Unclaimed, Positions
<1>2. CASE Next
  <2>1. Sound
    BY <1>2, StepHolds DEF Sound
  <2> QED
    BY <1>2, <2>1, WriterAwakeStep, CompressorsAwakeStep, QueuersAwakeStep, FlushersAwakeStep
    DEF WakeInv
<1> QED
  BY <1>1, <1>2

\* The signals and broadcasts of queueWriteExtent, lockedProcessToCompress,
\* writeOutPending, setMaxBytesInProgress and stopThreads are enough: at no
\* moment does a thread sleep on a condition variable while what it waits for
\* is there and nobody is on the way to tell it.
THEOREM NoWakeupIsLost == ASSUME Compressors # {} PROVE Spec => []NoLostWakeup
<1>1. Init => WakeInv
  BY WakeInit
<1>2. SafeInv /\ WakeInv /\ SafeInv' /\ [Next]_vars => WakeInv'
  BY WakeStep
<1>3. WakeInv => NoLostWakeup
  BY DEF WakeInv, WriterAwake, CompressorsAwake, QueuersAwake, FlushersAwake, NoLostWakeup
<1> QED
  BY <1>1, <1>2, <1>3, SafeAlways, PTL DEF Spec

----------------------------------------------------------------------------
\* The pipeline as a log: sequences of extents

LEMMA ExtentsType ==
  ASSUME NEW p \in Seq(ToCompress)
  PROVE  ExtentsOf(p) \in Seq(Extents) /\ Len(ExtentsOf(p)) = Len(p)
         /\ \A i \in 1..Len(p) : ExtentsOf(p)[i] = p[i].extent
<1>1. \A i \in 1..Len(p) : p[i].extent \in Extents
  BY ItemFields
<1> QED
  BY <1>1 DEF ExtentsOf

LEMMA ExtentsEmpty == ExtentsOf(<< >>) = << >>
  BY DEF ExtentsOf

LEMMA ExtentsAppend ==
  ASSUME NEW p \in Seq(ToCompress), NEW x \in ToCompress
  PROVE  ExtentsOf(Append(p, x)) = Append(ExtentsOf(p), x.extent)
<1> DEFINE q == Append(p, x)
<1>1. q \in Seq(ToCompress) /\ Len(q) = Len(p) + 1 /\ Len(p) \in Nat
      /\ \A i \in 1..(Len(p) + 1) : q[i] = IF i = Len(p) + 1 THEN x ELSE p[i]
  BY AppendParts
<1>2. x.extent \in Extents
  BY ItemFields
<1> HIDE DEF q
<1> DEFINE s == ExtentsOf(q)
           t == Append(ExtentsOf(p), x.extent)
<1>3. s \in Seq(Extents) /\ Len(s) = Len(p) + 1
      /\ \A i \in 1..(Len(p) + 1) : s[i] = IF i = Len(p) + 1 THEN x.extent ELSE p[i].extent
  BY <1>1, ExtentsType
<1>4. ExtentsOf(p) \in Seq(Extents) /\ Len(ExtentsOf(p)) = Len(p)
      /\ \A i \in 1..Len(p) : ExtentsOf(p)[i] = p[i].extent
  BY ExtentsType
<1>5. t \in Seq(Extents) /\ Len(t) = Len(p) + 1
      /\ \A i \in 1..(Len(p) + 1) : t[i] = IF i = Len(p) + 1 THEN x.extent ELSE ExtentsOf(p)[i]
  BY <1>2, <1>4, AppendProperties
<1>6. \A i \in 1..Len(s) : s[i] = t[i]
  BY <1>1, <1>3, <1>4, <1>5
<1> HIDE DEF s, t
<1>7. s = t
  BY <1>3, <1>5, <1>6, SeqEqual
<1> QED
  BY <1>7 DEF s, t, q

LEMMA ExtentsSame ==
  ASSUME NEW p \in Seq(ToCompress), NEW q \in Seq(ToCompress), Len(q) = Len(p),
         \A i \in 1..Len(p) : q[i].extent = p[i].extent
  PROVE  ExtentsOf(q) = ExtentsOf(p)
  BY DEF ExtentsOf

LEMMA ExtentsExcept ==
  ASSUME NEW p \in Seq(ToCompress), NEW i \in 1..Len(p), NEW x \in ToCompress,
         x.extent = p[i].extent
  PROVE  ExtentsOf([p EXCEPT ![i] = x]) = ExtentsOf(p)
<1>1. /\ [p EXCEPT ![i] = x] \in Seq(ToCompress) /\ Len([p EXCEPT ![i] = x]) = Len(p)
      /\ \A j \in 1..Len(p) : [p EXCEPT ![i] = x][j] = IF j = i THEN x ELSE p[j]
  BY SeqExcept
<1>2. \A j \in 1..Len(p) : [p EXCEPT ![i] = x][j].extent = p[j].extent
  BY <1>1
<1> QED
  BY <1>1, <1>2, ExtentsSame

LEMMA ExtentsTail ==
  ASSUME NEW p \in Seq(ToCompress), p # << >>
  PROVE  /\ ExtentsOf(p) # << >> /\ Head(ExtentsOf(p)) = Head(p).extent
         /\ Tail(ExtentsOf(p)) = ExtentsOf(Tail(p))
<1> DEFINE s == ExtentsOf(p)
           t == Tail(p)
<1>1. s \in Seq(Extents) /\ Len(s) = Len(p) /\ \A i \in 1..Len(p) : s[i] = p[i].extent
  BY ExtentsType
<1>2. /\ t \in Seq(ToCompress) /\ Len(t) = Len(p) - 1 /\ Len(p) \in Nat /\ Len(p) > 0
      /\ \A i \in 1..Len(t) : t[i] = p[i + 1]
      /\ Head(p) = p[1]
  BY HeadTailProperties
<1> HIDE DEF s, t
<1>3. s # << >> /\ Head(s) = s[1] /\ 1 \in 1..Len(p)
  BY <1>1, <1>2
<1>4. Tail(s) \in Seq(Extents) /\ Len(Tail(s)) = Len(p) - 1
      /\ \A i \in 1..Len(Tail(s)) : Tail(s)[i] = s[i + 1]
  BY <1>1, <1>3, HeadTailProperties
<1>5. ExtentsOf(t) \in Seq(Extents) /\ Len(ExtentsOf(t)) = Len(t)
      /\ \A i \in 1..Len(t) : ExtentsOf(t)[i] = t[i].extent
  BY <1>2, ExtentsType
<1>6. \A i \in 1..Len(Tail(s)) : Tail(s)[i] = ExtentsOf(t)[i]
  <2> SUFFICES ASSUME NEW i \in 1..(Len(p) - 1) PROVE Tail(s)[i] = ExtentsOf(t)[i]
    BY <1>4
  <2>1. i + 1 \in 1..Len(p) /\ i \in 1..Len(t)
    BY <1>2
  <2> QED
    BY <1>1, <1>2, <1>4, <1>5, <2>1
<1>7. Tail(s) = ExtentsOf(t)
  BY <1>2, <1>4, <1>5, <1>6, SeqEqual
<1> QED
  BY <1>1, <1>2, <1>3, <1>7 DEF s, t

LEMMA ExtentsSplit ==
  ASSUME NEW p \in Seq(ToCompress), NEW n \in 0..Len(p)
  PROVE  ExtentsOf(p) = ExtentsOf(SubSeq(p, 1, n)) \o ExtentsOf(SubSeq(p, n + 1, Len(p)))
<1> DEFINE a == SubSeq(p, 1, n)
           b == SubSeq(p, n + 1, Len(p))
           s == ExtentsOf(a)
           t == ExtentsOf(b)
<1>1. /\ a \in Seq(ToCompress) /\ b \in Seq(ToCompress)
      /\ Len(a) = n /\ Len(b) = Len(p) - n /\ Len(p) \in Nat /\ n \in Nat
      /\ \A i \in 1..n : a[i] = p[i] /\ i \in 1..Len(p)
      /\ \A i \in 1..(Len(p) - n) : b[i] = p[n + i] /\ n + i \in 1..Len(p)
  BY Parts
<1> HIDE DEF a, b
<1>2. /\ s \in Seq(Extents) /\ Len(s) = n /\ \A i \in 1..n : s[i] = p[i].extent
      /\ t \in Seq(Extents) /\ Len(t) = Len(p) - n
      /\ \A i \in 1..(Len(p) - n) : t[i] = p[n + i].extent
  BY <1>1, ExtentsType, SMTT(30)
<1> HIDE DEF s, t
<1>3. /\ s \o t \in Seq(Extents) /\ Len(s \o t) = Len(p)
      /\ \A i \in 1..Len(p) : (s \o t)[i] = IF i <= n THEN s[i] ELSE t[i - n]
  BY <1>1, <1>2, ConcatProperties
<1>4. ExtentsOf(p) \in Seq(Extents) /\ Len(ExtentsOf(p)) = Len(p)
      /\ \A i \in 1..Len(p) : ExtentsOf(p)[i] = p[i].extent
  BY ExtentsType
<1>5. \A i \in 1..Len(p) : ExtentsOf(p)[i] = (s \o t)[i]
  <2> SUFFICES ASSUME NEW i \in 1..Len(p) PROVE p[i].extent = (s \o t)[i]
    BY <1>4
  <2>1. CASE i <= n
    BY <1>1, <1>2, <1>3, <2>1
  <2>2. CASE ~(i <= n)
    <3>1. i - n \in 1..(Len(p) - n) /\ n + (i - n) = i
      BY <1>1, <2>2
    <3>2. t[i - n] = p[n + (i - n)].extent
      BY <1>2, <3>1
    <3> QED
      BY <1>3, <2>2, <3>1, <3>2
  <2> QED
    BY <2>1, <2>2
<1>6. ExtentsOf(p) = s \o t
  BY <1>3, <1>4, <1>5, SeqEqual
<1> QED
  BY <1>6 DEF s, t, a, b

----------------------------------------------------------------------------
\* The parts of the log: in the file, in the two batches, on the queue.
Cat4(d, v, c, q) == d \o v \o c \o q

LEMMA Cat4Type ==
  ASSUME NEW S, NEW d \in Seq(S), NEW v \in Seq(S), NEW c \in Seq(S), NEW q \in Seq(S)
  PROVE  Cat4(d, v, c, q) \in Seq(S)
  BY DEF Cat4

LEMMA ConcatAppend ==
  ASSUME NEW S, NEW x \in Seq(S), NEW q \in Seq(S), NEW e \in S
  PROVE  x \o Append(q, e) = Append(x \o q, e)
<1>1. x \o q \in Seq(S) /\ <<e>> \in Seq(S)
  OBVIOUS
<1>2. Append(q, e) = q \o <<e>> /\ Append(x \o q, e) = (x \o q) \o <<e>>
  BY <1>1, AppendIsConcat
<1>3. x \o (q \o <<e>>) = (x \o q) \o <<e>>
  BY <1>1, ConcatAssociative
<1> QED
  BY <1>2, <1>3

\* What is written moves from the front of a batch to the end of the file.
LEMMA MoveFirst ==
  ASSUME NEW S, NEW d \in Seq(S), NEW v \in Seq(S), v # << >>
  PROVE  /\ Append(d, Head(v)) \o Tail(v) = d \o v
         /\ Len(d) < Len(d \o v) /\ (d \o v)[Len(d) + 1] = Head(v)
<1>1. Head(v) \in S /\ Tail(v) \in Seq(S) /\ <<Head(v)>> \in Seq(S)
  BY HeadTailProperties
<1>2. v = <<Head(v)>> \o Tail(v)
  BY <1>1
<1>3. Append(d, Head(v)) = d \o <<Head(v)>>
  BY <1>1, AppendIsConcat
<1>4. (d \o <<Head(v)>>) \o Tail(v) = d \o (<<Head(v)>> \o Tail(v))
  BY <1>1, ConcatAssociative
<1>5. Len(d) \in Nat /\ Len(v) \in Nat /\ Len(v) > 0 /\ Head(v) = v[1]
  OBVIOUS
<1>6. Len(d \o v) = Len(d) + Len(v) /\ (d \o v)[Len(d) + 1] = v[1]
  <2>1. /\ Len(d \o v) = Len(d) + Len(v)
        /\ \A i \in 1..Len(d) + Len(v) : (d \o v)[i] = IF i <= Len(d) THEN d[i] ELSE v[i - Len(d)]
    BY ConcatProperties
  <2>2. Len(d) + 1 \in 1..Len(d) + Len(v) /\ ~(Len(d) + 1 <= Len(d)) /\ (Len(d) + 1) - Len(d) = 1
    BY <1>5
  <2> QED
    BY <2>1, <2>2
<1> QED
  BY <1>2, <1>3, <1>4, <1>5, <1>6

LEMMA Cat4Closer ==
  ASSUME NEW S, NEW d \in Seq(S), NEW v \in Seq(S), NEW q \in Seq(S)
  PROVE  Cat4(d, << >>, v, q) = (d \o v) \o q
<1>1. d \o << >> = d
  BY ConcatEmptySeq
<1> QED
  BY <1>1 DEF Cat4

LEMMA Reaches ==
  ASSUME NEW S, NEW d \in Seq(S), NEW q \in Seq(S), NEW n \in 1..Len(d)
  PROVE  (d \o q)[n] = d[n] /\ n <= Len(d \o q)
<1>1. /\ Len(d \o q) = Len(d) + Len(q)
      /\ \A i \in 1..Len(d) + Len(q) : (d \o q)[i] = IF i <= Len(d) THEN d[i] ELSE q[i - Len(d)]
  BY ConcatProperties
<1>2. Len(d) \in Nat /\ Len(q) \in Nat
  OBVIOUS
<1> QED
  BY <1>1, <1>2

LEMMA Cat4Move ==
  ASSUME NEW S, NEW d \in Seq(S), NEW v \in Seq(S), NEW c \in Seq(S), NEW q \in Seq(S), v # << >>
  PROVE  /\ Cat4(Append(d, Head(v)), Tail(v), c, q) = Cat4(d, v, c, q)
         /\ Len(d) < Len(Cat4(d, v, c, q)) /\ Cat4(d, v, c, q)[Len(d) + 1] = Head(v)
<1>1. /\ Append(d, Head(v)) \o Tail(v) = d \o v
      /\ Len(d) < Len(d \o v) /\ (d \o v)[Len(d) + 1] = Head(v)
  BY MoveFirst
<1> DEFINE x == d \o v
           r == c \o q
<1>2. x \in Seq(S) /\ r \in Seq(S) /\ Len(x) \in Nat /\ Len(d) \in Nat
  OBVIOUS
<1>3. Cat4(d, v, c, q) = x \o r
  <2>1. x \in Seq(S)
    BY <1>2
  <2>2. Cat4(d, v, c, q) = (x \o c) \o q
    BY DEF Cat4
  <2> HIDE DEF x
  <2>3. (x \o c) \o q = x \o (c \o q)
    <3>1. ASSUME NEW y \in Seq(S) PROVE (y \o c) \o q = y \o (c \o q)
      OBVIOUS
    <3> QED
      BY <2>1, <3>1
  <2> QED
    BY <2>2, <2>3
<1>4. Len(d) + 1 \in 1..Len(x) /\ x[Len(d) + 1] = Head(v)
  BY <1>1, <1>2
<1> HIDE DEF x, r
<1>5. (x \o r)[Len(d) + 1] = Head(v) /\ Len(d) + 1 <= Len(x \o r)
  BY <1>2, <1>4, Reaches
<1>6. x \o r \in Seq(S)
  BY <1>2
<1>7. Len(x \o r) \in Nat
  BY <1>6
<1>8. Len(d) < Len(x \o r)
  BY <1>2, <1>5, <1>7
<1>9. Cat4(Append(d, Head(v)), Tail(v), c, q) = Cat4(d, v, c, q)
  BY <1>1 DEF Cat4
<1> QED
  BY <1>3, <1>5, <1>8, <1>9

LEMMA Cat4MoveCloser ==
  ASSUME NEW S, NEW d \in Seq(S), NEW c \in Seq(S), NEW q \in Seq(S), c # << >>
  PROVE  /\ Cat4(Append(d, Head(c)), << >>, Tail(c), q) = Cat4(d, << >>, c, q)
         /\ Len(d) < Len(Cat4(d, << >>, c, q)) /\ Cat4(d, << >>, c, q)[Len(d) + 1] = Head(c)
<1> DEFINE h == Append(d, Head(c))
           t == Tail(c)
           x == d \o c
<1>1. h \in Seq(S) /\ t \in Seq(S) /\ x \in Seq(S) /\ Len(x) \in Nat /\ Len(d) \in Nat
  <2>1. Head(c) \in S /\ t \in Seq(S)
    BY HeadTailProperties
  <2> QED
    BY <2>1
<1>2. h \o t = x /\ Len(d) < Len(x) /\ x[Len(d) + 1] = Head(c)
  BY MoveFirst
<1>3. Cat4(d, << >>, c, q) = x \o q
  BY Cat4Closer, SMTT(30)
<1> HIDE DEF h, t, x
<1>4. Cat4(h, << >>, t, q) = x \o q
  <2>1. h \in Seq(S) /\ t \in Seq(S)
    BY <1>1
  <2>2. h \o << >> = h
    BY <2>1, ConcatEmptySeq
  <2> QED
    BY <1>2, <2>2 DEF Cat4
<1>5. Len(d) + 1 \in 1..Len(x)
  BY <1>1, <1>2
<1>6. (x \o q)[Len(d) + 1] = Head(c) /\ Len(d) + 1 <= Len(x \o q)
  BY <1>1, <1>2, <1>5, Reaches
<1>7. Len(x \o q) \in Nat
  <2>1. x \o q \in Seq(S)
    BY <1>1
  <2> QED
    BY <2>1
<1>8. Len(d) < Len(x \o q)
  BY <1>1, <1>6, <1>7
<1> QED
  BY <1>3, <1>4, <1>6, <1>8 DEF h, t

BatchOf(a) == ExtentsOf(out[a].to_write)
Queue == ExtentsOf(pending_work)
Accepted == Cat4(disk, BatchOf("writer"), BatchOf("closer"), Queue)

LEMMA LogIs ==
  /\ Log!vars = <<Accepted, disk, cur_offset > 0>>
  /\ Accepted = disk \o BatchOf("writer") \o BatchOf("closer") \o Queue
  BY DEF Log!vars, Accepted, Cat4, BatchOf, Queue

LogTyped == SafeInv => /\ disk \in Seq(Extents) /\ Queue \in Seq(Extents)
                       /\ BatchOf("writer") \in Seq(Extents) /\ BatchOf("closer") \in Seq(Extents)
                       /\ Accepted \in Seq(Extents)

LEMMA LogTypes == LogTyped
<1> SUFFICES ASSUME SafeInv
             PROVE  /\ disk \in Seq(Extents) /\ Queue \in Seq(Extents)
                    /\ BatchOf("writer") \in Seq(Extents) /\ BatchOf("closer") \in Seq(Extents)
                    /\ Accepted \in Seq(Extents)
  BY DEF LogTyped
<1>1. /\ disk \in Seq(Extents) /\ pending_work \in Seq(ToCompress)
      /\ out["writer"].to_write \in Seq(ToCompress) /\ out["closer"].to_write \in Seq(ToCompress)
  BY SafeTypes
<1>2. /\ Queue \in Seq(Extents)
      /\ BatchOf("writer") \in Seq(Extents) /\ BatchOf("closer") \in Seq(Extents)
  BY <1>1, ExtentsType DEF Queue, BatchOf
<1> QED
  BY <1>1, <1>2, Cat4Type DEF Accepted

LEMMA LogTypesNow ==
  ASSUME Sound
  PROVE  /\ disk \in Seq(Extents) /\ Queue \in Seq(Extents) /\ Queue' \in Seq(Extents)
         /\ BatchOf("writer") \in Seq(Extents) /\ BatchOf("closer") \in Seq(Extents)
         /\ Accepted \in Seq(Extents) /\ Accepted' \in Seq(Extents)
         /\ BatchOf("writer")' \in Seq(Extents) /\ BatchOf("closer")' \in Seq(Extents)
         /\ cur_offset \in Int /\ cur_offset' \in Int
<1>1. LogTyped /\ LogTyped'
  BY LogTypes, PTL
<1>2. cur_offset \in Int /\ cur_offset' \in Int
  BY DEF Sound, Step, SafeInv, Now, TypeInv, TypeOK, FileTypes
<1> QED
  BY <1>1, <1>2 DEF LogTyped, Sound, Step

LEMMA NothingInBatch ==
  ASSUME NEW a, out[a] = NoBatch \/ out[a].to_write = << >>
  PROVE  BatchOf(a) = << >>
  BY ExtentsEmpty DEF BatchOf, NoBatch

\* Steps that leave everything where it is.
SameLog == UNCHANGED <<Accepted, disk>>

LEMMA SameLogBy ==
  ASSUME UNCHANGED <<disk, out>>, Queue' = Queue
  PROVE  SameLog
  BY DEF SameLog, Accepted, BatchOf

LEMMA ClaimLog ==
  ASSUME NEW t \in Compressors, NEW p \in Seq(ToCompress), NEW b, NEW ok,
         CompressorLoop(t, p, b, ok)
  PROVE  Queue' = ExtentsOf(p)
<1>1. CASE FoundNothing(t, p, b)
  BY <1>1 DEF FoundNothing, Queue
<1>2. ASSUME NEW i \in 1..Len(p), NEW x, Claimed(t, p, b, i, x)
      PROVE  Queue' = ExtentsOf(p)
  <2>1. p[i] \in ToCompress
    OBVIOUS
  <2>2. x \in ToCompress /\ x.extent = p[i].extent
    BY <1>2, <2>1, ClaimedItem DEF Claimed, IsItem
  <2>3. pending_work' = [p EXCEPT ![i] = x]
    BY <1>2 DEF Claimed
  <2> QED
    BY <2>2, <2>3, ExtentsExcept DEF Queue
<1> QED
  BY <1>1, <1>2, ClaimEffect

LEMMA QuietLog ==
  ASSUME Sound, Next,
         \/ Keeps
         \/ \E w \in Writers : RemoveStatsUpdate(w)
         \/ \E t \in Compressors : CompressorRun(t) \/ Pack(t) \/ CompressorDone(t)
  PROVE  SameLog
<1>0. pending_work \in Seq(ToCompress) /\ pending_work' \in Seq(ToCompress)
  BY SoundTypes
<1>1. CASE Keeps
  BY <1>1, SameLogBy DEF Keeps, Queue
<1>2. ASSUME NEW w \in Writers, RemoveStatsUpdate(w) PROVE SameLog
  <2>1. Queue' = Queue
    BY <1>0, <1>2, RemoveItems, ExtentsSame DEF Queue, Sound, Step
  <2> QED
    BY <1>2, <2>1, SameLogBy DEF RemoveStatsUpdate, fileVars
<1>3. ASSUME NEW t \in Compressors, CompressorRun(t) PROVE SameLog
  <2>1. Queue' = Queue
    BY <1>0, <1>3, ClaimLog DEF CompressorRun, Queue
  <2> QED
    BY <1>3, <2>1, SameLogBy DEF CompressorRun, fileVars
<1>4. ASSUME NEW t \in Compressors, Pack(t) PROVE SameLog
  <2>1a. PICK i \in 1..Len(pending_work) : \E x :
          /\ pending_work[i].extent = work[t]
          /\ IsItem(x, pending_work[i].extent, pending_work[i].to_update,
                    pending_work[i].in_progress, PackedSize[work[t]])
          /\ pending_work' = [pending_work EXCEPT ![i] = x]
    BY <1>0, <1>4, PackEffect
  <2>1. PICK x :
          /\ pending_work[i].extent = work[t]
          /\ IsItem(x, pending_work[i].extent, pending_work[i].to_update,
                    pending_work[i].in_progress, PackedSize[work[t]])
          /\ pending_work' = [pending_work EXCEPT ![i] = x]
    BY <2>1a
  <2>2. x.extent = pending_work[i].extent
    BY <2>1 DEF IsItem
  <2>3. Len(pending_work') = Len(pending_work)
        /\ \A j \in 1..Len(pending_work) : pending_work'[j] = IF j = i THEN x ELSE pending_work[j]
    BY <1>0, <2>1
  <2>4. Queue' = Queue
    BY <1>0, <2>2, <2>3, ExtentsSame DEF Queue
  <2> QED
    BY <1>4, <2>4, SameLogBy DEF Pack, fileVars
<1>5. ASSUME NEW t \in Compressors, CompressorDone(t) PROVE SameLog
  <2>1a. PICK i \in 1..Len(pending_work) : \E x : DoneEffects(t, i, x)
    BY <1>5, DoneEffect DEF Sound, Step, SafeInv
  <2>1. PICK x : DoneEffects(t, i, x)
    BY <2>1a
  <2>2. /\ Completed(i) \in Seq(ToCompress) /\ Completed(i) = [pending_work EXCEPT ![i] = x]
        /\ x \in ToCompress /\ x.extent = pending_work[i].extent
        /\ \E b, ok : CompressorLoop(t, Completed(i), b, ok)
    BY <2>1 DEF DoneEffects, IsItem
  <2>3. Queue' = ExtentsOf(Completed(i))
    BY <2>2, ClaimLog
  <2>4. ExtentsOf(Completed(i)) = Queue
    <3>1. ExtentsOf([pending_work EXCEPT ![i] = x]) = ExtentsOf(pending_work)
      BY <1>0, <2>2, ExtentsExcept
    <3> QED
      BY <2>2, <3>1 DEF Queue
  <2> QED
    BY <1>5, <2>3, <2>4, SameLogBy DEF CompressorDone, fileVars
<1> QED
  BY <1>1, <1>2, <1>3, <1>4, <1>5

LEMMA AcceptedAppend ==
  ASSUME Sound, NEW e \in Extents, disk' = disk, BatchOf("writer")' = BatchOf("writer"),
         BatchOf("closer")' = BatchOf("closer"), Queue' = Append(Queue, e)
  PROVE  Accepted' = Append(Accepted, e)
<1> DEFINE d == disk
           v == BatchOf("writer")
           c == BatchOf("closer")
           q == Queue
           x == d \o v \o c
<1>1. d \in Seq(Extents) /\ v \in Seq(Extents) /\ c \in Seq(Extents) /\ q \in Seq(Extents)
  BY LogTypesNow
<1>2. Accepted = Cat4(d, v, c, q) /\ Accepted' = Cat4(d, v, c, Append(q, e))
  BY DEF Accepted
<1> HIDE DEF d, v, c, q
<1>3. x \in Seq(Extents)
  BY <1>1
<1>4. Accepted = x \o q /\ Accepted' = x \o Append(q, e)
  BY <1>2 DEF Cat4
<1> HIDE DEF x
<1>5. x \o Append(q, e) = Append(x \o q, e)
  BY <1>1, <1>3, ConcatAppend
<1> QED
  BY <1>4, <1>5

LEMMA AppendLog ==
  ASSUME Sound, NEW e, NEW s, Appends(e, s)
  PROVE  Accepted' = Append(Accepted, e) /\ disk' = disk
<1>1. /\ pending_work' = Append(pending_work, NewWork(e, s)) /\ e \in Extents
      /\ UNCHANGED <<out, disk>> /\ NewWork(e, s) \in ToCompress
  BY NewWorkType DEF Appends
<1>2. NewWork(e, s).extent = e /\ pending_work \in Seq(ToCompress)
  BY SoundTypes DEF NewWork
<1>3. Queue' = Append(Queue, e)
  BY <1>1, <1>2, ExtentsAppend DEF Queue
<1>4. BatchOf("writer")' = BatchOf("writer") /\ BatchOf("closer")' = BatchOf("closer")
  BY <1>1 DEF BatchOf
<1> QED
  BY <1>1, <1>3, <1>4, AcceptedAppend

\* The step that writes one extent.
Persists == /\ Accepted' = Accepted
            /\ Len(disk) < Len(Accepted) /\ disk' = Append(disk, Accepted[Len(disk) + 1])

LEMMA WriteOutLog ==
  ASSUME Sound, NEW a \in Writing, WriteOut(a)
  PROVE  Persists /\ Accepted[Len(disk) + 1] = Head(out[a].to_write).extent
<1> DEFINE d == disk
           v == BatchOf("writer")
           c == BatchOf("closer")
           q == Queue
<1>0. d \in Seq(Extents) /\ v \in Seq(Extents) /\ c \in Seq(Extents) /\ q \in Seq(Extents)
  BY LogTypesNow
<1>1. /\ out[a].to_write \in Seq(ToCompress) /\ out[a].to_write # << >>
      /\ a = "writer" => pc[Owner] \notin WithoutWriter
      /\ a = "closer" => pc[Owner] \in {"drain", "write_index"}
  BY BatchOpen DEF WriteOut, Sound, Step, SafeInv, Now
<1>2. /\ disk' = Append(disk, Head(out[a].to_write).extent) /\ pending_work' = pending_work
      /\ out'[a].to_write = Tail(out[a].to_write)
      /\ \A b \in Writing \ {a} : out'[b] = out[b]
  BY SafeTypes DEF WriteOut, queueVars, Sound, Step
<1>3. /\ BatchOf(a) # << >> /\ Head(BatchOf(a)) = Head(out[a].to_write).extent
      /\ BatchOf(a)' = Tail(BatchOf(a))
  BY <1>1, <1>2, ExtentsTail DEF BatchOf
<1>4. \A b \in Writing \ {a} : BatchOf(b)' = BatchOf(b)
  BY <1>2 DEF BatchOf
<1>5. q' = q
  BY <1>2 DEF Queue
<1>6. CASE a = "writer"
  <2>1. v # << >> /\ d' = Append(d, Head(v)) /\ v' = Tail(v) /\ c' = c
    BY <1>2, <1>3, <1>4, <1>6, SafeTypes DEF Sound, Step
  <2>2. /\ Cat4(Append(d, Head(v)), Tail(v), c, q) = Cat4(d, v, c, q)
        /\ Len(d) < Len(Cat4(d, v, c, q)) /\ Cat4(d, v, c, q)[Len(d) + 1] = Head(v)
    BY <1>0, <2>1, Cat4Move, ZenonT(60)
  <2> QED
    BY <1>2, <1>3, <1>5, <1>6, <2>1, <2>2 DEF Persists, Accepted
<1>7. CASE a = "closer"
  <2>1. v = << >>
    BY <1>1, <1>7, CloserAlone, NothingInBatch DEF Sound, Step
  <2>2. c # << >> /\ d' = Append(d, Head(c)) /\ c' = Tail(c) /\ v' = << >>
    BY <1>2, <1>3, <1>4, <1>7, <2>1, SafeTypes DEF Sound, Step
  <2>3. Accepted = Cat4(d, << >>, c, q) /\ Accepted' = Cat4(d', << >>, c', q)
    BY <1>5, <2>1, <2>2 DEF Accepted
  <2>4. d' = Append(d, Head(c)) /\ c' = Tail(c) /\ Head(c) = Head(out[a].to_write).extent
    BY <1>3, <1>7, <2>2
  <2>5. /\ Cat4(Append(d, Head(c)), << >>, Tail(c), q) = Cat4(d, << >>, c, q)
        /\ Len(d) < Len(Cat4(d, << >>, c, q)) /\ Cat4(d, << >>, c, q)[Len(d) + 1] = Head(c)
    <3>1. c # << >>
      BY <2>2
    <3> HIDE DEF d, c, q
    <3> QED
      BY <1>0, <3>1, Cat4MoveCloser
  <2>6. Accepted' = Accepted
    BY <2>3, <2>4, <2>5
  <2> QED
    BY <2>3, <2>4, <2>5, <2>6 DEF Persists
<1> QED
  BY <1>6, <1>7 DEF Writing

LEMMA BatchesEmpty ==
  ASSUME Sound, BatchOf("writer") = << >>, BatchOf("closer") = << >>
  PROVE  Accepted = disk \o Queue
<1> DEFINE d == disk
           q == Queue
<1>1. d \in Seq(Extents)
  BY LogTypesNow
<1>2. Accepted = Cat4(d, << >>, << >>, q)
  BY DEF Accepted
<1> HIDE DEF d, q
<1>3. d \o << >> = d
  BY <1>1, ConcatEmptySeq
<1>4. Accepted = d \o q
  BY <1>2, <1>3 DEF Cat4
<1> QED
  BY <1>4 DEF d, q

LEMMA TakeLog ==
  ASSUME Sound, NEW a \in Writing, NEW p \in Seq(ToCompress), NEW n \in 0..Len(p),
         Takes(a, p, n), ExtentsOf(p) = Queue, disk' = disk,
         BatchOf("writer") = << >>, BatchOf("closer") = << >>
  PROVE  SameLog
<1> DEFINE d == disk
           f == ExtentsOf(SubSeq(p, 1, n))
           r == ExtentsOf(SubSeq(p, n + 1, Len(p)))
<1>1. d \in Seq(Extents) /\ f \in Seq(Extents) /\ r \in Seq(Extents)
  BY LogTypesNow, Parts, ExtentsType
<1>2. Accepted = d \o Queue
  BY BatchesEmpty
<1>3. Queue = f \o r
  BY ExtentsSplit
<1>4. /\ Queue' = r /\ BatchOf(a)' = f
      /\ \A b \in Writing \ {a} : BatchOf(b)' = BatchOf(b)
  BY SafeTypes DEF Takes, Queue, BatchOf, Sound, Step
<1> HIDE DEF d, f, r
<1>5. d \o (f \o r) = (d \o f) \o r
  <2>1. ASSUME NEW x \in Seq(Extents), NEW y \in Seq(Extents), NEW z \in Seq(Extents)
        PROVE  x \o (y \o z) = (x \o y) \o z
    BY SMTT(30)
  <2> QED
    BY <1>1, <2>1
<1>7. d \o << >> = d
  BY <1>1, ConcatEmptySeq
<1>8. (d \o f) \o << >> = d \o f
  <2>1. d \o f \in Seq(Extents)
    BY <1>1
  <2> QED
    BY <2>1, ConcatEmptySeq
<1>9. CASE a = "writer"
  <2>1. Accepted' = Cat4(d, f, << >>, r)
    BY <1>4, <1>9, SafeTypes DEF Accepted, Sound, Step, d
  <2>2. Cat4(d, f, << >>, r) = (d \o f) \o r
    BY <1>8 DEF Cat4
  <2> QED
    BY <1>2, <1>3, <1>5, <2>1, <2>2 DEF SameLog
<1>10. CASE a = "closer"
  <2>1. Accepted' = Cat4(d, << >>, f, r)
    BY <1>4, <1>10, SafeTypes DEF Accepted, Sound, Step, d
  <2>2. Cat4(d, << >>, f, r) = (d \o f) \o r
    BY <1>7 DEF Cat4
  <2> QED
    BY <1>2, <1>3, <1>5, <2>1, <2>2 DEF SameLog
<1> QED
  BY <1>9, <1>10 DEF Writing

LEMMA WriterLog ==
  ASSUME Sound, WriterRun \/ WriterDone
  PROVE  SameLog
<1>1. /\ WriterLoop /\ disk' = disk
      /\ writer = "running" \/ (writer = "writing" /\ out["writer"].to_write = << >>)
  BY DEF WriterRun, WriterDone, FinishWriteOut, fileVars
<1>2. BatchOf("writer") = << >>
  BY <1>1, NothingInBatch DEF Sound, Step, SafeInv, Now, PhaseInv, BatchPhase
<1>3. BatchOf("closer") = << >>
  <2>1. out["closer"] = NoBatch
    BY <1>1 DEF Sound, Step, SafeInv, Now, PhaseInv, BatchPhase, ThreadPhase, WithoutWriter
  <2> QED
    BY <2>1, NothingInBatch
<1>4. pending_work \in Seq(ToCompress)
  BY SoundTypes
<1>5. ASSUME NEW n \in 0..Len(pending_work), Takes("writer", pending_work, n) PROVE SameLog
  BY <1>1, <1>2, <1>3, <1>4, <1>5, TakeLog DEF Queue, Writing
<1>6. CASE out' = [out EXCEPT !["writer"] = NoBatch] /\ UNCHANGED pending_work
  <2>1. out'["writer"] = NoBatch /\ out'["closer"] = out["closer"]
    BY <1>6, SafeTypes DEF Sound, Step
  <2>2. BatchOf("writer")' = << >>
    BY <2>1, ExtentsEmpty DEF BatchOf, NoBatch
  <2> QED
    BY <1>1, <1>2, <1>6, <2>1, <2>2 DEF SameLog, Accepted, BatchOf, Queue
<1> QED
  BY <1>1, <1>5, <1>6, WriterLoopCases

LEMMA JoinWriterLog ==
  ASSUME Sound, JoinWriter
  PROVE  SameLog
<1>1. disk' = disk /\ BeginWriteOut("closer", pending_work) /\ pc[Owner] = "join_writer"
      /\ writer \in {"exited", "none"}
  BY DEF JoinWriter, fileVars
<1>2. BatchOf("writer") = << >> /\ BatchOf("closer") = << >>
  BY <1>1, NothingInBatch DEF Sound, Step, SafeInv, Now, PhaseInv, BatchPhase
<1>3. PICK n \in 0..Len(pending_work) : Takes("closer", pending_work, n)
  BY <1>1, TakeEffect
<1> QED
  BY <1>1, <1>2, <1>3, SoundTypes, TakeLog DEF Queue, Writing

LEMMA OneExtent ==
  ASSUME NEW x \in ToCompress
  PROVE  ExtentsOf(<<x>>) = <<x.extent>> /\ <<x>> \in Seq(ToCompress) /\ Len(<<x>>) = 1
  BY DEF ExtentsOf

LEMMA PackIndexLog ==
  ASSUME Sound, PackIndex
  PROVE  SameLog /\ Queue = <<<<Index, nfiles>>>>
<1> DEFINE e == <<Index, nfiles>>
           y == [NewWork(e, NoStats) EXCEPT !.in_progress = TRUE]
<1>0. pc[Owner] = "pack_index" /\ disk' = disk
  BY DEF PackIndex
<1>1. PICK x : /\ IsItem(x, e, NoStats, FALSE, PackedSize[e]) /\ x \in ToCompress
               /\ \E n \in 0..1 : Takes("closer", <<x>>, n)
  BY PackIndexEffect DEF Sound, Step
<1>2. e \in Extents
  BY PackIndexSafe DEF Sound, Step
<1>3. pending_work = <<y>> /\ IsItem(y, e, NoStats, TRUE, 0) /\ y \in ToCompress
  BY <1>0, <1>2, IndexItem DEF Sound, Step, SafeInv, Now, PhaseInv, QueuePhase
<1> HIDE DEF y
<1>4. x.extent = e /\ y.extent = e
  BY <1>1, <1>3 DEF IsItem
<1>5. Queue = <<e>> /\ ExtentsOf(<<x>>) = <<e>> /\ <<x>> \in Seq(ToCompress)
  BY <1>1, <1>3, <1>4, OneExtent DEF Queue
<1>6. PICK n \in 0..1 : Takes("closer", <<x>>, n)
  BY <1>1
<1>7. n \in 0..Len(<<x>>)
  BY <1>6
<1>8. BatchOf("writer") = << >> /\ BatchOf("closer") = << >>
  BY <1>0, CloserAlone, NothingInBatch DEF Sound, Step
<1>9. SameLog
  BY <1>0, <1>5, <1>6, <1>7, <1>8, TakeLog DEF Writing
<1> QED
  BY <1>5, <1>9

LEMMA CloseIndexLog ==
  ASSUME Sound, CloseIndex
  PROVE  /\ Accepted' = Append(Accepted, <<Index, nfiles>>) /\ disk' = disk
         /\ Accepted = disk /\ <<Index, nfiles>> \in Extents
<1> DEFINE e == <<Index, nfiles>>
<1>1. PICK x : /\ IsItem(x, e, NoStats, TRUE, 0) /\ x \in ToCompress
               /\ pending_work = << >> /\ pending_work' = <<x>> /\ e \in Extents
               /\ out' = [out EXCEPT !["closer"] = NoBatch]
  BY CloseIndexEffect DEF Sound, Step
<1>2. /\ disk' = disk /\ pc[Owner] = "drain" /\ out["closer"].to_write = << >>
  BY DEF CloseIndex
<1>3. BatchOf("writer") = << >> /\ BatchOf("closer") = << >>
  BY <1>2, CloserAlone, NothingInBatch DEF Sound, Step
<1>4. BatchOf("writer")' = BatchOf("writer") /\ BatchOf("closer")' = << >>
  <2>1. out'["writer"] = out["writer"] /\ out'["closer"] = NoBatch
    BY <1>1, SafeTypes DEF Sound, Step
  <2> QED
    BY <2>1, ExtentsEmpty DEF BatchOf, NoBatch
<1>5. Queue = << >> /\ Queue' = <<e>>
  <2>1. x.extent = e
    BY <1>1 DEF IsItem
  <2> QED
    BY <1>1, <2>1, OneExtent, ExtentsEmpty DEF Queue
<1>6. Queue' = Append(Queue, e)
  BY <1>5
<1>7. Accepted' = Append(Accepted, e)
  BY <1>1, <1>2, <1>3, <1>4, <1>6, AcceptedAppend
<1>8. Accepted = disk
  BY <1>3, <1>5, BatchesEmpty, LogTypesNow, ConcatEmptySeq
<1> QED
  BY <1>1, <1>2, <1>7, <1>8

LEMMA SealLog ==
  ASSUME Sound, Seal
  PROVE  SameLog /\ Accepted = disk
<1>1. /\ pending_work = << >> /\ pending_work' = pending_work /\ disk' = disk
      /\ pc[Owner] = "write_index" /\ out["closer"].to_write = << >>
      /\ out' = [out EXCEPT !["closer"] = NoBatch]
  BY SealSafe DEF Seal, Sound, Step
<1>2. BatchOf("writer") = << >> /\ BatchOf("closer") = << >>
  BY <1>1, CloserAlone, NothingInBatch DEF Sound, Step
<1>3. BatchOf("writer")' = BatchOf("writer") /\ BatchOf("closer")' = << >>
  <2>1. out'["writer"] = out["writer"] /\ out'["closer"] = NoBatch
    BY <1>1, SafeTypes DEF Sound, Step
  <2> QED
    BY <2>1, ExtentsEmpty DEF BatchOf, NoBatch
<1>4. Queue = << >> /\ Queue' = Queue
  BY <1>1, ExtentsEmpty DEF Queue
<1>5. Accepted = disk
  BY <1>2, <1>4, BatchesEmpty, LogTypesNow, ConcatEmptySeq
<1> QED
  BY <1>1, <1>2, <1>3, <1>4, <1>5 DEF SameLog, Accepted

LEMMA OpenLog ==
  ASSUME Sound, Open
  PROVE  Accepted' = << >> /\ disk' = << >>
<1>1. pc[Owner] = "closed" /\ UNCHANGED <<pending_work, out>> /\ disk' = << >>
  BY DEF Open, queueVars
<1>2. pending_work = << >> /\ writer = "none"
  BY <1>1 DEF Sound, Step, SafeInv, Now, QueueInv, EmptyBetweenFiles, PhaseInv, ThreadPhase, WithoutWriter
<1>3. out["writer"] = NoBatch /\ out["closer"] = NoBatch
  BY <1>1, <1>2 DEF Sound, Step, SafeInv, Now, PhaseInv, BatchPhase
<1>4. BatchOf("writer")' = << >> /\ BatchOf("closer")' = << >> /\ Queue' = << >>
  BY <1>1, <1>2, <1>3, ExtentsEmpty DEF BatchOf, Queue, NoBatch
<1>5. Accepted' = Cat4(<< >>, << >>, << >>, << >>)
  BY <1>1, <1>4 DEF Accepted
<1>6. Cat4(<< >>, << >>, << >>, << >>) = << >>
  <2>1. << >> \in Seq(Extents)
    OBVIOUS
  <2>2. << >> \o << >> = << >>
    BY <2>1, ConcatEmptySeq
  <2> QED
    BY <2>2 DEF Cat4
<1> QED
  BY <1>1, <1>5, <1>6

----------------------------------------------------------------------------
\* What has been accepted: nothing before the type library, no index before the
\* close, and of a writer only what it has queued.

NoIndex(s) == \A i \in 1..Len(s) : s[i][1] # Index

Past(s, c) == \A i \in 1..Len(s) : s[i][1] \in Writers => s[i][2] <= c[s[i][1]]

NewTo(s, e) == \A i \in 1..Len(s) : s[i] # e

Late == {"pack_index", "write_index", "closed"}

LogInv == /\ pc[Owner] = "opened" => Accepted = << >>
          /\ pc[Owner] \notin Late => NoIndex(Accepted)
          /\ Past(Accepted, calls)

LEMMA ExtentParts ==
  ASSUME NEW e \in Extents
  PROVE  e[2] \in Nat /\ (e[1] \in Writers \/ e[1] = Library \/ e[1] = Index)
  BY SinkAssumption DEF Extents

LEMMA GrownLog ==
  ASSUME NEW s \in Seq(Extents), NEW e \in Extents, NEW c \in [Writers -> Nat],
         NEW d \in [Writers -> Nat], \A w \in Writers : d[w] >= c[w],
         e[1] \in Writers => e[2] <= d[e[1]], Past(s, c)
  PROVE  /\ NoIndex(s) /\ e[1] # Index => NoIndex(Append(s, e))
         /\ Past(Append(s, e), d)
<1>1. /\ Len(Append(s, e)) = Len(s) + 1 /\ Len(s) \in Nat
      /\ \A i \in 1..(Len(s) + 1) : Append(s, e)[i] = IF i = Len(s) + 1 THEN e ELSE s[i]
  BY AppendParts
<1>2. NoIndex(s) /\ e[1] # Index => NoIndex(Append(s, e))
  BY <1>1 DEF NoIndex
<1>3. ASSUME NEW i \in 1..(Len(s) + 1), Append(s, e)[i][1] \in Writers
      PROVE  Append(s, e)[i][2] <= d[Append(s, e)[i][1]]
  <2>1. CASE i = Len(s) + 1
    BY <1>1, <1>3, <2>1
  <2>2. CASE i # Len(s) + 1
    <3>1. i \in 1..Len(s) /\ Append(s, e)[i] = s[i] /\ s[i] \in Extents
      BY <1>1, <2>2
    <3>2. s[i][1] \in Writers
      BY <1>3, <3>1
    <3>3. s[i][2] <= c[s[i][1]] /\ s[i][2] \in Nat
      BY <3>1, <3>2, ExtentParts DEF Past
    <3>4. c[s[i][1]] \in Nat /\ d[s[i][1]] \in Nat /\ d[s[i][1]] >= c[s[i][1]]
      BY <3>2
    <3>5. s[i][2] <= d[s[i][1]]
      BY <3>3, <3>4
    <3> QED
      BY <3>1, <3>5
  <2> QED
    BY <2>1, <2>2
<1> QED
  BY <1>1, <1>2, <1>3 DEF Past

LEMMA PastLater ==
  ASSUME NEW s \in Seq(Extents), NEW c \in [Writers -> Nat],
         NEW d \in [Writers -> Nat], \A w \in Writers : d[w] >= c[w], Past(s, c)
  PROVE  Past(s, d)
<1> SUFFICES ASSUME NEW i \in 1..Len(s), s[i][1] \in Writers PROVE s[i][2] <= d[s[i][1]]
  BY DEF Past
<1>1. s[i] \in Extents
  OBVIOUS
<1>2. s[i][2] \in Nat /\ s[i][2] <= c[s[i][1]]
  BY <1>1, ExtentParts DEF Past
<1>3. c[s[i][1]] \in Nat /\ d[s[i][1]] \in Nat /\ d[s[i][1]] >= c[s[i][1]]
  OBVIOUS
<1> QED
  BY <1>2, <1>3

LEMMA CallTypesNow ==
  ASSUME Sound
  PROVE  calls \in [Writers -> Nat] /\ calls' \in [Writers -> Nat]
<1>1. TypeInv /\ TypeInv'
  BY DEF Sound, Step, SafeInv, Now
<1>2. calls \in [Writers -> 0..MaxCalls] /\ calls' \in [Writers -> 0..MaxCalls]
  BY <1>1 DEF TypeInv, TypeOK, ClientTypes
<1>3. 0..MaxCalls \subseteq Nat
  BY SinkAssumption
<1> QED
  BY <1>2, <1>3

\* How the owner goes on, in all steps but the first and the last on a file.
GoesOn == /\ pc'[Owner] = "closed" <=> pc[Owner] = "closed"
          /\ pc[Owner] \in Late => pc'[Owner] \in Late
          /\ pc'[Owner] = "opened" => pc[Owner] = "opened"

LEMMA OwnerGoesOn ==
  ASSUME Sound,
         \/ pc' = pc \/ pc' = QueueBroadcast \/ \E p, b : pc' = Notified(p, b)
         \/ \E w \in Writers : \E x : pc' = [pc EXCEPT ![w] = x]
         \/ /\ pc[Owner] \notin Late
            /\ \E x : x \notin {"closed", "opened"} /\ pc'[Owner] = x
         \/ pc[Owner] = "pack_index" /\ pc'[Owner] = "write_index"
  PROVE  GoesOn
<1>0. pc \in [Clients -> ClientPlaces] /\ Owner \in Clients /\ Owner \notin Writers
  BY SoundTypes, SinkAssumption
<1>1. CASE pc' = pc \/ pc' = QueueBroadcast \/ \E p, b : pc' = Notified(p, b)
  <2>1. \/ pc'[Owner] = pc[Owner]
        \/ pc[Owner] = "queue_wait" /\ pc'[Owner] = "queue_woken"
    BY <1>1, WokenOwner DEF Sound, Step, SafeInv, Now, PhaseInv
  <2> QED
    BY <2>1 DEF GoesOn, Late
<1>2. CASE \E w \in Writers : \E x : pc' = [pc EXCEPT ![w] = x]
  <2>1. pc'[Owner] = pc[Owner]
    BY <1>0, <1>2
  <2> QED
    BY <2>1 DEF GoesOn
<1> QED
  BY <1>1, <1>2 DEF GoesOn, Late

LEMMA QuietGoesOn ==
  ASSUME Sound, Next,
         \/ CloseBegin \/ MarkWroteLibrary \/ JoinCompressors \/ JoinWriter \/ PackIndex
         \/ WriterRun \/ WriterDone
         \/ \E c \in Clients : QueueWakeup(c)
         \/ \E t \in Compressors : CompressorRun(t) \/ Pack(t) \/ CompressorDone(t)
         \/ \E a \in Writing : WriteOut(a)
         \/ \E w \in Writers :
              \/ FlushPending(w) \/ FlushWakeup(w)
              \/ SetExtentWriteCallback(w) \/ RemoveStatsUpdate(w)
              \/ \E nbytes \in MaxBytesChoices : SetMaxBytesInProgress(w, nbytes)
  PROVE  GoesOn
<1>0. pc \in [Clients -> ClientPlaces] /\ Owner \in Clients
  BY SoundTypes
<1>1. CASE CloseBegin \/ MarkWroteLibrary \/ JoinCompressors \/ JoinWriter \/ PackIndex
  <2>1. \/ /\ pc[Owner] \notin Late
           /\ \E x : x \notin {"closed", "opened"} /\ pc'[Owner] = x
        \/ pc[Owner] = "pack_index" /\ pc'[Owner] = "write_index"
    BY <1>0, <1>1 DEF CloseBegin, MarkWroteLibrary, JoinCompressors, JoinWriter, PackIndex, Late
  <2> QED
    BY <2>1, OwnerGoesOn
<1>2. CASE WriterRun \/ WriterDone
  BY <1>2, OwnerGoesOn DEF WriterRun, WriterDone, NotifiedAfter, clientVars
<1>3. ASSUME NEW c \in Clients, QueueWakeup(c) PROVE GoesOn
  <2>1. CASE c = Owner
    <3>1. /\ pc[Owner] \notin Late
          /\ \E x : x \notin {"closed", "opened"} /\ pc'[Owner] = x
      BY <1>0, <1>3, <2>1 DEF QueueWakeup, Return, Late
    <3> QED
      BY <3>1, OwnerGoesOn
  <2>2. CASE c # Owner
    <3>1. c \in Writers /\ \E x : pc' = [pc EXCEPT ![c] = x]
      BY <1>3, <2>2 DEF QueueWakeup, Clients
    <3> QED
      BY <3>1, OwnerGoesOn
  <2> QED
    BY <2>1, <2>2
<1>4. ASSUME NEW t \in Compressors, CompressorRun(t) \/ Pack(t) \/ CompressorDone(t) PROVE GoesOn
  <2>1. pc' = pc \/ \E p, b : pc' = Notified(p, b)
    BY <1>4 DEF CompressorRun, Pack, CompressorDone, clientVars
  <2> QED
    BY <2>1, OwnerGoesOn
<1>5. ASSUME NEW a \in Writing, WriteOut(a) PROVE GoesOn
  BY <1>5, OwnerGoesOn DEF WriteOut, clientVars
<1>6. ASSUME NEW w \in Writers,
             \/ FlushPending(w) \/ FlushWakeup(w)
             \/ SetExtentWriteCallback(w) \/ RemoveStatsUpdate(w)
             \/ \E nbytes \in MaxBytesChoices : SetMaxBytesInProgress(w, nbytes)
      PROVE  GoesOn
  <2>1. pc' = pc \/ pc' = QueueBroadcast \/ \E x : pc' = [pc EXCEPT ![w] = x]
    BY <1>6 DEF FlushPending, FlushWakeup, FlushTest, SetExtentWriteCallback, RemoveStatsUpdate,
       SetMaxBytesInProgress
  <2> QED
    BY <2>1, OwnerGoesOn
<1> QED
  BY <1>1, <1>2, <1>3, <1>4, <1>5, <1>6

LEMMA CallsGrow ==
  ASSUME Sound, Next
  PROVE  \A w \in Writers : calls'[w] >= calls[w]
<1>1. calls' = calls \/ \E u \in Writers : calls' = [calls EXCEPT ![u] = @ + 1]
  BY NextCases DEF Open, CloseBegin, QueueLibrary, MarkWroteLibrary, JoinCompressors, JoinWriter,
     CloseIndex, PackIndex, Seal, WriterRun, WriterDone, WriteOut, QueueWakeup, CompressorRun, Pack,
     CompressorDone, WriteExtent, FlushPending, FlushWakeup, SetExtentWriteCallback,
     RemoveStatsUpdate, SetMaxBytesInProgress, Call, clientVars, vars
<1>2. calls \in [Writers -> Nat]
  BY CallTypesNow
<1> QED
  BY <1>1, <1>2, SMTT(30)

\* An extent is accepted.
Adds(e) == /\ Accepted' = Append(Accepted, e) /\ disk' = disk /\ e \in Extents
           /\ NewTo(Accepted, e)
           /\ pc[Owner] # "closed" /\ pc'[Owner] # "closed"

LEMMA LibraryAdds ==
  ASSUME Sound, Next, LogInv, QueueLibrary
  PROVE  Adds(<<Library, nfiles>>) /\ LogInv'
<1> DEFINE e == <<Library, nfiles>>
<1>0. pc \in [Clients -> ClientPlaces] /\ Owner \in Clients
  BY SoundTypes
<1>1. Appends(e, NoStats) /\ UNCHANGED calls
  BY QueueLibraryEffect DEF Sound, Step, SafeInv, Now
<1>2. /\ pc[Owner] = "opened" /\ pc'[Owner] # "opened" /\ pc'[Owner] # "closed"
  BY <1>0 DEF QueueLibrary, queueWriteExtent, Return
<1>3. Accepted' = Append(Accepted, e) /\ disk' = disk /\ e \in Extents
  BY <1>1, AppendLog DEF Appends
<1>4. e[1] # Index /\ e[1] \notin Writers
  BY SinkAssumption
<1>5. Accepted = << >> /\ Past(Accepted, calls) /\ NoIndex(Accepted) /\ NewTo(Accepted, e)
  BY <1>2 DEF LogInv, NoIndex, NewTo
<1> HIDE DEF e
<1>6. Accepted \in Seq(Extents) /\ calls \in [Writers -> Nat] /\ calls' \in [Writers -> Nat]
  BY LogTypesNow, CallTypesNow
<1>7. \A w \in Writers : calls'[w] >= calls[w]
  BY CallsGrow
<1>8. NoIndex(Append(Accepted, e)) /\ Past(Append(Accepted, e), calls')
  BY <1>3, <1>4, <1>5, <1>6, <1>7, GrownLog
<1>9. LogInv'
  BY <1>2, <1>3, <1>8 DEF LogInv, NoIndex, Past
<1> QED
  BY <1>2, <1>3, <1>5, <1>9 DEF Adds, e

LEMMA WriterAdds ==
  ASSUME Sound, Next, LogInv, NEW w \in Writers, WriteExtent(w)
  PROVE  Adds(<<w, calls[w] + 1>>) /\ LogInv'
<1> DEFINE e == <<w, calls[w] + 1>>
<1>0. pc \in [Clients -> ClientPlaces] /\ Owner \in Clients /\ w # Owner
  BY SoundTypes, SinkAssumption
<1>1. Appends(e, w) /\ calls' = [calls EXCEPT ![w] = @ + 1] /\ pc[Owner] = "idle"
  BY WriteExtentEffect DEF Sound, Step, SafeInv, Now
<1>2. pc'[Owner] = "idle"
  BY <1>0, <1>1 DEF WriteExtent, queueWriteExtent
<1>3. Accepted' = Append(Accepted, e) /\ disk' = disk /\ e \in Extents
  BY <1>1, AppendLog DEF Appends
<1>4. Accepted \in Seq(Extents) /\ calls \in [Writers -> Nat] /\ calls' \in [Writers -> Nat]
  BY LogTypesNow, CallTypesNow
<1>5. e[1] # Index /\ e[1] = w /\ e[2] = calls[w] + 1 /\ calls'[w] = calls[w] + 1
  BY <1>1, <1>4, SinkAssumption
<1>6. Past(Accepted, calls) /\ NoIndex(Accepted)
  BY <1>1 DEF LogInv, Late
<1>7. NewTo(Accepted, e)
  <2> SUFFICES ASSUME NEW i \in 1..Len(Accepted), Accepted[i] = e PROVE FALSE
    BY DEF NewTo
  <2>1. Accepted[i][1] = w /\ Accepted[i][2] = calls[w] + 1
    BY <1>5
  <2>2. calls[w] + 1 <= calls[w]
    BY <1>6, <2>1 DEF Past
  <2> QED
    BY <1>4, <2>2
<1> HIDE DEF e
<1>8. \A u \in Writers : calls'[u] >= calls[u]
  BY CallsGrow
<1>9. e[1] \in Writers => e[2] <= calls'[e[1]]
  BY <1>4, <1>5
<1>10. NoIndex(Append(Accepted, e)) /\ Past(Append(Accepted, e), calls')
  BY <1>3, <1>4, <1>5, <1>6, <1>8, <1>9, GrownLog
<1>11. LogInv'
  BY <1>2, <1>3, <1>10 DEF LogInv, NoIndex, Past
<1> QED
  BY <1>1, <1>2, <1>3, <1>7, <1>11 DEF Adds, e

LEMMA IndexAdds ==
  ASSUME Sound, Next, LogInv, CloseIndex
  PROVE  Adds(<<Index, nfiles>>) /\ LogInv'
<1> DEFINE e == <<Index, nfiles>>
<1>0. pc \in [Clients -> ClientPlaces] /\ Owner \in Clients
  BY SoundTypes
<1>1. Accepted' = Append(Accepted, e) /\ disk' = disk /\ e \in Extents
  BY CloseIndexLog
<1>2. pc[Owner] = "drain" /\ pc'[Owner] = "pack_index"
  <2>1. NotifiedAfter("closer") \in [Clients -> ClientPlaces]
    BY WokenPhase DEF Sound, Step, SafeInv, Now, NotifiedAfter
  <2> QED
    BY <1>0, <2>1 DEF CloseIndex
<1>3. e[1] = Index /\ e[1] \notin Writers
  BY SinkAssumption
<1>4. Past(Accepted, calls) /\ NoIndex(Accepted)
  BY <1>2 DEF LogInv, Late
<1>5. NewTo(Accepted, e)
  <2> SUFFICES ASSUME NEW i \in 1..Len(Accepted), Accepted[i] = e PROVE FALSE
    BY DEF NewTo
  <2>1. Accepted[i][1] = Index
    BY <1>3
  <2> QED
    BY <1>4, <2>1 DEF NoIndex
<1> HIDE DEF e
<1>6. Accepted \in Seq(Extents) /\ calls \in [Writers -> Nat] /\ calls' \in [Writers -> Nat]
  BY LogTypesNow, CallTypesNow
<1>7. \A w \in Writers : calls'[w] >= calls[w]
  BY CallsGrow
<1>8. Past(Append(Accepted, e), calls')
  BY <1>1, <1>3, <1>4, <1>6, <1>7, GrownLog
<1>9. LogInv'
  BY <1>1, <1>2, <1>8 DEF LogInv, Late, Past
<1> QED
  BY <1>1, <1>2, <1>5, <1>9 DEF Adds, e

\* A step that accepts nothing.
LEMMA SameLogInv ==
  ASSUME Sound, Next, LogInv, Accepted' = Accepted, GoesOn \/ pc'[Owner] = "closed"
  PROVE  LogInv'
<1>1. Accepted \in Seq(Extents) /\ calls \in [Writers -> Nat] /\ calls' \in [Writers -> Nat]
  BY LogTypesNow, CallTypesNow
<1>2. Past(Accepted, calls')
  BY <1>1, CallsGrow, PastLater DEF LogInv
<1>3. pc'[Owner] = "opened" => Accepted = << >>
  BY DEF LogInv, GoesOn
<1>4. pc'[Owner] \notin Late => NoIndex(Accepted)
  BY DEF LogInv, GoesOn, Late
<1> QED
  BY <1>2, <1>3, <1>4 DEF LogInv, NoIndex, Past

----------------------------------------------------------------------------
\* What a step does to the log.

LogMoves == \/ /\ pc[Owner] = "closed" /\ pc'[Owner] # "closed"
               /\ Accepted' = << >> /\ disk' = << >>
            \/ \E e : Adds(e)
            \/ /\ pc'[Owner] = "closed" <=> pc[Owner] = "closed"
               /\ Persists
            \/ /\ pc[Owner] # "closed" /\ pc'[Owner] = "closed"
               /\ SameLog /\ Accepted = disk
            \/ /\ pc'[Owner] = "closed" <=> pc[Owner] = "closed"
               /\ SameLog

LEMMA QuietMoves ==
  ASSUME Sound, Next, LogInv,
         \/ CloseBegin \/ MarkWroteLibrary \/ JoinCompressors \/ JoinWriter \/ PackIndex
         \/ WriterRun \/ WriterDone
         \/ \E c \in Clients : QueueWakeup(c)
         \/ \E t \in Compressors : CompressorRun(t) \/ Pack(t) \/ CompressorDone(t)
         \/ \E w \in Writers :
              \/ FlushPending(w) \/ FlushWakeup(w)
              \/ SetExtentWriteCallback(w) \/ RemoveStatsUpdate(w)
              \/ \E nbytes \in MaxBytesChoices : SetMaxBytesInProgress(w, nbytes)
  PROVE  LogMoves /\ LogInv'
<1>1. SameLog
  <2>1. CASE WriterRun \/ WriterDone
    BY <2>1, WriterLog
  <2>2. CASE JoinWriter
    BY <2>2, JoinWriterLog
  <2>3. CASE PackIndex
    BY <2>3, PackIndexLog
  <2>4. CASE \E t \in Compressors : CompressorRun(t) \/ Pack(t) \/ CompressorDone(t)
    BY <2>4, QuietLog
  <2>5. CASE \E w \in Writers : RemoveStatsUpdate(w)
    BY <2>5, QuietLog
  <2>6. CASE \/ CloseBegin \/ MarkWroteLibrary \/ JoinCompressors
             \/ \E c \in Clients : QueueWakeup(c)
             \/ \E w \in Writers :
                  \/ FlushPending(w) \/ FlushWakeup(w) \/ SetExtentWriteCallback(w)
                  \/ \E nbytes \in MaxBytesChoices : SetMaxBytesInProgress(w, nbytes)
    <3>1. Keeps
      BY <2>6, KeepsEffect
    <3> QED
      BY <3>1, QuietLog
  <2> QED
    BY <2>1, <2>2, <2>3, <2>4, <2>5, <2>6
<1>2. GoesOn
  BY QuietGoesOn
<1>3. LogInv'
  BY <1>1, <1>2, SameLogInv DEF SameLog
<1> QED
  BY <1>1, <1>2, <1>3 DEF LogMoves, GoesOn

LEMMA LogCases ==
  ASSUME Sound, Next, LogInv
  PROVE  LogMoves /\ LogInv'
<1>0. pc \in [Clients -> ClientPlaces] /\ Owner \in Clients
  BY SoundTypes
<1>1. CASE Open
  <2>1. Accepted' = << >> /\ disk' = << >>
    BY <1>1, OpenLog
  <2>2. pc[Owner] = "closed" /\ pc'[Owner] = "opened"
    BY <1>0, <1>1 DEF Open
  <2> QED
    BY <2>1, <2>2 DEF LogMoves, LogInv, NoIndex, Past
<1>2. CASE QueueLibrary
  BY <1>2, LibraryAdds DEF LogMoves
<1>3. ASSUME NEW w \in Writers, WriteExtent(w) PROVE LogMoves /\ LogInv'
  BY <1>3, WriterAdds DEF LogMoves
<1>4. CASE CloseIndex
  BY <1>4, IndexAdds DEF LogMoves
<1>5. ASSUME NEW a \in Writing, WriteOut(a) PROVE LogMoves /\ LogInv'
  <2>1. Persists
    BY <1>5, WriteOutLog
  <2>2. GoesOn
    BY <1>5, QuietGoesOn
  <2>3. LogInv'
    BY <2>1, <2>2, SameLogInv DEF Persists
  <2> QED
    BY <2>1, <2>2, <2>3 DEF LogMoves, GoesOn
<1>6. CASE Seal
  <2>1. SameLog /\ Accepted = disk
    BY <1>6, SealLog
  <2>2. pc[Owner] = "write_index" /\ pc'[Owner] = "closed"
    <3>1. NotifiedAfter("closer") \in [Clients -> ClientPlaces]
      BY WokenPhase DEF Sound, Step, SafeInv, Now, NotifiedAfter
    <3> QED
      BY <1>0, <1>6, <3>1 DEF Seal
  <2>3. LogInv'
    BY <2>1, <2>2, SameLogInv DEF SameLog
  <2> QED
    BY <2>1, <2>2, <2>3 DEF LogMoves
<1>7. CASE UNCHANGED vars
  <2>1. Keeps /\ pc' = pc
    BY <1>7, KeepsEffect DEF vars, clientVars
  <2>2. SameLog
    BY <2>1, QuietLog
  <2>3. GoesOn
    BY <2>1, OwnerGoesOn
  <2>4. LogInv'
    BY <2>2, <2>3, SameLogInv DEF SameLog
  <2> QED
    BY <2>1, <2>2, <2>4 DEF LogMoves
<1> QED
  BY <1>1, <1>2, <1>3, <1>4, <1>5, <1>6, <1>7, QuietMoves, NextCases

----------------------------------------------------------------------------
\* The log's own actions, of what the sink has accepted.

LEMMA LogActions ==
  /\ Log!Init <=> Accepted = << >> /\ disk = << >> /\ (cur_offset > 0) = FALSE
  /\ Log!Start <=> /\ ~(cur_offset > 0)
                   /\ Accepted' = << >> /\ disk' = << >>
                   /\ (cur_offset' > 0) = TRUE
  /\ \A e : Log!Accept(e) <=> /\ cur_offset > 0
                              /\ NewTo(Accepted, e)
                              /\ Accepted' = Append(Accepted, e)
                              /\ disk' = disk /\ (cur_offset' > 0) = (cur_offset > 0)
  /\ Log!Persist <=> /\ Len(disk) < Len(Accepted)
                     /\ disk' = Append(disk, Accepted[Len(disk) + 1])
                     /\ Accepted' = Accepted /\ (cur_offset' > 0) = (cur_offset > 0)
  /\ Log!Finish <=> /\ cur_offset > 0
                    /\ disk = Accepted
                    /\ (cur_offset' > 0) = FALSE
                    /\ Accepted' = Accepted /\ disk' = disk
<1>1. Log!Init <=> Accepted = << >> /\ disk = << >> /\ (cur_offset > 0) = FALSE
  BY DEF Log!Init, Accepted, Cat4, BatchOf, Queue
<1>2. Log!Start <=> /\ ~(cur_offset > 0)
                    /\ Accepted' = << >> /\ disk' = << >>
                    /\ (cur_offset' > 0) = TRUE
  BY DEF Log!Start, Accepted, Cat4, BatchOf, Queue
<1>3. \A e : Log!Accept(e) <=> /\ cur_offset > 0
                               /\ NewTo(Accepted, e)
                               /\ Accepted' = Append(Accepted, e)
                               /\ disk' = disk /\ (cur_offset' > 0) = (cur_offset > 0)
  BY DEF Log!Accept, NewTo, Accepted, Cat4, BatchOf, Queue
<1>4. Log!Persist <=> /\ Len(disk) < Len(Accepted)
                      /\ disk' = Append(disk, Accepted[Len(disk) + 1])
                      /\ Accepted' = Accepted /\ (cur_offset' > 0) = (cur_offset > 0)
  BY DEF Log!Persist, Accepted, Cat4, BatchOf, Queue
<1>5. Log!Finish <=> /\ cur_offset > 0
                     /\ disk = Accepted
                     /\ (cur_offset' > 0) = FALSE
                     /\ Accepted' = Accepted /\ disk' = disk
  BY DEF Log!Finish, Accepted, Cat4, BatchOf, Queue
<1> QED
  BY <1>1, <1>2, <1>3, <1>4, <1>5

LEMMA OpenIs ==
  ASSUME Sound
  PROVE  /\ (cur_offset > 0) = (pc[Owner] # "closed")
         /\ (cur_offset' > 0) = (pc'[Owner] # "closed")
<1>1. cur_offset \in Int /\ cur_offset' \in Int
  BY LogTypesNow
<1>2. /\ pc[Owner] = "closed" => cur_offset = -1
      /\ pc[Owner] # "closed" => cur_offset > 0
      /\ pc'[Owner] = "closed" => cur_offset' = -1
      /\ pc'[Owner] # "closed" => cur_offset' > 0
  BY SoundTypes DEF OwnerPhase
<1> QED
  BY <1>1, <1>2

LogVars == Log!vars = <<Accepted, disk, cur_offset > 0>>

LEMMA LogVarsAre == LogVars
  BY LogIs DEF LogVars

LEMMA LogUnchanged ==
  ASSUME Accepted' = Accepted, disk' = disk, (cur_offset' > 0) = (cur_offset > 0)
  PROVE  UNCHANGED Log!vars
<1>1. LogVars /\ LogVars'
  BY LogVarsAre, PTL
<1> QED
  BY <1>1 DEF LogVars

LEMMA LogStep == SafeInv /\ LogInv /\ SafeInv' /\ [Next]_vars => LogInv' /\ [Log!Next]_(Log!vars)
<1> SUFFICES ASSUME SafeInv, LogInv, SafeInv', [Next]_vars
             PROVE  LogInv' /\ [Log!Next]_(Log!vars)
  OBVIOUS
<1>1. CASE UNCHANGED vars
  <2>1. UNCHANGED <<pc, calls, disk, cur_offset, out, pending_work>>
    BY <1>1 DEF vars, clientVars, fileVars, queueVars
  <2>2. Accepted' = Accepted
    BY <2>1 DEF Accepted, BatchOf, Queue
  <2>3. LogInv'
    BY <2>1, <2>2 DEF LogInv, NoIndex, Past
  <2>4. UNCHANGED Log!vars
    BY <2>1, <2>2, LogUnchanged
  <2> QED
    BY <2>3, <2>4
<1>2. CASE Next
  <2>0. Sound
    BY <1>2, StepHolds DEF Sound
  <2>1. LogMoves /\ LogInv'
    BY <1>2, <2>0, LogCases
  <2>2. /\ (cur_offset > 0) = (pc[Owner] # "closed")
        /\ (cur_offset' > 0) = (pc'[Owner] # "closed")
    BY <2>0, OpenIs
  <2>3. CASE /\ pc[Owner] = "closed" /\ pc'[Owner] # "closed"
             /\ Accepted' = << >> /\ disk' = << >>
    <3>1. Log!Start
      BY <2>2, <2>3, LogActions
    <3> QED
      BY <2>1, <3>1 DEF Log!Next
  <2>4. ASSUME NEW e, Adds(e) PROVE [Log!Next]_(Log!vars)
    <3>1. Log!Accept(e) /\ e \in Extents
      BY <2>2, <2>4, LogActions DEF Adds
    <3> QED
      BY <3>1 DEF Log!Next
  <2>5. CASE /\ pc'[Owner] = "closed" <=> pc[Owner] = "closed"
             /\ Persists
    <3>1. Log!Persist
      BY <2>2, <2>5, LogActions DEF Persists
    <3> QED
      BY <2>1, <3>1 DEF Log!Next
  <2>6. CASE /\ pc[Owner] # "closed" /\ pc'[Owner] = "closed"
             /\ SameLog /\ Accepted = disk
    <3>1. Log!Finish
      BY <2>2, <2>6, LogActions DEF SameLog
    <3> QED
      BY <2>1, <3>1 DEF Log!Next
  <2>7. CASE /\ pc'[Owner] = "closed" <=> pc[Owner] = "closed"
             /\ SameLog
    <3>1. Accepted' = Accepted /\ disk' = disk /\ (cur_offset' > 0) = (cur_offset > 0)
      BY <2>2, <2>7 DEF SameLog
    <3>2. UNCHANGED Log!vars
      BY <3>1, LogUnchanged
    <3> QED
      BY <2>1, <3>2
  <2> QED
    BY <2>1, <2>3, <2>4, <2>5, <2>6, <2>7 DEF LogMoves
<1> QED
  BY <1>1, <1>2

LEMMA LogInit == Init => LogInv /\ Log!Init
<1> SUFFICES ASSUME Init PROVE LogInv /\ Log!Init
  OBVIOUS
<1>1. /\ disk = << >> /\ pending_work = << >> /\ cur_offset = -1
      /\ out["writer"] = NoBatch /\ out["closer"] = NoBatch
  BY DEF Init, Writing
<1>2. BatchOf("writer") = << >> /\ BatchOf("closer") = << >> /\ Queue = << >>
  BY <1>1, ExtentsEmpty DEF BatchOf, Queue, NoBatch
<1>3. Accepted = << >>
  <2>1. << >> \in Seq(Extents)
    OBVIOUS
  <2>2. << >> \o << >> = << >>
    BY <2>1, ConcatEmptySeq
  <2> QED
    BY <1>1, <1>2, <2>2 DEF Accepted, Cat4
<1>4. ~(cur_offset > 0)
  BY <1>1
<1> QED
  BY <1>1, <1>3, <1>4, LogActions DEF LogInv, NoIndex, Past

\* The sink implements the log: whatever its threads do, extents get into the
\* file one by one in the order in which queueWriteExtent took them, each once
\* (writeOutPending takes the ready extents off the front of the queue only and
\* the next batch waits for this one), nothing is dropped when close() drains
\* the pipeline, and the file is sealed with all of them in it.
THEOREM SinkImplementsLog == ASSUME Compressors # {} PROVE Spec => ImplementsLog
<1>1. Init => LogInv /\ Log!Init
  BY LogInit
<1>2. SafeInv /\ LogInv /\ SafeInv' /\ [Next]_vars => LogInv' /\ [Log!Next]_(Log!vars)
  BY LogStep
<1> QED
  BY <1>1, <1>2, SafeAlways, PTL DEF Spec, ImplementsLog, Log!Spec

----------------------------------------------------------------------------
\* The index of a file d

Entry(e, o) == [extent |-> e, offset |-> o]

\* Where its i-th extent starts, and where the next one will.
At(d, i) == HeaderSize + Total([j \in 1..(i - 1) |-> PackedSize[d[j]]])

Placed(d) == HeaderSize + Weight(PackedSize, d)

\* Its index.
Listed(d) == [i \in 1..Len(d) |-> Entry(d[i], At(d, i))]

LEMMA PositionsAre ==
  /\ \A i : PositionOf(i) = At(disk, i)
  /\ Entries(Len(disk)) = Listed(disk)
  BY DEF PositionOf, At, Entries, Listed, Entry

LEMMA PlacedIs ==
  ASSUME NEW d \in Seq(Extents)
  PROVE  At(d, Len(d) + 1) = Placed(d)
<1>1. (Len(d) + 1) - 1 = Len(d)
  OBVIOUS
<1> QED
  BY <1>1 DEF At, Placed, Weight

LEMMA EmptyFile == Listed(<< >>) = << >> /\ Placed(<< >>) = HeaderSize
<1>1. Listed(<< >>) = << >>
  BY DEF Listed
<1>2. HeaderSize \in Nat /\ Weight(PackedSize, << >>) = 0
  BY WeightEmpty DEF HeaderSize
<1> QED
  BY <1>1, <1>2 DEF Placed

\* An extent at the end of a file starts where the file ended.
LEMMA GrownFile ==
  ASSUME NEW d \in Seq(Extents), NEW e \in Extents
  PROVE  /\ Placed(Append(d, e)) = Placed(d) + PackedSize[e]
         /\ Listed(Append(d, e)) = Append(Listed(d), Entry(e, Placed(d)))
         /\ Len(Append(d, e)) = Len(d) + 1 /\ Append(d, e)[Len(d) + 1] = e
         /\ At(Append(d, e), Len(d) + 1) = Placed(d)
<1> DEFINE g == Append(d, e)
           n == Len(d)
<1>1. /\ g \in Seq(Extents) /\ Len(g) = n + 1 /\ n \in Nat
      /\ \A i \in 1..(n + 1) : g[i] = IF i = n + 1 THEN e ELSE d[i]
  BY AppendParts
<1>2. \A x \in Extents : PackedSize[x] \in Int
  BY SinkAssumption
<1>3. Weight(PackedSize, g) = Weight(PackedSize, d) + PackedSize[e] /\ Weight(PackedSize, d) \in Int
  BY <1>2, WeightAppend, WeightsType
<1>4. Placed(g) = Placed(d) + PackedSize[e]
  BY <1>2, <1>3 DEF Placed, HeaderSize
<1>5. \A i \in 1..(n + 1) : At(g, i) = At(d, i)
  <2> SUFFICES ASSUME NEW i \in 1..(n + 1) PROVE At(g, i) = At(d, i)
    OBVIOUS
  <2>1. [j \in 1..(i - 1) |-> PackedSize[g[j]]] = [j \in 1..(i - 1) |-> PackedSize[d[j]]]
    BY <1>1
  <2> QED
    BY <2>1 DEF At
<1>6. At(g, n + 1) = Placed(d)
  BY <1>1, <1>5, PlacedIs
<1>7. Listed(g) = Append(Listed(d), Entry(e, Placed(d)))
  <2> DEFINE s == Listed(d)
             l == Listed(g)
             x == Entry(e, Placed(d))
             T == {s[i] : i \in 1..n} \cup {x}
             t == Append(s, x)
  <2>1. Len(s) = n /\ \A i \in 1..n : s[i] = Entry(d[i], At(d, i))
    BY <1>1 DEF Listed
  <2>2. s \in Seq(T) /\ x \in T
    BY <1>1 DEF Listed
  <2>3. Len(l) = n + 1 /\ \A i \in 1..(n + 1) : l[i] = Entry(g[i], At(g, i))
    BY <1>1 DEF Listed
  <2>4. \A i \in 1..(n + 1) : l[i] = IF i = n + 1 THEN x ELSE s[i]
    <3> HIDE DEF g, s, l
    <3> QED
      BY <1>1, <1>5, <1>6, <2>1, <2>3
  <2>5. l = [i \in 1..(n + 1) |-> l[i]]
    BY <1>1 DEF Listed
  <2> HIDE DEF g, s, x, l, T
  <2>6. t \in Seq(T) /\ Len(t) = n + 1
        /\ \A i \in 1..(n + 1) : t[i] = IF i = n + 1 THEN x ELSE s[i]
    BY <1>1, <2>1, <2>2, AppendProperties
  <2>7. l \in Seq(T)
    <3>1. \A i \in 1..(n + 1) : l[i] \in T
      <4> SUFFICES ASSUME NEW i \in 1..(n + 1) PROVE l[i] \in T
        OBVIOUS
      <4>1. CASE i = n + 1
        BY <2>2, <2>4, <4>1
      <4>2. CASE i # n + 1
        <5>1. i \in 1..Len(s)
          BY <1>1, <2>1, <4>2
        <5> QED
          BY <2>2, <2>4, <4>2, <5>1
      <4> QED
        BY <4>1, <4>2
    <3> QED
      BY <1>1, <2>3, <2>5, <3>1
  <2> HIDE DEF t
  <2>8. \A i \in 1..(n + 1) : l[i] = t[i]
    BY <2>4, <2>6
  <2>9. l = t
    BY <2>3, <2>6, <2>7, <2>8
  <2> QED
    BY <2>9 DEF l, t, g, s, x
<1> QED
  BY <1>1, <1>4, <1>6, <1>7

----------------------------------------------------------------------------
\* The index, from the opening of a file to its tail

Listing == Accepting \cup {"join_compressors", "join_writer", "drain"}

IndexName == <<Index, nfiles>>

IndexUpToDate == index_series = Listed(disk) /\ cur_offset = Placed(disk)

IndexPacking == /\ index_series = Append(Listed(disk), Entry(IndexName, cur_offset))
                /\ cur_offset = Placed(disk)
                /\ closing.index_offset = cur_offset

\* The index waits to be written, and has been written.
IndexPending == /\ Len(out["closer"].to_write) = 1
                /\ Head(out["closer"].to_write).extent = IndexName
                /\ cur_offset = Placed(disk)
                /\ closing.index_offset = cur_offset
                /\ closing.packed_size = PackedSize[IndexName]
                /\ packed_index = Append(Listed(disk), Entry(IndexName, cur_offset))

LeadsToIndex(c) == /\ Len(disk) > 0
                   /\ packed_index = Listed(disk)
                   /\ disk[Len(disk)] = IndexName
                   /\ c.index_offset = At(disk, Len(disk))
                   /\ c.packed_size = PackedSize[IndexName]

IndexWritten == out["closer"].to_write = << >> /\ LeadsToIndex(closing)

IndexInv ==
  /\ pc[Owner] \in Listing => IndexUpToDate
  /\ pc[Owner] = "pack_index" => IndexPacking
  /\ pc[Owner] = "write_index" => IndexPending \/ IndexWritten
  /\ pc[Owner] # "closed" => tail = NoTail
  /\ tail # NoTail => LeadsToIndex(tail)

IndexVars == <<cur_offset, index_series, nfiles, disk, packed_index, closing, tail>>

LEMMA IndexInvMeans ==
  ASSUME SafeInv, IndexInv
  PROVE  IndexMatchesFile
<1>1. disk \in Seq(Extents)
  BY SafeTypes
<1>2. PositionOf(Len(disk) + 1) = Placed(disk) /\ PositionOf(Len(disk)) = At(disk, Len(disk))
      /\ Entries(Len(disk)) = Listed(disk)
  BY <1>1, PositionsAre, PlacedIs
<1>3. pc[Owner] \in {"idle", "join_compressors", "join_writer", "drain"} =>
        /\ index_series = Entries(Len(disk))
        /\ cur_offset = PositionOf(Len(disk) + 1)
  BY <1>2 DEF IndexInv, Listing, Accepting, IndexUpToDate
<1>4. tail # NoTail => /\ packed_index = Entries(Len(disk))
                       /\ disk[Len(disk)] = <<Index, nfiles>>
                       /\ tail.index_offset = PositionOf(Len(disk))
                       /\ tail.packed_size = PackedSize[disk[Len(disk)]]
  BY <1>2 DEF IndexInv, LeadsToIndex, IndexName
<1> QED
  BY <1>3, <1>4 DEF IndexMatchesFile

LEMMA IndexInit == Init => IndexInv
<1> SUFFICES ASSUME Init PROVE IndexInv
  OBVIOUS
<1>1. pc[Owner] = "closed" /\ tail = NoTail
  BY DEF Init, Clients
<1> QED
  BY <1>1 DEF IndexInv, Listing, Accepting, Opening

\* Steps that leave the index, and the owner's place, as they are.
IndexKept == /\ UNCHANGED IndexVars
             /\ \/ pc'[Owner] = pc[Owner]
                \/ pc[Owner] \in Listing /\ pc'[Owner] \in Listing
             /\ pc[Owner] = "write_index" => out'["closer"] = out["closer"]

LEMMA SameIndex ==
  ASSUME IndexInv, IndexKept
  PROVE  IndexInv'
<1>1. UNCHANGED <<cur_offset, index_series, nfiles, disk, packed_index, closing, tail>>
  BY DEF IndexKept, IndexVars
<1>2. /\ pc'[Owner] \in Listing <=> pc[Owner] \in Listing
      /\ pc'[Owner] = "pack_index" <=> pc[Owner] = "pack_index"
      /\ pc'[Owner] = "write_index" <=> pc[Owner] = "write_index"
      /\ pc'[Owner] = "closed" <=> pc[Owner] = "closed"
  BY DEF IndexKept, Listing, Accepting, Opening
<1>3. /\ IndexUpToDate' = IndexUpToDate /\ IndexPacking' = IndexPacking
      /\ LeadsToIndex(closing)' = LeadsToIndex(closing)
      /\ LeadsToIndex(tail)' = LeadsToIndex(tail)
  BY <1>1 DEF IndexUpToDate, IndexPacking, LeadsToIndex, IndexName
<1>4. pc[Owner] = "write_index" => IndexPending' = IndexPending /\ IndexWritten' = IndexWritten
  BY <1>1, <1>3 DEF IndexKept, IndexPending, IndexWritten, IndexName
<1> QED
  BY <1>1, <1>2, <1>3, <1>4 DEF IndexInv

LEMMA OwnerKept ==
  ASSUME Sound, UNCHANGED IndexVars,
         pc[Owner] = "write_index" => out'["closer"] = out["closer"],
         \/ pc' = pc \/ pc' = QueueBroadcast \/ \E p, b : pc' = Notified(p, b)
         \/ \E w \in Writers : \E x : pc' = [pc EXCEPT ![w] = x]
         \/ pc[Owner] \in Listing /\ pc'[Owner] \in Listing
  PROVE  IndexKept
<1>0. pc \in [Clients -> ClientPlaces] /\ Owner \in Clients /\ Owner \notin Writers
  BY SoundTypes, SinkAssumption
<1>1. CASE pc' = pc \/ pc' = QueueBroadcast \/ \E p, b : pc' = Notified(p, b)
  <2>1. \/ pc'[Owner] = pc[Owner]
        \/ pc[Owner] = "queue_wait" /\ pc'[Owner] = "queue_woken"
    BY <1>1, WokenOwner DEF Sound, Step, SafeInv, Now, PhaseInv
  <2> QED
    BY <2>1 DEF IndexKept, Listing, Accepting, Opening
<1>2. CASE \E w \in Writers : \E x : pc' = [pc EXCEPT ![w] = x]
  <2>1. pc'[Owner] = pc[Owner]
    BY <1>0, <1>2
  <2> QED
    BY <2>1 DEF IndexKept
<1> QED
  BY <1>1, <1>2 DEF IndexKept

LEMMA QuietIndex ==
  ASSUME Sound, Next,
         \/ CloseBegin \/ QueueLibrary \/ MarkWroteLibrary \/ JoinCompressors \/ JoinWriter
         \/ WriterRun \/ WriterDone \/ UNCHANGED vars
         \/ \E c \in Clients : QueueWakeup(c)
         \/ \E t \in Compressors : CompressorRun(t) \/ Pack(t) \/ CompressorDone(t)
         \/ \E w \in Writers :
              \/ WriteExtent(w) \/ FlushPending(w) \/ FlushWakeup(w)
              \/ SetExtentWriteCallback(w) \/ RemoveStatsUpdate(w)
              \/ \E nbytes \in MaxBytesChoices : SetMaxBytesInProgress(w, nbytes)
  PROVE  IndexKept
<1> USE DEF Listing, Accepting, Opening
<1>0. pc \in [Clients -> ClientPlaces] /\ Owner \in Clients
  BY SoundTypes
<1>1. CASE CloseBegin \/ QueueLibrary \/ MarkWroteLibrary \/ JoinCompressors \/ JoinWriter
  <2>1. UNCHANGED IndexVars
    BY <1>1 DEF CloseBegin, QueueLibrary, MarkWroteLibrary, JoinCompressors, JoinWriter, IndexVars,
       fileVars, queueWriteExtent
  <2>2. pc[Owner] \in Listing /\ pc'[Owner] \in Listing
    BY <1>0, <1>1 DEF CloseBegin, QueueLibrary, MarkWroteLibrary, JoinCompressors, JoinWriter,
       queueWriteExtent, Return
  <2> QED
    BY <2>1, <2>2, OwnerKept
<1>2. CASE WriterRun \/ WriterDone
  <2>1. UNCHANGED IndexVars /\ (pc' = pc \/ \E p, b : pc' = Notified(p, b))
    BY <1>2 DEF WriterRun, WriterDone, IndexVars, fileVars, NotifiedAfter, clientVars
  <2>2. pc[Owner] # "write_index"
    BY <1>2 DEF WriterRun, WriterDone, Sound, Step, SafeInv, Now, PhaseInv, ThreadPhase, WithoutWriter
  <2> QED
    BY <2>1, <2>2, OwnerKept
<1>3. CASE UNCHANGED vars
  BY <1>3, OwnerKept DEF vars, clientVars, fileVars, IndexVars
<1>4. ASSUME NEW c \in Clients, QueueWakeup(c) PROVE IndexKept
  <2>1. UNCHANGED IndexVars /\ out' = out
    BY <1>4 DEF QueueWakeup, IndexVars, fileVars
  <2>2. CASE c = Owner
    <3>1. pc[Owner] \in Listing /\ pc'[Owner] \in Listing
      BY <1>0, <1>4, <2>2 DEF QueueWakeup, Return
    <3> QED
      BY <2>1, <3>1, OwnerKept
  <2>3. CASE c # Owner
    <3>1. c \in Writers /\ \E x : pc' = [pc EXCEPT ![c] = x]
      BY <1>4, <2>3 DEF QueueWakeup, Clients
    <3> QED
      BY <2>1, <3>1, OwnerKept
  <2> QED
    BY <2>2, <2>3
<1>5. ASSUME NEW t \in Compressors, CompressorRun(t) \/ Pack(t) \/ CompressorDone(t) PROVE IndexKept
  <2>1. /\ UNCHANGED IndexVars /\ out' = out
        /\ pc' = pc \/ \E p, b : pc' = Notified(p, b)
    BY <1>5 DEF CompressorRun, Pack, CompressorDone, IndexVars, fileVars, clientVars
  <2> QED
    BY <2>1, OwnerKept
<1>6. ASSUME NEW w \in Writers,
             \/ WriteExtent(w) \/ FlushPending(w) \/ FlushWakeup(w)
             \/ SetExtentWriteCallback(w) \/ RemoveStatsUpdate(w)
             \/ \E nbytes \in MaxBytesChoices : SetMaxBytesInProgress(w, nbytes)
      PROVE  IndexKept
  <2>1. /\ UNCHANGED IndexVars /\ out' = out
        /\ pc' = pc \/ pc' = QueueBroadcast \/ \E x : pc' = [pc EXCEPT ![w] = x]
    BY <1>6 DEF WriteExtent, queueWriteExtent, FlushPending, FlushWakeup, FlushTest,
       SetExtentWriteCallback, RemoveStatsUpdate, SetMaxBytesInProgress, IndexVars, fileVars
  <2> QED
    BY <2>1, OwnerKept
<1> QED
  BY <1>1, <1>2, <1>3, <1>4, <1>5, <1>6

LEMMA OpenIndex ==
  ASSUME Sound, Open
  PROVE  IndexInv'
<1>1. pc \in [Clients -> ClientPlaces] /\ Owner \in Clients
  BY SoundTypes
<1>2. /\ pc[Owner] = "closed" /\ pc'[Owner] = "opened" /\ disk' = << >> /\ cur_offset' = HeaderSize
      /\ index_series' = index_series /\ tail' = NoTail
  BY <1>1 DEF Open
<1>3. index_series = << >>
  BY <1>2, SoundTypes DEF OwnerPhase
<1>4. IndexUpToDate'
  BY <1>2, <1>3, EmptyFile DEF IndexUpToDate
<1> QED
  BY <1>2, <1>4 DEF IndexInv

LEMMA CloseIndexIndex ==
  ASSUME Sound, IndexInv, CloseIndex
  PROVE  IndexInv'
<1>1. pc \in [Clients -> ClientPlaces] /\ Owner \in Clients
  BY SoundTypes
<1>2. pc[Owner] = "drain" /\ pc'[Owner] = "pack_index"
  <2>1. NotifiedAfter("closer") \in [Clients -> ClientPlaces]
    BY WokenPhase DEF Sound, Step, SafeInv, Now, NotifiedAfter
  <2> QED
    BY <1>1, <2>1 DEF CloseIndex
<1>3. /\ index_series' = Append(index_series, Entry(IndexName, cur_offset))
      /\ closing' = [closing EXCEPT !.index_offset = cur_offset]
      /\ UNCHANGED <<cur_offset, nfiles, disk, tail>>
  BY DEF CloseIndex, IndexEntry, Entry, IndexName
<1>4. closing'.index_offset = cur_offset
  <2>1. closing \in [index_offset : Int, packed_size : Nat]
    BY DEF Sound, Step, SafeInv, Now, TypeInv, TypeOK, FileTypes
  <2> QED
    BY <1>3, <2>1
<1>5. IndexUpToDate /\ tail = NoTail
  BY <1>2 DEF IndexInv, Listing
<1>6. IndexPacking'
  BY <1>3, <1>4, <1>5 DEF IndexPacking, IndexUpToDate, IndexName
<1> QED
  BY <1>2, <1>3, <1>5, <1>6 DEF IndexInv, Listing, Accepting, Opening

\* The index is taken as soon as it has been packed.
LEMMA PackIndexIndex ==
  ASSUME Sound, IndexInv, PackIndex
  PROVE  IndexInv'
<1>1. pc \in [Clients -> ClientPlaces] /\ Owner \in Clients
  BY SoundTypes
<1>2. pc[Owner] = "pack_index" /\ pc'[Owner] = "write_index"
  BY <1>1 DEF PackIndex
<1>3. /\ packed_index' = index_series
      /\ closing' = [closing EXCEPT !.packed_size = PackedSize[IndexName]]
      /\ UNCHANGED <<cur_offset, nfiles, disk, tail>>
  BY DEF PackIndex, IndexName
<1>4. closing'.packed_size = PackedSize[IndexName] /\ closing'.index_offset = closing.index_offset
  <2>1. closing \in [index_offset : Int, packed_size : Nat]
    BY DEF Sound, Step, SafeInv, Now, TypeInv, TypeOK, FileTypes
  <2> QED
    BY <1>3, <2>1
<1>5. IndexPacking /\ tail = NoTail
  BY <1>2 DEF IndexInv
<1>6. PICK x : /\ IsItem(x, IndexName, NoStats, FALSE, PackedSize[IndexName]) /\ x \in ToCompress
               /\ \E n \in 0..1 : Takes("closer", <<x>>, n)
  BY PackIndexEffect DEF Sound, Step, IndexName
<1>7. PICK n \in 0..1 : Takes("closer", <<x>>, n)
  BY <1>6
<1>8. x.extent = IndexName /\ x.compressed = PackedSize[IndexName] /\ x.in_progress = FALSE
  BY <1>6 DEF IsItem
<1>9. readyToWrite(x)
  BY <1>6, <1>8, ItemFields DEF readyToWrite
<1>10. n = 1
  BY <1>7, <1>9 DEF Takes
<1>11. <<x>> \in Seq(ToCompress) /\ Len(<<x>>) = 1 /\ <<x>>[1] = x
  BY <1>6
<1>12. out'["closer"].to_write = SubSeq(<<x>>, 1, 1)
  BY <1>7, <1>10, SafeTypes DEF Takes, Sound, Step
<1>13. Len(out'["closer"].to_write) = 1 /\ Head(out'["closer"].to_write) = x
  <2> DEFINE s == SubSeq(<<x>>, 1, 1)
  <2>1. s \in Seq(ToCompress) /\ Len(s) = 1 /\ s[1] = x
    <3> DEFINE q == <<x>>
    <3>1. q \in Seq(ToCompress) /\ 1 \in 0..Len(q) /\ q[1] = x
      BY <1>11
    <3> HIDE DEF q
    <3>2. SubSeq(q, 1, 1) \in Seq(ToCompress) /\ Len(SubSeq(q, 1, 1)) = 1
          /\ SubSeq(q, 1, 1)[1] = q[1]
      BY <3>1, Parts
    <3> QED
      BY <3>1, <3>2 DEF q
  <2> HIDE DEF s
  <2>2. Head(s) = x
    BY <2>1
  <2> QED
    BY <1>12, <2>1, <2>2 DEF s
<1>14. IndexPending'
  BY <1>3, <1>4, <1>5, <1>8, <1>13 DEF IndexPending, IndexPacking, IndexName
<1> QED
  BY <1>2, <1>3, <1>5, <1>14 DEF IndexInv, Listing, Accepting, Opening

LEMMA SealIndex ==
  ASSUME Sound, IndexInv, Seal
  PROVE  IndexInv'
<1>1. pc \in [Clients -> ClientPlaces] /\ Owner \in Clients
  BY SoundTypes
<1>2. pc[Owner] = "write_index" /\ pc'[Owner] = "closed" /\ out["closer"].to_write = << >>
  <2>1. NotifiedAfter("closer") \in [Clients -> ClientPlaces]
    BY WokenPhase DEF Sound, Step, SafeInv, Now, NotifiedAfter
  <2> QED
    BY <1>1, <2>1 DEF Seal
<1>3. tail' = closing /\ UNCHANGED <<nfiles, disk, packed_index>>
  BY DEF Seal
<1>4. LeadsToIndex(closing)
  <2>1. IndexPending \/ IndexWritten
    BY <1>2 DEF IndexInv
  <2>2. ~IndexPending
    BY <1>2 DEF IndexPending
  <2> QED
    BY <2>1, <2>2 DEF IndexWritten
<1>5. LeadsToIndex(tail)'
  BY <1>3, <1>4 DEF LeadsToIndex, IndexName
<1> QED
  BY <1>2, <1>5 DEF IndexInv, Listing, Accepting, Opening

\* A written extent is entered at its place, before the place moves on.
LEMMA WriteOutIndex ==
  ASSUME Sound, LogInv, IndexInv, NEW a \in Writing, WriteOut(a)
  PROVE  IndexInv'
<1> DEFINE tc == Head(out[a].to_write)
           e == tc.extent
<1>1. /\ pc[Owner] # "closed" /\ out[a].to_write \in Seq(ToCompress) /\ out[a].to_write # << >>
      /\ tc = out[a].to_write[1] /\ 1 \in 1..Len(out[a].to_write) /\ tc \in ToCompress
      /\ a = "writer" => pc[Owner] \notin WithoutWriter
      /\ a = "closer" => pc[Owner] \in {"drain", "write_index"}
  BY BatchOpen DEF WriteOut, Sound, Step, SafeInv, Now
<1>2. e \in Extents /\ tc.compressed = PackedSize[e]
  <2>1. Item(tc) /\ readyToWrite(tc)
    <3>1. BatchItems(out[a].to_write)
      BY ItemPhaseParts DEF Sound, Step, SafeInv, Now, PhaseInv
    <3> QED
      BY <1>1, <3>1 DEF BatchItems
  <2> QED
    BY <1>1, <2>1, ItemFields DEF Item, readyToWrite
<1>3. /\ disk' = Append(disk, e) /\ cur_offset' = cur_offset + tc.compressed
      /\ UNCHANGED <<nfiles, packed_index, closing, tail, pc>>
      /\ index_series' = Append(IF e[1] = Index THEN << >> ELSE index_series, Entry(e, cur_offset))
      /\ out'[a].to_write = Tail(out[a].to_write)
  BY SafeTypes DEF WriteOut, clientVars, IndexEntry, Entry, Sound, Step
<1>4. disk \in Seq(Extents) /\ tail = NoTail
  BY <1>1, LogTypesNow DEF IndexInv
<1>5. Accepted[Len(disk) + 1] = e /\ Len(disk) + 1 \in 1..Len(Accepted)
  BY <1>4, WriteOutLog, LogTypesNow DEF Persists
<1> HIDE DEF tc, e
<1>6. CASE pc[Owner] \in Listing
  <2>1. e[1] # Index
    <3>1. NoIndex(Accepted)
      BY <1>6 DEF LogInv, Late, Listing, Accepting, Opening
    <3> QED
      BY <1>5, <3>1 DEF NoIndex
  <2>2. IndexUpToDate
    BY <1>6 DEF IndexInv
  <2>3. IndexUpToDate'
    BY <1>2, <1>3, <1>4, <2>1, <2>2, GrownFile DEF IndexUpToDate
  <2> QED
    BY <1>3, <1>4, <1>6, <2>3 DEF IndexInv, Listing, Accepting, Opening
<1>7. CASE pc[Owner] = "write_index"
  <2>1. a = "closer"
    BY <1>1, <1>7 DEF Writing, WithoutWriter
  <2>2. IndexPending
    BY <1>1, <1>7, <2>1 DEF IndexInv, IndexWritten
  <2>3. e = IndexName /\ Len(out[a].to_write) = 1
    BY <2>1, <2>2 DEF IndexPending, e, tc
  <2>4. out'["closer"].to_write = << >>
    <3>1. Tail(out[a].to_write) = << >>
      <4> DEFINE q == out[a].to_write
      <4>1. q \in Seq(ToCompress) /\ q # << >> /\ Len(q) = 1
        BY <1>1, <2>3
      <4> HIDE DEF q
      <4>2. Tail(q) \in Seq(ToCompress) /\ Len(Tail(q)) = 0
        BY <4>1, HeadTailProperties
      <4>3. Tail(q) = << >>
        BY <4>2, EmptySeq
      <4> QED
        BY <4>3 DEF q
    <3> QED
      BY <1>3, <2>1, <3>1
  <2>5. disk' = Append(disk, IndexName) /\ IndexName \in Extents
    BY <1>2, <1>3, <2>3
  <2>6. /\ Listed(disk') = Append(Listed(disk), Entry(IndexName, Placed(disk)))
        /\ Len(disk') = Len(disk) + 1 /\ disk'[Len(disk) + 1] = IndexName
        /\ At(disk', Len(disk) + 1) = Placed(disk)
    BY <1>4, <2>5, GrownFile
  <2>7. IndexName' = IndexName
    BY <1>3 DEF IndexName
  <2>8. Len(disk) \in Nat
    BY <1>4
  <2>9. LeadsToIndex(closing)'
    BY <1>3, <2>2, <2>6, <2>7, <2>8 DEF LeadsToIndex, IndexPending
  <2> QED
    BY <1>3, <1>4, <1>7, <2>4, <2>9 DEF IndexInv, IndexWritten, Listing, Accepting, Opening
<1>8. pc[Owner] \in Listing \/ pc[Owner] = "write_index"
  BY <1>1, SoundTypes DEF OwnerPhase, Listing, Accepting, Opening, Closing, Writing, WithoutWriter
<1> QED
  BY <1>6, <1>7, <1>8

LEMMA IndexStep == SafeInv /\ LogInv /\ IndexInv /\ SafeInv' /\ [Next]_vars => IndexInv'
<1> SUFFICES ASSUME SafeInv, LogInv, IndexInv, SafeInv', [Next]_vars PROVE IndexInv'
  OBVIOUS
<1>1. CASE UNCHANGED vars
  <2>1. UNCHANGED <<pc, out, cur_offset, index_series, nfiles, disk, packed_index, closing, tail>>
    BY <1>1 DEF vars, clientVars, fileVars
  <2> QED
    BY <2>1, SameIndex DEF IndexKept, IndexVars
<1>2. CASE Next
  <2>1. Sound
    BY <1>2, StepHolds DEF Sound
  <2>2. CASE Open \/ CloseIndex \/ PackIndex \/ Seal
    BY <2>1, <2>2, OpenIndex, CloseIndexIndex, PackIndexIndex, SealIndex
  <2>3. ASSUME NEW a \in Writing, WriteOut(a) PROVE IndexInv'
    BY <2>1, <2>3, WriteOutIndex
  <2>4. CASE IndexKept
    BY <2>4, SameIndex
  <2> QED
    BY <1>2, <2>1, <2>2, <2>3, <2>4, QuietIndex, NextCases
<1> QED
  BY <1>1, <1>2

\* The index finds every extent: while a file is open index_series has an entry
\* for each extent in it, at its place, although the entries are made without
\* the mutex by two threads in turn; and the index that close() packs, queues
\* and lets writeOutPending write (which wipes it in between) lists exactly the
\* extents of the file, with itself at its own place, where the tail points.
THEOREM IndexFindsExtents == ASSUME Compressors # {} PROVE Spec => []IndexMatchesFile
<1>1. Init => LogInv /\ IndexInv
  BY LogInit, IndexInit
<1>2. SafeInv /\ LogInv /\ SafeInv' /\ [Next]_vars => LogInv'
  BY LogStep
<1>3. SafeInv /\ LogInv /\ IndexInv /\ SafeInv' /\ [Next]_vars => IndexInv'
  BY IndexStep
<1>4. SafeInv /\ IndexInv => IndexMatchesFile
  BY IndexInvMeans
<1> QED
  BY <1>1, <1>2, <1>3, <1>4, SafeAlways, PTL DEF Spec

----------------------------------------------------------------------------
\* flushPending

FlushInv == callback >= fence /\ NewCallbackAfterFlush

\* The pipeline holds nothing when nothing is in progress.
LEMMA NoWeight ==
  ASSUME NEW p \in Seq(ToCompress), Weight(Bytes, p) = 0
  PROVE  p = << >>
<1> SUFFICES ASSUME p # << >> PROVE FALSE
  OBVIOUS
<1>1. p[1] \in ToCompress /\ 1 \in 1..Len(p)
  OBVIOUS
<1>2. Bytes[p[1]] <= Weight(Bytes, p)
  BY <1>1, Weights3, QueueWeight
<1>3. Bytes[p[1]] > 0
  BY <1>1, ItemWeights, ItemFields
<1>4. Bytes[p[1]] \in Nat
  BY <1>1, Weights3, QueueWeight
<1> QED
  BY <1>2, <1>3, <1>4

LEMMA NothingInProgress ==
  ASSUME SafeInv, bytes_in_progress = 0
  PROVE  /\ pending_work = << >>
         /\ \A a \in Writing : out[a].to_write = << >>
<1>1. /\ pending_work \in Seq(ToCompress) /\ Weight(Bytes, pending_work) \in Nat
      /\ \A a \in Writing : /\ Held(a) \in Nat /\ out[a].bytes \in Nat
                            /\ out[a].to_write \in Seq(ToCompress)
                            /\ Weight(Bytes, out[a].to_write) \in Nat
  BY SafeTypes, HeldTypes DEF SafeInv, Now
<1>2. Weight(Bytes, pending_work) + Held("writer") + Held("closer") = 0
  BY DEF SafeInv, BytesInv
<1>3. Weight(Bytes, pending_work) = 0 /\ \A a \in Writing : Held(a) = 0
  BY <1>1, <1>2 DEF Writing
<1>4. \A a \in Writing : Weight(Bytes, out[a].to_write) = 0
  BY <1>1, <1>3 DEF Held
<1> QED
  BY <1>1, <1>3, <1>4, NoWeight

LEMMA EmptyPipeline ==
  ASSUME SafeInv, bytes_in_progress = 0, NEW e
  PROVE  ~InPipeline(e)
<1>1. /\ pending_work = << >>
      /\ \A a \in Writing : out[a].to_write = << >>
  BY NothingInProgress
<1>2. Positions = {} /\ \A a \in Writing : 1..Len(out[a].to_write) = {}
  BY <1>1 DEF Positions
<1> QED
  BY <1>2 DEF InPipeline

LEMMA FlushReturns ==
  ASSUME SafeInv, NEW w \in Writers, FlushTest(w)
  PROVE  /\ bytes_in_progress \in Nat /\ UNCHANGED <<callback, out>>
         /\ bytes_in_progress > 0 => fence' = fence /\ pc'[w] # "idle"
         /\ ~(bytes_in_progress > 0) => fence' = callback
<1>1. pc \in [Clients -> ClientPlaces] /\ w \in Clients /\ bytes_in_progress \in Nat
  BY SafeTypes DEF SafeInv, Now, TypeInv, TypeOK, ClientTypes
<1> QED
  BY <1>1 DEF FlushTest

LEMMA FlushTypes ==
  ASSUME Sound
  PROVE  /\ callback \in Nat /\ fence \in Nat
         /\ out \in [Writing -> [to_write : Seq(ToCompress), bytes : Nat, ewc : Nat]]
  BY SafeTypes DEF Sound, Step, SafeInv, Now, TypeInv, TypeOK

\* Callbacks are not set, and the batch a starts anew or does not grow.
LEMMA SameFlush ==
  ASSUME Sound, FlushInv, UNCHANGED <<callback, fence>>,
         \A a \in Writing : \/ out'[a].ewc = callback
                            \/ out'[a].to_write = << >>
                            \/ out[a].to_write # << >> /\ out'[a].ewc = out[a].ewc
  PROVE  FlushInv'
<1> SUFFICES ASSUME NEW a \in Writing, out'[a].to_write # << >> PROVE out'[a].ewc >= fence
  BY DEF FlushInv, NewCallbackAfterFlush
<1> QED
  BY DEF FlushInv, NewCallbackAfterFlush

LEMMA TakeFlush ==
  ASSUME Sound, FlushInv, NEW a \in Writing, NEW p, NEW n, Takes(a, p, n),
         UNCHANGED <<callback, fence>>
  PROVE  FlushInv'
<1> SUFFICES ASSUME NEW b \in Writing, out'[b].to_write # << >> PROVE out'[b].ewc >= fence
  BY DEF FlushInv, NewCallbackAfterFlush
<1>1. out \in [Writing -> [to_write : Seq(ToCompress), bytes : Nat, ewc : Nat]]
  BY FlushTypes
<1>2. CASE b = a
  BY <1>1, <1>2 DEF Takes, FlushInv
<1>3. CASE b # a
  BY <1>1, <1>3 DEF Takes, FlushInv, NewCallbackAfterFlush
<1> QED
  BY <1>2, <1>3

LEMMA DropFlush ==
  ASSUME Sound, FlushInv, NEW a \in Writing, out' = [out EXCEPT ![a] = NoBatch],
         UNCHANGED <<callback, fence>>
  PROVE  FlushInv'
<1> SUFFICES ASSUME NEW b \in Writing, out'[b].to_write # << >> PROVE out'[b].ewc >= fence
  BY DEF FlushInv, NewCallbackAfterFlush
<1>1. out \in [Writing -> [to_write : Seq(ToCompress), bytes : Nat, ewc : Nat]]
  BY FlushTypes
<1>2. b # a
  BY <1>1 DEF NoBatch
<1> QED
  BY <1>1, <1>2 DEF FlushInv, NewCallbackAfterFlush

LEMMA FlushStep ==
  ASSUME Sound, Next, FlushInv
  PROVE  FlushInv'
<1>0. /\ callback \in Nat /\ fence \in Nat
      /\ out \in [Writing -> [to_write : Seq(ToCompress), bytes : Nat, ewc : Nat]]
  BY FlushTypes
<1>1. CASE UNCHANGED <<callback, fence, out>>
  BY <1>1 DEF FlushInv, NewCallbackAfterFlush
<1>2. CASE \/ Open \/ CloseBegin \/ QueueLibrary \/ MarkWroteLibrary \/ JoinCompressors
           \/ \E c \in Clients : QueueWakeup(c)
           \/ \E t \in Compressors : CompressorRun(t) \/ Pack(t) \/ CompressorDone(t)
           \/ \E w \in Writers : \/ WriteExtent(w) \/ RemoveStatsUpdate(w)
                                 \/ \E nbytes \in MaxBytesChoices : SetMaxBytesInProgress(w, nbytes)
           \/ UNCHANGED vars
  <2>1. UNCHANGED <<callback, fence, out>>
    BY <1>2 DEF Open, CloseBegin, QueueLibrary, MarkWroteLibrary, JoinCompressors, QueueWakeup,
       CompressorRun, Pack, CompressorDone, WriteExtent, queueWriteExtent, RemoveStatsUpdate,
       SetMaxBytesInProgress, vars, callbackVars
  <2> QED
    BY <1>1, <2>1
<1>3. ASSUME NEW w \in Writers, SetExtentWriteCallback(w) PROVE FlushInv'
  BY <1>0, <1>3 DEF SetExtentWriteCallback, FlushInv, NewCallbackAfterFlush
<1>4. ASSUME NEW w \in Writers, FlushPending(w) \/ FlushWakeup(w) PROVE FlushInv'
  <2>1. FlushTest(w) /\ SafeInv
    BY <1>4 DEF FlushPending, FlushWakeup, Sound, Step
  <2>2. CASE bytes_in_progress > 0
    BY <1>1, <2>1, <2>2, FlushReturns
  <2>3. CASE ~(bytes_in_progress > 0)
    <3>1. bytes_in_progress = 0 /\ fence' = callback /\ UNCHANGED <<callback, out>>
      BY <2>1, <2>3, FlushReturns
    <3>2. \A a \in Writing : out[a].to_write = << >>
      BY <2>1, <3>1, NothingInProgress
    <3> QED
      BY <1>0, <3>1, <3>2 DEF FlushInv, NewCallbackAfterFlush
  <2> QED
    BY <2>2, <2>3
<1>5. ASSUME NEW a \in Writing, WriteOut(a) PROVE FlushInv'
  <2>1. UNCHANGED <<callback, fence>> /\ out[a].to_write # << >>
        /\ out' = [out EXCEPT ![a].to_write = Tail(@),
                              ![a].bytes = @ + Head(out[a].to_write).compressed]
    BY <1>5 DEF WriteOut, callbackVars
  <2>2. /\ out'[a].ewc = out[a].ewc
        /\ \A b \in Writing \ {a} : out'[b] = out[b]
    BY <1>0, <2>1
  <2> QED
    BY <1>0, <2>1, <2>2 DEF FlushInv, NewCallbackAfterFlush
<1>6. CASE WriterRun \/ WriterDone
  <2>1. WriterLoop /\ UNCHANGED <<callback, fence>>
    BY <1>6 DEF WriterRun, WriterDone, callbackVars
  <2> QED
    BY <2>1, WriterLoopCases, TakeFlush, DropFlush DEF Writing
<1>7. CASE JoinWriter
  <2>1. BeginWriteOut("closer", pending_work) /\ UNCHANGED <<callback, fence>>
    BY <1>7 DEF JoinWriter, callbackVars
  <2> QED
    BY <2>1, TakeEffect, TakeFlush DEF Writing
<1>8. CASE PackIndex
  <2>1. (\E x : \E n \in 0..1 : Takes("closer", <<x>>, n)) /\ UNCHANGED <<callback, fence>>
    BY <1>8, PackIndexEffect DEF PackIndex, callbackVars, Sound, Step
  <2> QED
    BY <2>1, TakeFlush DEF Writing
<1>9. CASE CloseIndex \/ Seal
  <2>1. out' = [out EXCEPT !["closer"] = NoBatch] /\ UNCHANGED <<callback, fence>>
    BY <1>9 DEF CloseIndex, Seal, callbackVars
  <2> QED
    BY <2>1, DropFlush DEF Writing
<1> QED
  BY <1>2, <1>3, <1>4, <1>5, <1>6, <1>7, <1>8, <1>9, NextCases

FlushKept ==
  /\ NewCallbackAfterFlush'
  /\ \A w \in Writers :
       (FlushPending(w) \/ FlushWakeup(w)) /\ pc'[w] = "idle" =>
         \A k \in 1..MaxCalls : ~InPipeline(<<w, k>>)

LEMMA FlushInvStep == SafeInv /\ FlushInv /\ SafeInv' /\ [Next]_vars => FlushInv' /\ [FlushKept]_vars
<1> SUFFICES ASSUME SafeInv, FlushInv, SafeInv', [Next]_vars PROVE FlushInv' /\ [FlushKept]_vars
  OBVIOUS
<1>1. CASE UNCHANGED vars
  BY <1>1 DEF vars, callbackVars, FlushInv, NewCallbackAfterFlush
<1>2. CASE Next
  <2>1. FlushInv'
    BY <1>2, StepHolds, FlushStep DEF Sound
  <2>2. ASSUME NEW w \in Writers, FlushPending(w) \/ FlushWakeup(w), pc'[w] = "idle",
               NEW k \in 1..MaxCalls
        PROVE  ~InPipeline(<<w, k>>)
    <3>1. bytes_in_progress = 0
      BY <2>2, FlushReturns DEF FlushPending, FlushWakeup
    <3> QED
      BY <3>1, EmptyPipeline
  <2> QED
    BY <2>1, <2>2 DEF FlushInv, FlushKept
<1> QED
  BY <1>1, <1>2

LEMMA FlushInit == Init => FlushInv
  BY DEF Init, FlushInv, NewCallbackAfterFlush, NoBatch, Writing

\* flushPending means written: when it returns nothing the thread has queued is
\* still in the pipeline (an extent leaves bytes_in_progress only after the write,
\* although it leaves the queue before), and from then on no batch calls a
\* callback older than the newest at that moment, although a batch copies the
\* callback when it is taken and calls it without the mutex.
THEOREM FlushedIsWritten == ASSUME Compressors # {} PROVE Spec => FlushMeansWritten
<1>1. Init => FlushInv
  BY FlushInit
<1>2. SafeInv /\ FlushInv /\ SafeInv' /\ [Next]_vars => FlushInv' /\ [FlushKept]_vars
  BY FlushInvStep
<1> QED
  BY <1>1, <1>2, SafeAlways, PTL DEF Spec, FlushMeansWritten, FlushKept
=============================================================================
