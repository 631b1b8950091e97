--------------------------- MODULE DataSeriesSink ---------------------------
(***************************************************************************)
(* DataSeriesSink (src/base/DataSeriesSink.cpp): client threads queue       *)
(* extents, a pool of compressor threads packs them in any order, one       *)
(* writer thread writes finished extents from the front of the queue, and   *)
(* close() drains the pipeline and seals the file.                          *)
(*                                                                          *)
(* All shared state is protected by one mutex.  An action is what a thread  *)
(* does from taking the mutex to releasing it (by unlocking, by             *)
(* PThreadScopedUnlock or by waiting on a condition variable), or the work  *)
(* it does without it; so the mutex needs no variable.                      *)
(***************************************************************************)
EXTENDS Integers, Sequences, FiniteSets, FiniteSetsExt, SequenceSums

CONSTANTS
  Writers,        \* threads that share the sink, each with a Stats of its own
  Owner,          \* the thread that opens, starts and closes the sink
  Compressors,    \* the compressor threads of setCompressorCount
  Library,        \* names of the two extents the sink makes itself
  Index,
  NoStats,        \* the NULL Stats pointer
  RawSize,        \* Extent::size() of each extent
  PackedSize,     \* size of its packed bytes
  MaxBytes,       \* the initial max_bytes_in_progress
  MaxBytesChoices, \* arguments of setMaxBytesInProgress
  MaxCalls,       \* bound: calls each writer makes
  MaxTotalCalls,  \* bound: calls the writers make in all
  MaxFiles        \* bound: files the owner writes, one after another

Clients == Writers \cup {Owner}
Extents == (Writers \X (1..MaxCalls)) \cup ({Library, Index} \X (1..MaxFiles))

HeaderSize == 2*4 + 4*8

ASSUME SinkAssumption ==
  /\ Owner \notin Writers
  /\ NoStats \notin Writers
  /\ Library \notin Writers /\ Index \notin Writers /\ Library # Index
  /\ IsFiniteSet(Compressors)
  /\ MaxCalls \in Nat /\ MaxTotalCalls \in Nat /\ MaxFiles \in Nat
  /\ MaxBytes \in Nat \ {0} /\ MaxBytesChoices \subseteq Nat \ {0}
  /\ RawSize \in [Extents -> Nat \ {0}]
  /\ PackedSize \in [Extents -> Nat \ {0}]

VARIABLES
  pc,             \* where each client thread is
  calls,          \* how many calls each writer has made
  \* WorkerInfo
  keep_going, bytes_in_progress, max_bytes_in_progress, pending_work,
  ncompressors,   \* compressors.size()
  compressor,     \* where each compressor thread is
  work,           \* the extent it is packing
  writer,         \* where the writer thread is
  \* WriterInfo
  wrote_library, cur_offset, index_series, callback,
  out,            \* the local state of each activation of writeOutPending
  closing,        \* the locals index_offset and packed_size of close()
  \* the file
  nfiles,         \* files opened so far
  disk,           \* the extents in the file, in order
  packed_index,   \* the contents of the index extent when it was packed
  tail,           \* the tail record, once it is written
  \* Stats
  stats,          \* extents counted in the sink's own Stats
  final_stats,    \* what close() added to its to_update
  counted,        \* extents counted in each writer's Stats
  use_count,      \* its use_count
  \* history
  fence,          \* the newest callback at the end of the last flushPending
  aborted         \* has an INVARIANT of the code failed?

clientVars  == <<pc, calls>>
queueVars   == <<bytes_in_progress, pending_work>>
threadVars  == <<ncompressors, compressor, work, writer>>
fileVars    == <<wrote_library, cur_offset, index_series, nfiles, disk,
                 packed_index, closing, tail>>
statsVars   == <<stats, final_stats, counted, use_count>>
callbackVars == <<callback, fence>>
vars == <<clientVars, queueVars, threadVars, fileVars, statsVars, callbackVars,
          keep_going, max_bytes_in_progress, out, aborted>>

----------------------------------------------------------------------------
\* ToCompress and the queue

NewWork(e, s) == [extent |-> e, to_update |-> s, in_progress |-> FALSE,
                  compressed |-> 0]

\* Definitions with a suffix, such as the next one, are mutants: what the
\* definition after them would be with a bug.  No action uses them; each breaks
\* a property (README.md, "Mutants").
readyToWrite_without_in_progress(i) == i.compressed > 0
\* "compressed.size() > 0 && !in_progress"
readyToWrite(i) == i.compressed > 0 /\ ~i.in_progress

frontReadyToWrite(p) == p # << >> /\ readyToWrite(p[1])

\* What a compressor looks for.
Unclaimed(i) == ~i.in_progress /\ i.compressed = 0

canQueueWork(p, b) == /\ b < max_bytes_in_progress
                      /\ Len(p) < 2 * ncompressors

\* The code's INVARIANT and SINVARIANT: the process stops when one fails.
Invariant(P) == aborted' = ~P

----------------------------------------------------------------------------
\* Condition variables: a signalled thread goes to re-test its condition.

\* available_queue_cond.broadcast(), for queueWriteExtent and flushPending
Woken(c) == CASE pc[c] = "queue_wait" -> "queue_woken"
              [] pc[c] = "flush_wait" -> "flush_woken"
              [] OTHER -> pc[c]

QueueBroadcast == [c \in Clients |-> Woken(c)]

\* "if (canQueueWork()) available_queue_cond.broadcast()"
Notified(p, b) == IF canQueueWork(p, b) THEN QueueBroadcast ELSE pc

\* available_work_cond.signal(): one of the waiting compressors, if any
SignalWork ==
  \/ \E t \in Compressors : /\ compressor[t] = "waiting"
                            /\ compressor' = [compressor EXCEPT ![t] = "running"]
  \/ /\ \A t \in Compressors : compressor[t] # "waiting"
     /\ UNCHANGED compressor

WorkBroadcast_missing == compressor

WorkBroadcast == [t \in Compressors |->
                    IF compressor[t] = "waiting" THEN "running" ELSE compressor[t]]

\* available_write_cond
WriterSignalled == IF writer = "waiting" THEN "running" ELSE writer

----------------------------------------------------------------------------
NoExtent == << >>
NoTail   == [index_offset |-> -1, packed_size |-> 0]
NoBatch  == [to_write |-> << >>, bytes |-> 0, ewc |-> 0]
Writing  == {"writer", "closer"}  \* who runs writeOutPending

Init ==
  /\ pc = [c \in Clients |-> IF c = Owner THEN "closed" ELSE "idle"]
  /\ calls = [w \in Writers |-> 0]
  /\ keep_going = FALSE
  /\ bytes_in_progress = 0 /\ max_bytes_in_progress = MaxBytes
  /\ pending_work = << >>
  /\ ncompressors = 0
  /\ compressor = [t \in Compressors |-> "none"]
  /\ work = [t \in Compressors |-> NoExtent]
  /\ writer = "none"
  /\ wrote_library = FALSE /\ cur_offset = -1 /\ index_series = << >>
  /\ callback = 0 /\ fence = 0
  /\ out = [a \in Writing |-> NoBatch]
  /\ nfiles = 0 /\ disk = << >> /\ packed_index = << >>
  /\ closing = NoTail /\ tail = NoTail
  /\ stats = 0 /\ final_stats = 0
  /\ counted = [w \in Writers |-> 0]
  /\ use_count = [w \in Writers |-> 0]
  /\ aborted = FALSE

----------------------------------------------------------------------------
\* The owner: open, startThreads

isQuiesced == /\ ~keep_going /\ bytes_in_progress = 0 /\ pending_work = << >>
              /\ ncompressors = 0 /\ writer = "none"
              /\ ~wrote_library /\ cur_offset = -1 /\ index_series = << >>

Open ==
  /\ pc[Owner] = "closed" /\ nfiles < MaxFiles
  /\ Invariant(isQuiesced /\ stats = 0)
  /\ nfiles' = nfiles + 1
  /\ disk' = << >> /\ packed_index' = << >> /\ tail' = NoTail
  /\ cur_offset' = HeaderSize
  /\ keep_going' = TRUE
  /\ ncompressors' = Cardinality(Compressors)
  /\ compressor' = [t \in Compressors |-> "running"]
  /\ writer' = IF Compressors = {} THEN "none" ELSE "running"
  /\ pc' = [pc EXCEPT ![Owner] = "opened"]
  /\ UNCHANGED <<calls, queueVars, work, wrote_library, index_series, closing,
                 statsVars, callbackVars, max_bytes_in_progress, out>>

----------------------------------------------------------------------------
\* queueWriteExtent

\* Where a client is when its queueWriteExtent has returned.
Return(c) == IF c = Owner THEN "queued" ELSE "idle"

Enqueued_at_front(e, s) == <<NewWork(e, s)>> \o pending_work

Enqueued(e, s) == Append(pending_work, NewWork(e, s))

queueWriteExtent(c, e, s) ==
  LET p == Enqueued(e, s)
      b == bytes_in_progress + RawSize[e]
  IN
  /\ use_count' = [w \in Writers |-> IF w = s THEN use_count[w] + 1 ELSE use_count[w]]
  /\ bytes_in_progress' = b
  /\ pending_work' = p
  /\ pc' = [pc EXCEPT ![c] = IF canQueueWork(p, b) THEN Return(c) ELSE "queue_wait"]
  /\ \/ /\ ncompressors = 0
        /\ Invariant(keep_going /\ cur_offset > 0 /\ Len(p) = 1 /\ b = 0)
        /\ UNCHANGED compressor
     \/ /\ ncompressors > 0
        /\ Invariant(keep_going /\ cur_offset > 0)
        /\ SignalWork
  /\ UNCHANGED <<ncompressors, work, writer, fileVars, stats, final_stats,
                 counted, callbackVars, keep_going, max_bytes_in_progress, out>>

\* A waiting call wakes up and tests canQueueWork again.
QueueWakeup(c) ==
  /\ pc[c] = "queue_woken"
  /\ pc' = [pc EXCEPT ![c] = IF canQueueWork(pending_work, bytes_in_progress)
                             THEN Return(c) ELSE "queue_wait"]
  /\ Invariant(canQueueWork(pending_work, bytes_in_progress)
               \/ (keep_going /\ cur_offset > 0))
  /\ UNCHANGED <<calls, queueVars, threadVars, fileVars, statsVars, callbackVars,
                 keep_going, max_bytes_in_progress, out>>

\* writeExtentLibrary, up to the return of its queueWriteExtent
QueueLibrary ==
  /\ pc[Owner] = "opened"
  /\ queueWriteExtent(Owner, <<Library, nfiles>>, NoStats)
  /\ UNCHANGED calls

MarkWroteLibrary ==
  /\ pc[Owner] = "queued"
  /\ Invariant(~wrote_library)
  /\ wrote_library' = TRUE
  /\ pc' = [pc EXCEPT ![Owner] = "idle"]
  /\ UNCHANGED <<calls, queueVars, threadVars, cur_offset, index_series, nfiles,
                 disk, packed_index, closing, tail, statsVars, callbackVars,
                 keep_going, max_bytes_in_progress, out>>

----------------------------------------------------------------------------
\* The writers' calls

Call(w) == /\ pc[w] = "idle" /\ calls[w] < MaxCalls
           /\ MapThenSumSet(LAMBDA u : calls[u], Writers) < MaxTotalCalls
           /\ calls' = [calls EXCEPT ![w] = @ + 1]

\* The documented preconditions: the library has been written and close() has
\* not been called.
WriteExtent(w) ==
  /\ Call(w)
  /\ pc[Owner] = "idle" /\ wrote_library /\ keep_going
  /\ queueWriteExtent(w, <<w, calls[w] + 1>>, w)

FlushTest_of_queue_only(w) ==
  /\ pc' = [pc EXCEPT ![w] = IF pending_work # << >> THEN "flush_wait" ELSE "idle"]
  /\ fence' = IF pending_work # << >> THEN fence ELSE callback
  /\ UNCHANGED <<queueVars, threadVars, fileVars, statsVars, callback,
                 keep_going, max_bytes_in_progress, out, aborted>>

\* A first call and each wake-up of flushPending test the same condition.
FlushTest(w) ==
  /\ pc' = [pc EXCEPT ![w] = IF bytes_in_progress > 0 THEN "flush_wait" ELSE "idle"]
  /\ fence' = IF bytes_in_progress > 0 THEN fence ELSE callback
  /\ UNCHANGED <<queueVars, threadVars, fileVars, statsVars, callback,
                 keep_going, max_bytes_in_progress, out, aborted>>

FlushPending(w) == Call(w) /\ FlushTest(w)

FlushWakeup(w) == pc[w] = "flush_woken" /\ FlushTest(w) /\ UNCHANGED calls

SetMaxBytesInProgress(w, nbytes) ==
  /\ Call(w)
  /\ \/ /\ nbytes > max_bytes_in_progress
        /\ compressor' = WorkBroadcast
        /\ pc' = QueueBroadcast
     \/ /\ nbytes <= max_bytes_in_progress
        /\ UNCHANGED <<compressor, pc>>
  /\ max_bytes_in_progress' = nbytes
  /\ UNCHANGED <<queueVars, ncompressors, work, writer, fileVars, statsVars,
                 callbackVars, keep_going, out, aborted>>

\* Callbacks are numbered in the order in which they are set; 0 is none.
SetExtentWriteCallback(w) ==
  /\ Call(w)
  /\ callback' = callback + 1
  /\ UNCHANGED <<pc, queueVars, threadVars, fileVars, statsVars, fence,
                 keep_going, max_bytes_in_progress, out, aborted>>

WouldUpdate(w) == {i \in 1..Len(pending_work) : pending_work[i].to_update = w}

\* What a writer does before it deletes its Stats; it makes no further call.
RemoveStatsUpdate(w) ==
  /\ pc[w] = "idle"
  /\ pc' = [pc EXCEPT ![w] = "removed"]
  /\ Invariant(use_count[w] >= Cardinality(WouldUpdate(w)))
  /\ use_count' = [use_count EXCEPT ![w] = @ - Cardinality(WouldUpdate(w))]
  /\ pending_work' = [i \in 1..Len(pending_work) |->
                        IF i \in WouldUpdate(w)
                        THEN [pending_work[i] EXCEPT !.to_update = NoStats]
                        ELSE pending_work[i]]
  /\ UNCHANGED <<calls, bytes_in_progress, threadVars, fileVars, stats, final_stats,
                 counted, callbackVars, keep_going, max_bytes_in_progress, out>>

----------------------------------------------------------------------------
\* compressorThread

\* One round of its loop with the mutex held, from a queue p and b bytes in
\* progress, until the mutex is released; ok says that no assertion failed yet.
CompressorLoop(t, p, b, ok) ==
  \/ \E i \in 1..Len(p) :
       /\ Unclaimed(p[i])
       /\ \A j \in 1..(i-1) : ~Unclaimed(p[j])
       /\ Invariant(ok /\ b >= RawSize[p[i].extent] /\ cur_offset > 0)
       /\ pending_work' = [p EXCEPT ![i].in_progress = TRUE]
       /\ bytes_in_progress' = b + RawSize[p[i].extent]
       /\ work' = [work EXCEPT ![t] = p[i].extent]
       /\ compressor' = [compressor EXCEPT ![t] = "packing"]
  \/ /\ \A i \in 1..Len(p) : ~Unclaimed(p[i])
     /\ Invariant(ok)
     /\ pending_work' = p
     /\ bytes_in_progress' = b
     /\ work' = [work EXCEPT ![t] = NoExtent]
     /\ compressor' = [compressor EXCEPT ![t] = IF keep_going THEN "waiting"
                                                              ELSE "exited"]

CompressorRun(t) ==
  /\ compressor[t] = "running"
  /\ CompressorLoop(t, pending_work, bytes_in_progress, TRUE)
  /\ UNCHANGED <<clientVars, ncompressors, writer, fileVars, statsVars,
                 callbackVars, keep_going, max_bytes_in_progress, out>>

\* packData, without the mutex
Pack(t) ==
  /\ compressor[t] = "packing"
  /\ \E i \in 1..Len(pending_work) :
       /\ pending_work[i].extent = work[t]
       /\ pending_work' = [pending_work EXCEPT ![i].compressed = PackedSize[work[t]]]
  /\ compressor' = [compressor EXCEPT ![t] = "packed"]
  /\ UNCHANGED <<clientVars, bytes_in_progress, ncompressors, work, writer,
                 fileVars, statsVars, callbackVars, keep_going,
                 max_bytes_in_progress, out, aborted>>

\* The second half of lockedProcessToCompress, on the work at i of the queue
Completed(i) == [pending_work EXCEPT ![i].in_progress = FALSE,
                                     ![i].to_update = NoStats]

CompletedBytes_without_temporary(i) ==
  bytes_in_progress - RawSize[pending_work[i].extent] + pending_work[i].compressed

CompletedBytes(i) == bytes_in_progress - 2 * RawSize[pending_work[i].extent]
                       + pending_work[i].compressed

CountPacked_callers_only(s) ==
  /\ stats' = IF s \in Writers THEN stats + 1 ELSE stats
  /\ counted' = [w \in Writers |-> IF w = s THEN counted[w] + 1 ELSE counted[w]]
  /\ use_count' = [w \in Writers |-> IF w = s THEN use_count[w] - 1 ELSE use_count[w]]
  /\ UNCHANGED final_stats

CountPacked(s) ==
  /\ stats' = stats + 1
  /\ counted' = [w \in Writers |-> IF w = s THEN counted[w] + 1 ELSE counted[w]]
  /\ use_count' = [w \in Writers |-> IF w = s THEN use_count[w] - 1 ELSE use_count[w]]
  /\ UNCHANGED final_stats

CompressorDone(t) ==
  /\ compressor[t] = "packed"
  /\ \E i \in 1..Len(pending_work) :
       LET s == pending_work[i].to_update
           p == Completed(i)
           b == CompletedBytes(i)
       IN
       /\ pending_work[i].extent = work[t]
       /\ CountPacked(s)
       /\ pc' = Notified(p, b)
       /\ writer' = IF frontReadyToWrite(p) THEN WriterSignalled ELSE writer
       /\ CompressorLoop(t, p, b,
            /\ s \in Writers => use_count[s] > 0
            /\ bytes_in_progress >= 2 * RawSize[work[t]])
  /\ UNCHANGED <<calls, ncompressors, fileVars, callbackVars, keep_going,
                 max_bytes_in_progress, out>>

----------------------------------------------------------------------------
\* writeOutPending

\* It takes everything that is ready off the front of the queue.
ReadyPrefix(p, n) == /\ \A i \in 1..n : readyToWrite(p[i])
                     /\ n < Len(p) => ~readyToWrite(p[n + 1])

BeginWriteOut(a, p) ==
  \E n \in 0..Len(p) :
    /\ ReadyPrefix(p, n)
    /\ out' = [out EXCEPT ![a] = [to_write |-> SubSeq(p, 1, n), bytes |-> 0,
                                  ewc |-> callback]]
    /\ pending_work' = SubSeq(p, n + 1, Len(p))

IndexEntry_after_write(e) == [extent |-> e, offset |-> cur_offset + PackedSize[e]]

IndexEntry(e) == [extent |-> e, offset |-> cur_offset]

\* Without the mutex: one round of its loop, which calls the callback, wipes
\* the extent and writes it.  Wiping the index extent empties index_series.
WriteOut(a) ==
  LET tc == Head(out[a].to_write) IN
  /\ out[a].to_write # << >>
  /\ Invariant(cur_offset > 0)
  /\ index_series' = Append(IF tc.extent[1] = Index THEN << >> ELSE index_series,
                            IndexEntry(tc.extent))
  /\ disk' = Append(disk, tc.extent)
  /\ cur_offset' = cur_offset + tc.compressed
  /\ out' = [out EXCEPT ![a].to_write = Tail(@), ![a].bytes = @ + tc.compressed]
  /\ UNCHANGED <<clientVars, queueVars, threadVars, wrote_library, nfiles,
                 packed_index, closing, tail, statsVars, callbackVars,
                 keep_going, max_bytes_in_progress>>

\* All is written: account for it, with the mutex held.
FinishWriteOut(a) ==
  /\ out[a].to_write = << >>
  /\ Invariant(bytes_in_progress >= out[a].bytes)
  /\ bytes_in_progress' = bytes_in_progress - out[a].bytes

NotifiedAfter_too_early(a) == Notified(pending_work, bytes_in_progress)

NotifiedAfter(a) == Notified(pending_work, bytes_in_progress - out[a].bytes)

----------------------------------------------------------------------------
\* writerThread

WriterLoop ==
  \/ /\ keep_going /\ frontReadyToWrite(pending_work)
     /\ writer' = "writing"
     /\ BeginWriteOut("writer", pending_work)
  \/ /\ ~(keep_going /\ frontReadyToWrite(pending_work))
     /\ writer' = IF keep_going THEN "waiting" ELSE "exited"
     /\ out' = [out EXCEPT !["writer"] = NoBatch]
     /\ UNCHANGED pending_work

WriterRun ==
  /\ writer = "running"
  /\ WriterLoop
  /\ UNCHANGED <<clientVars, bytes_in_progress, ncompressors, compressor, work,
                 fileVars, statsVars, callbackVars, keep_going,
                 max_bytes_in_progress, aborted>>

WriterDone ==
  /\ writer = "writing"
  /\ FinishWriteOut("writer")
  /\ pc' = NotifiedAfter("writer")
  /\ WriterLoop
  /\ UNCHANGED <<calls, ncompressors, compressor, work, fileVars, statsVars,
                 callbackVars, keep_going, max_bytes_in_progress>>

----------------------------------------------------------------------------
\* close

\* The documented precondition: no writeExtent is in progress or follows.
NoWriteInProgress == \A w \in Writers : pc[w] \notin {"queue_wait", "queue_woken"}

\* Up to the point where stopThreads releases the mutex.
CloseBegin ==
  /\ pc[Owner] = "idle" /\ NoWriteInProgress
  /\ Invariant(wrote_library /\ cur_offset >= 0)
  /\ keep_going' = FALSE
  /\ compressor' = WorkBroadcast
  /\ writer' = WriterSignalled
  /\ pc' = [pc EXCEPT ![Owner] = "join_compressors"]
  /\ UNCHANGED <<calls, queueVars, ncompressors, work, fileVars, statsVars,
                 callbackVars, max_bytes_in_progress, out>>

JoinCompressors ==
  /\ pc[Owner] = "join_compressors"
  /\ \A t \in Compressors : compressor[t] = "exited"
  /\ compressor' = [t \in Compressors |-> "none"]
  /\ ncompressors' = 0
  /\ pc' = [pc EXCEPT ![Owner] = "join_writer"]
  /\ UNCHANGED <<calls, queueVars, work, writer, fileVars, statsVars, callbackVars,
                 keep_going, max_bytes_in_progress, out, aborted>>

\* There is no writer to join without compressors: the code follows NULL.
JoinWriter ==
  /\ pc[Owner] = "join_writer"
  /\ writer \in {"exited", "none"}
  /\ Invariant(writer # "none")
  /\ writer' = "none"
  /\ BeginWriteOut("closer", pending_work)
  /\ pc' = [pc EXCEPT ![Owner] = "drain"]
  /\ UNCHANGED <<calls, bytes_in_progress, ncompressors, compressor, work,
                 fileVars, statsVars, callbackVars, keep_going,
                 max_bytes_in_progress>>

\* The end of writeOutPending, and the index extent put on the queue and taken
\* for packing, which releases the mutex.
CloseIndex ==
  LET e == <<Index, nfiles>>
      b == bytes_in_progress - out["closer"].bytes
  IN
  /\ pc[Owner] = "drain" /\ out["closer"].to_write = << >>
  /\ Invariant(/\ bytes_in_progress >= out["closer"].bytes
               /\ pending_work = << >> /\ b = 0
               /\ cur_offset > 0)
  /\ closing' = [closing EXCEPT !.index_offset = cur_offset]
  /\ index_series' = Append(index_series, IndexEntry(e))
  /\ bytes_in_progress' = b + 2 * RawSize[e]
  /\ pending_work' = Append(pending_work, [NewWork(e, NoStats) EXCEPT !.in_progress = TRUE])
  /\ pc' = [NotifiedAfter("closer") EXCEPT ![Owner] = "pack_index"]
  /\ out' = [out EXCEPT !["closer"] = NoBatch]
  /\ UNCHANGED <<calls, threadVars, wrote_library, cur_offset, nfiles, disk,
                 packed_index, tail, statsVars, callbackVars, keep_going,
                 max_bytes_in_progress>>

\* packData of the index, the end of lockedProcessToCompress and the start of
\* the second writeOutPending.
PackIndex ==
  LET e == <<Index, nfiles>>
      b == bytes_in_progress - 2 * RawSize[e] + PackedSize[e]
  IN
  /\ pc[Owner] = "pack_index"
  /\ Invariant(/\ bytes_in_progress >= 2 * RawSize[e]
               /\ b = PackedSize[e] /\ Len(pending_work) = 1)
  /\ packed_index' = index_series
  /\ closing' = [closing EXCEPT !.packed_size = PackedSize[e]]
  /\ bytes_in_progress' = b
  /\ CountPacked(NoStats)
  /\ BeginWriteOut("closer",
       [pending_work EXCEPT ![1].in_progress = FALSE, ![1].compressed = PackedSize[e]])
  /\ pc' = [pc EXCEPT ![Owner] = "write_index"]
  /\ UNCHANGED <<calls, threadVars, wrote_library, cur_offset, index_series,
                 nfiles, disk, tail, callbackVars, keep_going,
                 max_bytes_in_progress>>

\* The end of writeOutPending, the tail, and everything reset for the next file.
Seal ==
  /\ pc[Owner] = "write_index"
  /\ out["closer"].to_write = << >>
  /\ bytes_in_progress' = bytes_in_progress - out["closer"].bytes
  /\ Invariant(pending_work = << >> /\ bytes_in_progress = out["closer"].bytes)
  /\ tail' = closing
  /\ closing' = NoTail
  /\ wrote_library' = FALSE /\ cur_offset' = -1 /\ index_series' = << >>
  /\ final_stats' = stats
  /\ stats' = 0
  /\ out' = [out EXCEPT !["closer"] = NoBatch]
  /\ pc' = [NotifiedAfter("closer") EXCEPT ![Owner] = "closed"]
  /\ UNCHANGED <<calls, pending_work, threadVars, nfiles, disk, packed_index,
                 counted, use_count, callbackVars, keep_going,
                 max_bytes_in_progress>>

----------------------------------------------------------------------------
\* Nothing is left to do: the owner has written its files.
Finished == pc[Owner] = "closed" /\ nfiles = MaxFiles /\ UNCHANGED vars

OwnerStep == \/ QueueLibrary \/ QueueWakeup(Owner) \/ MarkWroteLibrary
             \/ JoinCompressors \/ JoinWriter \/ WriteOut("closer")
             \/ CloseIndex \/ PackIndex \/ Seal

CompressorStep(t) == CompressorRun(t) \/ Pack(t) \/ CompressorDone(t)

WriterStep == WriterRun \/ WriteOut("writer") \/ WriterDone

Wakeup(w) == QueueWakeup(w) \/ FlushWakeup(w)

NewCall(w) ==
  \/ WriteExtent(w) \/ FlushPending(w) \/ SetExtentWriteCallback(w)
  \/ RemoveStatsUpdate(w)
  \/ \E nbytes \in MaxBytesChoices : SetMaxBytesInProgress(w, nbytes)

Next == /\ ~aborted
        /\ \/ Open \/ CloseBegin \/ OwnerStep
           \/ \E t \in Compressors : CompressorStep(t)
           \/ WriterStep
           \/ \E w \in Writers : NewCall(w) \/ Wakeup(w)
           \/ Finished

Spec == Init /\ [][Next]_vars

\* A thread that can run does run; nobody has to make a call, open or close.
Fairness == /\ WF_vars(~aborted /\ OwnerStep)
            /\ \A t \in Compressors : WF_vars(~aborted /\ CompressorStep(t))
            /\ WF_vars(~aborted /\ WriterStep)
            /\ \A w \in Writers : WF_vars(~aborted /\ Wakeup(w))

FairSpec == Spec /\ Fairness

----------------------------------------------------------------------------
\* Properties

Positions == 1..Len(pending_work)

ToCompress == [extent : Extents, to_update : Writers \cup {NoStats},
               in_progress : BOOLEAN, compressed : Nat]

IndexEntries == Seq([extent : Extents, offset : Int])

ClientPlaces == {"closed", "opened", "queued", "join_compressors", "join_writer",
                 "drain", "pack_index", "write_index", "idle", "queue_wait",
                 "queue_woken", "flush_wait", "flush_woken", "removed"}
CompressorPlaces == {"none", "running", "waiting", "packing", "packed", "exited"}
WriterPlaces == {"none", "running", "waiting", "writing", "exited"}

ClientTypes == /\ pc \in [Clients -> ClientPlaces]
               /\ calls \in [Writers -> 0..MaxCalls]

QueueTypes == /\ pending_work \in Seq(ToCompress)
              /\ bytes_in_progress \in Int /\ max_bytes_in_progress \in Nat \ {0}
              /\ ~aborted => bytes_in_progress \in Nat

ThreadTypes == /\ keep_going \in BOOLEAN
               /\ ncompressors \in Nat
               /\ compressor \in [Compressors -> CompressorPlaces]
               /\ work \in [Compressors -> Extents \cup {NoExtent}]
               /\ writer \in WriterPlaces

OutTypes == out \in [Writing -> [to_write : Seq(ToCompress), bytes : Nat, ewc : Nat]]

FileTypes == /\ wrote_library \in BOOLEAN /\ cur_offset \in Int
             /\ index_series \in IndexEntries /\ packed_index \in IndexEntries
             /\ nfiles \in 0..MaxFiles /\ disk \in Seq(Extents)
             /\ closing \in [index_offset : Int, packed_size : Nat]
             /\ tail \in [index_offset : Int, packed_size : Nat]

StatsTypes == /\ stats \in Nat /\ final_stats \in Nat
              /\ counted \in [Writers -> Nat] /\ use_count \in [Writers -> Int]
              /\ ~aborted => use_count \in [Writers -> Nat]

\* Type correctness of the state of the sink, its threads and its file.  The
\* two unsigned counters do not wrap: what the code subtracts it has asserted
\* to be there.
TypeOK == /\ ClientTypes /\ QueueTypes /\ ThreadTypes /\ OutTypes /\ FileTypes
          /\ StatsTypes
          /\ callback \in Nat /\ fence \in Nat /\ aborted \in BOOLEAN

\* None of the assertions the code makes on the way of an extent through the
\* pipeline can fail (INVARIANT and SINVARIANT in DataSeriesSink.cpp).
NoAssertionFails == ~aborted

\* As far as the assertions go, bytes_in_progress is exactly the memory the
\* pipeline holds, and none of them fails: an extent that
\* waits counts its size, one that is being packed twice its size (in and out
\* buffer), a packed one its packed size until it has been written, whoever
\* took it off the queue.  queueWriteExtent, lockedProcessToCompress (which
\* adds before it unlocks and subtracts after) and writeOutPending (which
\* subtracts only after it wrote) each see a part of it.
Footprint(i) == CASE i.in_progress -> 2 * RawSize[i.extent]
                  [] ~i.in_progress /\ i.compressed > 0 -> i.compressed
                  [] OTHER -> RawSize[i.extent]

FootprintOf(p) == Total([k \in 1..Len(p) |-> Footprint(p[k])])

BytesAccounting ==
  /\ TypeOK /\ NoAssertionFails
  /\ bytes_in_progress =
       FootprintOf(pending_work)
       + (out["writer"].bytes + FootprintOf(out["writer"].to_write))
       + (out["closer"].bytes + FootprintOf(out["closer"].to_write))

\* A compressor that packs without the mutex works on an extent that is on the
\* queue, marked in_progress and claimed by it alone, and nothing else is
\* marked: "as otherwise the work pointer could vanish under us"
\* (DataSeriesSink.cpp:499), and two compressors never pack one extent.
Packing(t) == compressor[t] \in {"packing", "packed"}

ClaimedWorkIsQueued ==
  \A t \in Compressors : Packing(t) =>
    \E i \in Positions : /\ pending_work[i].extent = work[t]
                         /\ pending_work[i].in_progress

ClaimsAreExclusive ==
  \A t, u \in Compressors : Packing(t) /\ Packing(u) /\ work[t] = work[u] => t = u

ClaimedByACompressor ==
  \A i \in Positions : pending_work[i].in_progress =>
    \/ \E t \in Compressors : Packing(t) /\ work[t] = pending_work[i].extent
    \/ pc[Owner] = "pack_index"

WorkStaysQueued == /\ ClaimedWorkIsQueued
                   /\ ClaimsAreExclusive
                   /\ ClaimedByACompressor

\* The condition variables lose no wake-up: a sleeping writer thread has
\* nothing to write; while something waits to be packed not all compressors
\* sleep; a call sleeps in queueWriteExtent only while the queue is full or a
\* batch is being written (whose end tells it); a flushPending sleeps only
\* while there is something to wait for, until close() has been called for the
\* first time (after that nobody wakes it up: README.md, "What was observed").
NoLostWakeup ==
  /\ writer = "waiting" => ~frontReadyToWrite(pending_work)
  /\ (\E i \in Positions : Unclaimed(pending_work[i])) /\ ncompressors > 0 =>
       \E t \in Compressors : compressor[t] \notin {"waiting", "exited"}
  /\ \A c \in Clients : pc[c] = "queue_wait" =>
       \/ ~canQueueWork(pending_work, bytes_in_progress)
       \/ writer = "writing"
  /\ keep_going /\ nfiles = 1 /\ (\E c \in Clients : pc[c] = "flush_wait") =>
       bytes_in_progress > 0

\* The index finds every extent: an entry of index_series is the position of
\* the extent in the file, the packed index has exactly the extents of the
\* file (itself last, entered before it was packed), and the tail leads to it.
PositionOf(i) == HeaderSize + Total([j \in 1..(i-1) |-> PackedSize[disk[j]]])

Entries(n) == [i \in 1..n |-> [extent |-> disk[i], offset |-> PositionOf(i)]]

IndexMatchesFile ==
  /\ pc[Owner] \in {"idle", "join_compressors", "join_writer", "drain"} =>
       /\ index_series = Entries(Len(disk))
       /\ cur_offset = PositionOf(Len(disk) + 1)
  /\ tail # NoTail =>
       LET n == Len(disk) IN
       /\ packed_index = Entries(n)
       /\ disk[n] = <<Index, nfiles>>
       /\ tail.index_offset = PositionOf(n)
       /\ tail.packed_size = PackedSize[disk[n]]

\* use_count of a writer's Stats is the number of queued extents that will
\* still update it, so after removeStatsUpdate none refers to it and the Stats
\* may be deleted; each extent it queued is counted at most once; and
\* close(false, &s) adds to s one count for each extent in the file, the index
\* and the type library included.
Referring(w) == {i \in Positions : pending_work[i].to_update = w}

StatsExact ==
  /\ \A w \in Writers :
       /\ use_count[w] = Cardinality(Referring(w))
       /\ pc[w] = "removed" => Referring(w) = {}
       /\ counted[w] + use_count[w] <= calls[w]
  /\ pc[Owner] = "closed" /\ nfiles > 0 => final_stats = Len(disk)

\* When flushPending returns to a thread everything this thread has queued is
\* in the file, and not only off the queue; and after setExtentWriteCallback and
\* a flushPending no older callback is called: a batch that still has something
\* to write has copied a newer one (writeOutPending copies it before it releases
\* the mutex).
NewCallbackAfterFlush ==
  \A a \in Writing : out[a].to_write # << >> => out[a].ewc >= fence

InPipeline(e) == \/ \E i \in Positions : pending_work[i].extent = e
                 \/ \E a \in Writing : \E i \in 1..Len(out[a].to_write) :
                      out[a].to_write[i].extent = e

FlushMeansWritten ==
  [][/\ NewCallbackAfterFlush'
     /\ \A w \in Writers :
          (FlushPending(w) \/ FlushWakeup(w)) /\ pc'[w] = "idle" =>
            \A k \in 1..MaxCalls : ~InPipeline(<<w, k>>)]_vars

\* The pipeline implements the log: extents reach the file in the order in
\* which queueWriteExtent took them, each once, however many compressors
\* finished them in whatever order, and the file is sealed with all of them.
ExtentsOf(p) == [i \in 1..Len(p) |-> p[i].extent]

Log == INSTANCE ExtentLog WITH
  accepted <- disk \o ExtentsOf(out["writer"].to_write)
                   \o ExtentsOf(out["closer"].to_write) \o ExtentsOf(pending_work),
  written <- disk,
  open <- cur_offset > 0

ImplementsLog == Log!Spec

\* Every extent that was queued gets into the file.  A writeExtent that has to
\* wait for space returns, whatever the other threads do with their own calls;
\* and once close() has been called the file is sealed: no thread it joins stays
\* asleep.
CallsReturn ==
  /\ Log!AcceptedIsWritten
  /\ \A w \in Writers : pc[w] \in {"queue_wait", "queue_woken"} ~> pc[w] = "idle"
  /\ pc[Owner] = "join_compressors" ~> pc[Owner] = "closed"
=============================================================================
