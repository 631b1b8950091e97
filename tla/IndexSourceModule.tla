------------------------- MODULE IndexSourceModule -------------------------
(***************************************************************************)
(* IndexSourceModule (src/module/IndexSourceModule.cpp): one thread reads   *)
(* compressed extents ahead of the reader, a pool of threads unpacks them   *)
(* in parallel, and the reader gets them in file order.  Two queues limit   *)
(* the memory used; close() stops all the threads, resetPos() starts over.  *)
(*                                                                          *)
(* One mutex protects everything.  An action is what a thread does from     *)
(* taking the mutex to releasing it; reading and unpacking happen between   *)
(* two actions of a thread.  Only resetPos() keeps the mutex: mutex_kept.   *)
(***************************************************************************)
EXTENDS Integers, Sequences, FiniteSets, SequenceSums

CONSTANTS
  Consumer,        \* the thread that calls getSharedExtent and resetPos
  Closers,         \* other threads that may call close()
  Unpackers,       \* the unpack threads
  NExtents,        \* the subclass finds this many extents to read
  PackedBytes,     \* size of each extent as it is in the file
  UnpackedBytes,   \* Extent::unpackedSize of it
  MaxCompressed,   \* limits of the two queues
  MaxUnpacked,
  MaxResets        \* bound: calls of resetPos()

Extents == 1..NExtents
Clients == Closers \cup {Consumer}

ASSUME IndexSourceAssumption ==
  /\ Consumer \notin Closers
  /\ IsFiniteSet(Unpackers) /\ Unpackers # {}
  /\ NExtents \in Nat /\ MaxResets \in Nat
  /\ MaxCompressed \in Nat \ {0} /\ MaxUnpacked \in Nat \ {0}
  /\ PackedBytes \in [Extents -> Nat \ {0}]
  /\ UnpackedBytes \in [Extents -> Nat \ {0}]

VARIABLES
  pc,              \* where each client is
  prefetcher,      \* where the compressed prefetch thread is
  unpacker,        \* where each unpack thread is
  item,            \* the extent it unpacks
  position,        \* the cursor of the subclass: extents found so far
  \* PrefetchInfo
  compressed, compressed_cur,
  unpacked, unpacked_cur,
  source_done, abort_prefetching,
  mutex_kept,      \* resetPos() returned without unlocking
  \* history
  delivered,       \* what getSharedExtent returned since the start or reset
  ended,           \* did it find the end?
  closed_early,    \* did someone call close() before that?
  resets,          \* calls of resetPos()
  aborted          \* has an INVARIANT of the code failed?

threadVars == <<prefetcher, unpacker, item>>
compressedVars == <<compressed, compressed_cur>>
unpackedVars == <<unpacked, unpacked_cur>>
streamVars == <<delivered, ended, closed_early>>
resetVars  == <<mutex_kept, resets>>
vars == <<pc, threadVars, position, compressedVars, unpackedVars, source_done,
          abort_prefetching, streamVars, resetVars, aborted>>

----------------------------------------------------------------------------
\* The queues.  Definitions with a suffix are mutants of the one that follows
\* (README.md, "Mutants").

can_add(cur, amount, limit) == cur = 0 \/ cur + amount < limit

\* Is there an extent to unpack and room for it?
CanUnpack(q, ucur) == /\ q # << >>
                      /\ can_add(ucur, UnpackedBytes[Head(q)], MaxUnpacked)

unpackedReady(u) == u # << >> /\ Head(u).done

allDone_forgets_unpacking == source_done /\ compressed = << >>

allDone == source_done /\ compressed = << >> /\ unpacked = << >>

Invariant(P) == aborted' = ~P

----------------------------------------------------------------------------
\* Condition variables

\* ready_cond, on which only the reader waits
ReadySignalled(p) == [c \in Clients |-> IF p[c] = "ready_wait" THEN "ready_woken"
                                                              ELSE p[c]]

UnpackBroadcast == [t \in Unpackers |-> IF unpacker[t] = "waiting" THEN "running"
                                                                 ELSE unpacker[t]]

\* unpack_cond.signal(): one of the waiting threads, if any
UnpackSignal ==
  \/ \E t \in Unpackers : /\ unpacker[t] = "waiting"
                          /\ unpacker' = [unpacker EXCEPT ![t] = "running"]
  \/ (\A t \in Unpackers : unpacker[t] # "waiting") /\ UNCHANGED unpacker

\* compressed_cond: the prefetch thread waits on it for room, close() for the
\* threads to stop.  The latter waits only while abort_prefetching > 0, and
\* then nobody signals, so that a signal is for the prefetch thread.
PrefetcherSignalled_missing == prefetcher

PrefetcherSignalled == IF prefetcher = "waiting" THEN "running" ELSE prefetcher

CloserWoken(place) == CASE place = "join_wait"  -> "join"
                        [] place = "close_wait" -> "closing"
                        [] OTHER -> place

ClosersWoken(p) == [c \in Clients |-> CloserWoken(p[c])]

----------------------------------------------------------------------------
NoItem == 0

Init ==
  /\ pc = [c \in Clients |-> IF c = Consumer THEN "new" ELSE "idle"]
  /\ prefetcher = "none"
  /\ unpacker = [t \in Unpackers |-> "none"]
  /\ item = [t \in Unpackers |-> NoItem]
  /\ position = 0
  /\ compressed = << >> /\ compressed_cur = 0
  /\ unpacked = << >> /\ unpacked_cur = 0
  /\ source_done = FALSE /\ abort_prefetching = 0 /\ mutex_kept = FALSE
  /\ delivered = << >> /\ ended = FALSE /\ closed_early = FALSE
  /\ resets = 0 /\ aborted = FALSE

lockedStartThreads == /\ prefetcher' = "running"
                      /\ unpacker' = [t \in Unpackers |-> "running"]

\* Called by the user or by the first getSharedExtent
startPrefetching ==
  /\ pc[Consumer] = "new"
  /\ lockedStartThreads
  /\ pc' = [pc EXCEPT ![Consumer] = "idle"]
  /\ UNCHANGED <<item, position, compressedVars, unpackedVars, source_done,
                 abort_prefetching, streamVars, resetVars, aborted>>

----------------------------------------------------------------------------
\* getSharedExtent

WaitForExtent ==
  /\ ~allDone /\ ~unpackedReady(unpacked)
  /\ unpacker' = UnpackBroadcast
  /\ pc' = [pc EXCEPT ![Consumer] = "ready_wait"]
  /\ UNCHANGED <<prefetcher, item, position, compressedVars, unpackedVars,
                 source_done, abort_prefetching, streamVars, resetVars, aborted>>

\* It will close() and return NULL.
FindEnd ==
  /\ allDone
  /\ ended' = TRUE
  /\ pc' = [pc EXCEPT ![Consumer] = "close"]
  /\ UNCHANGED <<threadVars, position, compressedVars, unpackedVars, source_done,
                 abort_prefetching, delivered, closed_early, resetVars, aborted>>

Subtracted_packed_size(i) == unpacked_cur - PackedBytes[i.extent]

Subtracted(i) == unpacked_cur - UnpackedBytes[i.extent]

TakeExtent ==
  /\ ~allDone /\ unpackedReady(unpacked)
  /\ Invariant(Head(unpacked).done /\ unpacked_cur >= UnpackedBytes[Head(unpacked).extent])
  /\ unpacked' = Tail(unpacked)
  /\ unpacked_cur' = Subtracted(Head(unpacked))
  /\ delivered' = Append(delivered, Head(unpacked).extent)
  /\ \/ CanUnpack(compressed, unpacked_cur') /\ UnpackSignal
     \/ ~CanUnpack(compressed, unpacked_cur') /\ UNCHANGED unpacker
  /\ pc' = [pc EXCEPT ![Consumer] = "idle"]
  /\ UNCHANGED <<prefetcher, item, position, compressedVars, source_done,
                 abort_prefetching, ended, closed_early, resetVars>>

Reading == WaitForExtent \/ FindEnd \/ TakeExtent

\* A new call, also after NULL was returned
getSharedExtent == /\ \/ pc[Consumer] = "idle"
                      \/ pc[Consumer] = "closed" /\ ended
                   /\ Reading

ReadyWakeup == pc[Consumer] = "ready_woken" /\ Reading

----------------------------------------------------------------------------
\* compressedPrefetchThread

EndSignalled_missing == pc

\* The reader may be waiting for the end.
EndSignalled == ReadySignalled(pc)

\* Its loop from compressed bytes b on, until the mutex is released: the thread
\* exits, reads, finds the end, or sleeps.
MayRead(b) == ~source_done /\ can_add(b, 0, MaxCompressed)

PrefetchExit ==
  /\ abort_prefetching > 0
  /\ abort_prefetching' = abort_prefetching - 1
  /\ prefetcher' = "exited"
  /\ pc' = ClosersWoken(pc)
  /\ UNCHANGED source_done

PrefetchNext(b) ==
  /\ abort_prefetching = 0 /\ MayRead(b) /\ position' < NExtents
  /\ prefetcher' = "reading"
  /\ UNCHANGED <<pc, source_done, abort_prefetching>>

PrefetchEnd(b) ==
  /\ abort_prefetching = 0 /\ MayRead(b) /\ position' = NExtents
  /\ source_done' = TRUE
  /\ pc' = EndSignalled
  /\ prefetcher' = "waiting"
  /\ UNCHANGED abort_prefetching

PrefetchSleep(b) ==
  /\ abort_prefetching = 0 /\ ~MayRead(b)
  /\ prefetcher' = "waiting"
  /\ UNCHANGED <<pc, source_done, abort_prefetching>>

PrefetchLoop(b) ==
  PrefetchExit \/ PrefetchNext(b) \/ PrefetchEnd(b) \/ PrefetchSleep(b)

PrefetchRun ==
  /\ prefetcher = "running"
  /\ UNCHANGED position
  /\ PrefetchLoop(compressed_cur)
  /\ UNCHANGED <<unpacker, item, compressedVars, unpackedVars, streamVars,
                 resetVars, aborted>>

\* readCompressed has the next extent and locks the mutex again.
PrefetchRead ==
  LET e == position + 1
      q == Append(compressed, e)
  IN
  /\ prefetcher = "reading"
  /\ position' = e
  /\ compressed' = q
  /\ compressed_cur' = compressed_cur + PackedBytes[e]
  /\ \/ CanUnpack(q, unpacked_cur) /\ UnpackSignal
     \/ ~CanUnpack(q, unpacked_cur) /\ UNCHANGED unpacker
  /\ PrefetchLoop(compressed_cur + PackedBytes[e])
  /\ UNCHANGED <<item, unpackedVars, streamVars, resetVars, aborted>>

----------------------------------------------------------------------------
\* unpackThread

Unqueued(e) == compressed_cur - PackedBytes[e]

\* Its loop from the queue u and the places p of the clients on, until the
\* mutex is released: the thread exits, takes an extent, or sleeps; ok says
\* that no assertion failed yet.
UnpackExit(t, u, p, ok) ==
  /\ abort_prefetching > 0
  /\ abort_prefetching' = abort_prefetching - 1
  /\ unpacker' = [unpacker EXCEPT ![t] = "exited"]
  /\ item' = [item EXCEPT ![t] = NoItem]
  /\ prefetcher' = PrefetcherSignalled
  /\ pc' = ClosersWoken(p)
  /\ unpacked' = u
  /\ Invariant(ok)
  /\ UNCHANGED <<compressedVars, unpacked_cur>>

UnpackTake(t, u, p, ok) ==
  LET e == Head(compressed) IN
  /\ abort_prefetching = 0 /\ CanUnpack(compressed, unpacked_cur)
  /\ Invariant(ok /\ compressed_cur >= PackedBytes[e])
  /\ compressed' = Tail(compressed)
  /\ compressed_cur' = Unqueued(e)
  /\ unpacked' = Append(u, [extent |-> e, done |-> FALSE])
  /\ unpacked_cur' = unpacked_cur + UnpackedBytes[e]
  /\ item' = [item EXCEPT ![t] = e]
  /\ unpacker' = [unpacker EXCEPT ![t] = "unpacking"]
  /\ prefetcher' = PrefetcherSignalled
  /\ pc' = p
  /\ UNCHANGED abort_prefetching

UnpackSleep(t, u, p, ok) ==
  /\ abort_prefetching = 0 /\ ~CanUnpack(compressed, unpacked_cur)
  /\ unpacker' = [unpacker EXCEPT ![t] = "waiting"]
  /\ item' = [item EXCEPT ![t] = NoItem]
  /\ unpacked' = u
  /\ pc' = p
  /\ Invariant(ok)
  /\ UNCHANGED <<prefetcher, compressedVars, unpacked_cur, abort_prefetching>>

UnpackLoop(t, u, p, ok) ==
  UnpackExit(t, u, p, ok) \/ UnpackTake(t, u, p, ok) \/ UnpackSleep(t, u, p, ok)

UnpackRun(t) ==
  /\ unpacker[t] = "running"
  /\ UnpackLoop(t, unpacked, pc, TRUE)
  /\ UNCHANGED <<position, source_done, streamVars, resetVars>>

MarkedDone_at_front(e) ==
  [i \in 1..Len(unpacked) |-> IF i = 1 THEN [unpacked[i] EXCEPT !.done = TRUE]
                                      ELSE unpacked[i]]

MarkedDone(e) ==
  [i \in 1..Len(unpacked) |-> IF unpacked[i].extent = e
                              THEN [unpacked[i] EXCEPT !.done = TRUE]
                              ELSE unpacked[i]]

\* It has unpacked its extent and locks the mutex again.
UnpackDone(t) ==
  LET u == MarkedDone(item[t]) IN
  /\ unpacker[t] = "unpacking"
  /\ UnpackLoop(t, u, IF unpackedReady(u) THEN ReadySignalled(pc) ELSE pc,
                unpacked # << >>)
  /\ UNCHANGED <<position, source_done, streamVars, resetVars>>

----------------------------------------------------------------------------
\* close

lockedIsClosed == prefetcher = "none" /\ \A t \in Unpackers : unpacker[t] = "none"

\* "me + compressed_prefetch + unpackers"
ToAbort == 2 + Cardinality(Unpackers)

\* From the call to its first wait or return
CloseEnter(c) ==
  \/ /\ lockedIsClosed
     /\ pc' = [pc EXCEPT ![c] = "closed"]
     /\ UNCHANGED <<threadVars, abort_prefetching>>
  \/ /\ ~lockedIsClosed /\ abort_prefetching = 0
     /\ abort_prefetching' = ToAbort
     /\ prefetcher' = PrefetcherSignalled
     /\ unpacker' = UnpackBroadcast
     /\ pc' = [ReadySignalled(pc) EXCEPT ![c] = "join_wait"]
     /\ UNCHANGED item
  \/ /\ ~lockedIsClosed /\ abort_prefetching > 0
     /\ pc' = [pc EXCEPT ![c] = "close_wait"]
     /\ UNCHANGED <<threadVars, abort_prefetching>>

Close(c) ==
  /\ pc[c] = "idle" /\ pc[Consumer] # "new"
  /\ CloseEnter(c)
  /\ closed_early' = (closed_early \/ ~(ended \/ lockedIsClosed))
  /\ UNCHANGED <<position, compressedVars, unpackedVars, source_done, delivered,
                 ended, resetVars, aborted>>

\* getSharedExtent closes at the end.
CloseAtEnd ==
  /\ pc[Consumer] = "close"
  /\ CloseEnter(Consumer)
  /\ UNCHANGED <<position, compressedVars, unpackedVars, source_done, streamVars,
                 resetVars, aborted>>

\* The first thread that called close() wakes up.
WaitForThreads(c) ==
  /\ pc[c] = "join" /\ abort_prefetching > 1
  /\ pc' = [pc EXCEPT ![c] = "join_wait"]
  /\ UNCHANGED <<threadVars, position, compressedVars, unpackedVars, source_done,
                 abort_prefetching, streamVars, resetVars, aborted>>

Dropped_compressed_only == compressed' = << >> /\ UNCHANGED unpacked

\* The extents are deleted; what the queues count of them stays.
Dropped == compressed' = << >> /\ unpacked' = << >>

\* It joins the threads, with the mutex held: all have unlocked it.
JoinThreads(c) ==
  /\ pc[c] = "join" /\ abort_prefetching <= 1
  /\ prefetcher = "exited" /\ \A t \in Unpackers : unpacker[t] = "exited"
  /\ Invariant(abort_prefetching = 1)
  /\ prefetcher' = "none"
  /\ unpacker' = [t \in Unpackers |-> "none"]
  /\ Dropped
  /\ abort_prefetching' = 0
  /\ pc' = [ClosersWoken(pc) EXCEPT ![c] = "closed"]
  /\ UNCHANGED <<item, position, compressed_cur, unpacked_cur, source_done,
                 streamVars, resetVars>>

\* Any other thread in close() wakes up.
CloseWakeup(c) ==
  /\ pc[c] = "closing"
  /\ pc' = [pc EXCEPT ![c] = IF abort_prefetching > 0 THEN "close_wait" ELSE "closed"]
  /\ UNCHANGED <<threadVars, position, compressedVars, unpackedVars, source_done,
                 abort_prefetching, streamVars, resetVars, aborted>>

----------------------------------------------------------------------------
\* What follows the close() in resetPos.  There is no unlock.
resetPos ==
  /\ pc[Consumer] = "closed" /\ resets < MaxResets
  /\ Invariant(lockedIsClosed /\ abort_prefetching = 0)
  /\ position' = 0
  /\ source_done' = FALSE
  /\ lockedStartThreads
  /\ mutex_kept' = TRUE
  /\ resets' = resets + 1
  /\ delivered' = << >> /\ ended' = FALSE /\ closed_early' = FALSE
  /\ pc' = [pc EXCEPT ![Consumer] = "idle"]
  /\ UNCHANGED <<item, compressedVars, unpackedVars, abort_prefetching>>

----------------------------------------------------------------------------
PrefetchStep == PrefetchRun \/ PrefetchRead
UnpackStep(t) == UnpackRun(t) \/ UnpackDone(t)
CloseStep(c) == WaitForThreads(c) \/ JoinThreads(c) \/ CloseWakeup(c)
ConsumerStep == ReadyWakeup \/ CloseAtEnd

\* Every step takes the mutex.
Running == ~aborted /\ ~mutex_kept

Next == /\ Running
        /\ \/ startPrefetching \/ getSharedExtent \/ ConsumerStep \/ resetPos
           \/ PrefetchStep
           \/ \E t \in Unpackers : UnpackStep(t)
           \/ \E c \in Clients : Close(c) \/ CloseStep(c)

Spec == Init /\ [][Next]_vars

\* A thread that can run does run; nobody has to make a call.
Fairness == /\ WF_vars(Running /\ PrefetchStep)
            /\ \A t \in Unpackers : WF_vars(Running /\ UnpackStep(t))
            /\ WF_vars(Running /\ ConsumerStep)
            /\ \A c \in Clients : WF_vars(Running /\ CloseStep(c))

FairSpec == Spec /\ Fairness

----------------------------------------------------------------------------
\* Properties

ClientPlaces == {"new", "idle", "ready_wait", "ready_woken", "close", "join_wait",
                 "join", "close_wait", "closing", "closed"}

ClientTypes == pc \in [Clients -> ClientPlaces]

ThreadTypes ==
  /\ prefetcher \in {"none", "running", "reading", "waiting", "exited"}
  /\ unpacker \in [Unpackers -> {"none", "running", "unpacking", "waiting", "exited"}]
  /\ item \in [Unpackers -> 0..NExtents]
  /\ abort_prefetching \in Nat

QueueTypes ==
  /\ position \in 0..NExtents /\ source_done \in BOOLEAN
  /\ compressed \in Seq(Extents)
  /\ unpacked \in Seq([extent : Extents, done : BOOLEAN])
  /\ compressed_cur \in Int /\ unpacked_cur \in Int
  /\ ~aborted => compressed_cur \in Nat /\ unpacked_cur \in Nat

StreamTypes ==
  /\ delivered \in Seq(Extents)
  /\ ended \in BOOLEAN /\ closed_early \in BOOLEAN
  /\ mutex_kept \in BOOLEAN /\ resets \in 0..MaxResets
  /\ aborted \in BOOLEAN

\* Type correctness; the unsigned counters of the queues do not wrap: what the
\* code subtracts it has asserted to be there.
TypeOK == ClientTypes /\ ThreadTypes /\ QueueTypes /\ StreamTypes

\* None of the code's assertions fails: an extent that is delivered has been
\* unpacked, close() finds exactly itself left, and resetPos() finds no thread.
NoAssertionFails == ~aborted

\* Until the first close() each queue counts exactly the bytes it holds: the
\* unpack threads move them from one queue to the other, the prefetch thread
\* and the reader add and remove them.  (close() deletes extents without
\* subtracting them.)
Bytes(q) == Weight(PackedBytes, q)
SizeUnpacked == [i \in [extent : Extents, done : BOOLEAN] |-> UnpackedBytes[i.extent]]
BytesUnpacked(u) == Weight(SizeUnpacked, u)

QueueAccounting ==
  ~lockedIsClosed /\ ~mutex_kept => /\ compressed_cur = Bytes(compressed)
                                    /\ unpacked_cur = BytesUnpacked(unpacked)

\* The reader's memory is counted and bounded, and no assertion about it fails:
\* the unpacked queue stays below its limit unless it is a single extent, and
\* the compressed queue "may slightly overrun", by no more than the extent read
\* last (IndexSourceModule.hpp:69).
MemoryBounded ==
  /\ TypeOK /\ NoAssertionFails /\ QueueAccounting
  /\ Len(unpacked) > 1 => BytesUnpacked(unpacked) < MaxUnpacked
  /\ LET n == Len(compressed) IN
       n > 1 => Bytes(SubSeq(compressed, 1, n - 1)) < MaxCompressed

\* abort_prefetching is the "number of threads remaining to abort", the caller of
\* close() included, and a thread waits in close() only while it is positive.
LiveUnpackers == {t \in Unpackers : unpacker[t] \notin {"none", "exited"}}

LiveThreads == (IF prefetcher \notin {"none", "exited"} THEN 1 ELSE 0)
               + Cardinality(LiveUnpackers)

AbortCounts ==
  /\ abort_prefetching > 0 => abort_prefetching = 1 + LiveThreads
  /\ (\E c \in Clients : pc[c] \in {"join_wait", "close_wait"}) =>
       abort_prefetching > 0

\* The three condition variables lose no wake-up: while there is an extent to
\* unpack and room for it some unpack thread is awake, the prefetch thread
\* sleeps only if the source is done or its queue full, the reader only while
\* its next extent is not ready.
NoLostWakeup ==
  ~lockedIsClosed /\ abort_prefetching = 0 =>
    /\ CanUnpack(compressed, unpacked_cur) =>
         \E t \in Unpackers : unpacker[t] # "waiting"
    /\ prefetcher = "waiting" =>
         source_done \/ ~can_add(compressed_cur, 0, MaxCompressed)
    /\ pc[Consumer] = "ready_wait" => ~allDone /\ ~unpackedReady(unpacked)

\* An extent that is being unpacked without the mutex stays on the queue, and
\* each one that is not done is unpacked by exactly one thread.
UnpackedByOneThread ==
  \A i \in 1..Len(unpacked) : ~unpacked[i].done =>
    Cardinality({t \in Unpackers : /\ unpacker[t] = "unpacking"
                                   /\ item[t] = unpacked[i].extent}) = 1

WorkStaysQueued ==
  /\ ~aborted => UnpackedByOneThread
  /\ \A t \in Unpackers : unpacker[t] = "unpacking" =>
       \E i \in 1..Len(unpacked) : unpacked[i] = [extent |-> item[t], done |-> FALSE]

\* Once close() returns to any of its callers no thread runs and no extent is
\* left (until resetPos).
ClosedIsQuiet ==
  ~mutex_kept /\ (\E c \in Clients : pc[c] = "closed") =>
    lockedIsClosed /\ compressed = << >> /\ unpacked = << >>

\* close() counts every thread out, whoever else closes, and leaves nothing.
CloseIsComplete == AbortCounts /\ ClosedIsQuiet

\* The module is a stream: extents come in file order, none is lost or repeated
\* however the unpack threads overtake each other, and NULL comes last.  (After
\* a close() by another thread NULL may mean only that extents were dropped.)
Source == [i \in Extents |-> i]

Stream == INSTANCE ExtentStream WITH ended <- ended /\ ~closed_early

ImplementsStream == Stream!Spec

\* A reader that waits for an extent gets it, or the end, unless another thread
\* closes the module.  close() returns to all the threads that call it, "multiple
\* threads can call close() at the same time; all of them wait"
\* (IndexSourceModule.cpp:213), unless resetPos() takes the mutex before one of
\* them wakes up.
CallsReturn ==
  /\ pc[Consumer] \in {"ready_wait", "ready_woken"} ~>
       pc[Consumer] \notin {"ready_wait", "ready_woken"} \/ closed_early
  /\ \A c \in Clients :
       pc[c] \in {"close", "join_wait", "join", "close_wait", "closing"} ~>
         pc[c] = "closed" \/ mutex_kept
=============================================================================
