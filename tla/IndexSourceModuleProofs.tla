---------------------- MODULE IndexSourceModuleProofs ----------------------
(***************************************************************************)
(* Proofs about IndexSourceModule for any number of unpack threads, closing *)
(* threads and extents and any sizes.                                       *)
(***************************************************************************)
EXTENDS IndexSourceModule, OperatorTheorems

----------------------------------------------------------------------------
\* The inductive invariants

\* The cursor of the subclass: a read in progress has something to read.
CursorInv == /\ prefetcher = "reading" => position < NExtents /\ ~source_done
             /\ source_done => position = NExtents

TypeInv == TypeOK /\ CursorInv

AllThreads == prefetcher # "none" /\ \A t \in Unpackers : unpacker[t] # "none"

Joining(c) == pc[c] \in {"join_wait", "join"}

\* The threads exist all or not at all, they exit only when told to, and every
\* thread that exits is counted; one client joins them, and the others sleep
\* only until it has.
AbortInv ==
  /\ lockedIsClosed \/ AllThreads
  /\ abort_prefetching = 0 =>
       prefetcher # "exited" /\ \A t \in Unpackers : unpacker[t] # "exited"
  /\ abort_prefetching > 0 => AllThreads /\ abort_prefetching = 1 + LiveThreads
  /\ \A c \in Clients : Joining(c) \/ pc[c] = "close_wait" => abort_prefetching > 0
  /\ \A c, d \in Clients : Joining(c) /\ Joining(d) => c = d

\* Before startPrefetching nothing has happened, and after a close() nothing is
\* left, until resetPos().
QuietInv ==
  /\ pc[Consumer] = "new" =>
       /\ lockedIsClosed /\ position = 0 /\ delivered = << >> /\ abort_prefetching = 0
       /\ ~ended /\ ~closed_early
       /\ \A c \in Closers : pc[c] = "idle"
  /\ lockedIsClosed => compressed = << >> /\ unpacked = << >>
  /\ \A c \in Clients : /\ pc[c] = "closing" => abort_prefetching > 0 \/ lockedIsClosed
                        /\ pc[c] = "closed" => lockedIsClosed

\* What has been found is delivered, or in one of the queues, in order.
InOrder ==
  LET d == Len(delivered)
      u == Len(unpacked)
  IN
  /\ position = d + u + Len(compressed)
  /\ \A i \in 1..d : delivered[i] = i
  /\ \A i \in 1..u : unpacked[i].extent = d + i
  /\ \A i \in 1..Len(compressed) : compressed[i] = d + u + i

\* The end is found when all has been delivered; NULL means that, or that
\* another client has closed the module.
EndInv ==
  /\ ended => source_done /\ compressed = << >> /\ unpacked = << >>
  /\ lockedIsClosed /\ pc[Consumer] # "new" => ended \/ closed_early
  /\ pc[Consumer] = "close" \/ (\E c \in Clients : Joining(c)) => ended \/ closed_early

OrderInv == (AllThreads => InOrder) /\ EndInv

\* WorkStaysQueued without counting: each extent that is not done has a thread,
\* each thread its own extent.
WorkInv ==
  /\ \A i \in 1..Len(unpacked) : ~unpacked[i].done =>
       \E t \in Unpackers : unpacker[t] = "unpacking" /\ item[t] = unpacked[i].extent
  /\ \A t \in Unpackers : unpacker[t] = "unpacking" =>
       \E i \in 1..Len(unpacked) : unpacked[i] = [extent |-> item[t], done |-> FALSE]
  /\ \A t, s \in Unpackers :
       unpacker[t] = "unpacking" /\ unpacker[s] = "unpacking" /\ item[t] = item[s]
         => t = s

CloseInv == TypeInv /\ AbortInv /\ (~mutex_kept => QuietInv)
StreamInv == CloseInv /\ OrderInv
IInv == StreamInv /\ WorkInv

----------------------------------------------------------------------------
\* Type correctness

PrefetcherPlaces == {"none", "running", "reading", "waiting", "exited"}
UnpackerPlaces == {"none", "running", "unpacking", "waiting", "exited"}
Unpacked == [extent : Extents, done : BOOLEAN]

LEMMA ElementTypes ==
  /\ \A q \in Seq(Extents) : q # << >> =>
       /\ Head(q) \in Extents /\ Tail(q) \in Seq(Extents)
       /\ PackedBytes[Head(q)] \in Nat /\ UnpackedBytes[Head(q)] \in Nat
  /\ \A u \in Seq(Unpacked) : u # << >> =>
       /\ Head(u) \in Unpacked /\ Tail(u) \in Seq(Unpacked)
       /\ UnpackedBytes[Head(u).extent] \in Nat
<1>1. ASSUME NEW q \in Seq(Extents), q # << >>
      PROVE  /\ Head(q) \in Extents /\ Tail(q) \in Seq(Extents)
             /\ PackedBytes[Head(q)] \in Nat /\ UnpackedBytes[Head(q)] \in Nat
  <2>1. Head(q) \in Extents /\ Tail(q) \in Seq(Extents)
    BY <1>1
  <2> QED
    BY <2>1, IndexSourceAssumption
<1>2. ASSUME NEW u \in Seq(Unpacked), u # << >>
      PROVE  /\ Head(u) \in Unpacked /\ Tail(u) \in Seq(Unpacked)
             /\ UnpackedBytes[Head(u).extent] \in Nat
  <2>1. Head(u) \in Unpacked /\ Tail(u) \in Seq(Unpacked)
    BY <1>2
  <2>2. Head(u).extent \in Extents
    BY <2>1 DEF Unpacked
  <2> QED
    BY <2>1, <2>2, IndexSourceAssumption
<1> QED
  BY <1>1, <1>2

\* Signals move threads and clients only to places they can be at.
LEMMA SignalTypes ==
  ASSUME TypeOK
  PROVE  /\ PrefetcherSignalled \in PrefetcherPlaces
         /\ UnpackBroadcast \in [Unpackers -> UnpackerPlaces]
         /\ UnpackSignal => unpacker' \in [Unpackers -> UnpackerPlaces]
         /\ \A p \in [Clients -> ClientPlaces] :
              /\ ReadySignalled(p) \in [Clients -> ClientPlaces]
              /\ ClosersWoken(p) \in [Clients -> ClientPlaces]
<1> USE DEF TypeOK, ThreadTypes
<1>1. PrefetcherSignalled \in PrefetcherPlaces
  BY DEF PrefetcherSignalled, PrefetcherPlaces
<1>2. UnpackBroadcast \in [Unpackers -> UnpackerPlaces]
  BY DEF UnpackBroadcast, UnpackerPlaces
<1>3. UnpackSignal => unpacker' \in [Unpackers -> UnpackerPlaces]
  BY DEF UnpackSignal, UnpackerPlaces
<1>4. ASSUME NEW p \in [Clients -> ClientPlaces]
      PROVE  /\ ReadySignalled(p) \in [Clients -> ClientPlaces]
             /\ ClosersWoken(p) \in [Clients -> ClientPlaces]
  BY DEF ReadySignalled, ClosersWoken, CloserWoken, ClientPlaces
<1> QED
  BY <1>1, <1>2, <1>3, <1>4

LEMMA TypeInit == Init => TypeInv
<1> SUFFICES ASSUME Init PROVE TypeInv
  OBVIOUS
<1> USE IndexSourceAssumption DEF Init
<1>1. ClientTypes /\ ThreadTypes
  BY DEF ClientTypes, ClientPlaces, ThreadTypes, NoItem
<1>2. QueueTypes
  <2>1. compressed \in Seq(Extents)
    OBVIOUS
  <2>2. unpacked \in Seq([extent : Extents, done : BOOLEAN])
    OBVIOUS
  <2>3. position \in 0..NExtents
    OBVIOUS
  <2>5. source_done \in BOOLEAN
    OBVIOUS
  <2>4. compressed_cur \in Nat /\ unpacked_cur \in Nat
    OBVIOUS
  <2> QED
    BY <2>1, <2>2, <2>3, <2>4, <2>5 DEF QueueTypes
<1>3. StreamTypes
  <2>1. delivered \in Seq(Extents)
    OBVIOUS
  <2>2. resets \in 0..MaxResets
    OBVIOUS
  <2> QED
    BY <2>1, <2>2 DEF StreamTypes
<1>4. CursorInv
  BY DEF CursorInv
<1> QED
  BY <1>1, <1>2, <1>3, <1>4 DEF TypeInv, TypeOK

LEMMA StartType ==
  ASSUME TypeInv, startPrefetching
  PROVE  TypeInv'
<1> USE DEF TypeInv, TypeOK, startPrefetching, lockedStartThreads
<1>1. ClientTypes' /\ ThreadTypes'
  BY DEF ClientTypes, ClientPlaces, ThreadTypes
<1>2. QueueTypes' /\ StreamTypes' /\ CursorInv'
  BY DEF QueueTypes, StreamTypes, CursorInv, compressedVars, unpackedVars,
         streamVars, resetVars
<1> QED
  BY <1>1, <1>2

LEMMA ReadingType ==
  ASSUME TypeInv, ~aborted, Reading
  PROVE  TypeInv'
<1> USE DEF TypeInv, TypeOK
<1>1. CASE WaitForExtent
  <2> USE <1>1 DEF WaitForExtent
  <2>1. ClientTypes' /\ ThreadTypes'
    BY SignalTypes DEF ClientTypes, ClientPlaces, ThreadTypes, UnpackerPlaces
  <2>2. QueueTypes' /\ StreamTypes' /\ CursorInv'
    BY DEF QueueTypes, StreamTypes, CursorInv, compressedVars, unpackedVars,
           streamVars, resetVars
  <2> QED
    BY <2>1, <2>2
<1>2. CASE FindEnd
  <2> USE <1>2 DEF FindEnd
  <2>1. ClientTypes' /\ ThreadTypes'
    BY DEF ClientTypes, ClientPlaces, ThreadTypes, threadVars
  <2>2. QueueTypes' /\ StreamTypes' /\ CursorInv'
    BY DEF QueueTypes, StreamTypes, CursorInv, threadVars, compressedVars,
           unpackedVars, resetVars
  <2> QED
    BY <2>1, <2>2
<1>3. CASE TakeExtent
  <2> USE <1>3 DEF TakeExtent
  <2>1. /\ Head(unpacked) \in Unpacked /\ Tail(unpacked) \in Seq(Unpacked)
        /\ UnpackedBytes[Head(unpacked).extent] \in Nat
    BY ElementTypes DEF QueueTypes, unpackedReady, Unpacked
  <2>2. ClientTypes' /\ ThreadTypes'
    BY SignalTypes DEF ClientTypes, ClientPlaces, ThreadTypes, UnpackerPlaces
  <2>3. QueueTypes'
    <3>1. unpacked' \in Seq(Unpacked)
      BY <2>1
    <3>2. unpacked_cur' \in Int /\ (~aborted' => unpacked_cur' \in Nat)
      <4>1. unpacked_cur' = unpacked_cur - UnpackedBytes[Head(unpacked).extent]
        BY DEF Subtracted
      <4>2. ~aborted' => unpacked_cur >= UnpackedBytes[Head(unpacked).extent]
        BY DEF Invariant
      <4> QED
        BY <2>1, <4>1, <4>2 DEF QueueTypes
    <3> QED
      BY <3>1, <3>2 DEF QueueTypes, compressedVars, Unpacked
  <2>4. StreamTypes' /\ CursorInv'
    BY <2>1 DEF StreamTypes, CursorInv, Unpacked, resetVars, Invariant
  <2> QED
    BY <2>2, <2>3, <2>4
<1> QED
  BY <1>1, <1>2, <1>3 DEF Reading

LEMMA PrefetchLoopType ==
  ASSUME TypeOK, NEW b, PrefetchLoop(b), position' \in 0..NExtents
  PROVE  /\ ClientTypes'
         /\ prefetcher' \in PrefetcherPlaces /\ abort_prefetching' \in Nat
         /\ source_done' \in BOOLEAN
         /\ prefetcher' = "reading" => position' < NExtents /\ ~source_done'
         /\ source_done' => source_done \/ position' = NExtents
<1> USE DEF TypeOK, ClientTypes, ThreadTypes, QueueTypes, PrefetcherPlaces
<1>1. CASE PrefetchExit
  BY <1>1, SignalTypes DEF PrefetchExit
<1>2. CASE PrefetchNext(b)
  BY <1>2 DEF PrefetchNext, MayRead
<1>3. CASE PrefetchEnd(b)
  BY <1>3, SignalTypes DEF PrefetchEnd, EndSignalled
<1>4. CASE PrefetchSleep(b)
  BY <1>4 DEF PrefetchSleep
<1> QED
  BY <1>1, <1>2, <1>3, <1>4 DEF PrefetchLoop

LEMMA PrefetchRunType ==
  ASSUME TypeInv, PrefetchRun
  PROVE  TypeInv'
<1> USE DEF TypeInv, PrefetchRun
<1>1. position' \in 0..NExtents
  BY DEF TypeOK, QueueTypes
<1>2. /\ ClientTypes'
      /\ prefetcher' \in PrefetcherPlaces /\ abort_prefetching' \in Nat
      /\ source_done' \in BOOLEAN
      /\ prefetcher' = "reading" => position' < NExtents /\ ~source_done'
      /\ source_done' => source_done \/ position' = NExtents
  BY <1>1, PrefetchLoopType
<1>3. ThreadTypes' /\ QueueTypes' /\ StreamTypes'
  BY <1>2 DEF TypeOK, ThreadTypes, PrefetcherPlaces, QueueTypes, StreamTypes,
              compressedVars, unpackedVars, streamVars, resetVars
<1>4. CursorInv'
  BY <1>2 DEF CursorInv
<1> QED
  BY <1>2, <1>3, <1>4 DEF TypeOK

LEMMA PrefetchReadType ==
  ASSUME TypeInv, PrefetchRead
  PROVE  TypeInv'
<1> USE DEF TypeInv, PrefetchRead
<1>1. position' \in 0..NExtents /\ position + 1 \in Extents
  BY IndexSourceAssumption DEF TypeOK, QueueTypes, CursorInv, Extents
<1>2. /\ ClientTypes'
      /\ prefetcher' \in PrefetcherPlaces /\ abort_prefetching' \in Nat
      /\ source_done' \in BOOLEAN
      /\ prefetcher' = "reading" => position' < NExtents /\ ~source_done'
      /\ source_done' => source_done \/ position' = NExtents
  BY <1>1, PrefetchLoopType
<1>3. ThreadTypes' /\ StreamTypes'
  BY <1>2, SignalTypes DEF TypeOK, ThreadTypes, PrefetcherPlaces, UnpackerPlaces,
                           StreamTypes, streamVars, resetVars
<1>4. QueueTypes'
  <2>1. compressed' \in Seq(Extents)
    BY <1>1 DEF TypeOK, QueueTypes
  <2>2. PackedBytes[position + 1] \in Nat
    BY <1>1, IndexSourceAssumption
  <2> QED
    BY <1>1, <1>2, <2>1, <2>2 DEF TypeOK, QueueTypes, unpackedVars
<1>5. CursorInv'
  BY <1>2 DEF CursorInv
<1> QED
  BY <1>2, <1>3, <1>4, <1>5 DEF TypeOK

LEMMA UnpackLoopType ==
  ASSUME TypeInv, ~aborted, NEW t \in Unpackers, NEW u \in Seq(Unpacked),
         NEW p \in [Clients -> ClientPlaces], NEW ok \in BOOLEAN,
         UnpackLoop(t, u, p, ok),
         UNCHANGED <<position, source_done, streamVars, resetVars>>
  PROVE  TypeInv'
<1> USE DEF TypeInv, TypeOK
<1>1. CASE UnpackExit(t, u, p, ok)
  <2> USE <1>1 DEF UnpackExit
  <2>1. ClientTypes'
    BY SignalTypes DEF ClientTypes
  <2>2. ThreadTypes'
    BY SignalTypes, IndexSourceAssumption DEF ThreadTypes, PrefetcherPlaces, NoItem
  <2>3. QueueTypes'
    BY DEF QueueTypes, Unpacked, compressedVars, Invariant
  <2>4. StreamTypes'
    BY DEF StreamTypes, streamVars, resetVars, Invariant
  <2>5. CursorInv'
    BY DEF CursorInv, PrefetcherSignalled
  <2> QED
    BY <2>1, <2>2, <2>3, <2>4, <2>5
<1>2. CASE UnpackTake(t, u, p, ok)
  <2> USE <1>2 DEF UnpackTake
  <2>1. /\ Head(compressed) \in Extents /\ Tail(compressed) \in Seq(Extents)
        /\ PackedBytes[Head(compressed)] \in Nat
        /\ UnpackedBytes[Head(compressed)] \in Nat
    BY ElementTypes DEF QueueTypes, CanUnpack
  <2>2. ClientTypes'
    BY DEF ClientTypes
  <2>3. ThreadTypes'
    <3>1. Head(compressed) \in 0..NExtents
      BY <2>1, IndexSourceAssumption DEF Extents
    <3> QED
      BY <3>1, SignalTypes DEF ThreadTypes, PrefetcherPlaces
  <2>4. unpacked' \in Seq(Unpacked)
    BY <2>1 DEF Unpacked
  <2>5. compressed_cur' \in Int /\ (~aborted' => compressed_cur' \in Nat)
    <3>1. ~aborted' => compressed_cur >= PackedBytes[Head(compressed)]
      BY DEF Invariant
    <3>2. compressed_cur' = compressed_cur - PackedBytes[Head(compressed)]
      BY DEF Unqueued
    <3> QED
      BY <2>1, <3>1, <3>2 DEF QueueTypes
  <2>6. unpacked_cur' \in Nat
    BY <2>1 DEF QueueTypes
  <2>7. QueueTypes'
    BY <2>1, <2>4, <2>5, <2>6 DEF QueueTypes, Unpacked
  <2>8. StreamTypes'
    BY DEF StreamTypes, streamVars, resetVars, Invariant
  <2>9. CursorInv'
    BY DEF CursorInv, PrefetcherSignalled
  <2> QED
    BY <2>2, <2>3, <2>7, <2>8, <2>9
<1>3. CASE UnpackSleep(t, u, p, ok)
  <2> USE <1>3 DEF UnpackSleep
  <2>1. ClientTypes' /\ ThreadTypes'
    BY IndexSourceAssumption DEF ClientTypes, ThreadTypes, NoItem
  <2>2. QueueTypes'
    BY DEF QueueTypes, Unpacked, compressedVars, Invariant
  <2>3. StreamTypes' /\ CursorInv'
    BY DEF StreamTypes, CursorInv, streamVars, resetVars, Invariant
  <2> QED
    BY <2>1, <2>2, <2>3
<1> QED
  BY <1>1, <1>2, <1>3 DEF UnpackLoop

LEMMA MarkedDoneType ==
  ASSUME NEW e, unpacked \in Seq(Unpacked)
  PROVE  /\ MarkedDone(e) \in Seq(Unpacked)
         /\ Len(MarkedDone(e)) = Len(unpacked)
         /\ \A i \in 1..Len(unpacked) :
              MarkedDone(e)[i] = IF unpacked[i].extent = e
                                 THEN [unpacked[i] EXCEPT !.done = TRUE] ELSE unpacked[i]
<1>1. ASSUME NEW i \in 1..Len(unpacked)
      PROVE  /\ unpacked[i] \in Unpacked
             /\ [unpacked[i] EXCEPT !.done = TRUE] \in Unpacked
  <2>1. unpacked[i] \in Unpacked
    OBVIOUS
  <2> QED
    BY <2>1 DEF Unpacked
<1> QED
  BY <1>1 DEF MarkedDone

LEMMA UnpackType ==
  ASSUME TypeInv, ~aborted, NEW t \in Unpackers, UnpackStep(t)
  PROVE  TypeInv'
<1>1. pc \in [Clients -> ClientPlaces] /\ unpacked \in Seq(Unpacked)
  BY DEF TypeInv, TypeOK, ClientTypes, QueueTypes, Unpacked
<1>2. CASE UnpackRun(t)
  BY <1>1, <1>2, UnpackLoopType DEF UnpackRun
<1>3. CASE UnpackDone(t)
  <2> DEFINE u == MarkedDone(item[t])
             p == IF unpackedReady(u) THEN ReadySignalled(pc) ELSE pc
  <2>1. u \in Seq(Unpacked) /\ p \in [Clients -> ClientPlaces]
    BY <1>1, MarkedDoneType, SignalTypes DEF TypeInv
  <2>2. UnpackLoop(t, u, p, unpacked # << >>)
    BY <1>3 DEF UnpackDone
  <2>3. UNCHANGED <<position, source_done, streamVars, resetVars>>
    BY <1>3 DEF UnpackDone
  <2> QED
    BY <2>1, <2>2, <2>3, UnpackLoopType
<1> QED
  BY <1>2, <1>3 DEF UnpackStep

LEMMA CloseEnterType ==
  ASSUME TypeInv, NEW c \in Clients, CloseEnter(c)
  PROVE  ClientTypes' /\ ThreadTypes' /\ (prefetcher' = "reading" => prefetcher = "reading")
<1> USE DEF TypeInv, TypeOK, ClientTypes
<1>1. CASE lockedIsClosed /\ UNCHANGED threadVars /\ UNCHANGED abort_prefetching
           /\ pc' = [pc EXCEPT ![c] = "closed"]
  BY <1>1 DEF ThreadTypes, threadVars, ClientPlaces
<1>2. CASE /\ abort_prefetching' = ToAbort /\ prefetcher' = PrefetcherSignalled
           /\ unpacker' = UnpackBroadcast /\ UNCHANGED item
           /\ pc' = [ReadySignalled(pc) EXCEPT ![c] = "join_wait"]
  <2>1. ToAbort \in Nat
    BY IndexSourceAssumption, FS_CardinalityType DEF ToAbort
  <2>2. ThreadTypes'
    BY <1>2, <2>1, SignalTypes DEF ThreadTypes, PrefetcherPlaces, UnpackerPlaces
  <2>3. ClientTypes'
    BY <1>2, SignalTypes DEF ClientPlaces
  <2> QED
    BY <1>2, <2>2, <2>3 DEF PrefetcherSignalled
<1>3. CASE pc' = [pc EXCEPT ![c] = "close_wait"] /\ UNCHANGED threadVars
           /\ UNCHANGED abort_prefetching
  BY <1>3 DEF ThreadTypes, threadVars, ClientPlaces
<1> QED
  BY <1>1, <1>2, <1>3 DEF CloseEnter

LEMMA CloseType ==
  ASSUME TypeInv, NEW c \in Clients, Close(c) \/ (c = Consumer /\ CloseAtEnd)
  PROVE  TypeInv'
<1>1. CloseEnter(c)
  BY DEF Close, CloseAtEnd
<1>2. ClientTypes' /\ ThreadTypes' /\ (prefetcher' = "reading" => prefetcher = "reading")
  BY <1>1, CloseEnterType
<1>3. QueueTypes'
  BY DEF TypeInv, TypeOK, QueueTypes, Close, CloseAtEnd, compressedVars, unpackedVars
<1>4. StreamTypes'
  BY DEF TypeInv, TypeOK, StreamTypes, Close, CloseAtEnd, streamVars, resetVars
<1>5. CursorInv'
  BY <1>2 DEF TypeInv, CursorInv, Close, CloseAtEnd
<1> QED
  BY <1>2, <1>3, <1>4, <1>5 DEF TypeInv, TypeOK

LEMMA CloseStepType ==
  ASSUME TypeInv, ~aborted, NEW c \in Clients, CloseStep(c)
  PROVE  TypeInv'
<1> USE DEF TypeInv, TypeOK
<1>1. CASE WaitForThreads(c) \/ CloseWakeup(c)
  <2> USE <1>1 DEF WaitForThreads, CloseWakeup
  <2>1. ClientTypes' /\ ThreadTypes'
    BY DEF ClientTypes, ClientPlaces, ThreadTypes, threadVars
  <2>2. QueueTypes' /\ StreamTypes'
    BY DEF QueueTypes, compressedVars, unpackedVars, StreamTypes, streamVars, resetVars
  <2>3. CursorInv'
    BY DEF CursorInv, threadVars
  <2> QED
    BY <2>1, <2>2, <2>3
<1>2. CASE JoinThreads(c)
  <2> USE <1>2 DEF JoinThreads
  <2>1. ClientTypes'
    BY SignalTypes DEF ClientTypes, ClientPlaces
  <2>2. ThreadTypes'
    BY DEF ThreadTypes
  <2>3. compressed' \in Seq(Extents) /\ unpacked' \in Seq([extent : Extents, done : BOOLEAN])
    BY DEF Dropped
  <2>4. QueueTypes'
    BY <2>3 DEF QueueTypes, Invariant
  <2>5. StreamTypes' /\ CursorInv'
    BY DEF StreamTypes, streamVars, resetVars, CursorInv, Invariant
  <2> QED
    BY <2>1, <2>2, <2>4, <2>5
<1> QED
  BY <1>1, <1>2 DEF CloseStep

LEMMA ResetType ==
  ASSUME TypeInv, ~aborted, resetPos
  PROVE  TypeInv'
<1> USE DEF TypeInv, TypeOK, resetPos, lockedStartThreads
<1>1. ClientTypes' /\ ThreadTypes'
  BY DEF ClientTypes, ClientPlaces, ThreadTypes
<1>2. QueueTypes'
  <2>1. 0 \in 0..NExtents
    BY IndexSourceAssumption
  <2> QED
    BY <2>1 DEF QueueTypes, compressedVars, unpackedVars, Invariant
<1>3. StreamTypes'
  <2>1. << >> \in Seq(Extents)
    OBVIOUS
  <2>2. resets + 1 \in 0..MaxResets
    BY IndexSourceAssumption DEF StreamTypes
  <2> QED
    BY <2>1, <2>2 DEF StreamTypes, Invariant
<1>4. CursorInv'
  BY DEF CursorInv
<1> QED
  BY <1>1, <1>2, <1>3, <1>4

LEMMA TypeStep == TypeInv /\ [Next]_vars => TypeInv'
<1> SUFFICES ASSUME TypeInv, [Next]_vars PROVE TypeInv'
  OBVIOUS
<1>1. CASE UNCHANGED vars
  BY <1>1 DEF vars, threadVars, compressedVars, unpackedVars, streamVars, resetVars,
              TypeInv, TypeOK, ClientTypes, ThreadTypes, QueueTypes, StreamTypes,
              CursorInv
<1>2. CASE Next
  <2>1. ~aborted
    BY <1>2 DEF Next, Running
  <2>2. CASE startPrefetching \/ resetPos
    BY <2>1, <2>2, StartType, ResetType
  <2>3. CASE getSharedExtent \/ ReadyWakeup
    BY <2>1, <2>3, ReadingType DEF getSharedExtent, ReadyWakeup
  <2>4. CASE PrefetchStep
    BY <2>4, PrefetchRunType, PrefetchReadType DEF PrefetchStep
  <2>5. CASE \E t \in Unpackers : UnpackStep(t)
    BY <2>1, <2>5, UnpackType
  <2>6. CASE CloseAtEnd \/ \E c \in Clients : Close(c) \/ CloseStep(c)
    BY <2>1, <2>6, CloseType, CloseStepType DEF Clients
  <2> QED
    BY <1>2, <2>2, <2>3, <2>4, <2>5, <2>6 DEF Next, ConsumerStep
<1> QED
  BY <1>1, <1>2

\* Every reachable state of the module is well typed, and the unsigned counters
\* of its queues never wrap, for any number of threads and extents
\* (IndexSourceModule.hpp:163, the queues).
THEOREM TypeCorrect == Spec => []TypeOK
<1>1. Init => TypeInv
  BY TypeInit
<1>2. TypeInv /\ [Next]_vars => TypeInv'
  BY TypeStep
<1> QED
  BY <1>1, <1>2, PTL DEF Spec, TypeInv

----------------------------------------------------------------------------
\* Closing: the count of threads

LEMMA LiveThreadsType ==
  /\ IsFiniteSet(LiveUnpackers) /\ Cardinality(LiveUnpackers) \in Nat
  /\ LiveThreads \in Nat /\ LiveThreads' \in Nat
<1>1. IsFiniteSet(LiveUnpackers) /\ IsFiniteSet(LiveUnpackers')
  BY IndexSourceAssumption, FS_Subset DEF LiveUnpackers
<1>2. Cardinality(LiveUnpackers) \in Nat /\ Cardinality(LiveUnpackers') \in Nat
  BY <1>1, FS_CardinalityType
<1> QED
  BY <1>1, <1>2 DEF LiveThreads

\* Who exists and who has exited
SameThreads ==
  /\ prefetcher' = "none" <=> prefetcher = "none"
  /\ prefetcher' = "exited" <=> prefetcher = "exited"
  /\ \A t \in Unpackers : /\ unpacker'[t] = "none" <=> unpacker[t] = "none"
                          /\ unpacker'[t] = "exited" <=> unpacker[t] = "exited"

LEMMA SignalsKeepThreads ==
  /\ PrefetcherSignalled = "none" <=> prefetcher = "none"
  /\ PrefetcherSignalled = "exited" <=> prefetcher = "exited"
  /\ \A t \in Unpackers :
       /\ UnpackBroadcast[t] = "none" <=> unpacker[t] = "none"
       /\ UnpackBroadcast[t] = "exited" <=> unpacker[t] = "exited"
  BY DEF PrefetcherSignalled, UnpackBroadcast

LEMMA SignalKeepsThreads ==
  ASSUME TypeOK, UnpackSignal, NEW t \in Unpackers
  PROVE  /\ unpacker'[t] = "none" <=> unpacker[t] = "none"
         /\ unpacker'[t] = "exited" <=> unpacker[t] = "exited"
  BY DEF UnpackSignal, TypeOK, ThreadTypes

LEMMA SameLiveThreads ==
  ASSUME SameThreads
  PROVE  LiveThreads' = LiveThreads /\ lockedIsClosed' = lockedIsClosed
         /\ AllThreads' = AllThreads
<1>1. LiveUnpackers' = LiveUnpackers
  BY DEF SameThreads, LiveUnpackers
<1>2. prefetcher' \in {"none", "exited"} <=> prefetcher \in {"none", "exited"}
  BY DEF SameThreads
<1>3. LiveThreads' = LiveThreads
  BY <1>1, <1>2 DEF LiveThreads
<1>4. lockedIsClosed' = lockedIsClosed /\ AllThreads' = AllThreads
  BY DEF SameThreads, lockedIsClosed, AllThreads
<1> QED
  BY <1>3, <1>4

\* What signals do to the clients: nobody begins to wait or returns.
LEMMA SignalledClients ==
  ASSUME NEW p, NEW c \in Clients
  PROVE  /\ ReadySignalled(p)[c] = IF p[c] = "ready_wait" THEN "ready_woken" ELSE p[c]
         /\ ClosersWoken(p)[c] = CASE p[c] = "join_wait" -> "join"
                                   [] p[c] = "close_wait" -> "closing"
                                   [] OTHER -> p[c]
  BY DEF ReadySignalled, ClosersWoken, CloserWoken

\* An action that neither starts nor ends a thread nor changes the count.
LEMMA AbortFrame ==
  ASSUME AbortInv, SameThreads, UNCHANGED abort_prefetching,
         \A c \in Clients : /\ Joining(c)' => Joining(c)
                            /\ pc'[c] = "close_wait" =>
                                 pc[c] = "close_wait" \/ abort_prefetching > 0
  PROVE  AbortInv'
<1>1. LiveThreads' = LiveThreads /\ lockedIsClosed' = lockedIsClosed
      /\ AllThreads' = AllThreads
  BY SameLiveThreads
<1> QED
  BY <1>1 DEF AbortInv, SameThreads

\* A thread exits and tells those in close().
LEMMA AbortExit ==
  ASSUME AbortInv, abort_prefetching > 0, abort_prefetching \in Nat,
         abort_prefetching' = abort_prefetching - 1,
         AllThreads', LiveThreads' = LiveThreads - 1,
         \A c \in Clients : /\ Joining(c)' => Joining(c)
                            /\ pc'[c] # "close_wait"
  PROVE  AbortInv' /\ abort_prefetching' > 0
<1>1. abort_prefetching = 1 + LiveThreads
  BY DEF AbortInv
<1>2. abort_prefetching' = 1 + LiveThreads' /\ abort_prefetching' > 0
  BY <1>1, LiveThreadsType
<1> QED
  BY <1>2 DEF AbortInv

\* While there are threads there is nothing to say but that close() has not
\* returned.
LEMMA QuietFrame ==
  ASSUME pc'[Consumer] # "new", AllThreads',
         \A c \in Clients : /\ pc'[c] = "closing" => abort_prefetching' > 0
                            /\ pc'[c] # "closed"
  PROVE  QuietInv'
  BY DEF QuietInv, AllThreads, lockedIsClosed

\* While a thread runs everything has been started and not yet closed.
LEMMA RunningThread ==
  ASSUME TypeInv, AbortInv, QuietInv, ~lockedIsClosed
  PROVE  /\ AllThreads /\ pc[Consumer] # "new"
         /\ \A c \in Clients : /\ pc[c] # "closed"
                               /\ pc[c] = "closing" => abort_prefetching > 0
  BY DEF AbortInv, QuietInv

LEMMA PrefetchLoopClose ==
  ASSUME TypeInv, AbortInv, QuietInv, NEW b, PrefetchLoop(b),
         prefetcher \in {"running", "reading"},
         \A t \in Unpackers : /\ unpacker'[t] = "none" <=> unpacker[t] = "none"
                              /\ unpacker'[t] = "exited" <=> unpacker[t] = "exited"
  PROVE  AbortInv' /\ QuietInv'
<1>1. /\ AllThreads /\ pc[Consumer] # "new"
      /\ \A c \in Clients : /\ pc[c] # "closed"
                            /\ pc[c] = "closing" => abort_prefetching > 0
  BY RunningThread DEF lockedIsClosed
<1>2. AllThreads'
  BY <1>1 DEF AllThreads, PrefetchLoop, PrefetchExit, PrefetchNext, PrefetchEnd,
              PrefetchSleep
<1>3. Consumer \in Clients
  BY DEF Clients
<1>4. CASE PrefetchExit
  <2>1. LiveUnpackers' = LiveUnpackers
    BY DEF LiveUnpackers
  <2>2. LiveThreads' = LiveThreads - 1
    BY <1>4, <2>1, LiveThreadsType DEF LiveThreads, PrefetchExit
  <2>3. \A c \in Clients : /\ Joining(c)' => Joining(c)
                           /\ pc'[c] # "close_wait" /\ pc'[c] # "closed"
                           /\ pc'[c] = "new" => pc[c] = "new"
    BY <1>1, <1>4, SignalledClients DEF PrefetchExit, Joining
  <2>4. AbortInv' /\ abort_prefetching' > 0
    BY <1>2, <1>4, <2>2, <2>3, AbortExit DEF PrefetchExit, TypeInv, TypeOK, ThreadTypes
  <2> QED
    BY <1>1, <1>2, <1>3, <2>3, <2>4, QuietFrame
<1>5. CASE PrefetchNext(b) \/ PrefetchEnd(b) \/ PrefetchSleep(b)
  <2>1. SameThreads /\ UNCHANGED abort_prefetching
    BY <1>5 DEF SameThreads, PrefetchNext, PrefetchEnd, PrefetchSleep
  <2>2. pc' = pc \/ pc' = ReadySignalled(pc)
    BY <1>5 DEF PrefetchNext, PrefetchEnd, PrefetchSleep, EndSignalled
  <2>3. \A c \in Clients : /\ Joining(c)' => Joining(c)
                           /\ pc'[c] = "close_wait" => pc[c] = "close_wait"
                           /\ pc'[c] = "closing" => pc[c] = "closing"
                           /\ pc'[c] # "closed"
                           /\ pc'[c] = "new" => pc[c] = "new"
    BY <1>1, <2>2, SignalledClients DEF Joining
  <2> QED
    BY <1>1, <1>2, <1>3, <2>1, <2>3, AbortFrame, QuietFrame
<1> QED
  BY <1>4, <1>5 DEF PrefetchLoop

LEMMA PrefetchClose ==
  ASSUME TypeInv, AbortInv, QuietInv, PrefetchStep
  PROVE  AbortInv' /\ QuietInv'
<1>1. CASE PrefetchRun
  BY <1>1, PrefetchLoopClose DEF PrefetchRun
<1>2. CASE PrefetchRead
  <2>1. UnpackSignal \/ UNCHANGED unpacker
    BY <1>2 DEF PrefetchRead
  <2>2. \A t \in Unpackers : /\ unpacker'[t] = "none" <=> unpacker[t] = "none"
                             /\ unpacker'[t] = "exited" <=> unpacker[t] = "exited"
    BY <2>1, SignalKeepsThreads DEF TypeInv
  <2>3. prefetcher = "reading" /\ PrefetchLoop(compressed_cur + PackedBytes[position + 1])
    BY <1>2 DEF PrefetchRead
  <2> QED
    BY <2>2, <2>3, PrefetchLoopClose
<1> QED
  BY <1>1, <1>2 DEF PrefetchStep

LEMMA UnpackLoopClose ==
  ASSUME TypeInv, AbortInv, QuietInv, NEW t \in Unpackers, NEW u, NEW p, NEW ok,
         UnpackLoop(t, u, p, ok), unpacker[t] \in {"running", "unpacking"},
         p = pc \/ p = ReadySignalled(pc)
  PROVE  AbortInv' /\ QuietInv'
<1> USE DEF TypeInv, TypeOK, ThreadTypes
<1>1. /\ AllThreads /\ pc[Consumer] # "new"
      /\ \A c \in Clients : /\ pc[c] # "closed"
                            /\ pc[c] = "closing" => abort_prefetching > 0
  BY RunningThread DEF lockedIsClosed
<1>2. AllThreads'
  BY <1>1, SignalsKeepThreads DEF AllThreads, UnpackLoop, UnpackExit, UnpackTake,
                                  UnpackSleep
<1>3. Consumer \in Clients
  BY DEF Clients
<1>4. \A c \in Clients : /\ p[c] \in {"join_wait", "join"} => Joining(c)
                         /\ p[c] = "close_wait" => pc[c] = "close_wait"
                         /\ p[c] = "closing" => pc[c] = "closing"
                         /\ p[c] # "closed"
                         /\ p[c] = "new" => pc[c] = "new"
  BY <1>1, SignalledClients DEF Joining
<1>5. CASE UnpackExit(t, u, p, ok)
  <2>1. LiveUnpackers' = LiveUnpackers \ {t} /\ t \in LiveUnpackers
    BY <1>5 DEF LiveUnpackers, UnpackExit
  <2>2. Cardinality(LiveUnpackers') = Cardinality(LiveUnpackers) - 1
    BY <2>1, LiveThreadsType, FS_RemoveElement
  <2>3. prefetcher' \in {"none", "exited"} <=> prefetcher \in {"none", "exited"}
    BY <1>5, SignalsKeepThreads DEF UnpackExit
  <2>4. LiveThreads' = LiveThreads - 1
    BY <2>2, <2>3, LiveThreadsType DEF LiveThreads
  <2>5. \A c \in Clients : /\ Joining(c)' => Joining(c)
                           /\ pc'[c] # "close_wait" /\ pc'[c] # "closed"
                           /\ pc'[c] = "new" => pc[c] = "new"
    BY <1>4, <1>5, SignalledClients DEF UnpackExit, Joining
  <2>6. AbortInv' /\ abort_prefetching' > 0
    BY <1>2, <1>5, <2>4, <2>5, AbortExit DEF UnpackExit
  <2> QED
    BY <1>1, <1>2, <1>3, <2>5, <2>6, QuietFrame
<1>6. CASE UnpackTake(t, u, p, ok) \/ UnpackSleep(t, u, p, ok)
  <2>1. SameThreads /\ UNCHANGED abort_prefetching
    BY <1>1, <1>6, SignalsKeepThreads DEF SameThreads, UnpackTake, UnpackSleep
  <2>2. pc' = p
    BY <1>6 DEF UnpackTake, UnpackSleep
  <2>3. \A c \in Clients : Joining(c)' => Joining(c)
    BY <1>4, <2>2 DEF Joining
  <2>4. AbortInv'
    BY <1>4, <2>1, <2>2, <2>3, AbortFrame
  <2> QED
    BY <1>1, <1>2, <1>3, <1>4, <2>1, <2>2, <2>4, QuietFrame
<1> QED
  BY <1>5, <1>6 DEF UnpackLoop

LEMMA UnpackClose ==
  ASSUME TypeInv, AbortInv, QuietInv, NEW t \in Unpackers, UnpackStep(t)
  PROVE  AbortInv' /\ QuietInv'
<1>1. CASE UnpackRun(t)
  BY <1>1, UnpackLoopClose DEF UnpackRun
<1>2. CASE UnpackDone(t)
  <2> DEFINE u == MarkedDone(item[t])
             p == IF unpackedReady(u) THEN ReadySignalled(pc) ELSE pc
  <2>1. UnpackLoop(t, u, p, unpacked # << >>) /\ unpacker[t] = "unpacking"
    BY <1>2 DEF UnpackDone
  <2>2. p = pc \/ p = ReadySignalled(pc)
    OBVIOUS
  <2> HIDE DEF u, p
  <2> QED
    BY <2>1, <2>2, UnpackLoopClose
<1> QED
  BY <1>1, <1>2 DEF UnpackStep

\* An action that neither starts nor ends a thread, nor adds to a queue.
LEMMA QuietKept ==
  ASSUME QuietInv, SameThreads, UNCHANGED abort_prefetching, pc'[Consumer] # "new",
         compressed' = compressed,
         unpacked' = unpacked \/ unpacked # << >>,
         \A c \in Clients :
           /\ pc'[c] = "closing" => pc[c] = "closing"
           /\ pc'[c] = "closed" => pc[c] = "closed" \/ lockedIsClosed
  PROVE  QuietInv'
<1>1. lockedIsClosed' = lockedIsClosed
  BY SameLiveThreads
<1> QED
  BY <1>1 DEF QuietInv

LEMMA ReadingThreads ==
  ASSUME TypeInv, Reading
  PROVE  SameThreads /\ UNCHANGED abort_prefetching
<1>1. prefetcher' = prefetcher /\ UNCHANGED abort_prefetching
  BY DEF Reading, WaitForExtent, FindEnd, TakeExtent, threadVars
<1>2. unpacker' = UnpackBroadcast \/ UnpackSignal \/ unpacker' = unpacker
  BY DEF Reading, WaitForExtent, FindEnd, TakeExtent, threadVars
<1> QED
  BY <1>1, <1>2, SignalsKeepThreads, SignalKeepsThreads DEF SameThreads, TypeInv

LEMMA ReadingClose ==
  ASSUME TypeInv, AbortInv, QuietInv, Reading
  PROVE  AbortInv' /\ QuietInv'
<1> USE DEF TypeInv, TypeOK, ClientTypes
<1>1. Consumer \in Clients
  BY DEF Clients
<1>2. SameThreads /\ UNCHANGED abort_prefetching
  BY ReadingThreads
<1>3. PICK place \in {"ready_wait", "close", "idle"} : pc' = [pc EXCEPT ![Consumer] = place]
  BY DEF Reading, WaitForExtent, FindEnd, TakeExtent
<1>4. /\ pc'[Consumer] # "new"
      /\ \A c \in Clients : /\ Joining(c)' => Joining(c)
                            /\ pc'[c] = "close_wait" => pc[c] = "close_wait"
                            /\ pc'[c] = "closing" => pc[c] = "closing"
                            /\ pc'[c] = "closed" => pc[c] = "closed"
  BY <1>1, <1>3 DEF Joining
<1>5. compressed' = compressed /\ (unpacked' = unpacked \/ unpacked # << >>)
  BY DEF Reading, WaitForExtent, FindEnd, TakeExtent, compressedVars, unpackedVars,
         unpackedReady
<1> QED
  BY <1>2, <1>4, <1>5, AbortFrame, QuietKept

LEMMA StartClose ==
  ASSUME TypeInv, AbortInv, QuietInv, startPrefetching
  PROVE  AbortInv' /\ QuietInv'
<1> USE DEF startPrefetching, lockedStartThreads, TypeInv, TypeOK, ClientTypes
<1>1. Consumer \in Clients /\ \A c \in Clients : c \in Closers \/ c = Consumer
  BY DEF Clients
<1>2. AllThreads' /\ prefetcher' # "exited" /\ \A t \in Unpackers : unpacker'[t] # "exited"
  BY DEF AllThreads
<1>3. abort_prefetching' = 0
  BY DEF QuietInv
<1>4. pc'[Consumer] # "new" /\ \A c \in Clients : pc'[c] = "idle"
  BY <1>1 DEF QuietInv
<1>5. AbortInv'
  BY <1>2, <1>3, <1>4 DEF AbortInv, Joining
<1> QED
  BY <1>2, <1>4, <1>5, QuietFrame

LEMMA CloseEnterClose ==
  ASSUME TypeInv, AbortInv, QuietInv, NEW c \in Clients, CloseEnter(c),
         pc[c] \in {"idle", "close"}, pc[Consumer] # "new",
         UNCHANGED <<compressed, unpacked>>
  PROVE  AbortInv' /\ QuietInv'
<1> USE DEF TypeInv, TypeOK, ClientTypes, ThreadTypes
<1>1. Consumer \in Clients
  BY DEF Clients
<1>2. ASSUME NEW place \in {"closed", "close_wait"}, UNCHANGED threadVars,
             UNCHANGED abort_prefetching, pc' = [pc EXCEPT ![c] = place],
             place = "closed" => lockedIsClosed,
             place = "close_wait" => abort_prefetching > 0
      PROVE  AbortInv' /\ QuietInv'
  <2>1. SameThreads
    BY <1>2 DEF SameThreads, threadVars
  <2>2. /\ pc'[Consumer] # "new"
        /\ \A d \in Clients :
             /\ Joining(d)' => Joining(d)
             /\ pc'[d] = "close_wait" => pc[d] = "close_wait" \/ abort_prefetching > 0
             /\ pc'[d] = "closing" => pc[d] = "closing"
             /\ pc'[d] = "closed" => pc[d] = "closed" \/ lockedIsClosed
    BY <1>1, <1>2 DEF Joining
  <2> QED
    BY <1>2, <2>1, <2>2, AbortFrame, QuietKept
<1>3. ASSUME ~lockedIsClosed, abort_prefetching = 0, abort_prefetching' = ToAbort,
             prefetcher' = PrefetcherSignalled, unpacker' = UnpackBroadcast,
             pc' = [ReadySignalled(pc) EXCEPT ![c] = "join_wait"]
      PROVE  AbortInv' /\ QuietInv'
  <2>1. SameThreads
    BY <1>3, SignalsKeepThreads DEF SameThreads
  <2>2. AllThreads /\ prefetcher # "exited" /\ \A t \in Unpackers : unpacker[t] # "exited"
    BY <1>3 DEF AbortInv
  <2>3. LiveUnpackers = Unpackers /\ LiveThreads = 1 + Cardinality(Unpackers)
    <3>1. LiveUnpackers = Unpackers
      BY <2>2 DEF LiveUnpackers, AllThreads
    <3> QED
      BY <2>2, <3>1 DEF LiveThreads, AllThreads
  <2>4. AllThreads' /\ LiveThreads' = LiveThreads
    BY <2>1, <2>2, SameLiveThreads
  <2>5. abort_prefetching' = 1 + LiveThreads' /\ abort_prefetching' > 0
    BY <1>3, <2>3, <2>4, LiveThreadsType DEF ToAbort
  <2>6. \A d \in Clients :
          pc'[d] = IF d = c THEN "join_wait" ELSE ReadySignalled(pc)[d]
    <3>1. ReadySignalled(pc) \in [Clients -> ClientPlaces]
      BY SignalTypes
    <3> QED
      BY <1>3, <3>1
  <2>7. \A d \in Clients : ~Joining(d) /\ pc[d] # "closed"
    BY <1>3 DEF AbortInv, QuietInv
  <2>8. /\ pc'[Consumer] # "new"
        /\ \A d \in Clients : pc'[d] # "closed" /\ (Joining(d)' => d = c)
    BY <1>1, <2>6, <2>7, SignalledClients DEF Joining
  <2>9. AbortInv'
    BY <2>4, <2>5, <2>8 DEF AbortInv
  <2> QED
    BY <2>4, <2>5, <2>8, <2>9, QuietFrame
<1> QED
  BY <1>2, <1>3 DEF CloseEnter

LEMMA JoinClose ==
  ASSUME TypeInv, AbortInv, QuietInv, NEW c \in Clients, JoinThreads(c)
  PROVE  AbortInv' /\ QuietInv'
<1> USE DEF TypeInv, TypeOK, ClientTypes, JoinThreads
<1>1. Consumer \in Clients /\ \A d \in Clients : d \in Closers \/ d = Consumer
  BY DEF Clients
<1>2. lockedIsClosed' /\ ~AllThreads' /\ prefetcher' # "exited"
      /\ \A t \in Unpackers : unpacker'[t] # "exited"
  BY DEF lockedIsClosed, AllThreads
<1>3. \A d \in Clients :
        pc'[d] = IF d = c THEN "closed" ELSE ClosersWoken(pc)[d]
  BY SignalTypes
<1>4. \A d \in Clients : ~Joining(d)' /\ pc'[d] # "close_wait"
  <2>1. ASSUME NEW d \in Clients, d # c PROVE ~Joining(d)
    BY <2>1 DEF AbortInv, Joining
  <2> QED
    BY <1>3, <2>1, SignalledClients DEF Joining
<1>5. pc'[Consumer] # "new"
  BY <1>1, <1>3, SignalledClients DEF QuietInv
<1>6. AbortInv'
  BY <1>2, <1>4 DEF AbortInv
<1>7. compressed' = << >> /\ unpacked' = << >>
  BY DEF Dropped
<1> QED
  BY <1>2, <1>5, <1>6, <1>7 DEF QuietInv

LEMMA CloseStepClose ==
  ASSUME TypeInv, AbortInv, QuietInv, NEW c \in Clients, CloseStep(c)
  PROVE  AbortInv' /\ QuietInv'
<1> USE DEF TypeInv, TypeOK, ClientTypes, ThreadTypes
<1>1. Consumer \in Clients /\ \A d \in Clients : d \in Closers \/ d = Consumer
  BY DEF Clients
<1>2. CASE WaitForThreads(c) \/ CloseWakeup(c)
  <2>1. SameThreads /\ UNCHANGED abort_prefetching /\ UNCHANGED <<compressed, unpacked>>
    BY <1>2 DEF WaitForThreads, CloseWakeup, threadVars, SameThreads, compressedVars,
                unpackedVars
  <2>2. /\ pc'[Consumer] # "new"
        /\ \A d \in Clients :
             /\ Joining(d)' => Joining(d)
             /\ pc'[d] = "close_wait" => pc[d] = "close_wait" \/ abort_prefetching > 0
             /\ pc'[d] = "closing" => pc[d] = "closing"
             /\ pc'[d] = "closed" => pc[d] = "closed" \/ lockedIsClosed
    <3>1. CASE WaitForThreads(c)
      BY <1>1, <3>1 DEF WaitForThreads, Joining, QuietInv
    <3>2. CASE CloseWakeup(c)
      BY <1>1, <3>2 DEF CloseWakeup, Joining, QuietInv
    <3> QED
      BY <1>2, <3>1, <3>2
  <2> QED
    BY <2>1, <2>2, AbortFrame, QuietKept
<1>3. CASE JoinThreads(c)
  BY <1>3, JoinClose
<1> QED
  BY <1>2, <1>3 DEF CloseStep

LEMMA ResetClose ==
  ASSUME TypeInv, AbortInv, QuietInv, resetPos
  PROVE  AbortInv' /\ mutex_kept'
<1> USE DEF TypeInv, TypeOK, ClientTypes, ThreadTypes, resetPos, lockedStartThreads
<1>1. lockedIsClosed /\ ~AllThreads
  BY DEF QuietInv, Clients, lockedIsClosed, AllThreads
<1>2. abort_prefetching = 0 /\ \A c \in Clients : ~Joining(c) /\ pc[c] # "close_wait"
  BY <1>1 DEF AbortInv
<1>3. AllThreads' /\ prefetcher' # "exited" /\ \A t \in Unpackers : unpacker'[t] # "exited"
  BY DEF AllThreads
<1>4. \A c \in Clients : ~Joining(c)' /\ pc'[c] # "close_wait"
  BY <1>2 DEF Joining
<1> QED
  BY <1>2, <1>3, <1>4 DEF AbortInv

LEMMA CloseInit == Init => CloseInv
<1> SUFFICES ASSUME Init PROVE CloseInv
  OBVIOUS
<1> USE DEF Init
<1>1. lockedIsClosed /\ \A c \in Clients : ~Joining(c) /\ pc[c] # "close_wait"
  BY DEF lockedIsClosed, Joining
<1>2. AbortInv
  BY <1>1 DEF AbortInv
<1>3. QuietInv
  BY <1>1, IndexSourceAssumption DEF QuietInv, Clients
<1> QED
  BY <1>2, <1>3, TypeInit DEF CloseInv

LEMMA CloseInvStep == CloseInv /\ [Next]_vars => CloseInv'
<1> SUFFICES ASSUME CloseInv, [Next]_vars PROVE AbortInv' /\ (~mutex_kept' => QuietInv')
  BY TypeStep DEF CloseInv
<1> USE DEF CloseInv
<1>1. CASE UNCHANGED vars
  <2>1. /\ UNCHANGED <<pc, prefetcher, unpacker, position, compressed, unpacked>>
        /\ UNCHANGED <<abort_prefetching, delivered, ended, closed_early, mutex_kept>>
    BY <1>1 DEF vars, threadVars, compressedVars, unpackedVars, streamVars, resetVars
  <2>2. SameThreads /\ \A c \in Clients : Joining(c)' = Joining(c)
    BY <2>1 DEF SameThreads, Joining
  <2>3. AbortInv'
    BY <2>1, <2>2, AbortFrame
  <2> QED
    BY <2>1, <2>3 DEF QuietInv, lockedIsClosed
<1>2. CASE Next
  <2>1. ~aborted /\ QuietInv
    BY <1>2 DEF Next, Running
  <2>2. CASE startPrefetching \/ resetPos
    BY <2>1, <2>2, StartClose, ResetClose
  <2>3. CASE getSharedExtent \/ ReadyWakeup
    BY <2>1, <2>3, ReadingClose DEF getSharedExtent, ReadyWakeup
  <2>4. CASE PrefetchStep
    BY <2>1, <2>4, PrefetchClose
  <2>5. CASE \E t \in Unpackers : UnpackStep(t)
    BY <2>1, <2>5, UnpackClose
  <2>6. CASE CloseAtEnd \/ \E c \in Clients : Close(c)
    <3>1. PICK c \in Clients :
            /\ CloseEnter(c) /\ pc[c] \in {"idle", "close"} /\ pc[Consumer] # "new"
            /\ UNCHANGED <<compressed, unpacked>>
      BY <2>6 DEF Close, CloseAtEnd, Clients, compressedVars, unpackedVars
    <3> QED
      BY <2>1, <3>1, CloseEnterClose
  <2>7. CASE \E c \in Clients : CloseStep(c)
    BY <2>1, <2>7, CloseStepClose
  <2> QED
    BY <1>2, <2>2, <2>3, <2>4, <2>5, <2>6, <2>7 DEF Next, ConsumerStep
<1> QED
  BY <1>1, <1>2

LEMMA CloseAlways == Spec => []CloseInv
<1> QED
  BY CloseInit, CloseInvStep, PTL DEF Spec

\* Whatever number of threads close() has to stop and of clients that call it,
\* abort_prefetching counts those still to stop, and nobody waits in close()
\* after it has reached zero (IndexSourceModule.cpp:173, close).
THEOREM AbortCountsCorrect == Spec => []AbortCounts
<1>1. CloseInv => AbortCounts
  BY DEF CloseInv, AbortInv, AbortCounts, Joining
<1> QED
  BY <1>1, CloseAlways, PTL

\* When close() has returned to any client all the threads are gone, and so are
\* the extents they read (IndexSourceModule.cpp:173, close).
THEOREM CloseIsQuiet == Spec => []ClosedIsQuiet
<1>1. CloseInv => ClosedIsQuiet
  BY DEF CloseInv, QuietInv, ClosedIsQuiet
<1> QED
  BY <1>1, CloseAlways, PTL

\* Both of them: close() counts every thread out and leaves nothing.
THEOREM CloseCompletes == Spec => []CloseIsComplete
BY AbortCountsCorrect, CloseIsQuiet, PTL DEF CloseIsComplete

----------------------------------------------------------------------------
\* File order: the module implements the stream

LEMMA InOrderTaken ==
  ASSUME TypeInv, InOrder, unpacked # << >>,
         delivered' = Append(delivered, Head(unpacked).extent),
         unpacked' = Tail(unpacked), UNCHANGED <<position, compressed>>
  PROVE  InOrder' /\ Head(unpacked).extent = Len(delivered) + 1
<1> DEFINE d == Len(delivered)
           n == Len(unpacked)
<1>1. /\ delivered \in Seq(Extents) /\ unpacked \in Seq(Unpacked)
      /\ compressed \in Seq(Extents) /\ position \in Nat
  BY IndexSourceAssumption DEF TypeInv, TypeOK, QueueTypes, StreamTypes, Unpacked
<1>2. d \in Nat /\ n \in Nat /\ n > 0 /\ Len(compressed) \in Nat
  BY <1>1
<1>3. Head(unpacked).extent = d + 1
  <2>1. Head(unpacked) = unpacked[1] /\ 1 \in 1..n
    BY <1>1, <1>2
  <2> QED
    BY <2>1 DEF InOrder
<1>4. Head(unpacked).extent \in Extents
  BY <1>1, ElementTypes DEF Unpacked
<1>5. /\ Len(delivered') = d + 1
      /\ \A i \in 1..(d + 1) : delivered'[i] = i
  BY <1>1, <1>2, <1>3, <1>4 DEF InOrder
<1>6. /\ Len(unpacked') = n - 1
      /\ \A i \in 1..(n - 1) : unpacked'[i] = unpacked[i + 1]
  BY <1>1, <1>2
<1>7. \A i \in 1..(n - 1) : unpacked'[i].extent = (d + 1) + i
  BY <1>2, <1>6 DEF InOrder
<1>8. /\ position = (d + 1) + (n - 1) + Len(compressed)
      /\ \A i \in 1..Len(compressed) : compressed[i] = (d + 1) + (n - 1) + i
  BY <1>1, <1>2 DEF InOrder
<1> QED
  BY <1>3, <1>5, <1>6, <1>7, <1>8 DEF InOrder

LEMMA InOrderRead ==
  ASSUME TypeInv, InOrder, position' = position + 1,
         position + 1 \in Extents,
         compressed' = Append(compressed, position + 1), UNCHANGED <<delivered, unpacked>>
  PROVE  InOrder'
<1>1. /\ delivered \in Seq(Extents) /\ unpacked \in Seq(Unpacked)
      /\ compressed \in Seq(Extents)
  BY DEF TypeInv, TypeOK, QueueTypes, StreamTypes, Unpacked
<1>2. /\ Len(compressed') = Len(compressed) + 1
      /\ compressed'[Len(compressed) + 1] = position + 1
      /\ \A i \in 1..Len(compressed) : compressed'[i] = compressed[i]
  BY <1>1
<1> DEFINE m == Len(delivered) + Len(unpacked)
           k == Len(compressed)
<1>3. Len(delivered) \in Nat /\ Len(unpacked) \in Nat /\ k \in Nat
  BY <1>1
<1>4. position = m + k /\ \A i \in 1..k : compressed[i] = m + i
  BY DEF InOrder
<1>5. position' = m + Len(compressed')
  BY <1>2, <1>3, <1>4
<1>6. ASSUME NEW i \in 1..Len(compressed') PROVE compressed'[i] = m + i
  <2>1. CASE i = k + 1
    BY <1>2, <1>3, <1>4, <2>1
  <2>2. CASE i \in 1..k
    BY <1>2, <1>4, <2>2
  <2> QED
    BY <1>2, <1>3, <2>1, <2>2
<1> QED
  BY <1>5, <1>6 DEF InOrder

\* A queue u of the same extents in place of unpacked
SameExtents(u) == /\ u \in Seq(Unpacked) /\ Len(u) = Len(unpacked)
                  /\ \A i \in 1..Len(unpacked) : u[i].extent = unpacked[i].extent

LEMMA InOrderMarked ==
  ASSUME InOrder, SameExtents(unpacked'),
         UNCHANGED <<delivered, position, compressed>>
  PROVE  InOrder'
  BY DEF InOrder, SameExtents

LEMMA InOrderUnpacked ==
  ASSUME TypeInv, InOrder, NEW u, SameExtents(u), compressed # << >>,
         compressed' = Tail(compressed),
         unpacked' = Append(u, [extent |-> Head(compressed), done |-> FALSE]),
         UNCHANGED <<delivered, position>>
  PROVE  InOrder'
<1> DEFINE d == Len(delivered)
           n == Len(unpacked)
           k == Len(compressed)
           new == [extent |-> Head(compressed), done |-> FALSE]
<1>1. /\ delivered \in Seq(Extents) /\ unpacked \in Seq(Unpacked)
      /\ compressed \in Seq(Extents) /\ u \in Seq(Unpacked) /\ Len(u) = n
  BY DEF TypeInv, TypeOK, QueueTypes, StreamTypes, Unpacked, SameExtents
<1>2. d \in Nat /\ n \in Nat /\ k \in Nat /\ k > 0
  BY <1>1
<1>3. Head(compressed) = d + n + 1
  <2>1. Head(compressed) = compressed[1] /\ 1 \in 1..k
    BY <1>1, <1>2
  <2> QED
    BY <2>1 DEF InOrder
<1>4. new \in Unpacked /\ new.extent = d + (n + 1)
  BY <1>1, <1>2, <1>3, ElementTypes DEF Unpacked
<1>5. /\ Len(unpacked') = n + 1 /\ unpacked'[n + 1] = new
      /\ \A i \in 1..n : unpacked'[i] = u[i]
  BY <1>1, <1>2, <1>4
<1>6. \A i \in 1..(n + 1) : unpacked'[i].extent = d + i
  <2>1. ASSUME NEW i \in 1..n PROVE unpacked'[i].extent = d + i
    BY <1>5 DEF InOrder, SameExtents
  <2>2. ASSUME NEW i \in 1..(n + 1), i \notin 1..n PROVE i = n + 1
    BY <1>2, <2>2
  <2> QED
    BY <1>4, <1>5, <2>1, <2>2
<1>7. /\ Len(compressed') = k - 1
      /\ \A i \in 1..(k - 1) : compressed'[i] = compressed[i + 1]
  BY <1>1, <1>2
<1>8. /\ position = d + (n + 1) + (k - 1)
      /\ \A i \in 1..(k - 1) : compressed'[i] = d + (n + 1) + i
  <2>1. position = d + n + k /\ \A i \in 1..k : compressed[i] = d + n + i
    BY DEF InOrder
  <2> QED
    BY <1>2, <1>7, <2>1
<1> QED
  BY <1>2, <1>5, <1>6, <1>7, <1>8 DEF InOrder

LEMMA SourceType == Source \in Seq(Extents) /\ Len(Source) = NExtents
                    /\ \A i \in Extents : Source[i] = i
  BY IndexSourceAssumption DEF Source, Extents

LEMMA MarkedSameExtents ==
  ASSUME TypeInv, NEW e
  PROVE  SameExtents(MarkedDone(e)) /\ SameExtents(unpacked)
<1>1. unpacked \in Seq(Unpacked)
  BY DEF TypeInv, TypeOK, QueueTypes, Unpacked
<1>2. ASSUME NEW i \in 1..Len(unpacked)
      PROVE  [unpacked[i] EXCEPT !.done = TRUE].extent = unpacked[i].extent
  <2>1. unpacked[i] \in Unpacked
    BY <1>1
  <2> QED
    BY <2>1 DEF Unpacked
<1> QED
  BY <1>1, <1>2, MarkedDoneType DEF SameExtents

\* An unpack thread goes through its loop with the extents queued as they are.
LEMMA UnpackCases ==
  ASSUME TypeInv, NEW t \in Unpackers, UnpackStep(t)
  PROVE  \E u, p, ok : /\ UnpackLoop(t, u, p, ok) /\ SameExtents(u)
                       /\ p = pc \/ p = ReadySignalled(pc)
                       /\ unpacker[t] # "none"
                       /\ UNCHANGED <<position, source_done, streamVars, resetVars>>
<1>1. CASE UnpackRun(t)
  <2>1. /\ UnpackLoop(t, unpacked, pc, TRUE) /\ unpacker[t] # "none"
        /\ UNCHANGED <<position, source_done, streamVars, resetVars>>
    BY <1>1 DEF UnpackRun
  <2> QED
    BY <2>1, MarkedSameExtents
<1>2. CASE UnpackDone(t)
  <2> DEFINE u == MarkedDone(item[t])
             p == IF unpackedReady(u) THEN ReadySignalled(pc) ELSE pc
  <2>1. /\ UnpackLoop(t, u, p, unpacked # << >>) /\ unpacker[t] # "none"
        /\ UNCHANGED <<position, source_done, streamVars, resetVars>>
    BY <1>2 DEF UnpackDone
  <2>2. SameExtents(u) /\ (p = pc \/ p = ReadySignalled(pc))
    BY MarkedSameExtents
  <2> HIDE DEF u, p
  <2> QED
    BY <2>1, <2>2
<1> QED
  BY <1>1, <1>2 DEF UnpackStep

\* What the module's own threads leave alone
ThreadsKeep ==
  /\ AllThreads /\ AllThreads' /\ UNCHANGED <<delivered, ended, closed_early>>
  /\ source_done => source_done'
  /\ \A c \in Clients : /\ Joining(c)' => Joining(c)
                        /\ pc'[c] = "close" => pc[c] = "close"

LEMMA PrefetchKeeps ==
  ASSUME TypeInv, AbortInv, PrefetchStep
  PROVE  ThreadsKeep
<1> USE DEF TypeInv, TypeOK, ThreadTypes
<1>1. PICK b : PrefetchLoop(b)
  BY DEF PrefetchStep, PrefetchRun, PrefetchRead
<1>2. AllThreads
  BY DEF AbortInv, lockedIsClosed, PrefetchStep, PrefetchRun, PrefetchRead
<1>3. UnpackSignal \/ UNCHANGED unpacker
  BY DEF PrefetchStep, PrefetchRun, PrefetchRead
<1>4. AllThreads'
  BY <1>1, <1>2, <1>3, SignalKeepsThreads
  DEF AllThreads, PrefetchLoop, PrefetchExit, PrefetchNext, PrefetchEnd, PrefetchSleep
<1>5. pc' \in {pc, ReadySignalled(pc), ClosersWoken(pc)} /\ (source_done => source_done')
  BY <1>1 DEF PrefetchLoop, PrefetchExit, PrefetchNext, PrefetchEnd, PrefetchSleep,
              EndSignalled
<1>6. UNCHANGED <<delivered, ended, closed_early>>
  BY DEF PrefetchStep, PrefetchRun, PrefetchRead, streamVars
<1> QED
  BY <1>2, <1>4, <1>5, <1>6, SignalledClients DEF ThreadsKeep, Joining

LEMMA UnpackKeeps ==
  ASSUME TypeInv, AbortInv, NEW t \in Unpackers, UnpackStep(t)
  PROVE  ThreadsKeep
<1> USE DEF TypeInv, TypeOK, ThreadTypes
<1>1. PICK u, p, ok : /\ UnpackLoop(t, u, p, ok)
                      /\ p = pc \/ p = ReadySignalled(pc)
                      /\ unpacker[t] # "none"
                      /\ UNCHANGED <<position, source_done, streamVars, resetVars>>
  BY UnpackCases
<1>2. AllThreads
  BY <1>1 DEF AbortInv, lockedIsClosed
<1>3. AllThreads'
  BY <1>1, <1>2, SignalsKeepThreads DEF AllThreads, UnpackLoop, UnpackExit, UnpackTake,
                                        UnpackSleep
<1>4. pc' = p \/ pc' = ClosersWoken(p)
  BY <1>1 DEF UnpackLoop, UnpackExit, UnpackTake, UnpackSleep
<1>5. UNCHANGED <<delivered, ended, closed_early>>
  BY <1>1 DEF streamVars
<1> QED
  BY <1>1, <1>2, <1>3, <1>4, <1>5, SignalledClients DEF ThreadsKeep, Joining

LEMMA EndKept ==
  ASSUME EndInv, ThreadsKeep, ended => compressed' = << >> /\ unpacked' = << >>
  PROVE  EndInv'
<1>1. ~lockedIsClosed'
  BY DEF ThreadsKeep, AllThreads, lockedIsClosed
<1>2. Consumer \in Clients
  BY DEF Clients
<1> QED
  BY <1>1, <1>2 DEF EndInv, ThreadsKeep

LEMMA PrefetchOrder ==
  ASSUME TypeInv, AbortInv, OrderInv, PrefetchStep
  PROVE  OrderInv'
<1>1. ThreadsKeep
  BY PrefetchKeeps
<1>2. CASE PrefetchRun
  <2>1. UNCHANGED <<position, compressed, unpacked, delivered>>
    BY <1>1, <1>2 DEF PrefetchRun, compressedVars, unpackedVars, ThreadsKeep
  <2>2. InOrder'
    BY <1>1, <2>1 DEF OrderInv, InOrder, ThreadsKeep
  <2> QED
    BY <1>1, <2>1, <2>2, EndKept DEF OrderInv, EndInv
<1>3. CASE PrefetchRead
  <2>1. position + 1 \in Extents /\ ~ended
    BY <1>3, IndexSourceAssumption
    DEF PrefetchRead, TypeInv, TypeOK, QueueTypes, CursorInv, OrderInv, EndInv, Extents
  <2>2. /\ position' = position + 1 /\ compressed' = Append(compressed, position + 1)
        /\ UNCHANGED <<delivered, unpacked>>
    BY <1>1, <1>3 DEF PrefetchRead, unpackedVars, ThreadsKeep
  <2>3. InOrder'
    BY <1>1, <2>1, <2>2, InOrderRead DEF OrderInv, ThreadsKeep
  <2> QED
    BY <1>1, <2>1, <2>3, EndKept DEF OrderInv
<1> QED
  BY <1>2, <1>3 DEF PrefetchStep

LEMMA UnpackOrder ==
  ASSUME TypeInv, AbortInv, OrderInv, NEW t \in Unpackers, UnpackStep(t)
  PROVE  OrderInv'
<1>1. ThreadsKeep
  BY UnpackKeeps
<1>2. PICK u, p, ok : /\ UnpackLoop(t, u, p, ok) /\ SameExtents(u)
                      /\ UNCHANGED <<position, source_done, streamVars, resetVars>>
  BY UnpackCases
<1>3. InOrder /\ UNCHANGED <<delivered, position>>
  BY <1>1, <1>2 DEF OrderInv, ThreadsKeep
<1>4. CASE UnpackTake(t, u, p, ok)
  <2>1. /\ compressed # << >> /\ compressed' = Tail(compressed)
        /\ unpacked' = Append(u, [extent |-> Head(compressed), done |-> FALSE])
    BY <1>4 DEF UnpackTake, CanUnpack
  <2>2. InOrder'
    BY <1>2, <1>3, <2>1, InOrderUnpacked
  <2> QED
    BY <1>1, <2>1, <2>2, EndKept DEF OrderInv, EndInv
<1>5. CASE UnpackExit(t, u, p, ok) \/ UnpackSleep(t, u, p, ok)
  <2>1. unpacked' = u /\ compressed' = compressed
    BY <1>5 DEF UnpackExit, UnpackSleep, compressedVars
  <2>2. InOrder'
    BY <1>2, <1>3, <2>1, InOrderMarked
  <2>3. unpacked = << >> => unpacked' = << >>
    BY <1>2, <2>1 DEF SameExtents
  <2> QED
    BY <1>1, <2>1, <2>2, <2>3, EndKept DEF OrderInv, EndInv
<1> QED
  BY <1>2, <1>4, <1>5 DEF UnpackLoop

\* The reader finds the end only when it has got everything, or when another
\* client has closed the module.
LEMMA AllDelivered ==
  ASSUME TypeInv, AbortInv, OrderInv, allDone, pc[Consumer] # "new"
  PROVE  ended \/ closed_early \/ delivered = Source
<1>1. CASE lockedIsClosed
  BY <1>1 DEF OrderInv, EndInv
<1>2. CASE ~lockedIsClosed
  <2>1. delivered \in Seq(Extents) /\ NExtents \in Nat
    BY IndexSourceAssumption DEF TypeInv, TypeOK, StreamTypes
  <2>2. position = NExtents /\ compressed = << >> /\ unpacked = << >> /\ InOrder
    BY <1>2 DEF allDone, TypeInv, CursorInv, OrderInv, AbortInv
  <2>3. Len(delivered) = NExtents
    BY <2>1, <2>2 DEF InOrder
  <2>4. \A i \in 1..NExtents : delivered[i] = Source[i]
    BY <2>2, <2>3, SourceType DEF InOrder, Extents
  <2> QED
    BY <2>1, <2>3, <2>4, SourceType
<1> QED
  BY <1>1, <1>2

\* Steps that the reader of the stream does not see
StreamEnded == ended /\ ~closed_early

Unseen == delivered' = delivered /\ StreamEnded' = StreamEnded

LEMMA UnseenStutters == ASSUME Unseen PROVE [Stream!Next]_(Stream!vars)
  BY DEF Unseen, StreamEnded, Stream!vars

\* The reader learns of the end after the last extent.
LEMMA EndSeen ==
  ASSUME delivered = Source, delivered' = delivered, StreamEnded' = TRUE
  PROVE  [Stream!Next]_(Stream!vars)
  BY DEF StreamEnded, Stream!Next, Stream!End

LEMMA ReadingOrder ==
  ASSUME TypeInv, AbortInv, QuietInv, OrderInv, Reading, pc[Consumer] # "new",
         pc[Consumer] # "close"
  PROVE  OrderInv' /\ [Stream!Next]_(Stream!vars)
<1> USE DEF TypeInv, TypeOK, ClientTypes
<1>1. lockedIsClosed' = lockedIsClosed /\ AllThreads' = AllThreads
  BY ReadingThreads, SameLiveThreads
<1>2. Consumer \in Clients
  BY DEF Clients
<1>3. ASSUME NEW c \in Clients, Joining(c)' PROVE Joining(c)
  BY <1>2, <1>3 DEF Joining, Reading, WaitForExtent, FindEnd, TakeExtent
<1>4. CASE WaitForExtent
  <2>1. /\ UNCHANGED <<position, compressed, unpacked, delivered, source_done>>
        /\ UNCHANGED <<ended, closed_early>> /\ pc'[Consumer] = "ready_wait"
    BY <1>2, <1>4 DEF WaitForExtent, compressedVars, unpackedVars, streamVars
  <2>2. InOrder' = InOrder
    BY <2>1 DEF InOrder
  <2>3. EndInv'
    BY <1>1, <1>3, <2>1 DEF OrderInv, EndInv
  <2> QED
    BY <1>1, <2>1, <2>2, <2>3, UnseenStutters DEF OrderInv, Unseen, StreamEnded
<1>5. CASE FindEnd
  <2>1. /\ UNCHANGED <<position, compressed, unpacked, delivered, source_done>>
        /\ UNCHANGED closed_early /\ ended' = TRUE
    BY <1>5 DEF FindEnd, compressedVars, unpackedVars
  <2>2. InOrder' = InOrder
    BY <2>1 DEF InOrder
  <2>3. OrderInv'
    BY <1>1, <1>5, <2>1, <2>2 DEF FindEnd, allDone, OrderInv, EndInv
  <2>4. ASSUME ended \/ closed_early PROVE Unseen
    <3>1. ended \in BOOLEAN /\ ended' \in BOOLEAN
      BY <2>1 DEF StreamTypes
    <3>2. StreamEnded' = StreamEnded
      BY <2>1, <2>4, <3>1 DEF StreamEnded
    <3> QED
      BY <2>1, <3>2 DEF Unseen
  <2>5. ASSUME ~closed_early PROVE StreamEnded' = TRUE
    BY <2>1, <2>5 DEF StreamEnded
  <2>6. ended \/ closed_early \/ delivered = Source
    BY <1>5, AllDelivered DEF FindEnd
  <2> QED
    BY <2>1, <2>3, <2>4, <2>5, <2>6, UnseenStutters, EndSeen
<1>6. CASE TakeExtent
  <2>1. /\ unpacked # << >> /\ unpacked' = Tail(unpacked)
        /\ delivered' = Append(delivered, Head(unpacked).extent)
        /\ UNCHANGED <<position, compressed, source_done, ended, closed_early>>
        /\ pc'[Consumer] = "idle"
    BY <1>2, <1>6 DEF TakeExtent, unpackedReady, compressedVars
  <2>2. ~ended
    BY <2>1 DEF OrderInv, EndInv
  <2>3. EndInv'
    BY <1>1, <1>3, <2>1, <2>2 DEF OrderInv, EndInv
  <2>4. AllThreads => InOrder' /\ Head(unpacked).extent = Len(delivered) + 1
    BY <2>1, InOrderTaken DEF OrderInv
  <2>5. Head(unpacked).extent \in Extents
    <3>1. unpacked \in Seq(Unpacked)
      BY DEF QueueTypes, Unpacked
    <3> QED
      BY <2>1, <3>1, ElementTypes DEF Unpacked
  <2>6. AllThreads => [Stream!Next]_(Stream!vars)
    <3> SUFFICES ASSUME AllThreads PROVE Stream!Deliver
      BY DEF Stream!Next
    <3>1. Len(delivered) \in Nat /\ NExtents \in Nat
      BY IndexSourceAssumption DEF StreamTypes
    <3>2. Len(delivered) < Len(Source) /\ Source[Len(delivered) + 1] = Head(unpacked).extent
      BY <2>4, <2>5, <3>1, SourceType DEF Extents
    <3> QED
      BY <2>1, <2>2, <3>2 DEF Stream!Deliver
  <2>7. AllThreads
    BY <2>1 DEF AbortInv, QuietInv
  <2> QED
    BY <2>3, <2>4, <2>6, <2>7 DEF OrderInv
<1> QED
  BY <1>4, <1>5, <1>6 DEF Reading

LEMMA CloseEnterThreads ==
  ASSUME NEW c \in Clients, CloseEnter(c)
  PROVE  SameThreads
  BY SignalsKeepThreads DEF CloseEnter, SameThreads, threadVars

LEMMA CloseOrder ==
  ASSUME TypeInv, OrderInv, NEW c \in Clients, pc[Consumer] # "new",
         Close(c) \/ (c = Consumer /\ CloseAtEnd)
  PROVE  OrderInv' /\ [Stream!Next]_(Stream!vars)
<1>1. /\ UNCHANGED <<position, compressed, unpacked, delivered, source_done, ended>>
      /\ AllThreads' = AllThreads
  BY CloseEnterThreads, SameLiveThreads
  DEF Close, CloseAtEnd, compressedVars, unpackedVars, streamVars
<1>2. ended' \/ closed_early'
  BY DEF Close, CloseAtEnd, OrderInv, EndInv, streamVars
<1>3. OrderInv'
  BY <1>1, <1>2 DEF OrderInv, EndInv, InOrder
<1>4. StreamEnded' = StreamEnded
  <2>1. /\ ended \in BOOLEAN /\ closed_early \in BOOLEAN
        /\ closed_early' \in BOOLEAN
    BY CloseType DEF TypeInv, TypeOK, StreamTypes
  <2>2. ended => closed_early' = closed_early
    BY <2>1 DEF Close, CloseAtEnd, streamVars
  <2> QED
    BY <1>1, <2>1, <2>2 DEF StreamEnded
<1> QED
  BY <1>1, <1>3, <1>4, UnseenStutters DEF Unseen

LEMMA CloseStepOrder ==
  ASSUME TypeInv, OrderInv, NEW c \in Clients, CloseStep(c)
  PROVE  OrderInv' /\ [Stream!Next]_(Stream!vars)
<1> USE DEF TypeInv, TypeOK, ClientTypes
<1>1. UNCHANGED <<delivered, ended, closed_early, position, source_done>>
  BY DEF CloseStep, WaitForThreads, JoinThreads, CloseWakeup, streamVars
<1>2. [Stream!Next]_(Stream!vars)
  BY <1>1, UnseenStutters DEF Unseen, StreamEnded
<1>3. CASE JoinThreads(c)
  <2>1. ended \/ closed_early
    BY <1>3 DEF JoinThreads, Joining, OrderInv, EndInv
  <2>2. ~AllThreads' /\ compressed' = << >> /\ unpacked' = << >>
    BY <1>3 DEF JoinThreads, AllThreads, Dropped
  <2> QED
    BY <1>1, <1>2, <2>1, <2>2 DEF OrderInv, EndInv
<1>4. CASE WaitForThreads(c) \/ CloseWakeup(c)
  <2>1. UNCHANGED <<compressed, unpacked, prefetcher, unpacker>>
    BY <1>4 DEF WaitForThreads, CloseWakeup, threadVars, compressedVars, unpackedVars
  <2>2. InOrder' = InOrder /\ AllThreads' = AllThreads /\ lockedIsClosed' = lockedIsClosed
    BY <1>1, <2>1 DEF InOrder, AllThreads, lockedIsClosed
  <2>3. Consumer \in Clients
    BY DEF Clients
  <2>4. /\ \A d \in Clients : Joining(d)' => Joining(d)
        /\ pc'[Consumer] = "close" => pc[Consumer] = "close"
        /\ pc[Consumer] = "new" => pc'[Consumer] = "new"
    <3>1. CASE WaitForThreads(c)
      BY <2>3, <3>1 DEF WaitForThreads, Joining
    <3>2. CASE CloseWakeup(c)
      BY <2>3, <3>2 DEF CloseWakeup, Joining
    <3> QED
      BY <1>4, <3>1, <3>2
  <2>5. EndInv'
    BY <1>1, <2>1, <2>2, <2>4 DEF OrderInv, EndInv
  <2> QED
    BY <1>2, <2>2, <2>5 DEF OrderInv
<1> QED
  BY <1>3, <1>4 DEF CloseStep

LEMMA StartOrder ==
  ASSUME TypeInv, QuietInv, startPrefetching
  PROVE  OrderInv' /\ [Stream!Next]_(Stream!vars)
<1> USE DEF TypeInv, TypeOK, ClientTypes, startPrefetching
<1>1. /\ UNCHANGED <<position, compressed, unpacked, delivered, ended, closed_early>>
  BY DEF compressedVars, unpackedVars, streamVars
<1>2. /\ position = 0 /\ compressed = << >> /\ unpacked = << >> /\ delivered = << >>
      /\ ~ended
  BY DEF QuietInv
<1>3. \A c \in Clients : pc'[c] = "idle"
  BY DEF QuietInv, Clients
<1>4. ~lockedIsClosed'
  BY DEF lockedStartThreads, lockedIsClosed
<1>5. InOrder'
  BY <1>1, <1>2 DEF InOrder
<1>6. EndInv'
  BY <1>1, <1>2, <1>3, <1>4 DEF EndInv, Joining, Clients
<1> QED
  BY <1>1, <1>5, <1>6, UnseenStutters DEF OrderInv, Unseen, StreamEnded

LEMMA ResetOrder ==
  ASSUME TypeInv, AbortInv, QuietInv, resetPos
  PROVE  OrderInv' /\ [Stream!Next]_(Stream!vars)
<1> USE DEF TypeInv, TypeOK, ClientTypes, resetPos
<1>1. /\ position' = 0 /\ delivered' = << >> /\ ended' = FALSE /\ closed_early' = FALSE
      /\ pc'[Consumer] = "idle"
  BY DEF Clients
<1>2. lockedIsClosed /\ compressed = << >> /\ unpacked = << >>
  BY DEF QuietInv, Clients
<1>3. compressed' = << >> /\ unpacked' = << >>
  BY <1>2 DEF compressedVars, unpackedVars
<1>4. \A c \in Clients : ~Joining(c)'
  BY <1>2 DEF AbortInv, AllThreads, lockedIsClosed, Joining, ThreadTypes
<1>5. ~lockedIsClosed'
  BY DEF lockedStartThreads, lockedIsClosed
<1>6. InOrder'
  BY <1>1, <1>3 DEF InOrder
<1>7. EndInv'
  BY <1>1, <1>4, <1>5 DEF EndInv
<1>8. StreamEnded' = FALSE
  BY <1>1 DEF StreamEnded
<1> QED
  BY <1>1, <1>6, <1>7, <1>8 DEF OrderInv, Stream!Next, Stream!StartOver, StreamEnded

LEMMA StreamInit == Init => StreamInv /\ Stream!Init
<1> SUFFICES ASSUME Init PROVE StreamInv /\ Stream!Init
  OBVIOUS
<1> USE DEF Init
<1>1. ~AllThreads /\ pc[Consumer] = "new" /\ \A c \in Clients : ~Joining(c)
  BY IndexSourceAssumption DEF AllThreads, Clients, Joining
<1>2. OrderInv
  BY <1>1 DEF OrderInv, EndInv
<1>3. StreamEnded = FALSE
  BY DEF StreamEnded
<1> QED
  BY <1>2, <1>3, CloseInit DEF StreamInv, Stream!Init, StreamEnded

LEMMA StreamStep == StreamInv /\ [Next]_vars => OrderInv' /\ [Stream!Next]_(Stream!vars)
<1> SUFFICES ASSUME StreamInv, [Next]_vars
             PROVE  OrderInv' /\ [Stream!Next]_(Stream!vars)
  OBVIOUS
<1> USE DEF StreamInv, CloseInv
<1>1. CASE UNCHANGED vars
  <2>1. /\ UNCHANGED <<pc, prefetcher, unpacker, position, compressed, unpacked>>
        /\ UNCHANGED <<source_done, delivered, ended, closed_early>>
    BY <1>1 DEF vars, threadVars, compressedVars, unpackedVars, streamVars
  <2>2. OrderInv'
    BY <2>1 DEF OrderInv, InOrder, EndInv, AllThreads, lockedIsClosed, Joining
  <2> QED
    BY <2>1, <2>2, UnseenStutters DEF Unseen, StreamEnded
<1>2. CASE Next
  <2>1. QuietInv
    BY <1>2 DEF Next, Running
  <2>2. CASE startPrefetching \/ resetPos
    BY <2>1, <2>2, StartOrder, ResetOrder
  <2>3. CASE getSharedExtent \/ ReadyWakeup
    BY <2>1, <2>3, ReadingOrder DEF getSharedExtent, ReadyWakeup
  <2>4. CASE PrefetchStep \/ \E t \in Unpackers : UnpackStep(t)
    <3>1. ThreadsKeep /\ OrderInv'
      BY <2>4, PrefetchKeeps, UnpackKeeps, PrefetchOrder, UnpackOrder
    <3> QED
      BY <3>1, UnseenStutters DEF ThreadsKeep, Unseen, StreamEnded
  <2>5. CASE CloseAtEnd \/ \E c \in Clients : Close(c)
    BY <2>5, CloseOrder DEF Close, CloseAtEnd, Clients
  <2>6. CASE \E c \in Clients : CloseStep(c)
    BY <2>6, CloseStepOrder
  <2> QED
    BY <1>2, <2>2, <2>3, <2>4, <2>5, <2>6 DEF Next, ConsumerStep
<1> QED
  BY <1>1, <1>2

LEMMA StreamAlways == Spec => []StreamInv
<1>1. StreamInv /\ [Next]_vars => StreamInv'
  BY CloseInvStep, StreamStep DEF StreamInv
<1> QED
  BY <1>1, StreamInit, PTL DEF Spec

\* However the unpack threads overtake each other and whoever closes the module
\* when, the reader gets the extents in file order, none lost or repeated, and
\* is told of the end after the last one: the module implements the abstract
\* stream (IndexSourceModule.cpp:116, getSharedExtent).
THEOREM StreamImplemented == Spec => ImplementsStream
<1>1. Init => Stream!Init
  BY StreamInit
<1>2. StreamInv /\ [Next]_vars => [Stream!Next]_(Stream!vars)
  BY StreamStep
<1> QED
  BY <1>1, <1>2, StreamAlways, PTL DEF Spec, ImplementsStream, Stream!Spec

----------------------------------------------------------------------------
\* The extents being unpacked

IsUnpacking(t) == unpacker[t] = "unpacking"

\* WorkInv of a queue u, but for thread t, which works on none of its extents
OthersWork(t, u) ==
  /\ \A i \in 1..Len(u) : ~u[i].done =>
       \E s \in Unpackers \ {t} : IsUnpacking(s) /\ item[s] = u[i].extent
  /\ \A s \in Unpackers \ {t} : IsUnpacking(s) =>
       \E i \in 1..Len(u) : u[i] = [extent |-> item[s], done |-> FALSE]
  /\ \A r, s \in Unpackers \ {t} :
       IsUnpacking(r) /\ IsUnpacking(s) /\ item[r] = item[s] => r = s

LEMMA WorkFrame ==
  ASSUME WorkInv, UNCHANGED <<item, unpacked>>,
         \A t \in Unpackers : IsUnpacking(t)' <=> IsUnpacking(t)
  PROVE  WorkInv'
  BY DEF WorkInv, IsUnpacking

LEMMA SignalsKeepWork ==
  ASSUME TypeInv, NEW t \in Unpackers
  PROVE  /\ UnpackBroadcast[t] = "unpacking" <=> IsUnpacking(t)
         /\ UnpackSignal => (IsUnpacking(t)' <=> IsUnpacking(t))
<1>1. UnpackBroadcast[t] = "unpacking" <=> IsUnpacking(t)
  BY DEF UnpackBroadcast, IsUnpacking
<1>2. UnpackSignal => (IsUnpacking(t)' <=> IsUnpacking(t))
  BY DEF UnpackSignal, IsUnpacking, TypeInv, TypeOK, ThreadTypes
<1> QED
  BY <1>1, <1>2

LEMMA ReadingWork ==
  ASSUME TypeInv, WorkInv, Reading
  PROVE  WorkInv'
<1>1. \A t \in Unpackers : IsUnpacking(t)' <=> IsUnpacking(t)
  <2>1. unpacker' = UnpackBroadcast \/ UnpackSignal \/ unpacker' = unpacker
    BY DEF Reading, WaitForExtent, FindEnd, TakeExtent, threadVars
  <2> QED
    BY <2>1, SignalsKeepWork DEF IsUnpacking
<1>2. item' = item
  BY DEF Reading, WaitForExtent, FindEnd, TakeExtent, threadVars
<1>3. CASE WaitForExtent \/ FindEnd
  BY <1>1, <1>2, <1>3, WorkFrame DEF WaitForExtent, FindEnd, unpackedVars
<1>4. CASE TakeExtent
  <2> DEFINE n == Len(unpacked)
  <2>1. /\ unpacked # << >> /\ unpacked[1].done /\ unpacked' = Tail(unpacked)
        /\ unpacked \in Seq(Unpacked)
    BY <1>4 DEF TakeExtent, unpackedReady, TypeInv, TypeOK, QueueTypes, Unpacked
  <2>2. /\ n \in Nat /\ n > 0 /\ Len(unpacked') = n - 1
        /\ \A i \in 1..(n - 1) : unpacked'[i] = unpacked[i + 1] /\ i + 1 \in 1..n
    BY <2>1
  <2>3. ASSUME NEW i \in 1..(n - 1), ~unpacked'[i].done
        PROVE  \E t \in Unpackers : IsUnpacking(t)' /\ item'[t] = unpacked'[i].extent
    BY <1>1, <1>2, <2>2, <2>3 DEF WorkInv, IsUnpacking
  <2>4. ASSUME NEW t \in Unpackers, IsUnpacking(t)'
        PROVE  \E i \in 1..(n - 1) :
                 unpacked'[i] = [extent |-> item'[t], done |-> FALSE]
    <3>1. PICK j \in 1..n : unpacked[j] = [extent |-> item[t], done |-> FALSE]
      BY <1>1, <2>4 DEF WorkInv, IsUnpacking
    <3>2. j # 1
      BY <2>1, <3>1
    <3>3. j - 1 \in 1..(n - 1) /\ unpacked'[j - 1] = unpacked[j]
      BY <2>2, <3>2
    <3> QED
      BY <1>2, <3>1, <3>3
  <2> QED
    BY <1>1, <1>2, <2>2, <2>3, <2>4 DEF WorkInv, IsUnpacking
<1> QED
  BY <1>3, <1>4 DEF Reading

LEMMA RunWork ==
  ASSUME WorkInv, NEW t \in Unpackers, ~IsUnpacking(t)
  PROVE  OthersWork(t, unpacked)
  BY DEF WorkInv, OthersWork, IsUnpacking

LEMMA DoneWork ==
  ASSUME TypeInv, WorkInv, NEW t \in Unpackers, IsUnpacking(t)
  PROVE  OthersWork(t, MarkedDone(item[t]))
<1> DEFINE u == MarkedDone(item[t])
           n == Len(unpacked)
<1>1. unpacked \in Seq(Unpacked)
  BY DEF TypeInv, TypeOK, QueueTypes, Unpacked
<1>2. Len(u) = n /\ \A i \in 1..n :
        u[i] = IF unpacked[i].extent = item[t]
               THEN [unpacked[i] EXCEPT !.done = TRUE] ELSE unpacked[i]
  BY <1>1, MarkedDoneType
<1> HIDE DEF u
<1>3. ASSUME NEW i \in 1..n, ~u[i].done
      PROVE  \E s \in Unpackers \ {t} : IsUnpacking(s) /\ item[s] = u[i].extent
  <2>1. unpacked[i] \in Unpacked
    BY <1>1
  <2>2. unpacked[i].extent # item[t] /\ u[i] = unpacked[i]
    <3>1. ASSUME unpacked[i].extent = item[t] PROVE u[i].done
      BY <1>2, <2>1, <3>1 DEF Unpacked
    <3> QED
      BY <1>2, <1>3, <3>1
  <2> QED
    BY <1>3, <2>2 DEF WorkInv, IsUnpacking
<1>4. ASSUME NEW s \in Unpackers \ {t}, IsUnpacking(s)
      PROVE  \E i \in 1..n : u[i] = [extent |-> item[s], done |-> FALSE]
  <2>1. PICK i \in 1..n : unpacked[i] = [extent |-> item[s], done |-> FALSE]
    BY <1>4 DEF WorkInv, IsUnpacking
  <2>2. item[s] # item[t]
    BY <1>4 DEF WorkInv, IsUnpacking
  <2>3. unpacked[i].extent = item[s]
    BY <2>1
  <2>4. u[i] = unpacked[i]
    BY <1>2, <2>2, <2>3
  <2> QED
    BY <2>1, <2>4
<1> QED
  BY <1>2, <1>3, <1>4 DEF OthersWork, WorkInv, IsUnpacking, u

LEMMA LoopWork ==
  ASSUME TypeInv, AbortInv, QuietInv, OrderInv, NEW t \in Unpackers, NEW u, NEW p,
         NEW ok, OthersWork(t, u), SameExtents(u), UnpackLoop(t, u, p, ok),
         unpacker[t] # "none"
  PROVE  WorkInv'
<1> USE DEF TypeInv, TypeOK, ThreadTypes
<1>1. u \in Seq(Unpacked) /\ Len(u) = Len(unpacked) /\ Len(u) \in Nat
  BY DEF SameExtents
<1>2. CASE UnpackExit(t, u, p, ok) \/ UnpackSleep(t, u, p, ok)
  <2>1. \A s \in Unpackers : /\ IsUnpacking(s)' <=> s # t /\ IsUnpacking(s)
                             /\ s # t => item'[s] = item[s]
    BY <1>2 DEF UnpackExit, UnpackSleep, IsUnpacking
  <2>2. unpacked' = u
    BY <1>2 DEF UnpackExit, UnpackSleep
  <2> QED
    BY <2>1, <2>2 DEF OthersWork, WorkInv, IsUnpacking
<1>3. CASE UnpackTake(t, u, p, ok)
  <2> DEFINE e == Head(compressed)
             n == Len(u)
             new == [extent |-> e, done |-> FALSE]
  <2>1. \A s \in Unpackers : /\ IsUnpacking(s)' <=> s = t \/ IsUnpacking(s)
                             /\ item'[s] = IF s = t THEN e ELSE item[s]
    BY <1>3 DEF UnpackTake, IsUnpacking
  <2>2. compressed # << >> /\ compressed \in Seq(Extents) /\ unpacked' = Append(u, new)
    BY <1>3 DEF UnpackTake, CanUnpack, QueueTypes
  <2>3. new \in Unpacked
    BY <2>2, ElementTypes DEF Unpacked
  <2>4. /\ Len(unpacked') = n + 1 /\ unpacked'[n + 1] = new /\ n + 1 \in 1..(n + 1)
        /\ \A i \in 1..n : unpacked'[i] = u[i] /\ i \in 1..(n + 1)
        /\ \A i \in 1..(n + 1) : i \in 1..n \/ i = n + 1
    BY <1>1, <2>2, <2>3
  <2>5. \A i \in 1..n : u[i].extent # e
    <3>1. InOrder
      BY DEF AbortInv, OrderInv, lockedIsClosed
    <3>2. Len(delivered) \in Nat /\ Len(unpacked) \in Nat
      BY DEF StreamTypes, QueueTypes
    <3>3. e = Len(delivered) + n + 1
      <4>1. e = compressed[1] /\ 1 \in 1..Len(compressed)
        BY <2>2
      <4> QED
        BY <1>1, <3>1, <4>1 DEF InOrder
    <3> QED
      BY <1>1, <3>1, <3>2, <3>3 DEF InOrder, SameExtents
  <2>6. ASSUME NEW i \in 1..(n + 1), ~unpacked'[i].done
        PROVE  \E s \in Unpackers : IsUnpacking(s)' /\ item'[s] = unpacked'[i].extent
    <3>1. CASE i \in 1..n
      BY <2>1, <2>4, <2>6, <3>1 DEF OthersWork
    <3>2. CASE i = n + 1
      BY <2>1, <2>4, <3>2
    <3> QED
      BY <2>4, <3>1, <3>2
  <2>7. ASSUME NEW s \in Unpackers, IsUnpacking(s)'
        PROVE  \E i \in 1..(n + 1) :
                 unpacked'[i] = [extent |-> item'[s], done |-> FALSE]
    <3>1. CASE s = t
      BY <2>1, <2>4, <3>1
    <3>2. CASE s # t
      BY <2>1, <2>4, <2>7, <3>2 DEF OthersWork
    <3> QED
      BY <3>1, <3>2
  <2>8. ASSUME NEW s \in Unpackers \ {t}, IsUnpacking(s) PROVE item[s] # e
    <3>1. PICK i \in 1..n : u[i] = [extent |-> item[s], done |-> FALSE]
      BY <2>8 DEF OthersWork
    <3>2. u[i].extent = item[s]
      BY <3>1
    <3> QED
      BY <2>5, <3>2
  <2>9. ASSUME NEW r \in Unpackers, NEW s \in Unpackers,
               IsUnpacking(r)', IsUnpacking(s)', item'[r] = item'[s]
        PROVE  r = s
    BY <2>1, <2>8, <2>9 DEF OthersWork
  <2> QED
    BY <2>4, <2>6, <2>7, <2>9 DEF WorkInv, IsUnpacking
<1> QED
  BY <1>2, <1>3 DEF UnpackLoop

LEMMA UnpackWork ==
  ASSUME TypeInv, AbortInv, QuietInv, OrderInv, WorkInv, NEW t \in Unpackers,
         UnpackStep(t)
  PROVE  WorkInv'
<1>1. CASE UnpackRun(t)
  <2>1. UnpackLoop(t, unpacked, pc, TRUE) /\ unpacker[t] = "running"
    BY <1>1 DEF UnpackRun
  <2>2. OthersWork(t, unpacked) /\ SameExtents(unpacked)
    BY <2>1, RunWork, MarkedSameExtents DEF IsUnpacking
  <2> QED
    BY <2>1, <2>2, LoopWork
<1>2. CASE UnpackDone(t)
  <2> DEFINE u == MarkedDone(item[t])
             p == IF unpackedReady(u) THEN ReadySignalled(pc) ELSE pc
  <2>1. UnpackLoop(t, u, p, unpacked # << >>) /\ unpacker[t] = "unpacking"
    BY <1>2 DEF UnpackDone
  <2>2. OthersWork(t, u) /\ SameExtents(u)
    BY <2>1, DoneWork, MarkedSameExtents DEF IsUnpacking
  <2> HIDE DEF u, p
  <2> QED
    BY <2>1, <2>2, LoopWork
<1> QED
  BY <1>1, <1>2 DEF UnpackStep

LEMMA ClientWork ==
  ASSUME TypeInv, AbortInv, QuietInv, WorkInv,
         \/ startPrefetching \/ resetPos \/ CloseAtEnd
         \/ \E c \in Clients : Close(c) \/ CloseStep(c)
  PROVE  WorkInv'
<1>1. CASE startPrefetching \/ resetPos
  <2>1. lockedIsClosed
    BY <1>1 DEF QuietInv, startPrefetching, resetPos, Clients
  <2>2. UNCHANGED <<item, unpacked>> /\ \A t \in Unpackers : IsUnpacking(t)' <=> IsUnpacking(t)
    BY <1>1, <2>1 DEF startPrefetching, resetPos, lockedStartThreads, lockedIsClosed,
                      IsUnpacking, unpackedVars
  <2> QED
    BY <2>2, WorkFrame
<1>2. CASE CloseAtEnd \/ \E c \in Clients : Close(c)
  <2>1. PICK c \in Clients : CloseEnter(c) /\ unpacked' = unpacked
    BY <1>2 DEF CloseAtEnd, Close, Clients, unpackedVars
  <2>2. item' = item /\ \A t \in Unpackers : IsUnpacking(t)' <=> IsUnpacking(t)
    BY <2>1, SignalsKeepWork DEF CloseEnter, threadVars, IsUnpacking
  <2> QED
    BY <2>1, <2>2, WorkFrame
<1>3. CASE \E c \in Clients : CloseStep(c)
  <2>1. PICK c \in Clients : CloseStep(c)
    BY <1>3
  <2>2. CASE JoinThreads(c)
    <3>1. unpacked' = << >> /\ \A t \in Unpackers : unpacker'[t] # "unpacking"
      BY <2>2 DEF JoinThreads, Dropped
    <3> QED
      BY <3>1 DEF WorkInv
  <2>3. CASE WaitForThreads(c) \/ CloseWakeup(c)
    <3>1. UNCHANGED <<item, unpacked, unpacker>>
      BY <2>3 DEF WaitForThreads, CloseWakeup, threadVars, unpackedVars
    <3> QED
      BY <3>1, WorkFrame DEF IsUnpacking
  <2> QED
    BY <2>1, <2>2, <2>3 DEF CloseStep
<1> QED
  BY <1>1, <1>2, <1>3

LEMMA WorkStep == StreamInv /\ WorkInv /\ [Next]_vars => WorkInv'
<1> SUFFICES ASSUME StreamInv, WorkInv, [Next]_vars PROVE WorkInv'
  OBVIOUS
<1> USE DEF StreamInv, CloseInv
<1>1. CASE UNCHANGED vars
  <2>1. UNCHANGED <<item, unpacked, unpacker>>
    BY <1>1 DEF vars, threadVars, unpackedVars
  <2> QED
    BY <2>1, WorkFrame DEF IsUnpacking
<1>2. CASE Next
  <2>1. QuietInv
    BY <1>2 DEF Next, Running
  <2>2. CASE getSharedExtent \/ ReadyWakeup
    BY <2>2, ReadingWork DEF getSharedExtent, ReadyWakeup
  <2>3. CASE PrefetchStep
    <3>1. UNCHANGED <<item, unpacked>> /\ (UnpackSignal \/ UNCHANGED unpacker)
      BY <2>3 DEF PrefetchStep, PrefetchRun, PrefetchRead, unpackedVars
    <3>2. \A t \in Unpackers : IsUnpacking(t)' <=> IsUnpacking(t)
      BY <3>1, SignalsKeepWork DEF IsUnpacking
    <3> QED
      BY <3>1, <3>2, WorkFrame
  <2>4. CASE \E t \in Unpackers : UnpackStep(t)
    BY <2>1, <2>4, UnpackWork
  <2>5. CASE \/ startPrefetching \/ resetPos \/ CloseAtEnd
             \/ \E c \in Clients : Close(c) \/ CloseStep(c)
    BY <2>1, <2>5, ClientWork
  <2> QED
    BY <1>2, <2>2, <2>3, <2>4, <2>5 DEF Next, ConsumerStep
<1> QED
  BY <1>1, <1>2

LEMMA WorkImplies == WorkInv => WorkStaysQueued
<1> SUFFICES ASSUME WorkInv PROVE WorkStaysQueued
  OBVIOUS
<1>1. ASSUME NEW i \in 1..Len(unpacked), ~unpacked[i].done
      PROVE  Cardinality({t \in Unpackers : unpacker[t] = "unpacking"
                                            /\ item[t] = unpacked[i].extent}) = 1
  <2>1. PICK s \in Unpackers : unpacker[s] = "unpacking" /\ item[s] = unpacked[i].extent
    BY <1>1 DEF WorkInv
  <2>2. {t \in Unpackers : unpacker[t] = "unpacking"
                           /\ item[t] = unpacked[i].extent} = {s}
    BY <2>1 DEF WorkInv
  <2> QED
    BY <2>2, FS_Singleton
<1> QED
  BY <1>1 DEF WorkStaysQueued, UnpackedByOneThread, WorkInv

\* An extent that a thread unpacks without the mutex stays on the queue until it
\* is done, and no extent is unpacked by two threads or by none
\* (IndexSourceModule.cpp:301, unpackThread).
THEOREM OneThreadPerExtent == Spec => []WorkStaysQueued
<1>1. Init => WorkInv
  BY DEF Init, WorkInv
<1>2. Spec => []WorkInv
  BY <1>1, StreamAlways, WorkStep, PTL DEF Spec
<1> QED
  BY <1>2, WorkImplies, PTL

----------------------------------------------------------------------------
\* Wake-ups

SomeUnpackerAwake == \E t \in Unpackers : unpacker[t] # "waiting"

\* The three parts of NoLostWakeup
UnpackersWake == CanUnpack(compressed, unpacked_cur) => SomeUnpackerAwake
PrefetcherWakes ==
  prefetcher = "waiting" => source_done \/ ~can_add(compressed_cur, 0, MaxCompressed)
ReaderWakes == pc[Consumer] = "ready_wait" => ~allDone /\ ~unpackedReady(unpacked)

LEMMA WakeParts ==
  NoLostWakeup <=> (~lockedIsClosed /\ abort_prefetching = 0 =>
                      UnpackersWake /\ PrefetcherWakes /\ ReaderWakes)
  BY DEF NoLostWakeup, UnpackersWake, SomeUnpackerAwake, PrefetcherWakes, ReaderWakes

LEMMA SignalWakes ==
  ASSUME TypeInv, UnpackSignal
  PROVE  SomeUnpackerAwake'
  BY IndexSourceAssumption DEF UnpackSignal, SomeUnpackerAwake, TypeInv, TypeOK, ThreadTypes

LEMMA ReadingWakes ==
  ASSUME TypeInv, UnpackersWake, PrefetcherWakes, Reading
  PROVE  UnpackersWake' /\ PrefetcherWakes' /\ ReaderWakes'
<1>1. Consumer \in Clients
  BY DEF Clients
<1>2. PrefetcherWakes'
  BY DEF PrefetcherWakes, Reading, WaitForExtent, FindEnd, TakeExtent, threadVars,
         compressedVars
<1>3. UnpackersWake'
  <2>1. CASE WaitForExtent
    BY <2>1, IndexSourceAssumption
    DEF WaitForExtent, UnpackBroadcast, UnpackersWake, SomeUnpackerAwake
  <2>2. CASE FindEnd
    BY <2>2 DEF FindEnd, UnpackersWake, SomeUnpackerAwake, threadVars, compressedVars,
                unpackedVars, CanUnpack
  <2>3. CASE TakeExtent
    <3>1. /\ compressed' = compressed
          /\ CanUnpack(compressed, unpacked_cur') => UnpackSignal
      BY <2>3 DEF TakeExtent, compressedVars
    <3> QED
      BY <3>1, SignalWakes DEF UnpackersWake, CanUnpack
  <2> QED
    BY <2>1, <2>2, <2>3 DEF Reading
<1>4. ReaderWakes'
  <2>1. CASE WaitForExtent
    BY <2>1 DEF WaitForExtent, ReaderWakes, allDone, unpackedReady, compressedVars,
                unpackedVars
  <2>2. CASE FindEnd \/ TakeExtent
    BY <1>1, <2>2 DEF FindEnd, TakeExtent, ReaderWakes, TypeInv, TypeOK, ClientTypes
  <2> QED
    BY <2>1, <2>2 DEF Reading
<1> QED
  BY <1>2, <1>3, <1>4

LEMMA PrefetchWakes ==
  ASSUME TypeInv, UnpackersWake, ReaderWakes, PrefetchStep, prefetcher' # "exited"
  PROVE  UnpackersWake' /\ PrefetcherWakes' /\ ReaderWakes'
<1>1. Consumer \in Clients
  BY DEF Clients
<1>2. PICK b : PrefetchLoop(b) /\ b = compressed_cur'
  BY DEF PrefetchStep, PrefetchRun, PrefetchRead, compressedVars
<1>3. PrefetchNext(b) \/ PrefetchEnd(b) \/ PrefetchSleep(b)
  BY <1>2 DEF PrefetchLoop, PrefetchExit
<1>4. PrefetcherWakes'
  BY <1>2, <1>3 DEF PrefetcherWakes, PrefetchNext, PrefetchEnd, PrefetchSleep, MayRead
<1>5. UnpackersWake'
  <2>1. CASE PrefetchRun
    BY <2>1 DEF PrefetchRun, UnpackersWake, SomeUnpackerAwake, compressedVars,
                unpackedVars, CanUnpack
  <2>2. CASE PrefetchRead
    <3>1. CanUnpack(compressed', unpacked_cur') => UnpackSignal
      BY <2>2 DEF PrefetchRead, unpackedVars
    <3> QED
      BY <3>1, SignalWakes DEF UnpackersWake, CanUnpack
  <2> QED
    BY <2>1, <2>2 DEF PrefetchStep
<1>6. ReaderWakes'
  <2>1. unpacked' = unpacked /\ (compressed' = << >> => compressed = << >>)
    BY DEF PrefetchStep, PrefetchRun, PrefetchRead, compressedVars, unpackedVars,
           TypeInv, TypeOK, QueueTypes
  <2>2. CASE PrefetchEnd(b)
    BY <1>1, <2>2, SignalledClients DEF PrefetchEnd, EndSignalled, ReaderWakes
  <2>3. CASE PrefetchNext(b) \/ PrefetchSleep(b)
    BY <2>1, <2>3 DEF PrefetchNext, PrefetchSleep, ReaderWakes, allDone, unpackedReady
  <2> QED
    BY <1>3, <2>2, <2>3
<1> QED
  BY <1>4, <1>5, <1>6

LEMMA LoopWakes ==
  ASSUME TypeInv, UnpackersWake, PrefetcherWakes, ReaderWakes, NEW t \in Unpackers,
         NEW u, NEW p, NEW ok, UnpackLoop(t, u, p, ok), SameExtents(u),
         UNCHANGED source_done, unpacker'[t] # "exited",
         p[Consumer] = "ready_wait" => pc[Consumer] = "ready_wait" /\ ~unpackedReady(u)
  PROVE  UnpackersWake' /\ PrefetcherWakes' /\ ReaderWakes'
<1> USE DEF TypeInv, TypeOK, ThreadTypes
<1>1. unpacked \in Seq(Unpacked) /\ compressed \in Seq(Extents)
  BY DEF QueueTypes, Unpacked
<1>2. CASE UnpackTake(t, u, p, ok)
  <2>1. UnpackersWake' /\ PrefetcherWakes'
    BY <1>2 DEF UnpackTake, UnpackersWake, SomeUnpackerAwake, PrefetcherWakes,
                PrefetcherSignalled
  <2> DEFINE new == [extent |-> Head(compressed), done |-> FALSE]
  <2>2. unpacked' = Append(u, new) /\ u \in Seq(Unpacked) /\ new \in Unpacked
    BY <1>1, <1>2, ElementTypes DEF UnpackTake, CanUnpack, SameExtents, Unpacked
  <2>3. unpacked' # << >> /\ Head(unpacked') = IF u = << >> THEN new ELSE Head(u)
    BY <2>2
  <2>4. ~unpackedReady(u) => ~allDone' /\ ~unpackedReady(unpacked')
    BY <2>3 DEF unpackedReady, allDone
  <2>5. ReaderWakes'
    BY <1>2, <2>4 DEF UnpackTake, ReaderWakes, unpackedReady
  <2> QED
    BY <2>1, <2>5
<1>3. CASE UnpackSleep(t, u, p, ok)
  <2>1. /\ UNCHANGED <<compressed, compressed_cur, unpacked_cur, prefetcher>>
        /\ ~CanUnpack(compressed, unpacked_cur) /\ unpacked' = u /\ pc' = p
    BY <1>3 DEF UnpackSleep, compressedVars
  <2>2. UnpackersWake' /\ PrefetcherWakes'
    BY <2>1 DEF UnpackersWake, PrefetcherWakes, CanUnpack
  <2>3. u = << >> => unpacked = << >>
    BY <1>1 DEF SameExtents
  <2>4. ReaderWakes'
    BY <2>1, <2>3 DEF ReaderWakes, allDone, unpackedReady
  <2> QED
    BY <2>2, <2>4
<1>4. ~UnpackExit(t, u, p, ok)
  BY DEF UnpackExit
<1> QED
  BY <1>2, <1>3, <1>4 DEF UnpackLoop

LEMMA UnpackWakes ==
  ASSUME TypeInv, UnpackersWake, PrefetcherWakes, ReaderWakes, NEW t \in Unpackers,
         UnpackStep(t), unpacker'[t] # "exited"
  PROVE  UnpackersWake' /\ PrefetcherWakes' /\ ReaderWakes'
<1>1. CASE UnpackRun(t)
  <2>1. UnpackLoop(t, unpacked, pc, TRUE) /\ UNCHANGED source_done
    BY <1>1 DEF UnpackRun
  <2> QED
    BY <2>1, MarkedSameExtents, LoopWakes DEF ReaderWakes
<1>2. CASE UnpackDone(t)
  <2> DEFINE u == MarkedDone(item[t])
             p == IF unpackedReady(u) THEN ReadySignalled(pc) ELSE pc
  <2>1. UnpackLoop(t, u, p, unpacked # << >>) /\ UNCHANGED source_done
    BY <1>2 DEF UnpackDone
  <2>2. p[Consumer] = "ready_wait" => pc[Consumer] = "ready_wait" /\ ~unpackedReady(u)
    BY SignalledClients DEF Clients
  <2>3. SameExtents(u)
    BY MarkedSameExtents
  <2> HIDE DEF u, p
  <2> QED
    BY <2>1, <2>2, <2>3, LoopWakes
<1> QED
  BY <1>1, <1>2 DEF UnpackStep

LEMMA ClientWakes ==
  ASSUME TypeInv, AbortInv, QuietInv, NoLostWakeup,
         \/ startPrefetching \/ resetPos \/ CloseAtEnd
         \/ \E c \in Clients : Close(c) \/ CloseStep(c)
  PROVE  NoLostWakeup'
<1> USE DEF TypeInv, TypeOK, ClientTypes
<1>1. Consumer \in Clients
  BY DEF Clients
<1>2. CASE startPrefetching \/ resetPos
  <2>1. prefetcher' = "running" /\ pc'[Consumer] = "idle"
        /\ \A t \in Unpackers : unpacker'[t] = "running"
    BY <1>1, <1>2 DEF startPrefetching, resetPos, lockedStartThreads
  <2>2. UnpackersWake' /\ PrefetcherWakes' /\ ReaderWakes'
    BY <2>1, IndexSourceAssumption
    DEF UnpackersWake, SomeUnpackerAwake, PrefetcherWakes, ReaderWakes
  <2> QED
    BY <2>2 DEF NoLostWakeup, UnpackersWake, SomeUnpackerAwake, PrefetcherWakes, ReaderWakes
<1>3. CASE \E c \in Clients : JoinThreads(c)
  BY <1>3 DEF JoinThreads, NoLostWakeup, lockedIsClosed
<1>4. ASSUME NEW c \in Clients, CloseEnter(c), ~lockedIsClosed'
      PROVE  abort_prefetching' # 0
  <2>1. ToAbort # 0
    BY IndexSourceAssumption, FS_CardinalityType DEF ToAbort
  <2> QED
    BY <1>4, <2>1 DEF CloseEnter, lockedIsClosed, threadVars
<1>5. CASE CloseAtEnd \/ \E c \in Clients : Close(c)
  <2>1. PICK c \in Clients : CloseEnter(c)
    BY <1>5 DEF CloseAtEnd, Close, Clients
  <2> QED
    BY <1>4, <2>1 DEF NoLostWakeup
<1>6. CASE \E c \in Clients : WaitForThreads(c) \/ CloseWakeup(c)
  <2>1. /\ UNCHANGED <<prefetcher, unpacker, compressed, compressed_cur, unpacked>>
        /\ UNCHANGED <<unpacked_cur, source_done, abort_prefetching>>
    BY <1>6 DEF WaitForThreads, CloseWakeup, threadVars, compressedVars, unpackedVars
  <2>2. pc'[Consumer] = "ready_wait" => pc[Consumer] = "ready_wait"
    BY <1>1, <1>6 DEF WaitForThreads, CloseWakeup
  <2> QED
    BY <2>1, <2>2 DEF NoLostWakeup, lockedIsClosed, CanUnpack, allDone, unpackedReady
<1> QED
  BY <1>2, <1>3, <1>5, <1>6 DEF CloseStep

LEMMA WakeStep == CloseInv /\ NoLostWakeup /\ [Next]_vars => NoLostWakeup'
<1> SUFFICES ASSUME CloseInv, NoLostWakeup, [Next]_vars PROVE NoLostWakeup'
  OBVIOUS
<1> USE DEF CloseInv
<1>1. CASE UNCHANGED vars
  <2>1. /\ UNCHANGED <<prefetcher, unpacker, compressed, compressed_cur, unpacked, pc>>
        /\ UNCHANGED <<unpacked_cur, source_done, abort_prefetching>>
    BY <1>1 DEF vars, threadVars, compressedVars, unpackedVars
  <2> QED
    BY <2>1 DEF NoLostWakeup, lockedIsClosed, CanUnpack, allDone, unpackedReady
<1>2. CASE \/ getSharedExtent \/ ReadyWakeup \/ PrefetchStep
           \/ \E t \in Unpackers : UnpackStep(t)
  <2> SUFFICES ASSUME Next, ~lockedIsClosed', abort_prefetching' = 0
               PROVE  UnpackersWake' /\ PrefetcherWakes' /\ ReaderWakes'
    BY <1>1 DEF NoLostWakeup, UnpackersWake, SomeUnpackerAwake, PrefetcherWakes, ReaderWakes
  <2>1. QuietInv
    BY DEF Next, Running
  <2>2. AbortInv'
    BY CloseInvStep
  <2>3. prefetcher' # "exited" /\ \A t \in Unpackers : unpacker'[t] # "exited"
    BY <2>2 DEF AbortInv
  <2>4. ~lockedIsClosed /\ abort_prefetching = 0
    <3>1. CASE getSharedExtent \/ ReadyWakeup
      BY <3>1, ReadingThreads, SameLiveThreads DEF getSharedExtent, ReadyWakeup
    <3>2. CASE PrefetchStep
      BY <2>3, <3>2 DEF PrefetchStep, PrefetchRun, PrefetchRead, PrefetchLoop,
                        PrefetchExit, PrefetchNext, PrefetchEnd, PrefetchSleep,
                        lockedIsClosed
    <3>3. CASE \E t \in Unpackers : UnpackStep(t)
      <4>1. PICK t \in Unpackers : UnpackStep(t)
        BY <3>3
      <4>2. PICK u, p, ok : UnpackLoop(t, u, p, ok) /\ unpacker[t] # "none"
        BY <4>1, UnpackCases
      <4> QED
        BY <2>3, <4>2 DEF UnpackLoop, UnpackExit, UnpackTake, UnpackSleep,
                          lockedIsClosed, TypeInv, TypeOK, ThreadTypes
    <3> QED
      BY <1>2, <3>1, <3>2, <3>3
  <2>5. UnpackersWake /\ PrefetcherWakes /\ ReaderWakes
    BY <2>4, WakeParts
  <2>6. CASE getSharedExtent \/ ReadyWakeup
    BY <2>5, <2>6, ReadingWakes DEF getSharedExtent, ReadyWakeup
  <2>7. CASE PrefetchStep
    BY <2>3, <2>5, <2>7, PrefetchWakes
  <2>8. CASE \E t \in Unpackers : UnpackStep(t)
    BY <2>3, <2>5, <2>8, UnpackWakes
  <2> QED
    BY <1>2, <2>6, <2>7, <2>8
<1>3. CASE Next
  <2>1. QuietInv
    BY <1>3 DEF Next, Running
  <2>2. CASE \/ startPrefetching \/ resetPos \/ CloseAtEnd
             \/ \E c \in Clients : Close(c) \/ CloseStep(c)
    BY <2>1, <2>2, ClientWakes
  <2> QED
    BY <1>2, <1>3, <2>2 DEF Next, ConsumerStep
<1> QED
  BY <1>1, <1>3

\* None of the three condition variables loses a wake-up, whatever the number of
\* threads, the sizes of the extents and the limits of the queues: nobody sleeps
\* while there is something for him to do (IndexSourceModule.cpp:116 to 380).
THEOREM NobodySleepsOnWork == Spec => []NoLostWakeup
<1>1. Init => NoLostWakeup
  BY DEF Init, NoLostWakeup, lockedIsClosed
<1> QED
  BY <1>1, CloseAlways, WakeStep, PTL DEF Spec

----------------------------------------------------------------------------
\* The memory of the queues

\* What each queue counts and how much of it there is.  The extent read last may
\* overrun the limit of its queue, and one extent alone has no limit.
CompressedInv ==
  /\ compressed_cur = Bytes(compressed)
  /\ Len(compressed) > 1 =>
       compressed_cur - PackedBytes[compressed[Len(compressed)]] < MaxCompressed
UnpackedInv ==
  /\ unpacked_cur = BytesUnpacked(unpacked)
  /\ Len(unpacked) > 1 => unpacked_cur < MaxUnpacked
\* There was room when the read in progress began, and the unpack threads only
\* make more.
ReadInv == prefetcher = "reading" => can_add(compressed_cur, 0, MaxCompressed)

QueuesInv == CompressedInv /\ UnpackedInv /\ ReadInv

\* close() leaves what is counted of the extents it deletes.
MemInv ==
  /\ ~aborted
  /\ AllThreads /\ ~mutex_kept => QueuesInv
  /\ mutex_kept => compressed = << >> /\ unpacked = << >>
  /\ pc[Consumer] = "new" => compressed_cur = 0 /\ unpacked_cur = 0

LEMMA SizeTypes ==
  /\ \A e \in Extents : PackedBytes[e] \in Nat \ {0} /\ UnpackedBytes[e] \in Nat \ {0}
  /\ \A i \in Unpacked : /\ i.extent \in Extents
                         /\ SizeUnpacked[i] = UnpackedBytes[i.extent]
                         /\ SizeUnpacked[i] \in Nat \ {0}
<1>1. \A e \in Extents : PackedBytes[e] \in Nat \ {0} /\ UnpackedBytes[e] \in Nat \ {0}
  BY IndexSourceAssumption
<1>2. ASSUME NEW i \in Unpacked
      PROVE  i.extent \in Extents /\ SizeUnpacked[i] = UnpackedBytes[i.extent]
  BY <1>2 DEF Unpacked, SizeUnpacked
<1> QED
  BY <1>1, <1>2

LEMMA CompressedSums ==
  ASSUME NEW q \in Seq(Extents)
  PROVE  /\ Bytes(q) \in Nat
         /\ \A e \in Extents : Bytes(Append(q, e)) = Bytes(q) + PackedBytes[e]
         /\ q # << >> => Bytes(q) = PackedBytes[Head(q)] + Bytes(Tail(q))
<1>1. \A e \in Extents : PackedBytes[e] \in Int /\ PackedBytes[e] \in Nat
  BY SizeTypes
<1>2. Bytes(q) \in Nat
  BY <1>1, WeightNat DEF Bytes
<1>3. ASSUME NEW e \in Extents
      PROVE  Bytes(Append(q, e)) = Bytes(q) + PackedBytes[e]
  BY <1>1, WeightAppend DEF Bytes
<1>4. ASSUME q # << >>
      PROVE  Bytes(q) = PackedBytes[Head(q)] + Bytes(Tail(q))
  BY <1>1, <1>4, WeightTail DEF Bytes
<1> QED
  BY <1>2, <1>3, <1>4

LEMMA UnpackedSums ==
  ASSUME NEW u \in Seq(Unpacked)
  PROVE  /\ BytesUnpacked(u) \in Nat
         /\ \A i \in Unpacked :
              BytesUnpacked(Append(u, i)) = BytesUnpacked(u) + UnpackedBytes[i.extent]
         /\ u # << >> =>
              BytesUnpacked(u) = UnpackedBytes[Head(u).extent] + BytesUnpacked(Tail(u))
<1>1. \A i \in Unpacked : SizeUnpacked[i] \in Int /\ SizeUnpacked[i] \in Nat
  BY SizeTypes
<1>2. BytesUnpacked(u) \in Nat
  BY <1>1, WeightNat DEF BytesUnpacked
<1>3. ASSUME NEW i \in Unpacked
      PROVE  BytesUnpacked(Append(u, i)) = BytesUnpacked(u) + UnpackedBytes[i.extent]
  BY <1>1, WeightAppend, SizeTypes DEF BytesUnpacked
<1>4. ASSUME u # << >>
      PROVE  BytesUnpacked(u) = UnpackedBytes[Head(u).extent] + BytesUnpacked(Tail(u))
  <2>1. Head(u) \in Unpacked
    BY <1>4
  <2>2. BytesUnpacked(u) = SizeUnpacked[Head(u)] + BytesUnpacked(Tail(u))
    BY <1>1, <1>4, WeightTail DEF BytesUnpacked
  <2> QED
    BY <2>1, <2>2, SizeTypes
<1> QED
  BY <1>2, <1>3, <1>4

\* Marking an extent as done does not change what the queue holds.
LEMMA SameSize ==
  ASSUME TypeInv, NEW u, SameExtents(u)
  PROVE  BytesUnpacked(u) = BytesUnpacked(unpacked)
<1>1. unpacked \in Seq(Unpacked) /\ u \in Seq(Unpacked) /\ Len(u) = Len(unpacked)
      /\ Len(u) \in Nat
  BY DEF SameExtents, TypeInv, TypeOK, QueueTypes, Unpacked
<1>2. ASSUME NEW i \in 1..Len(u)
      PROVE  SizeUnpacked[u[i]] = SizeUnpacked[unpacked[i]]
  <2>1. u[i] \in Unpacked /\ unpacked[i] \in Unpacked
    BY <1>1
  <2>2. u[i].extent = unpacked[i].extent
    BY <1>1 DEF SameExtents
  <2> QED
    BY <2>1, <2>2, SizeTypes
<1> QED
  BY <1>1, <1>2, WeightSame DEF BytesUnpacked

LEMMA QueuesTyped ==
  ASSUME TypeInv
  PROVE  /\ compressed \in Seq(Extents) /\ unpacked \in Seq(Unpacked)
         /\ compressed_cur \in Int /\ unpacked_cur \in Int
         /\ Len(compressed) \in Nat /\ Len(unpacked) \in Nat
         /\ MaxCompressed \in Nat \ {0} /\ MaxUnpacked \in Nat \ {0}
  BY IndexSourceAssumption DEF TypeInv, TypeOK, QueueTypes, Unpacked

----------------------------------------------------------------------------
\* The actions

\* A queue from which an extent is removed at the front
LEMMA CompressedTail ==
  ASSUME TypeInv, CompressedInv, compressed # << >>, compressed' = Tail(compressed),
         compressed_cur' = compressed_cur - PackedBytes[Head(compressed)]
  PROVE  /\ compressed_cur >= PackedBytes[Head(compressed)]
         /\ compressed_cur' <= compressed_cur /\ compressed_cur' \in Nat
         /\ CompressedInv'
<1> DEFINE q == compressed
           n == Len(compressed)
<1>1. q \in Seq(Extents) /\ n \in Nat /\ n > 0 /\ Head(q) \in Extents
      /\ Tail(q) \in Seq(Extents) /\ Len(Tail(q)) = n - 1
      /\ (n > 1 => Tail(q)[n - 1] = q[n] /\ q[n] \in Extents)
      /\ MaxCompressed \in Nat \ {0}
  BY QueuesTyped
<1>2. /\ Bytes(q) = PackedBytes[Head(q)] + Bytes(Tail(q))
      /\ Bytes(Tail(q)) \in Nat /\ compressed_cur = Bytes(q)
      /\ PackedBytes[Head(q)] \in Nat \ {0}
  BY <1>1, CompressedSums, SizeTypes DEF CompressedInv
<1>3. compressed_cur' = Bytes(Tail(q))
  BY <1>2
<1>4. n > 1 => PackedBytes[q[n]] \in Nat /\ compressed_cur - PackedBytes[q[n]] < MaxCompressed
  BY <1>1, SizeTypes DEF CompressedInv
<1>5. ASSUME Len(Tail(q)) > 1
      PROVE  compressed_cur' - PackedBytes[Tail(q)[Len(Tail(q))]] < MaxCompressed
  BY <1>1, <1>2, <1>3, <1>4, <1>5
<1>6. CompressedInv'
  BY <1>3, <1>5 DEF CompressedInv, Bytes
<1> QED
  BY <1>2, <1>3, <1>6

LEMMA ReadingMemory ==
  ASSUME TypeInv, AbortInv, QuietInv, MemInv, ~mutex_kept, Reading, pc[Consumer] # "new"
  PROVE  MemInv'
<1>1. SameThreads /\ UNCHANGED <<compressed, compressed_cur, mutex_kept>>
  BY ReadingThreads DEF Reading, WaitForExtent, FindEnd, TakeExtent, compressedVars, resetVars
<1>2. AllThreads' => AllThreads
  BY <1>1 DEF SameThreads, AllThreads
<1>3. prefetcher' = prefetcher
  BY DEF Reading, WaitForExtent, FindEnd, TakeExtent, threadVars
<1>4. pc'[Consumer] # "new"
  BY DEF Reading, WaitForExtent, FindEnd, TakeExtent, TypeInv, TypeOK, ClientTypes, Clients
<1>5. CASE WaitForExtent \/ FindEnd
  <2>1. UNCHANGED <<unpacked, unpacked_cur, aborted>>
    BY <1>5 DEF WaitForExtent, FindEnd, unpackedVars
  <2> QED
    BY <1>1, <1>2, <1>3, <1>4, <2>1
    DEF MemInv, QueuesInv, CompressedInv, UnpackedInv, ReadInv, can_add, Bytes, BytesUnpacked
<1>6. CASE TakeExtent
  <2> DEFINE h == Head(unpacked)
  <2>1. /\ unpacked # << >> /\ h.done
        /\ unpacked' = Tail(unpacked)
        /\ unpacked_cur' = unpacked_cur - UnpackedBytes[h.extent]
        /\ aborted' = ~(h.done /\ unpacked_cur >= UnpackedBytes[h.extent])
    BY <1>6 DEF TakeExtent, unpackedReady, Subtracted, Invariant
  <2>2. AllThreads /\ QueuesInv
    BY <2>1 DEF QuietInv, AbortInv, MemInv
  <2>3. /\ h \in Unpacked /\ Tail(unpacked) \in Seq(Unpacked)
        /\ Len(Tail(unpacked)) = Len(unpacked) - 1 /\ Len(unpacked) \in Nat
        /\ MaxUnpacked \in Nat \ {0}
    BY <2>1, QueuesTyped
  <2>4. /\ UnpackedBytes[h.extent] \in Nat \ {0} /\ BytesUnpacked(Tail(unpacked)) \in Nat
        /\ unpacked_cur = UnpackedBytes[h.extent] + BytesUnpacked(Tail(unpacked))
    BY <2>1, <2>2, <2>3, QueuesTyped, UnpackedSums, SizeTypes DEF QueuesInv, UnpackedInv
  <2>5. ~aborted' /\ unpacked_cur' = BytesUnpacked(Tail(unpacked)) /\ unpacked_cur' < unpacked_cur
    <3>1. unpacked_cur >= UnpackedBytes[h.extent]
      BY <2>4
    <3>2. ~aborted'
      BY <2>1, <3>1
    <3> QED
      BY <2>1, <2>4, <3>2
  <2>6. Len(Tail(unpacked)) > 1 => unpacked_cur' < MaxUnpacked
    BY <2>2, <2>3, <2>4, <2>5 DEF QueuesInv, UnpackedInv
  <2>7. UnpackedInv'
    BY <2>1, <2>5, <2>6 DEF UnpackedInv, BytesUnpacked
  <2> QED
    BY <1>1, <1>3, <1>4, <2>2, <2>5, <2>7
    DEF MemInv, QueuesInv, CompressedInv, ReadInv, can_add, Bytes
<1> QED
  BY <1>5, <1>6 DEF Reading

LEMMA PrefetchMemory ==
  ASSUME TypeInv, AbortInv, MemInv, ~mutex_kept, PrefetchStep, pc[Consumer] # "new"
  PROVE  MemInv'
<1>1. AllThreads /\ QueuesInv
  BY PrefetchKeeps DEF ThreadsKeep, MemInv
<1>2. /\ UNCHANGED <<unpacked, unpacked_cur, aborted, mutex_kept>>
      /\ \E b : PrefetchLoop(b)
  BY DEF PrefetchStep, PrefetchRun, PrefetchRead, unpackedVars, resetVars
<1>3. UnpackedInv'
  BY <1>1, <1>2 DEF QueuesInv, UnpackedInv, BytesUnpacked
<1>4. pc'[Consumer] # "new"
  <2>1. pc' \in {pc, ReadySignalled(pc), ClosersWoken(pc)}
    BY <1>2 DEF PrefetchLoop, PrefetchExit, PrefetchNext, PrefetchEnd, PrefetchSleep, EndSignalled
  <2> QED
    BY <2>1, SignalledClients DEF TypeInv, TypeOK, ClientTypes, Clients
<1>5. ASSUME NEW b, PrefetchLoop(b), compressed_cur' = b PROVE ReadInv'
  BY <1>5 DEF PrefetchLoop, PrefetchExit, PrefetchNext, PrefetchEnd, PrefetchSleep, MayRead,
              ReadInv, can_add
<1>6. CASE PrefetchRun
  <2>1. UNCHANGED <<compressed, compressed_cur>> /\ PrefetchLoop(compressed_cur)
    BY <1>6 DEF PrefetchRun, compressedVars
  <2>2. CompressedInv' /\ ReadInv'
    BY <1>1, <1>5, <2>1 DEF QueuesInv, CompressedInv, Bytes
  <2> QED
    BY <1>2, <1>3, <1>4, <2>2, <1>1 DEF MemInv, QueuesInv
<1>7. CASE PrefetchRead
  <2> DEFINE e == position + 1
             b == compressed_cur + PackedBytes[e]
             q == Append(compressed, e)
  <2>1. /\ prefetcher = "reading" /\ compressed' = q /\ compressed_cur' = b /\ PrefetchLoop(b)
    BY <1>7 DEF PrefetchRead
  <2>2. e \in Extents
    BY <2>1, IndexSourceAssumption DEF TypeInv, CursorInv, TypeOK, QueueTypes, Extents
  <2>3. PackedBytes[e] \in Nat \ {0} /\ compressed \in Seq(Extents) /\ compressed_cur \in Int
        /\ MaxCompressed \in Nat \ {0} /\ Len(q) = Len(compressed) + 1 /\ Len(compressed) \in Nat
        /\ q[Len(q)] = e
    BY <2>2, QueuesTyped, SizeTypes
  <2>4. Bytes(q) = b
    BY <1>1, <2>2, <2>3, CompressedSums DEF QueuesInv, CompressedInv
  <2>5. compressed_cur < MaxCompressed
    BY <1>1, <2>1, <2>3 DEF QueuesInv, ReadInv, can_add
  <2>6. b - PackedBytes[q[Len(q)]] < MaxCompressed
    BY <2>3, <2>5
  <2> HIDE DEF q, b
  <2>7. CompressedInv'
    BY <2>1, <2>4, <2>6 DEF CompressedInv, Bytes
  <2>8. ReadInv'
    BY <1>5, <2>1
  <2> QED
    BY <1>2, <1>3, <1>4, <2>7, <2>8, <1>1 DEF MemInv, QueuesInv
<1> QED
  BY <1>6, <1>7 DEF PrefetchStep

\* An unpack thread finds its own extent on the queue when it has unpacked it.
LEMMA UnpackPasses ==
  ASSUME TypeInv, WorkInv, NEW t \in Unpackers, UnpackStep(t)
  PROVE  \E u, p : /\ UnpackLoop(t, u, p, TRUE) /\ SameExtents(u)
                   /\ p = pc \/ p = ReadySignalled(pc)
<1>1. CASE UnpackRun(t)
  <2>1. UnpackLoop(t, unpacked, pc, TRUE)
    BY <1>1 DEF UnpackRun
  <2> QED
    BY <2>1, MarkedSameExtents
<1>2. CASE UnpackDone(t)
  <2> DEFINE u == MarkedDone(item[t])
             p == IF unpackedReady(u) THEN ReadySignalled(pc) ELSE pc
  <2>1. UnpackLoop(t, u, p, unpacked # << >>) /\ unpacker[t] = "unpacking"
    BY <1>2 DEF UnpackDone
  <2>2. SameExtents(u) /\ (p = pc \/ p = ReadySignalled(pc))
    BY MarkedSameExtents
  <2> HIDE DEF u, p
  <2>3. unpacked # << >>
    <3>1. \E i \in 1..Len(unpacked) : TRUE
      BY <2>1 DEF WorkInv
    <3>2. unpacked = << >> => Len(unpacked) = 0
      OBVIOUS
    <3> QED
      BY <3>1, <3>2, QueuesTyped
  <2>4. (unpacked # << >>) = TRUE
    BY <2>3
  <2>5. UnpackLoop(t, u, p, TRUE)
    BY <2>1, <2>4
  <2> QED
    BY <2>2, <2>5
<1> QED
  BY <1>1, <1>2 DEF UnpackStep

LEMMA UnpackMemory ==
  ASSUME TypeInv, AbortInv, WorkInv, MemInv, ~mutex_kept, NEW t \in Unpackers, UnpackStep(t),
         pc[Consumer] # "new"
  PROVE  MemInv'
<1>1. PICK u, p : /\ UnpackLoop(t, u, p, TRUE) /\ SameExtents(u)
                  /\ p = pc \/ p = ReadySignalled(pc)
  BY UnpackPasses
<1>2. AllThreads /\ QueuesInv /\ ~mutex_kept'
  <2>1. AllThreads /\ QueuesInv
    BY UnpackKeeps DEF ThreadsKeep, MemInv
  <2>2. UNCHANGED mutex_kept
    BY DEF UnpackStep, UnpackRun, UnpackDone, resetVars
  <2> QED
    BY <2>1, <2>2
<1>3. u \in Seq(Unpacked) /\ Len(u) = Len(unpacked) /\ unpacked_cur = BytesUnpacked(u)
      /\ Len(u) \in Nat
  BY <1>1, <1>2, SameSize, QueuesTyped DEF SameExtents, QueuesInv, UnpackedInv
<1>4. pc'[Consumer] # "new"
  <2>1. pc' = p \/ pc' = ClosersWoken(p)
    BY <1>1 DEF UnpackLoop, UnpackExit, UnpackTake, UnpackSleep
  <2> QED
    BY <1>1, <2>1, SignalledClients, SignalTypes DEF TypeInv, TypeOK, ClientTypes, Clients
<1>5. CASE UnpackExit(t, u, p, TRUE) \/ UnpackSleep(t, u, p, TRUE)
  <2>1. /\ unpacked' = u /\ unpacked_cur' = unpacked_cur /\ ~aborted'
        /\ UNCHANGED <<compressed, compressed_cur>>
        /\ prefetcher' = PrefetcherSignalled \/ prefetcher' = prefetcher
    BY <1>5 DEF UnpackExit, UnpackSleep, Invariant, compressedVars
  <2>2. UnpackedInv'
    BY <1>2, <1>3, <2>1 DEF QueuesInv, UnpackedInv, BytesUnpacked
  <2>3. CompressedInv'
    BY <1>2, <2>1 DEF QueuesInv, CompressedInv, Bytes
  <2>4. ReadInv'
    BY <1>2, <2>1 DEF QueuesInv, ReadInv, can_add, PrefetcherSignalled
  <2> QED
    BY <1>2, <1>4, <2>1, <2>2, <2>3, <2>4 DEF MemInv, QueuesInv
<1>6. CASE UnpackTake(t, u, p, TRUE)
  <2> DEFINE e == Head(compressed)
             i == [extent |-> e, done |-> FALSE]
  <2>1. /\ compressed # << >> /\ can_add(unpacked_cur, UnpackedBytes[e], MaxUnpacked)
        /\ aborted' = ~(compressed_cur >= PackedBytes[e])
        /\ compressed' = Tail(compressed)
        /\ compressed_cur' = compressed_cur - PackedBytes[e]
        /\ unpacked' = Append(u, i)
        /\ unpacked_cur' = unpacked_cur + UnpackedBytes[e]
        /\ prefetcher' = PrefetcherSignalled
    BY <1>6 DEF UnpackTake, CanUnpack, Unqueued, Invariant
  <2>2. /\ compressed_cur >= PackedBytes[e] /\ compressed_cur' <= compressed_cur
        /\ compressed_cur' \in Nat /\ CompressedInv'
    BY <1>2, <2>1, CompressedTail DEF QueuesInv
  <2>3. ReadInv'
    BY <1>2, <2>1, <2>2, QueuesTyped DEF QueuesInv, ReadInv, can_add, PrefetcherSignalled
  <2>4. e \in Extents /\ i \in Unpacked /\ i.extent = e
    BY <2>1, QueuesTyped DEF Unpacked
  <2>5. BytesUnpacked(Append(u, i)) = unpacked_cur'
    BY <1>3, <2>1, <2>4, UnpackedSums
  <2>6. /\ UnpackedBytes[e] \in Nat \ {0} /\ Len(Append(u, i)) = Len(u) + 1
        /\ MaxUnpacked \in Nat \ {0} /\ unpacked_cur \in Nat
    BY <1>3, <2>4, QueuesTyped, SizeTypes, UnpackedSums
  <2>7. ASSUME Len(Append(u, i)) > 1 PROVE unpacked_cur' < MaxUnpacked
    <3>1. u # << >>
      BY <2>6, <2>7
    <3>2. /\ Head(u) \in Unpacked /\ Tail(u) \in Seq(Unpacked)
          /\ unpacked_cur = UnpackedBytes[Head(u).extent] + BytesUnpacked(Tail(u))
      BY <1>3, <3>1, UnpackedSums
    <3>3. unpacked_cur # 0
      <4>1. UnpackedBytes[Head(u).extent] \in Nat \ {0}
        BY <3>2, SizeTypes
      <4>2. BytesUnpacked(Tail(u)) \in Nat
        BY <3>2, UnpackedSums
      <4> QED
        BY <3>2, <4>1, <4>2
    <3> QED
      BY <2>1, <3>3 DEF can_add
  <2> HIDE DEF i, e
  <2>8. UnpackedInv'
    BY <2>1, <2>5, <2>7 DEF UnpackedInv, BytesUnpacked
  <2> QED
    BY <1>2, <1>4, <2>1, <2>2, <2>3, <2>8 DEF MemInv, QueuesInv
<1> QED
  BY <1>1, <1>5, <1>6 DEF UnpackLoop

LEMMA ClientMemory ==
  ASSUME TypeInv, AbortInv, QuietInv, MemInv, ~mutex_kept,
         \/ startPrefetching \/ resetPos \/ CloseAtEnd
         \/ \E c \in Clients : Close(c) \/ CloseStep(c)
  PROVE  MemInv'
<1> USE DEF TypeInv, TypeOK, ClientTypes
<1>0. Consumer \in Clients /\ \A d \in Clients : d \in Closers \/ d = Consumer
  BY DEF Clients
<1>1. CASE startPrefetching
  <2>1. /\ compressed = << >> /\ unpacked = << >> /\ compressed_cur = 0 /\ unpacked_cur = 0
        /\ UNCHANGED <<compressed, unpacked, compressed_cur, unpacked_cur, aborted>>
        /\ prefetcher' = "running" /\ pc'[Consumer] = "idle"
    BY <1>0, <1>1 DEF startPrefetching, lockedStartThreads, QuietInv, MemInv, compressedVars,
                unpackedVars
  <2>2. Bytes(<< >>) = 0 /\ BytesUnpacked(<< >>) = 0 /\ Len(<< >>) = 0
    BY WeightEmpty DEF Bytes, BytesUnpacked
  <2>3. CompressedInv' /\ UnpackedInv' /\ ReadInv'
    BY <2>1, <2>2 DEF CompressedInv, UnpackedInv, ReadInv, Bytes, BytesUnpacked
  <2> QED
    BY <2>1, <2>3 DEF MemInv, QueuesInv
<1>2. CASE resetPos
  <2>1. lockedIsClosed /\ abort_prefetching = 0
    <3>1. lockedIsClosed /\ ~AllThreads
      BY <1>0, <1>2 DEF resetPos, QuietInv, lockedIsClosed, AllThreads
    <3> QED
      BY <3>1 DEF AbortInv, ThreadTypes
  <2>2. ~aborted' /\ mutex_kept' /\ pc'[Consumer] = "idle"
        /\ compressed' = << >> /\ unpacked' = << >>
    BY <1>0, <1>2, <2>1 DEF resetPos, Invariant, QuietInv, compressedVars, unpackedVars
  <2> QED
    BY <2>2 DEF MemInv
<1>3. CASE CloseAtEnd \/ \E c \in Clients : Close(c)
  <2>1. PICK c \in Clients :
          /\ CloseEnter(c) /\ pc[Consumer] # "new"
          /\ UNCHANGED <<compressed, compressed_cur, unpacked, unpacked_cur, aborted, mutex_kept>>
    BY <1>0, <1>3 DEF CloseAtEnd, Close, compressedVars, unpackedVars, resetVars
  <2>2. /\ prefetcher' = prefetcher \/ prefetcher' = PrefetcherSignalled
        /\ AllThreads' => AllThreads
    BY <2>1 DEF CloseEnter, threadVars, AllThreads, UnpackBroadcast, PrefetcherSignalled
  <2>3. pc'[Consumer] # "new"
    BY <1>0, <2>1, SignalledClients, SignalTypes DEF CloseEnter
  <2>4. QueuesInv => QueuesInv'
    BY <2>1, <2>2 DEF QueuesInv, CompressedInv, UnpackedInv, ReadInv, can_add,
                      PrefetcherSignalled, Bytes, BytesUnpacked
  <2> QED
    BY <2>1, <2>2, <2>3, <2>4 DEF MemInv
<1>4. CASE \E c \in Clients : WaitForThreads(c) \/ CloseWakeup(c)
  <2>1. PICK c \in Clients : /\ pc[c] \in {"join", "closing"}
                             /\ pc' = [pc EXCEPT ![c] = pc'[c]] /\ pc'[c] # "new"
    BY <1>4 DEF WaitForThreads, CloseWakeup
  <2>2. UNCHANGED <<prefetcher, unpacker, compressed, compressed_cur, unpacked, unpacked_cur,
                    aborted, mutex_kept>>
    BY <1>4 DEF WaitForThreads, CloseWakeup, threadVars, compressedVars, unpackedVars, resetVars
  <2>3. pc'[Consumer] = "new" => pc[Consumer] = "new"
    BY <1>0, <2>1
  <2> QED
    BY <2>2, <2>3 DEF MemInv, QueuesInv, CompressedInv, UnpackedInv, ReadInv, AllThreads,
                      can_add, Bytes, BytesUnpacked
<1>5. CASE \E c \in Clients : JoinThreads(c)
  <2>1. PICK c \in Clients : JoinThreads(c)
    BY <1>5
  <2>2. abort_prefetching > 0 /\ abort_prefetching = 1 + LiveThreads
    BY <2>1 DEF JoinThreads, AbortInv, Joining
  <2>3. abort_prefetching = 1
    BY <2>1, <2>2, LiveThreadsType DEF JoinThreads, ThreadTypes
  <2>4. ~aborted' /\ ~AllThreads' /\ compressed' = << >> /\ unpacked' = << >>
    BY <2>1, <2>3 DEF JoinThreads, Invariant, AllThreads, Dropped
  <2>5. pc[Consumer] # "new"
    BY <1>0, <2>1, <2>2 DEF QuietInv
  <2>6. pc'[Consumer] # "new"
    BY <1>0, <2>1, <2>5, SignalledClients, SignalTypes DEF JoinThreads
  <2> QED
    BY <2>4, <2>6 DEF MemInv
<1> QED
  BY <1>1, <1>2, <1>3, <1>4, <1>5 DEF CloseStep

LEMMA MemoryInit == Init => MemInv
<1> QED
  BY DEF Init, MemInv, AllThreads

LEMMA MemoryStep == StreamInv /\ WorkInv /\ MemInv /\ [Next]_vars => MemInv'
<1> SUFFICES ASSUME StreamInv, WorkInv, MemInv, [Next]_vars PROVE MemInv'
  OBVIOUS
<1> USE DEF StreamInv, CloseInv
<1>1. CASE UNCHANGED vars
  <2>1. UNCHANGED <<pc, prefetcher, unpacker, compressed, compressed_cur, unpacked,
                    unpacked_cur, mutex_kept, aborted>>
    BY <1>1 DEF vars, threadVars, compressedVars, unpackedVars, resetVars
  <2> QED
    BY <2>1 DEF MemInv, QueuesInv, CompressedInv, UnpackedInv, ReadInv, AllThreads, can_add,
                Bytes, BytesUnpacked
<1>2. CASE Next
  <2>1. ~mutex_kept /\ QuietInv
    BY <1>2 DEF Next, Running
  <2>2. CASE getSharedExtent \/ ReadyWakeup
    <3>1. Reading /\ pc[Consumer] # "new"
      BY <2>2 DEF getSharedExtent, ReadyWakeup
    <3> QED
      BY <2>1, <3>1, ReadingMemory
  <2>3. CASE PrefetchStep
    <3>1. pc[Consumer] # "new"
      BY <2>1, <2>3, PrefetchKeeps DEF ThreadsKeep, AllThreads, QuietInv, lockedIsClosed
    <3> QED
      BY <2>1, <2>3, <3>1, PrefetchMemory
  <2>4. CASE \E t \in Unpackers : UnpackStep(t)
    <3>1. pc[Consumer] # "new"
      BY <2>1, <2>4, UnpackKeeps DEF ThreadsKeep, AllThreads, QuietInv, lockedIsClosed
    <3> QED
      BY <2>1, <2>4, <3>1, UnpackMemory
  <2>5. CASE \/ startPrefetching \/ resetPos \/ CloseAtEnd
             \/ \E c \in Clients : Close(c) \/ CloseStep(c)
    BY <2>1, <2>5, ClientMemory
  <2> QED
    BY <1>2, <2>2, <2>3, <2>4, <2>5 DEF Next, ConsumerStep
<1> QED
  BY <1>1, <1>2

LEMMA MemoryImplies == StreamInv /\ MemInv => MemoryBounded
<1> SUFFICES ASSUME StreamInv, MemInv PROVE MemoryBounded
  OBVIOUS
<1> USE DEF StreamInv, CloseInv
<1>1. TypeOK /\ NoAssertionFails
  BY DEF TypeInv, MemInv, NoAssertionFails
<1>2. QueueAccounting
  BY DEF QueueAccounting, AbortInv, MemInv, QueuesInv, CompressedInv, UnpackedInv
<1>3. ASSUME compressed # << >> \/ unpacked # << >> PROVE QueuesInv
  BY <1>3 DEF AbortInv, QuietInv, MemInv
<1>4. Len(unpacked) > 1 => BytesUnpacked(unpacked) < MaxUnpacked
  <2>1. Len(unpacked) > 1 => unpacked # << >>
    OBVIOUS
  <2> QED
    BY <1>3, <2>1 DEF QueuesInv, UnpackedInv
<1>5. ASSUME Len(compressed) > 1
      PROVE  Bytes(SubSeq(compressed, 1, Len(compressed) - 1)) < MaxCompressed
  <2> DEFINE n == Len(compressed)
             q == SubSeq(compressed, 1, n - 1)
  <2>1. /\ q \in Seq(Extents) /\ compressed = Append(q, compressed[n])
        /\ compressed[n] \in Extents /\ compressed # << >>
    BY <1>5, QueuesTyped
  <2>2. /\ compressed_cur = Bytes(compressed)
        /\ compressed_cur - PackedBytes[compressed[n]] < MaxCompressed
    BY <1>3, <1>5, <2>1 DEF QueuesInv, CompressedInv
  <2> HIDE DEF q
  <2>3. /\ Bytes(compressed) = Bytes(q) + PackedBytes[compressed[n]] /\ Bytes(q) \in Nat
        /\ PackedBytes[compressed[n]] \in Nat
    BY <2>1, CompressedSums, SizeTypes
  <2> QED
    BY <2>2, <2>3, QueuesTyped DEF q
<1> QED
  BY <1>1, <1>2, <1>4, <1>5 DEF MemoryBounded

\* Both queues count exactly what they hold, none of the module's assertions
\* fails and the queues stay within their limits but for what may overrun them,
\* whatever the sizes, the limits and the number of threads
\* (IndexSourceModule.cpp:64, getSharedExtent; :228, compressedPrefetchThread;
\* :301, unpackThread).
THEOREM MemoryIsBounded == Spec => []MemoryBounded
<1>1. Init => WorkInv
  BY DEF Init, WorkInv
<1>2. Spec => [](WorkInv /\ MemInv)
  BY <1>1, MemoryInit, StreamAlways, WorkStep, MemoryStep, PTL DEF Spec
<1> QED
  BY <1>2, StreamAlways, MemoryImplies, PTL
=============================================================================
