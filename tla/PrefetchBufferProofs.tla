------------------------ MODULE PrefetchBufferProofs ------------------------
(***************************************************************************)
(* Proofs about PrefetchBuffer for any number and sizes of extents and any  *)
(* limit of the buffer.                                                     *)
(***************************************************************************)
EXTENDS PrefetchBuffer, TLAPS

----------------------------------------------------------------------------
\* The inductive invariant

\* What each place of the two threads says of the flags.  The thread reads only
\* while there was room; it leaves only at the end or when told to.
PlacesInv ==
  /\ abort_prefetching <=> reader \in {"joining", "deleted"}
  /\ reader = "waiting" => start_prefetching
  /\ reader = "deleted" => prefetcher = "exited"
  /\ prefetcher = "exited" => source_done \/ abort_prefetching
  /\ prefetcher = "reading" => start_prefetching /\ cur_used_memory < max_used_memory
  /\ source_done => prefetcher = "exited" /\ position = NExtents

\* The reader has been given a prefix of what was read, all of it at the end.
DeliveredInv ==
  /\ Len(delivered) <= position
  /\ \A i \in 1..Len(delivered) : delivered[i] = i
  /\ ended => source_done /\ Len(delivered) = NExtents

IInv == TypeOK /\ BufferBounded /\ NoLostWakeup /\ PlacesInv /\ DeliveredInv

----------------------------------------------------------------------------
\* The buffer as a run of consecutive extents

Run(m, n) == [i \in 1..(n - m) |-> m + i]

LEMMA RunType ==
  ASSUME NEW m \in 0..NExtents, NEW n \in m..NExtents
  PROVE  /\ Run(m, n) \in Seq(Extents)
         /\ Len(Run(m, n)) = n - m
         /\ Run(m, n) = << >> <=> m = n
BY PrefetchBufferAssumption DEF Run, Extents

LEMMA RunAppend ==
  ASSUME NEW m \in 0..NExtents, NEW n \in m..NExtents, n < NExtents
  PROVE  Append(Run(m, n), n + 1) = Run(m, n + 1)
<1>1. Run(m, n) \in Seq(Extents) /\ Len(Run(m, n)) = n - m
  BY RunType
<1>2. n + 1 \in m..NExtents /\ n + 1 \in Extents
  BY PrefetchBufferAssumption DEF Extents
<1>3. Run(m, n + 1) \in Seq(Extents) /\ Len(Run(m, n + 1)) = n + 1 - m
  BY <1>2, RunType
<1>4. \A i \in 1..(n + 1 - m) : Append(Run(m, n), n + 1)[i] = Run(m, n + 1)[i]
  BY <1>1, <1>2 DEF Run
<1> QED
  BY <1>1, <1>2, <1>3, <1>4

LEMMA RunTail ==
  ASSUME NEW m \in 0..NExtents, NEW n \in m..NExtents, m < n
  PROVE  /\ Head(Run(m, n)) = m + 1
         /\ Tail(Run(m, n)) = Run(m + 1, n)
<1>1. Run(m, n) \in Seq(Extents) /\ Len(Run(m, n)) = n - m
  BY RunType
<1>2. m + 1 \in 0..NExtents /\ n \in (m + 1)..NExtents
  BY PrefetchBufferAssumption
<1>3. Run(m + 1, n) \in Seq(Extents) /\ Len(Run(m + 1, n)) = n - (m + 1)
  BY <1>2, RunType
<1>4. \A i \in 1..(n - (m + 1)) : Tail(Run(m, n))[i] = Run(m + 1, n)[i]
  BY <1>1, <1>2 DEF Run
<1>5. Head(Run(m, n)) = m + 1
  BY <1>1 DEF Run
<1> QED
  BY <1>1, <1>3, <1>4, <1>5

\* How many bytes a run has, and what one more extent adds or takes away
LEMMA RunBytes ==
  ASSUME NEW m \in 0..NExtents, NEW n \in m..NExtents
  PROVE  /\ EndOffset[n] - EndOffset[m] \in Nat
         /\ EndOffset[n] - EndOffset[m] = 0 <=> m = n
         /\ n < NExtents => /\ Bytes(n + 1) \in Nat \ {0}
                            /\ EndOffset[n] - EndOffset[m] + Bytes(n + 1)
                                 = EndOffset[n + 1] - EndOffset[m]
         /\ m < n => EndOffset[n] - EndOffset[m] - Bytes(m + 1)
                       = EndOffset[n] - EndOffset[m + 1]
<1>1. EndOffset[m] \in Nat /\ EndOffset[n] \in Nat
  BY PrefetchBufferAssumption
<1>2. m < n => EndOffset[m] < EndOffset[n]
  BY PrefetchBufferAssumption
<1>3. n < NExtents => /\ (n + 1) - 1 = n /\ EndOffset[n + 1] \in Nat
                      /\ EndOffset[n] < EndOffset[n + 1]
  BY PrefetchBufferAssumption
<1>4. m < n => (m + 1) - 1 = m /\ EndOffset[m + 1] \in Nat
  BY PrefetchBufferAssumption
<1> QED
  BY <1>1, <1>2, <1>3, <1>4 DEF Bytes

\* The state in terms of the two positions, as the invariant gives it
LEMMA Positions ==
  ASSUME IInv
  PROVE  /\ Len(delivered) \in 0..NExtents /\ position \in Len(delivered)..NExtents
         /\ reader # "deleted" =>
              /\ buffer = Run(Len(delivered), position)
              /\ cur_used_memory = EndOffset[position] - EndOffset[Len(delivered)]
         /\ ~failed
<1>1. Len(delivered) \in Nat /\ position \in 0..NExtents
  BY DEF IInv, TypeOK
<1>2. Len(delivered) <= position /\ ~failed
  BY DEF IInv, DeliveredInv, BufferBounded
<1>3. ASSUME reader # "deleted"
      PROVE  /\ buffer = Run(Len(delivered), position)
             /\ cur_used_memory = EndOffset[position] - EndOffset[Len(delivered)]
  BY <1>3, Zenon DEF IInv, BufferBounded, Run
<1> QED
  BY <1>1, <1>2, <1>3, PrefetchBufferAssumption

----------------------------------------------------------------------------
\* Steps

LEMMA InitInv == Init => IInv
<1> SUFFICES ASSUME Init PROVE IInv
  OBVIOUS
<1>1. position = 0 /\ Len(delivered) = 0 /\ buffer = << >>
  BY DEF Init
<1>2. TypeOK
  <2>1. << >> \in Seq(Extents) /\ 0 \in Nat /\ 0 \in 0..NExtents
    BY PrefetchBufferAssumption
  <2> QED
    BY <2>1, Zenon DEF Init, TypeOK
<1>3. buffer = Run(0, 0) /\ EndOffset[0] - EndOffset[0] = 0
  BY <1>1, PrefetchBufferAssumption, RunType
<1>4. BufferBounded
  BY <1>1, <1>2, <1>3 DEF Init, BufferBounded, Run
<1>5. DeliveredInv
  BY <1>1 DEF Init, DeliveredInv
<1> QED
  BY <1>2, <1>4, <1>5, PrefetchBufferAssumption DEF Init, IInv, NoLostWakeup, PlacesInv

\* A step that leaves the buffer and what was delivered alone keeps what is said
\* of them.
LEMMA BufferKept ==
  ASSUME IInv, TypeOK', reader # "deleted", ~failed',
         UNCHANGED <<bufferVars, position, delivered>>
  PROVE  BufferBounded'
BY DEF IInv, BufferBounded, bufferVars, Bytes

LEMMA StartStep == IInv /\ startPrefetching => IInv'
<1> SUFFICES ASSUME IInv, startPrefetching PROVE IInv'
  OBVIOUS
<1> USE DEF IInv, startPrefetching, flagVars, bufferVars, streamVars
<1>1. TypeOK'
  BY DEF TypeOK, PrefetcherSignalled
<1>2. BufferBounded'
  BY <1>1, BufferKept DEF BufferBounded
<1>3. NoLostWakeup' /\ PlacesInv' /\ DeliveredInv'
  BY DEF TypeOK, NoLostWakeup, PlacesInv, DeliveredInv, PrefetcherSignalled
<1> QED
  BY <1>1, <1>2, <1>3

\* What the loop of the prefetch thread decides, from a buffer that is as large as
\* cur_used_memory says.
LEMMA LoopOutcome ==
  ASSUME TypeOK, ~failed, Loop,
         cur_used_memory' \in Nat, buffer' = << >> => cur_used_memory' = 0
  PROVE  /\ prefetcher' \in {"exited", "waiting", "reading"}
         /\ failed' = FALSE
         /\ prefetcher' = "exited" <=> abort_prefetching
         /\ prefetcher' = "reading" => start_prefetching /\ cur_used_memory' < max_used_memory
         /\ prefetcher' = "waiting" /\ start_prefetching => buffer' # << >>
BY PrefetchBufferAssumption DEF Loop, Full, TypeOK

\* A reader that waits is never left with a thread that sleeps, too: with nothing
\* in the buffer the loop reads on.
LEMMA LoopReadsForReader ==
  ASSUME PlacesInv, Loop, reader' = "waiting", reader = "waiting", TypeOK,
         buffer' = << >>, cur_used_memory' = 0
  PROVE  prefetcher' = "reading"
BY PrefetchBufferAssumption DEF Loop, Full, TypeOK, PlacesInv

LEMMA PrefetchRunStep == IInv /\ PrefetchRun => IInv'
<1> SUFFICES ASSUME IInv, PrefetchRun PROVE IInv'
  OBVIOUS
<1> USE DEF PrefetchRun, flagVars, bufferVars, streamVars
<1>1. /\ TypeOK /\ PlacesInv /\ NoLostWakeup /\ ~failed /\ Loop /\ prefetcher = "running"
      /\ UNCHANGED <<buffer, cur_used_memory, reader, position, delivered, ended>>
      /\ UNCHANGED <<source_done, start_prefetching, abort_prefetching>>
  BY DEF IInv, BufferBounded
<1>2. reader # "deleted" /\ ~source_done
  BY <1>1 DEF PlacesInv
<1>3. buffer = << >> => cur_used_memory = 0
  <2>1. Len(delivered) \in 0..NExtents /\ position \in Len(delivered)..NExtents
    BY Positions
  <2>2. /\ buffer = Run(Len(delivered), position)
        /\ cur_used_memory = EndOffset[position] - EndOffset[Len(delivered)]
    BY <1>2, Positions
  <2>3. Run(Len(delivered), position) = << >> <=> Len(delivered) = position
    BY <2>1, RunType
  <2>4. EndOffset[position] - EndOffset[Len(delivered)] = 0 <=> Len(delivered) = position
    BY <2>1, RunBytes
  <2> QED
    BY <2>2, <2>3, <2>4
<1>4. cur_used_memory' \in Nat /\ (buffer' = << >> => cur_used_memory' = 0)
  BY <1>1, <1>3 DEF TypeOK
<1>5. /\ prefetcher' \in {"exited", "waiting", "reading"} /\ failed' = FALSE
      /\ prefetcher' = "exited" <=> abort_prefetching
      /\ prefetcher' = "reading" => start_prefetching /\ cur_used_memory' < max_used_memory
  BY <1>1, <1>4, LoopOutcome
<1>6. TypeOK'
  BY <1>1, <1>5 DEF TypeOK
<1>7. BufferBounded'
  BY <1>1, <1>2, <1>5, <1>6, BufferKept
<1>8. NoLostWakeup'
  BY <1>1, <1>3, <1>5, LoopReadsForReader DEF NoLostWakeup, PlacesInv
<1>9. PlacesInv' /\ DeliveredInv'
  BY <1>1, <1>2, <1>5 DEF PlacesInv, DeliveredInv, IInv
<1> QED
  BY <1>6, <1>7, <1>8, <1>9 DEF IInv

LEMMA PrefetchGotStep == IInv /\ PrefetchGot => IInv'
<1> SUFFICES ASSUME IInv, PrefetchGot PROVE IInv'
  OBVIOUS
<1> DEFINE given == Len(delivered)
<1>1. /\ TypeOK /\ PlacesInv /\ NoLostWakeup /\ DeliveredInv /\ ~failed /\ Loop
      /\ prefetcher = "reading" /\ position < NExtents /\ position' = position + 1
      /\ buffer' = Append(buffer, position + 1)
      /\ cur_used_memory' = cur_used_memory + Bytes(position + 1)
      /\ reader' = ReaderSignalled
      /\ UNCHANGED <<source_done, start_prefetching, abort_prefetching, delivered, ended>>
  BY DEF IInv, BufferBounded, PrefetchGot, Buffered, flagVars, streamVars
<1>2. reader # "deleted" /\ ~source_done /\ cur_used_memory < max_used_memory
  BY <1>1 DEF PlacesInv
<1>3. /\ given \in 0..NExtents /\ position \in given..NExtents
      /\ buffer = Run(given, position)
      /\ cur_used_memory = EndOffset[position] - EndOffset[given]
  BY <1>2, Positions
<1>4. position + 1 \in given..NExtents /\ position + 1 \in Extents /\ position + 1 > given
  BY <1>1, <1>3, PrefetchBufferAssumption DEF Extents
<1>5. /\ buffer' = Run(given, position + 1)
      /\ buffer' \in Seq(Extents) /\ buffer' # << >>
  <2>1. buffer' = Run(given, position + 1)
    BY <1>1, <1>3, RunAppend
  <2>2. /\ Run(given, position + 1) \in Seq(Extents)
        /\ Run(given, position + 1) # << >>
    BY <1>3, <1>4, RunType
  <2> QED
    BY <2>1, <2>2
<1>6. /\ cur_used_memory' = EndOffset[position + 1] - EndOffset[given]
      /\ cur_used_memory' \in Nat
      /\ cur_used_memory' - Bytes(position + 1) = cur_used_memory
  <2>1. /\ Bytes(position + 1) \in Nat
        /\ cur_used_memory + Bytes(position + 1) = EndOffset[position + 1] - EndOffset[given]
    BY <1>1, <1>3, RunBytes
  <2>2. cur_used_memory \in Nat
    BY <1>1 DEF TypeOK
  <2> QED
    BY <1>1, <2>1, <2>2
<1>7. /\ prefetcher' \in {"exited", "waiting", "reading"} /\ failed' = FALSE
      /\ prefetcher' = "exited" <=> abort_prefetching
      /\ prefetcher' = "reading" => start_prefetching /\ cur_used_memory' < max_used_memory
  BY <1>1, <1>5, <1>6, LoopOutcome
<1>8. /\ reader' \in {"idle", "woken", "joining"}
      /\ reader' = "joining" <=> reader = "joining"
  BY <1>1, <1>2 DEF TypeOK, ReaderSignalled
<1>9. TypeOK'
  <2>1. position' \in 0..NExtents
    BY <1>1, <1>4, PrefetchBufferAssumption DEF Extents
  <2> QED
    BY <1>1, <1>5, <1>6, <1>7, <1>8, <2>1 DEF TypeOK
<1>10. BufferBounded'
  BY <1>1, <1>2, <1>5, <1>6, <1>7, <1>9, Zenon DEF BufferBounded, Run, Bytes
<1>11. NoLostWakeup'
  BY <1>1, <1>7, <1>8 DEF NoLostWakeup, PlacesInv
<1>12. PlacesInv'
  BY <1>1, <1>2, <1>7, <1>8 DEF PlacesInv
<1>13. DeliveredInv'
  BY <1>1, <1>2, <1>3, PrefetchBufferAssumption DEF DeliveredInv
<1> QED
  BY <1>9, <1>10, <1>11, <1>12, <1>13 DEF IInv

LEMMA PrefetchEndStep == IInv /\ PrefetchEnd => IInv'
<1> SUFFICES ASSUME IInv, PrefetchEnd PROVE IInv'
  OBVIOUS
<1>1. /\ TypeOK /\ PlacesInv /\ NoLostWakeup /\ DeliveredInv /\ ~failed
      /\ prefetcher = "reading" /\ position = NExtents
      /\ source_done' = TRUE /\ reader' = ReaderSignalled /\ prefetcher' = "exited"
      /\ UNCHANGED <<position, buffer, cur_used_memory, start_prefetching,
                     abort_prefetching, delivered, ended, failed>>
  BY DEF IInv, BufferBounded, PrefetchEnd, bufferVars, streamVars
<1>2. /\ reader # "deleted"
      /\ reader' \in {"idle", "woken", "joining"}
      /\ reader' = "joining" <=> reader = "joining"
  BY <1>1 DEF PlacesInv, TypeOK, ReaderSignalled
<1>3. TypeOK' /\ NoLostWakeup' /\ PlacesInv' /\ DeliveredInv'
  BY <1>1, <1>2 DEF TypeOK, NoLostWakeup, PlacesInv, DeliveredInv
<1>4. BufferBounded'
  BY <1>1, <1>2, <1>3, BufferKept DEF bufferVars
<1> QED
  BY <1>3, <1>4 DEF IInv

LEMMA TakeStep == IInv /\ reader \in {"idle", "woken"} /\ getSharedExtent /\ Take => IInv'
<1> SUFFICES ASSUME IInv, reader \in {"idle", "woken"}, getSharedExtent, Take
             PROVE  IInv'
  OBVIOUS
<1> DEFINE given == Len(delivered)
<1>1. /\ TypeOK /\ PlacesInv /\ NoLostWakeup /\ DeliveredInv /\ ~failed
      /\ buffer # << >> /\ buffer' = Tail(buffer)
      /\ cur_used_memory' = cur_used_memory - Bytes(Head(buffer))
      /\ delivered' = Append(delivered, Head(buffer))
      /\ reader' = "idle" /\ failed' = abort_prefetching
      /\ UNCHANGED <<prefetcher, position, source_done, start_prefetching,
                     abort_prefetching, ended>>
  BY DEF IInv, BufferBounded, Take, getSharedExtent, UsedAfter
<1>2. reader # "deleted" /\ abort_prefetching = FALSE /\ failed' = FALSE
  BY <1>1 DEF PlacesInv, TypeOK
<1>3. /\ given \in 0..NExtents /\ position \in given..NExtents
      /\ buffer = Run(given, position)
      /\ cur_used_memory = EndOffset[position] - EndOffset[given]
  BY <1>2, Positions
<1>4. given < position
  BY <1>1, <1>3, RunType
<1>5. Head(buffer) = given + 1 /\ buffer' = Run(given + 1, position)
  BY <1>1, <1>3, <1>4, RunTail
<1>6. /\ given + 1 \in 0..NExtents /\ position \in (given + 1)..NExtents
      /\ given + 1 \in Extents
  BY <1>3, <1>4, PrefetchBufferAssumption DEF Extents
<1>7. /\ delivered' \in Seq(Extents) /\ Len(delivered') = given + 1
      /\ \A i \in 1..(given + 1) : delivered'[i] = i
  BY <1>1, <1>3, <1>5, <1>6 DEF TypeOK, DeliveredInv
<1>8. /\ cur_used_memory' = EndOffset[position] - EndOffset[given + 1]
      /\ cur_used_memory' \in Nat /\ cur_used_memory' <= cur_used_memory
  <2>1. cur_used_memory' = EndOffset[position] - EndOffset[given + 1]
    BY <1>1, <1>3, <1>4, <1>5, RunBytes
  <2>2. EndOffset[position] - EndOffset[given + 1] \in Nat
    BY <1>6, RunBytes
  <2>3. EndOffset[given] < EndOffset[given + 1]
    BY <1>3, <1>6, PrefetchBufferAssumption
  <2> QED
    BY <1>3, <1>6, <2>1, <2>2, <2>3, PrefetchBufferAssumption
<1>9. buffer' \in Seq(Extents)
  BY <1>5, <1>6, RunType
<1>10. TypeOK'
  BY <1>1, <1>2, <1>7, <1>8, <1>9 DEF TypeOK
<1>11. BufferBounded'
  <2>1. cur_used_memory - Bytes(position) < max_used_memory
    BY <1>1, <1>2, Zenon DEF IInv, BufferBounded
  <2>2. Bytes(position) \in Int /\ cur_used_memory \in Int
    BY <1>1, <1>3, <1>4, PrefetchBufferAssumption DEF Bytes, TypeOK
  <2>3. cur_used_memory' - Bytes(position) < max_used_memory
    BY <1>8, <2>1, <2>2, PrefetchBufferAssumption
  <2>4. buffer' = [i \in 1..(position' - Len(delivered')) |-> Len(delivered') + i]
    BY <1>1, <1>5, <1>7 DEF Run
  <2>5. cur_used_memory' = EndOffset[position'] - EndOffset[Len(delivered')]
    BY <1>1, <1>7, <1>8
  <2>6. Bytes(position)' = Bytes(position)
    BY <1>1 DEF Bytes
  <2>7. ~failed'
    BY <1>2
  <2> QED
    BY <1>10, <2>3, <2>4, <2>5, <2>6, <2>7, Zenon DEF BufferBounded
<1>12. NoLostWakeup'
  BY <1>1 DEF NoLostWakeup
<1>13. PlacesInv'
  BY <1>1, <1>2, <1>8, PrefetchBufferAssumption DEF PlacesInv, TypeOK
<1>14. DeliveredInv'
  BY <1>1, <1>3, <1>4, <1>7, PrefetchBufferAssumption DEF DeliveredInv
<1> QED
  BY <1>10, <1>11, <1>12, <1>13, <1>14 DEF IInv

LEMMA ReturnNullStep ==
  IInv /\ reader \in {"idle", "woken"} /\ getSharedExtent /\ ReturnNull => IInv'
<1> SUFFICES ASSUME IInv, reader \in {"idle", "woken"}, getSharedExtent, ReturnNull
             PROVE  IInv'
  OBVIOUS
<1>1. /\ TypeOK /\ PlacesInv /\ NoLostWakeup /\ DeliveredInv /\ ~failed
      /\ buffer = << >> /\ source_done /\ ended' = TRUE
      /\ reader' = "idle" /\ failed' = abort_prefetching
      /\ UNCHANGED <<prefetcher, buffer, cur_used_memory, position, source_done,
                     start_prefetching, abort_prefetching, delivered>>
  BY DEF IInv, BufferBounded, ReturnNull, getSharedExtent, bufferVars
<1>2. reader # "deleted" /\ abort_prefetching = FALSE /\ failed' = FALSE
  BY <1>1 DEF PlacesInv, TypeOK
<1>3. Len(delivered) = NExtents
  <2>1. /\ Len(delivered) \in 0..NExtents /\ position \in Len(delivered)..NExtents
        /\ buffer = Run(Len(delivered), position)
    BY <1>2, Positions
  <2> QED
    BY <1>1, <2>1, RunType DEF PlacesInv
<1>4. TypeOK' /\ NoLostWakeup' /\ PlacesInv' /\ DeliveredInv'
  BY <1>1, <1>2, <1>3 DEF TypeOK, NoLostWakeup, PlacesInv, DeliveredInv
<1>5. BufferBounded'
  BY <1>1, <1>2, <1>4, BufferKept DEF bufferVars
<1> QED
  BY <1>4, <1>5 DEF IInv

LEMMA WaitStep == IInv /\ reader \in {"idle", "woken"} /\ getSharedExtent /\ Wait => IInv'
<1> SUFFICES ASSUME IInv, reader \in {"idle", "woken"}, getSharedExtent, Wait
             PROVE  IInv'
  OBVIOUS
<1>1. /\ TypeOK /\ PlacesInv /\ NoLostWakeup /\ DeliveredInv /\ ~failed
      /\ buffer = << >> /\ ~source_done /\ start_prefetching' = TRUE
      /\ prefetcher' = PrefetcherSignalled
      /\ reader' = "waiting" /\ failed' = abort_prefetching
      /\ UNCHANGED <<buffer, cur_used_memory, position, source_done,
                     abort_prefetching, delivered, ended>>
  BY DEF IInv, BufferBounded, Wait, getSharedExtent, bufferVars, streamVars
<1>2. reader # "deleted" /\ abort_prefetching = FALSE /\ failed' = FALSE
  BY <1>1 DEF PlacesInv, TypeOK
<1>3. prefetcher' \in {"running", "reading"} /\ (prefetcher' = "reading" <=> prefetcher = "reading")
  BY <1>1, <1>2 DEF PrefetcherSignalled, PlacesInv, TypeOK
<1>4. TypeOK' /\ NoLostWakeup' /\ PlacesInv' /\ DeliveredInv'
  BY <1>1, <1>2, <1>3 DEF TypeOK, NoLostWakeup, PlacesInv, DeliveredInv
<1>5. BufferBounded'
  BY <1>1, <1>2, <1>4, BufferKept DEF bufferVars
<1> QED
  BY <1>4, <1>5 DEF IInv

LEMMA DestroyStep == IInv /\ Destroy => IInv'
<1> SUFFICES ASSUME IInv, Destroy PROVE IInv'
  OBVIOUS
<1>1. /\ TypeOK /\ PlacesInv /\ NoLostWakeup /\ DeliveredInv /\ ~failed
      /\ reader = "idle" /\ reader' = "joining" /\ abort_prefetching' = TRUE
      /\ prefetcher' = PrefetcherSignalled
      /\ UNCHANGED <<buffer, cur_used_memory, position, source_done,
                     start_prefetching, delivered, ended, failed>>
  BY DEF IInv, BufferBounded, Destroy, bufferVars, streamVars
<1>2. TypeOK' /\ NoLostWakeup' /\ PlacesInv' /\ DeliveredInv'
  BY <1>1 DEF TypeOK, NoLostWakeup, PlacesInv, DeliveredInv, PrefetcherSignalled
<1>3. BufferBounded'
  BY <1>1, <1>2, BufferKept DEF bufferVars
<1> QED
  BY <1>2, <1>3 DEF IInv

LEMMA JoinStep == IInv /\ Join => IInv'
<1> SUFFICES ASSUME IInv, Join PROVE IInv'
  OBVIOUS
<1>1. /\ TypeOK /\ PlacesInv /\ NoLostWakeup /\ DeliveredInv /\ ~failed
      /\ reader = "joining" /\ prefetcher = "exited"
      /\ buffer' = << >> /\ reader' = "deleted"
      /\ UNCHANGED <<prefetcher, position, cur_used_memory, source_done,
                     start_prefetching, abort_prefetching, delivered, ended, failed>>
  BY DEF IInv, BufferBounded, Join, flagVars, streamVars
<1>2. TypeOK' /\ NoLostWakeup' /\ PlacesInv' /\ DeliveredInv'
  BY <1>1 DEF TypeOK, NoLostWakeup, PlacesInv, DeliveredInv
<1>3. BufferBounded'
  BY <1>1, <1>2 DEF BufferBounded
<1> QED
  BY <1>2, <1>3 DEF IInv

LEMMA StepInv == IInv /\ [Next]_vars => IInv'
<1> SUFFICES ASSUME IInv, [Next]_vars PROVE IInv'
  OBVIOUS
<1>1. CASE startPrefetching
  BY <1>1, StartStep
<1>2. CASE PrefetchStep
  BY <1>2, PrefetchRunStep, PrefetchGotStep, PrefetchEndStep DEF PrefetchStep
<1>3. CASE Get \/ GetWakeup
  <2>1. reader \in {"idle", "woken"} /\ getSharedExtent
    BY <1>3 DEF Get, GetWakeup
  <2> QED
    BY <2>1, TakeStep, ReturnNullStep, WaitStep DEF getSharedExtent
<1>4. CASE Destroy
  BY <1>4, DestroyStep
<1>5. CASE Join
  BY <1>5, JoinStep
<1>6. CASE UNCHANGED vars
  BY <1>6 DEF IInv, vars, bufferVars, flagVars, streamVars, TypeOK, BufferBounded, Bytes,
              NoLostWakeup, PlacesInv, DeliveredInv
<1> QED
  BY <1>1, <1>2, <1>3, <1>4, <1>5, <1>6 DEF Next, ReaderStep

LEMMA Invariance == Spec => []IInv
BY InitInv, StepInv, PTL DEF Spec

----------------------------------------------------------------------------
\* Theorems

\* The module is well typed, and the unsigned cur_used_memory does not wrap.
THEOREM TypeCorrect == Spec => []TypeOK
<1>1. IInv => TypeOK
  BY DEF IInv
<1> QED
  BY <1>1, Invariance, PTL

\* The buffer is accounted for exactly, exceeds its limit by at most one extent,
\* and no assertion of the code fails.
THEOREM BufferIsBounded == Spec => []BufferBounded
<1>1. IInv => BufferBounded
  BY DEF IInv
<1> QED
  BY <1>1, Invariance, PTL

\* The two threads never sleep at the same time on the condition variable that
\* they share.
THEOREM NobodySleepsForBoth == Spec => []NoLostWakeup
<1>1. IInv => NoLostWakeup
  BY DEF IInv
<1> QED
  BY <1>1, Invariance, PTL

\* The module returns "exactly the same sequence of Extents as the source module".
THEOREM StreamImplemented == Spec => ImplementsStream
<1> DEFINE Source == [i \in Extents |-> i]
<1>1. Init => Stream!Init
  BY DEF Init, Stream!Init
<1>2. IInv /\ [Next]_vars => [Stream!Next]_Stream!vars
  <2> SUFFICES ASSUME IInv, [Next]_vars PROVE [Stream!Next]_Stream!vars
    OBVIOUS
  <2>1. CASE getSharedExtent /\ Take /\ reader \in {"idle", "woken"}
    <3>1. /\ reader # "deleted" /\ ~ended /\ buffer # << >>
          /\ delivered' = Append(delivered, Head(buffer)) /\ ended' = ended
      <4>1. ended => source_done /\ Len(delivered) = NExtents /\ position = NExtents
        BY DEF IInv, DeliveredInv, PlacesInv
      <4>2. reader # "deleted"
        BY <2>1
      <4>3. /\ buffer = Run(Len(delivered), position) /\ Len(delivered) \in 0..NExtents
            /\ position \in Len(delivered)..NExtents
        BY <4>2, Positions
      <4>4. ended => buffer = << >>
        BY <4>1, <4>3, RunType
      <4> QED
        BY <2>1, <4>2, <4>4 DEF Take
    <3>2. /\ Len(delivered) \in 0..NExtents /\ position \in Len(delivered)..NExtents
          /\ buffer = Run(Len(delivered), position)
      BY <3>1, Positions
    <3>3. Len(delivered) < position /\ Head(buffer) = Len(delivered) + 1
      <4>1. Len(delivered) < position
        BY <3>1, <3>2, RunType
      <4> QED
        BY <3>2, <4>1, RunTail
    <3>4. Len(delivered) + 1 \in Extents /\ Len(Source) = NExtents
      BY <3>2, <3>3, PrefetchBufferAssumption DEF Extents
    <3> QED
      BY <3>1, <3>2, <3>3, <3>4, PrefetchBufferAssumption DEF Stream!Next, Stream!Deliver
  <2>2. CASE getSharedExtent /\ ReturnNull /\ reader \in {"idle", "woken"}
    <3>1. IInv'
      BY StepInv
    <3>2. ended' = TRUE /\ delivered' = delivered
      BY <2>2 DEF ReturnNull
    <3>3. Len(delivered) = NExtents /\ (\A i \in 1..NExtents : delivered[i] = i)
      BY <3>1, <3>2 DEF IInv, DeliveredInv
    <3>4. delivered \in Seq(Extents)
      BY DEF IInv, TypeOK
    <3>5. delivered = Source
      BY <3>3, <3>4, PrefetchBufferAssumption DEF Extents
    <3> QED
      BY <3>2, <3>5 DEF Stream!Next, Stream!End
  <2>3. CASE UNCHANGED streamVars
    BY <2>3 DEF streamVars, Stream!vars
  <2>4. CASE ~UNCHANGED streamVars
    <3>1. Get \/ GetWakeup
      BY <2>4 DEF Next, PrefetchStep, ReaderStep, PrefetchRun, PrefetchGot, PrefetchEnd,
                  startPrefetching, Destroy, Join, vars
    <3>2. getSharedExtent /\ (Take \/ ReturnNull) /\ reader \in {"idle", "woken"}
      BY <2>4, <3>1 DEF Get, GetWakeup, getSharedExtent, Wait
    <3> QED
      BY <2>1, <2>2, <3>2
  <2> QED
    BY <2>3, <2>4
<1> QED
  BY <1>1, <1>2, Invariance, PTL DEF Spec, ImplementsStream, Stream!Spec
=============================================================================
