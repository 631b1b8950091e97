--------------------------- MODULE PrefetchBuffer ---------------------------
(***************************************************************************)
(* PrefetchBufferModule (src/module/PrefetchBufferModule.cpp): a thread of  *)
(* its own reads extents from a source into a buffer, a reader takes them   *)
(* out.  The buffer is limited in bytes, not in extents.  One mutex, and    *)
(* one condition variable on which both threads wait and which is always    *)
(* signalled, never broadcast.                                              *)
(*                                                                          *)
(* An action is what a thread does from taking the mutex to releasing it;   *)
(* the source is read between two actions of the prefetch thread.           *)
(***************************************************************************)
EXTENDS Integers, Sequences

CONSTANTS
  NExtents,         \* the source has this many extents
  EndOffset,        \* bytes (Extent::size) up to and with each, none for 0
  max_used_memory

Extents == 1..NExtents

Bytes(e) == EndOffset[e] - EndOffset[e - 1]

ASSUME PrefetchBufferAssumption ==
  /\ NExtents \in Nat
  /\ EndOffset \in [0..NExtents -> Nat] /\ EndOffset[0] = 0
  /\ \A d, e \in 0..NExtents : d < e => EndOffset[d] < EndOffset[e]
  /\ max_used_memory \in Nat \ {0}      \* asserted by the constructor

VARIABLES
  prefetcher,       \* where the prefetch thread is
  reader,           \* where the thread is that owns the module and reads from it
  position,         \* extents that the source has returned
  buffer, cur_used_memory,
  source_done, start_prefetching, abort_prefetching,
  \* history
  delivered,        \* what getSharedExtent has returned
  ended,            \* has it returned NULL?
  failed            \* has an SINVARIANT of the code failed?

bufferVars == <<buffer, cur_used_memory>>
flagVars   == <<source_done, start_prefetching, abort_prefetching>>
streamVars == <<delivered, ended>>
vars == <<prefetcher, reader, position, bufferVars, flagVars, streamVars, failed>>

\* Definitions with a suffix are mutants of the one that follows (README.md,
\* "Mutants").
----------------------------------------------------------------------------
\* cond.signal() by one thread can wake up only the other one.

ReaderSignalled_missing == reader

ReaderSignalled == IF reader = "waiting" THEN "woken" ELSE reader

PrefetcherSignalled_only_at_start ==
  IF prefetcher = "waiting" /\ ~start_prefetching THEN "running" ELSE prefetcher

PrefetcherSignalled == IF prefetcher = "waiting" THEN "running" ELSE prefetcher

----------------------------------------------------------------------------
Init ==
  /\ prefetcher = "running" /\ reader = "idle"
  /\ position = 0
  /\ buffer = << >> /\ cur_used_memory = 0
  /\ source_done = FALSE /\ start_prefetching = FALSE /\ abort_prefetching = FALSE
  /\ delivered = << >> /\ ended = FALSE /\ failed = FALSE

startPrefetching ==
  /\ reader = "idle"
  /\ start_prefetching' = TRUE
  /\ prefetcher' = PrefetcherSignalled
  /\ UNCHANGED <<reader, position, bufferVars, source_done, abort_prefetching,
                 streamVars, failed>>

----------------------------------------------------------------------------
\* The prefetch thread

Full_only_above(used) == used > max_used_memory

Full(used) == used >= max_used_memory

\* Up to the next unlock or wait: both loops of prefetcherThread.
Loop ==
  \/ /\ abort_prefetching
     /\ prefetcher' = "exited" /\ UNCHANGED failed
  \/ /\ ~abort_prefetching /\ ~start_prefetching
     /\ prefetcher' = "waiting" /\ UNCHANGED failed
  \/ /\ ~abort_prefetching /\ start_prefetching
     /\ ~Full(cur_used_memory')
     /\ prefetcher' = "reading" /\ UNCHANGED failed
  \/ /\ ~abort_prefetching /\ start_prefetching
     /\ Full(cur_used_memory')
     /\ failed' = (buffer' = << >>)
     /\ prefetcher' = "waiting"

PrefetchRun ==
  /\ prefetcher = "running"
  /\ UNCHANGED bufferVars
  /\ Loop
  /\ UNCHANGED <<reader, position, flagVars, streamVars>>

Buffered_at_front(e) == <<e>> \o buffer

Buffered(e) == Append(buffer, e)

\* The source has returned an extent.
PrefetchGot ==
  /\ prefetcher = "reading" /\ position < NExtents
  /\ position' = position + 1
  /\ buffer' = Buffered(position + 1)
  /\ cur_used_memory' = cur_used_memory + Bytes(position + 1)
  /\ reader' = ReaderSignalled
  /\ Loop
  /\ UNCHANGED <<flagVars, streamVars>>

\* The source has returned NULL.
PrefetchEnd ==
  /\ prefetcher = "reading" /\ position = NExtents
  /\ source_done' = TRUE
  /\ reader' = ReaderSignalled
  /\ prefetcher' = "exited"
  /\ UNCHANGED <<position, bufferVars, start_prefetching, abort_prefetching,
                 streamVars, failed>>

----------------------------------------------------------------------------
\* getSharedExtent

UsedAfter(e) == cur_used_memory - Bytes(e)

Take ==
  /\ buffer # << >>
  /\ buffer' = Tail(buffer)
  /\ cur_used_memory' = UsedAfter(Head(buffer))
  /\ delivered' = Append(delivered, Head(buffer))
  /\ reader' = "idle"
  /\ UNCHANGED <<prefetcher, start_prefetching, ended>>

ReturnNull ==
  /\ buffer = << >> /\ source_done
  /\ ended' = TRUE
  /\ reader' = "idle"
  /\ UNCHANGED <<prefetcher, bufferVars, start_prefetching, delivered>>

Wait ==
  /\ buffer = << >> /\ ~source_done
  /\ start_prefetching' = TRUE
  /\ prefetcher' = PrefetcherSignalled
  /\ reader' = "waiting"
  /\ UNCHANGED <<bufferVars, streamVars>>

\* One round of its loop, of a new call or of one that was woken up.
getSharedExtent ==
  /\ Take \/ ReturnNull \/ Wait
  /\ failed' = abort_prefetching
  /\ UNCHANGED <<position, source_done, abort_prefetching>>

Get == reader = "idle" /\ getSharedExtent

GetWakeup == reader = "woken" /\ getSharedExtent

----------------------------------------------------------------------------
\* The destructor tells the thread to stop and joins it.

Destroy ==
  /\ reader = "idle"
  /\ abort_prefetching' = TRUE
  /\ prefetcher' = PrefetcherSignalled
  /\ reader' = "joining"
  /\ UNCHANGED <<position, bufferVars, source_done, start_prefetching, streamVars,
                 failed>>

Join ==
  /\ reader = "joining" /\ prefetcher = "exited"
  /\ buffer' = << >>
  /\ reader' = "deleted"
  /\ UNCHANGED <<prefetcher, position, cur_used_memory, flagVars, streamVars, failed>>

----------------------------------------------------------------------------
PrefetchStep == PrefetchRun \/ PrefetchGot \/ PrefetchEnd

ReaderStep == GetWakeup \/ Join

Next == /\ ~failed
        /\ PrefetchStep \/ ReaderStep \/ startPrefetching \/ Get \/ Destroy

Spec == Init /\ [][Next]_vars

\* A thread that can run does run; nobody has to make a call.  The source
\* answers (IndexSourceModule, CallsReturn).
FairSpec == Spec /\ WF_vars(~failed /\ PrefetchStep) /\ WF_vars(~failed /\ ReaderStep)

----------------------------------------------------------------------------
\* Properties

TypeOK ==
  /\ prefetcher \in {"running", "waiting", "reading", "exited"}
  /\ reader \in {"idle", "waiting", "woken", "joining", "deleted"}
  /\ position \in 0..NExtents
  /\ buffer \in Seq(Extents) /\ cur_used_memory \in Nat
  /\ source_done \in BOOLEAN /\ start_prefetching \in BOOLEAN
  /\ abort_prefetching \in BOOLEAN
  /\ delivered \in Seq(Extents) /\ ended \in BOOLEAN /\ failed \in BOOLEAN

\* The buffer is what has been read and not yet delivered, in order, and
\* cur_used_memory its size, so that it does not wrap when an extent is taken out
\* and the thread never sleeps on an empty buffer that it believes full; "the
\* queue may exceed maxextentmemory by one extent" (PrefetchBufferModule.hpp:28)
\* and by no more.
BufferBounded ==
  /\ TypeOK /\ ~failed
  /\ reader # "deleted" =>
       LET given == Len(delivered) IN
         /\ buffer = [i \in 1..(position - given) |-> given + i]
         /\ cur_used_memory = EndOffset[position] - EndOffset[given]
         /\ buffer # << >> => cur_used_memory - Bytes(position) < max_used_memory

\* The two threads share a condition variable that only ever wakes one: they
\* never sleep both, a signal reaches the thread it is meant for, and the reader
\* sleeps only while there is nothing for it.
NoLostWakeup ==
  /\ reader = "waiting" => /\ buffer = << >> /\ ~source_done
                           /\ prefetcher \in {"running", "reading"}
  /\ reader = "joining" => prefetcher # "waiting"

\* "exactly the same sequence of Extents as the source module"
\* (PrefetchBufferModule.hpp:38): in order, none lost or twice, and NULL last.
Stream == INSTANCE ExtentStream WITH Source <- [i \in Extents |-> i]

ImplementsStream == Stream!Spec

\* A reader that waits for an extent gets it or the end, and the destructor ends.
CallsReturn ==
  /\ reader \in {"waiting", "woken"} ~> reader = "idle"
  /\ reader = "joining" ~> reader = "deleted"
=============================================================================
