---------------------------- MODULE ExtentStream ----------------------------
(***************************************************************************)
(* What a source of extents promises to the one thread that reads from it   *)
(* (include/DataSeries/DataSeriesModule.hpp, IndexSourceModule.hpp): each   *)
(* call returns the next extent of the underlying files, none skipped, none *)
(* twice, and NULL only after the last one; the reader may start over.      *)
(***************************************************************************)
EXTENDS Naturals, Sequences

CONSTANT Source   \* the extents of the files, in order

VARIABLES delivered,  \* what the reader got since it started
          ended       \* has it been told that there is no more?

vars == <<delivered, ended>>

Init == delivered = << >> /\ ended = FALSE

Deliver == /\ ~ended
           /\ Len(delivered) < Len(Source)
           /\ delivered' = Append(delivered, Source[Len(delivered) + 1])
           /\ UNCHANGED ended

End == /\ delivered = Source
       /\ ended' = TRUE
       /\ UNCHANGED delivered

StartOver == delivered' = << >> /\ ended' = FALSE

Next == Deliver \/ End \/ StartOver

Spec == Init /\ [][Next]_vars
=============================================================================
