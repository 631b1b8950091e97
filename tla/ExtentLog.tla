----------------------------- MODULE ExtentLog -----------------------------
(***************************************************************************)
(* What a DataSeries sink promises to the threads that write into it       *)
(* (include/DataSeries/DataSeriesSink.hpp): while a file is open it accepts *)
(* extents, it writes them to the file one after another in the order in    *)
(* which they were accepted, each exactly once, and the file is only        *)
(* finished when everything that was accepted is in it.  Nothing is said    *)
(* about threads, memory limits or compression.                             *)
(***************************************************************************)
EXTENDS Naturals, Sequences

CONSTANT Extents

VARIABLES accepted,   \* the extents of the file, in the order they were queued
          written,    \* the extents that are in the file
          open        \* is there a file that still accepts extents?

vars == <<accepted, written, open>>

TypeOK == /\ accepted \in Seq(Extents)
          /\ written \in Seq(Extents)
          /\ open \in BOOLEAN

Init == accepted = << >> /\ written = << >> /\ open = FALSE

Start == /\ ~open
         /\ accepted' = << >>
         /\ written' = << >>
         /\ open' = TRUE

\* An extent is accepted at most once: the caller's extent is emptied by it.
Accept(e) == /\ open
             /\ \A i \in 1..Len(accepted) : accepted[i] # e
             /\ accepted' = Append(accepted, e)
             /\ UNCHANGED <<written, open>>

Persist == /\ Len(written) < Len(accepted)
           /\ written' = Append(written, accepted[Len(written) + 1])
           /\ UNCHANGED <<accepted, open>>

Finish == /\ open
          /\ written = accepted
          /\ open' = FALSE
          /\ UNCHANGED <<accepted, written>>

Next == Start \/ (\E e \in Extents : Accept(e)) \/ Persist \/ Finish

Spec == Init /\ [][Next]_vars

Holds(s, e) == \E i \in 1..Len(s) : s[i] = e

\* What the threads of a sink are trusted with: no accepted extent is left
\* behind, each one gets into the file.
AcceptedIsWritten == \A e \in Extents : Holds(accepted, e) ~> Holds(written, e)
=============================================================================
