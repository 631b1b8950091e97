-------------------------- MODULE MCPrefetchBuffer --------------------------
(***************************************************************************)
(* Values for the constants of PrefetchBuffer: extents smaller than, equal  *)
(* to and larger than the limit, so that the buffer is full with one extent *)
(* and with several.                                                        *)
(***************************************************************************)
EXTENDS PrefetchBuffer

MCBytes(e) == CASE e % 4 = 0 -> 5 [] e % 4 = 3 -> 3 [] OTHER -> 1

MCEndOffset == LET upto[e \in 0..NExtents] == IF e = 0 THEN 0
                                                       ELSE upto[e - 1] + MCBytes(e)
               IN  upto
=============================================================================
