--------------------------- MODULE MCFileRecovery ---------------------------
EXTENDS FileRecovery

\* Five extents of different sizes after a header of two words; an extent has at
\* least one word after its prefix (the name of its type).
MCStartAt == [p \in 0..8 |-> <<0, 2, 5, 9, 12, 15, 19, 22, 24>>[p + 1]]
=============================================================================
