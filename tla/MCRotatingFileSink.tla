------------------------- MODULE MCRotatingFileSink -------------------------
(***************************************************************************)
(* RotatingFileSink for TLC.  Its constants are numbers and model values,   *)
(* which the configurations give; the writers are interchangeable.          *)
(***************************************************************************)
EXTENDS RotatingFileSink, TLC

WriterSymmetry == Permutations(Writers)
=============================================================================
