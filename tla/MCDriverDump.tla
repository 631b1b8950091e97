---------------------------- MODULE MCDriverDump ----------------------------
(***************************************************************************)
(* DriverDump for TLC.  The file threads run the same code, so the checks of *)
(* the invariants identify states that differ by a permutation of them.      *)
(***************************************************************************)
EXTENDS DriverDump

ThreadSymmetry == Permutations(Workers)
=============================================================================
