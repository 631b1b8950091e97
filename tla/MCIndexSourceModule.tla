------------------------ MODULE MCIndexSourceModule ------------------------
(***************************************************************************)
(* Values for the constants of IndexSourceModule: extents of different      *)
(* sizes, so that each queue fills up in some behaviours, and one that is   *)
(* larger than the limit of the unpacked queue.                             *)
(***************************************************************************)
EXTENDS IndexSourceModule, TLC

MCPackedBytes == [e \in Extents |-> 1 + (e % 2)]

MCUnpackedBytes == [e \in Extents |-> IF e = 3 THEN 9 ELSE 2 + (e % 2)]

UnpackerSymmetry == Permutations(Unpackers)
=============================================================================
