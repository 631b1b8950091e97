-------------------------- MODULE MCDataSeriesSink --------------------------
(***************************************************************************)
(* Values for the constants of DataSeriesSink.  Sizes are chosen so that    *)
(* both tests of canQueueWork fail in turn, a packed extent may be larger   *)
(* than the extent, and raising the limit makes a difference.               *)
(***************************************************************************)
EXTENDS DataSeriesSink, TLC

MCRawSize == [e \in Extents |-> IF e[1] \in Writers THEN 4 ELSE 2]

MCPackedSize == [e \in Extents |->
                   IF e[1] \in Writers THEN (IF e[2] = 1 THEN 2 ELSE 5) ELSE 1]

CompressorSymmetry == Permutations(Compressors)

WriterSymmetry == Permutations(Writers)

Symmetry == CompressorSymmetry \cup WriterSymmetry
=============================================================================
