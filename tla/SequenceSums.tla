---------------------------- MODULE SequenceSums ----------------------------
(***************************************************************************)
(* The sum of a sequence of numbers, which the properties that account for  *)
(* bytes are about; written as a recursive function, so that it can be      *)
(* reasoned about (OperatorTheorems).                                    *)
(***************************************************************************)
LOCAL INSTANCE Integers
LOCAL INSTANCE Sequences

Total(s) == LET upto[n \in 0..Len(s)] == IF n = 0 THEN 0 ELSE upto[n - 1] + s[n]
            IN  upto[Len(s)]

\* What the elements of s weigh together, each f[its value].
Weight(f, s) == Total([i \in 1..Len(s) |-> f[s[i]]])
=============================================================================
