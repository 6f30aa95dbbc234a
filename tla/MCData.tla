------------------------------- MODULE MCData --------------------------------
(***************************************************************************)
(* What the model-checked instances share: attribute vectors of 1, 2 and 8 *)
(* different ValueIDs in the place of 2^8, 2^16 and 2^32, and sorting.     *)
(***************************************************************************)
EXTENDS Integers, FiniteSets

MCNumericMax == <<0, 1, 7>>

\* The k-th element of S has k - 1 smaller ones.
MCSortedDistinct(S) ==
    [k \in 1 .. Cardinality(S) |->
        CHOOSE v \in S : Cardinality({w \in S : w < v}) = k - 1]
=============================================================================
