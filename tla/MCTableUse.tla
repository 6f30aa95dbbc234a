----------------------------- MODULE MCTableUse ------------------------------
(***************************************************************************)
(* TableUse on a small instance: rows of the value 1, NULL, for which T{}  *)
(* = 0 is stored, and a variant that cannot be cast, in up to two columns. *)
(***************************************************************************)
EXTENDS TableUse, MCData, TLC

CONSTANTS int, unparsable

MCDataType == {int}
MCValues == 0 .. 1
MCVariants == {1, unparsable}
MCTypeCast == [p \in DataType \X Variants |->
                  IF p[2] = unparsable THEN CastError ELSE p[2]]

\* Column names are only compared with each other.
MCSymmetry == Permutations(ColumnName)
=============================================================================
