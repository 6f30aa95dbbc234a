------------------------------- MODULE MCTable -------------------------------
(***************************************************************************)
(* Table on small instances.  The values are T{} = 0 and 1; the variant    *)
(* unparsable makes every type_cast throw.  There are two types, because   *)
(* segments and columns can be out of step when definitions and columns    *)
(* are added in turns.                                                     *)
(***************************************************************************)
EXTENDS Table, MCData, TLC

CONSTANTS int, string, unparsable

MCOneType == {int}
MCTwoTypes == {int, string}
MCValues == 0 .. 1
MCVariants == MCValues \cup {unparsable}
MCTypeCast == [p \in DataType \X Variants |->
                  IF p[2] = unparsable THEN CastError ELSE p[2]]

\* Column names are only compared with each other, and so are types: they have
\* the same casts.
MCSymmetry == Permutations(ColumnName) \cup Permutations(DataType)
=============================================================================
