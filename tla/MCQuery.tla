------------------------------- MODULE MCQuery -------------------------------
(***************************************************************************)
(* Query on small instances: the value T{} = 0, which compression loses    *)
(* beside a NULL, and 1, for rows on either side of a search value.        *)
(***************************************************************************)
EXTENDS Query, MCData

CONSTANT int

MCDataType == {int}
MCValues == 0 .. 1
MCVariants == {0, 1}
MCTypeCast == [p \in DataType \X Variants |-> p[2]]

\* Column names are only compared with each other.
MCSymmetry == Permutations(ColumnName)

\* The last call and how the last scan ended do not tell states apart: an
\* outcome after which nothing more happens leaves all the rest as it was, in a
\* state already seen, which goes on.
MCView == <<chunks, columns, target, output, through>>
=============================================================================
