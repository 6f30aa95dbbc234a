------------------------------ MODULE MCColumn -------------------------------
(***************************************************************************)
(* Column on a small instance: one type, the five values around T{} = 0,   *)
(* and a variant that no type_cast accepts.                                *)
(***************************************************************************)
EXTENDS Column, MCData

CONSTANTS int, unparsable

MCDataType == {int}
MCValues == -2 .. 2
MCVariants == MCValues \cup {unparsable}
MCTypeCast == [p \in MCDataType \X MCVariants |->
                  IF p[2] = unparsable THEN CastError ELSE p[2]]
=============================================================================
