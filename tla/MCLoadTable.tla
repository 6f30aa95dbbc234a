----------------------------- MODULE MCLoadTable ------------------------------
(***************************************************************************)
(* LoadTable on files of up to two lines after the header.  A field is     *)
(* empty, the text of the number 1, or a word that is no number; strings   *)
(* take all three.                                                         *)
(***************************************************************************)
EXTENDS LoadTable, MCData

CONSTANTS int, string, word, a, b

MCDataType == {int, string}
MCValues == 0 .. 2
MCVariants == {1, word, Empty}
MCTypeCast == [p \in DataType \X Variants |->
                  CASE p[2] = 1    -> 1
                    [] p[1] = int  -> CastError
                    [] p[2] = word -> 2
                    [] OTHER       -> DefaultValue]

\* No column, one, two, two of one name, and types that do not match.
MCHeaders ==
    {<< <<>>, <<>> >>, << <<a, a>>, <<int, int>> >>, << <<a, b>>, <<int>> >>}
        \cup {<< <<a>>, <<t>> >> : t \in DataType}
        \cup {<< <<a, b>>, <<t, u>> >> : t \in DataType, u \in DataType}

MCLines == UNION {[1 .. n -> MCVariants] : n \in 1 .. 3}
=============================================================================
