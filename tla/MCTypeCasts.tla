----------------------------- MODULE MCTypeCasts ------------------------------
(***************************************************************************)
(* TypeCasts with the number 1 as 10, so that a number may have a decimal  *)
(* digit.  The types are as coarse, against each other, as the real ones:  *)
(* double has every int, and -60 - 10 below the least; long has numbers    *)
(* double has not, 80 among them, and double nothing between -100, the     *)
(* least long, and -150; int has the number 30 that float has not.  Short  *)
(* texts are coarser than int, with an exponent from 30 on, and 0.4 stands *)
(* for the decimal fractions for which float has no exact number.          *)
(***************************************************************************)
EXTENDS TypeCasts

\* 0, +-step, .. up to +-last.
Steps(step, last) == {n \in -last .. last : n % step = 0}

MCShortTexts == {-14, -4, 4, 14} \cup Steps(10, 20) \cup {-150, -70, -40, 40, 70, 150}

MCRepresentable ==
    [int    |-> {n \in -60 .. 50 : n % 10 = 0},
     long   |-> {n \in -100 .. 90 : n % 10 = 0},
     float  |-> Steps(5, 10) \cup Steps(20, 60) \cup Steps(100, 200),
     double |-> {-14, -4, 4, 14} \cup Steps(5, 20) \cup Steps(10, 70) \cup Steps(50, 200)]

\* Whole numbers of any length, and some fractions.
MCLongTexts == Steps(10, 120) \cup {-104, -74, -64, -24, 4, 15, 54, 94}
=============================================================================
