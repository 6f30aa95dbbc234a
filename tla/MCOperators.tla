----------------------------- MODULE MCOperators ------------------------------
(***************************************************************************)
(* Operators on a small instance: two tables, so that a name can come to   *)
(* stand for another one, and three operators, so that a scan or a Print   *)
(* can read what was made from a table by another.                         *)
(***************************************************************************)
EXTENDS Operators, TLC

\* Names and tables are only compared with each other.
MCSymmetry == Permutations(Name) \cup Permutations(BaseTable)
=============================================================================
