-------------------------- MODULE MCCompressChunk ----------------------------
(***************************************************************************)
(* CompressChunk on a small instance: two columns, so that two threads and *)
(* the caller overlap in every order, and one row: what the threads build  *)
(* is the business of Column.                                              *)
(***************************************************************************)
EXTENDS CompressChunk, MCData

CONSTANTS int, string

MCDataType == {int, string}
MCValues == {0, 1}
MCVariants == {1}
MCTypeCast == [p \in DataType \X Variants |-> p[2]]
=============================================================================
