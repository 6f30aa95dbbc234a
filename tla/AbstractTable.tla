---------------------------- MODULE AbstractTable ----------------------------
(***************************************************************************)
(* What a Table promises to a caller who uses it as table.hpp describes: a *)
(* schema, and rows that are kept, in the order they were appended and as  *)
(* they were given, in parts (the chunks) of limited size.  Whether a part *)
(* is compressed cannot be seen.                                           *)
(***************************************************************************)
EXTENDS DataTypes, Sequences

CONSTANTS ColumnName, MaxColumns

VARIABLES
    schema,     \* column definitions, left to right
    parts,      \* sequence of parts, each a sequence of rows
    limit,      \* largest number of rows in a part
    call        \* the last call, its row and its outcome

vars == <<schema, parts, limit, call>>

ColumnDefinition == [name : ColumnName, type : DataType, nullable : BOOLEAN]

Row == UNION {[1 .. n -> AllTypeVariant] : n \in 0 .. MaxColumns}

Last == Len(parts)

HasName(name) == \E c \in DOMAIN schema : schema[c].name = name

HasRows == \E k \in DOMAIN parts : parts[k] # <<>>

\* A row the schema can hold: of its arity, NULL only where it is allowed,
\* each value convertible to the type of its column.
Fits(row) ==
    /\ Len(row) = Len(schema)
    /\ \A c \in DOMAIN schema :
          IF row[c] = NULL THEN schema[c].nullable
                           ELSE TypeCast[schema[c].type, row[c]] # CastError

\* The cells the row becomes.
Cells(row) ==
    [c \in DOMAIN schema |->
        IF row[c] = NULL THEN NULL ELSE TypeCast[schema[c].type, row[c]]]

Outcome(op, row, outcome) == call' = [op |-> op, row |-> row, outcome |-> outcome]

Init ==
    /\ schema = <<>>
    /\ parts = <<(<<>>)>>
    /\ limit \in Nat \ {0}
    /\ call = [op |-> "Table", row |-> <<>>, outcome |-> "ok"]

\* A column can be added while there are no rows, under a new name.
AddColumn(def) ==
    /\ IF HasRows \/ HasName(def.name)
       THEN Outcome("add_column", <<>>, "throws") /\ UNCHANGED schema
       ELSE Outcome("add_column", <<>>, "ok") /\ schema' = Append(schema, def)
    /\ UNCHANGED <<parts, limit>>

CreateNewChunk ==
    /\ parts' = Append(parts, <<>>)
    /\ Outcome("create_new_chunk", <<>>, "ok")
    /\ UNCHANGED <<schema, limit>>

\* A row that fits is stored after the last one, in the last part or, always
\* when that is full, in a new one.
AppendFitting(row) ==
    /\ Fits(row)
    /\ \/ Len(parts[Last]) < limit /\ parts' = [parts EXCEPT ![Last] = Append(@, Cells(row))]
       \/ parts' = Append(parts, <<Cells(row)>>)
    /\ Outcome("append", row, "ok")
    /\ UNCHANGED <<schema, limit>>

\* Any other row is refused; no part changes, but an empty one may appear.
AppendRefused(row) ==
    /\ ~Fits(row)
    /\ UNCHANGED parts \/ parts' = Append(parts, <<>>)
    /\ Outcome("append", row, "throws")
    /\ UNCHANGED <<schema, limit>>

\* Compression of a chunk: no row changes.
CompressChunk ==
    /\ Outcome("compress_chunk", <<>>, "ok")
    /\ UNCHANGED <<schema, parts, limit>>

Next ==
    \/ \E def \in ColumnDefinition : AddColumn(def)
    \/ CreateNewChunk
    \/ \E row \in Row : AppendFitting(row) \/ AppendRefused(row)
    \/ CompressChunk

Spec == Init /\ [][Next]_vars
=============================================================================
