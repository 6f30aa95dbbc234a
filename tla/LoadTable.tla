------------------------------ MODULE LoadTable -------------------------------
(***************************************************************************)
(* load_table: a table read from a file, as a caller of Table: the columns *)
(* from two header lines, then one append per line.  Fields are variants   *)
(* of the Table specification, whose cast is the parsing of their text; a  *)
(* line is the sequence of the fields between the delimiters, so an empty  *)
(* line is one empty field.  A header is given by the tokens split makes.  *)
(* The exception of a failing call or Assert ends the load, and the table, *)
(* which is local to it.                                                   *)
(***************************************************************************)
EXTENDS TableUse, SequencesExt

CONSTANTS
    Headers,        \* pairs of sequences, of column names and of types
    Lines,          \* lines of a file
    AskedSizes,     \* arguments for chunk_size, which is wider than ChunkOffset
    Empty,          \* the empty field
    MaxLines        \* bound: lines after the header

ASSUME LoadTableAssumption ==
    /\ Headers \subseteq Seq(ColumnName) \X Seq(DataType)
    /\ Lines \subseteq Seq(Variants) \ {<<>>}
    /\ Empty \in Variants
    /\ AskedSizes \subseteq Nat
    /\ MaxLines \in Nat

VARIABLES
    file,       \* [names, types, lines]
    stage,      \* "header", "columns", "rows"; "returned", "failed", "undefined"
    line        \* the line to be read next

loadVars == <<vars, file, stage, line>>

Files ==
    {[names |-> h[1], types |-> h[2], lines |-> lines] :
        h \in Headers, lines \in UNION {[1 .. n -> Lines] : n \in 0 .. MaxLines}}

LoadInit ==
    /\ file \in Files
    /\ \E asked \in AskedSizes : target = asked % (MaxChunkOffset + 1)
    /\ Init
    /\ stage = "header"
    /\ line = 1

\* How the load goes on after a call.
After(next) ==
    stage' = CASE call'.outcome = "ok" -> next
               [] call'.outcome = "throws" -> "failed"
               [] OTHER -> "undefined"

ReadHeader ==
    /\ stage = "header"
    /\ stage' = IF Len(file.types) = Len(file.names) THEN "columns" ELSE "failed"
    /\ UNCHANGED <<vars, file, line>>

\* Mutant: the columns are nullable.
ColumnOf_Nullable(c) == [name |-> file.names[c], type |-> file.types[c], nullable |-> TRUE]

ColumnOf(c) == [name |-> file.names[c], type |-> file.types[c], nullable |-> FALSE]

DefineColumn ==
    /\ stage = "columns"
    /\ Len(columns) < Len(file.names)
    /\ AddColumn(ColumnOf(Len(columns) + 1))
    /\ After("columns")
    /\ UNCHANGED <<file, line>>

ColumnsDone ==
    /\ stage = "columns"
    /\ Len(columns) = Len(file.names)
    /\ stage' = "rows"
    /\ UNCHANGED <<vars, file, line>>

\* Mutant: nothing is dropped.
Tokens_All(fields) == fields

\* split: getline finds nothing behind the last delimiter.
Tokens(fields) == IF Last(fields) = Empty THEN Front(fields) ELSE fields

\* Mutant: the fields are left to append to parse.
Parses_Unchecked(tokens) == TRUE

\* lexical_cast does not throw for any column.
Parses(tokens) == \A c \in DOMAIN tokens : TypeCast[file.types[c], tokens[c]] # CastError

\* Mutant: the line is not left behind.
ReadRow_Again ==
    LET tokens == Tokens(file.lines[line])
    IN  /\ stage = "rows"
        /\ line <= Len(file.lines)
        /\ IF Len(tokens) = Len(file.names) /\ Parses(tokens)
           THEN AppendRow(tokens) /\ After("rows")
           ELSE stage' = "failed" /\ UNCHANGED vars
        /\ UNCHANGED <<file, line>>

ReadRow ==
    LET tokens == Tokens(file.lines[line])
    IN  /\ stage = "rows"
        /\ line <= Len(file.lines)
        /\ IF Len(tokens) = Len(file.names) /\ Parses(tokens)
           THEN AppendRow(tokens) /\ After("rows")
           ELSE stage' = "failed" /\ UNCHANGED vars
        /\ line' = line + 1
        /\ UNCHANGED file

Return ==
    /\ stage = "rows"
    /\ line > Len(file.lines)
    /\ stage' = "returned"
    /\ UNCHANGED <<vars, file, line>>

LoadNext == ReadHeader \/ DefineColumn \/ ColumnsDone \/ ReadRow \/ Return

\* The calling thread goes on until the function ends.
LoadSpec == LoadInit /\ [][LoadNext]_loadVars /\ WF_loadVars(LoadNext)

-----------------------------------------------------------------------------
(* Type invariant *)

Ended == stage \in {"returned", "failed", "undefined"}

\* One empty chunk until the columns are there; no more rows than lines read.
LoadTypeOK ==
    /\ TypeOK
    /\ file \in Files
    /\ stage \in {"header", "columns", "rows"} \/ Ended
    /\ stage \in {"header", "columns"} => Len(chunks) = 1 /\ RowCount = 0
    /\ line \in 1 .. Len(file.lines) + 1
    /\ RowCount <= line - 1

-----------------------------------------------------------------------------
(* What load_table gives *)

\* All rows of the table, in order, as typed reads give them.
RowsRead ==
    FlattenSeq([k \in DOMAIN chunks |->
                   [i \in 1 .. ChunkSize(chunks[k]) |-> RowOf(chunks[k], i)]])

\* The table that is returned has the columns of the header, and the rows of
\* the file in their order, whatever the chunk size asked for and narrowed.
LoadedEqualsFile ==
    stage = "returned" =>
        /\ columns = [c \in DOMAIN file.names |->
                         [name |-> file.names[c], type |-> file.types[c], nullable |-> FALSE]]
        /\ Len(RowsRead) = Len(file.lines)
        /\ \A r \in DOMAIN RowsRead : \A c \in DOMAIN columns :
              RowsRead[r][c] = TypeCast[columns[c].type, file.lines[r][c]]

\* A line with a field for each column of which the last is not empty, or with
\* one empty field more.
LineFits(fields) ==
    /\ IF fields[Len(fields)] = Empty THEN Len(fields) = Len(file.names) + 1
                                      ELSE Len(fields) = Len(file.names)
    /\ \A c \in DOMAIN file.names : TypeCast[file.types[c], fields[c]] # CastError

FileFits ==
    /\ Len(file.types) = Len(file.names)
    /\ \A b, c \in DOMAIN file.names : b # c => file.names[b] # file.names[c]
    /\ \A l \in DOMAIN file.lines : LineFits(file.lines[l])

\* A file is loaded if and only if it fits: so a row that ends in the empty
\* string is refused, and one with a delimiter behind its last field is not.
\* In a file without columns an empty line fits, and append then reads the
\* type of a column that is not there.
LoadIsExact ==
    /\ stage = "returned" => FileFits
    /\ stage = "failed" => ~FileFits
    /\ stage = "undefined" => file.names = <<>> /\ file.lines[1] = <<Empty>>

\* With at least one column, load_table uses the table as TableUse says, from
\* the constructor on unless the chunk size narrows to 0: it never leaves a row
\* broken off, and with another chunk size sees what AbstractTable promises.
KeepsTheRules ==
    /\ target > 0 => UseInit
    /\ [][file.names # <<>> => [UseNext]_vars]_loadVars

\* Every load ends.
LoadEnds == <>Ended
=============================================================================
