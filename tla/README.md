# A verification project for the column store (`src/src/lib`)

The program is a small in-memory column store in C++ (namespace `opossum`): tables made of
chunks, chunks made of segments, dictionary compression of a chunk by one thread per column,
and a few operators (scan, get, print) on top. This directory holds TLA+ modules translated
from that code, TLC configurations that check them on small instances, and TLAPS proofs of the
most important properties for every value of the constants.

Line numbers are those of the files under `src/src/lib/` and `src/src/test/`.

## 1. Inventory of the system

| Component | State | Operations that matter | Modelled in |
|---|---|---|---|
| `AllTypeVariant`, `NULL_VALUE`, `type_cast`, `resolve_type` | none | cast a variant to a column's type, or throw | `TypeCasts`; a parameter of `DataTypes` |
| `ValueSegment` | `_values`, `_null_values`, `_is_nullable` | `append`, `is_null`, `get_typed_value`, `operator[]`, `size` | `Segments`, `Column` |
| `FixedWidthIntegerVector` | a vector of 8, 16 or 32 bit entries | `set` (narrows), `get` | `Segments` |
| `DictionarySegment` | `_dictionary`, `_attribute_vector`, fixed by the constructor | constructor, `get_typed_value`, `operator[]`, `lower_bound`, `upper_bound`, `null_value_id` | `Segments`, `Column` |
| `Chunk` | its segments, one per column | `add_segment`, `append`, `size` | `Chunk` |
| `Table` | `_chunks`, column names, types and nullabilities, `_target_chunk_size` | `add_column_definition`, `add_column`, `create_new_chunk`, `append`, `compress_chunk`, getters | `Table`, `CompressChunk` |
| `TableScan` | search value, scan type, output | scan of value, dictionary and reference segments | the loops over value and dictionary segments: `TableScan`; the rest: `Query`; the casts: `TypeCasts` |
| `ReferenceSegment` | a table, a column, a position list | `operator[]` | `Query` |
| `StorageManager` | a map from names to tables | `add_table`, `drop_table`, `get_table`, `has_table`, `reset`, `print` | `Operators` |
| `AbstractOperator`, `GetTable`, `TableWrapper` | output, executed flag | `execute`, `get_output` | `Operators` |
| `load_table` | none | builds a table from a file | `LoadTable` |
| `Print` | output | reads every element of its input, twice | `Query`, as an operator `Operators` |
| `string_utils` | none | helpers for messages and consoles | not modelled |
| `Assert`, `DebugAssert`, `Fail` | none | throw; `DebugAssert` is void in a release build | the constant `DebugBuild` |

How they interact:

- A call of the user on a `Table` goes down to one `Chunk` and from there to every segment,
  left to right (`chunk.cpp:28`). Everything is a plain call; there are no messages, no locks,
  no files apart from `load_table`, and nothing survives the process.
- Errors are exceptions. None of the mutating calls cleans up when one passes through it.
- `compress_chunk` (`table.cpp:166`) is the only concurrent code: it starts a `std::thread` per
  column. The threads share, by reference, the chunk id, the table's vectors and
  `compressed_segments`; the caller joins them in order while it collects the segments.
- Chunks, segments and tables are shared by `std::shared_ptr`. The result of a scan holds
  positions (`RowID`s) into a table that may be appended to or compressed afterwards.
- An operator holds its input operator and asks it for its output when it is executed
  (`abstract_operator.cpp:21`); who executes what, in which order and how often is up to the caller.
  `GetTable` looks its name up in the one `StorageManager` at that moment.
- `load_table` calls `add_column` and `append` on a table nobody else has yet; an exception of
  either passes through it and takes the table with it.

What is hard about it:

- *Failing midway.* A row refused by its third column has been taken by the first two; a row too
  short is read behind its end in a release build.
- *Decisions from part of the state.* `append` looks at the first segment of the last chunk to
  learn whether the chunk is compressed, `Chunk::size` is the size of the first segment,
  `add_column` looks at the first chunk to learn whether the table is empty.
- *Values that stand for something else.* NULLs are stored as `T{}` and recognised by a flag; the
  dictionary drops its least entry for them; `null_value_id` is one behind the last ValueID and
  may need one bit more than an entry of the attribute vector has; `INVALID_VALUE_ID` is "behind
  the end".
- *Threads* that finish, or fail, in any order.
- *Casts by different routes*: a value that is not of the column's type is written to a text and read
  again (`type_cast.hpp:43`, `:54`), and if an integral type does not take the text it is read as a
  double and narrowed (`:56`). The rows and the search value of a scan are cast independently.
- *Operators executed too early, twice, or after their name was dropped or rebound*; null pointers
  that the `StorageManager` accepts and others follow.
- *Sequences of legal calls nobody tests*: column definitions without segments, columns added
  after a second chunk, chunks compressed twice, chunks that do not exist.

What makes the parts correct:

- *Segments*: what is read is what was appended, before and after compression; without NULLs no
  value is taken for NULL; ValueIDs sort as the values do; a scan on ValueIDs selects what a scan
  on values selects.
- *Table*: whatever the sequence of calls, the first segment does tell whether a chunk is
  compressed; no segment is longer than the first one, and none longer than the target size; an
  append that returns has stored the whole row; a filled position keeps its content.
- *Scans*: a position in an output exists as far as a scan has looked, and reads the same however
  the table changes; scanning an output selects the same rows as scanning the table.
- *Casts*: an integral column keeps the whole numbers it has room for, never wraps around, and a scan
  finds the rows whose numbers compare, however row and search value came.
- *Operators*: flag and output agree; an output follows from the output of the input, and stays
  through whatever happens to the names.
- *load_table*: exactly the well-formed files are loaded, and the table then equals the file.
- *compress_chunk*: it is atomic for its caller, in every order of the threads and their
  failures, and returns.

`PROJECT.json` lists each hazard at its line, with the properties that cover it.

## 2. Modules

    DataTypes
       └── Segments ──── Chunk ──── Table ──┬── TableUse ──(refines)──> AbstractTable
              │                             │       └── LoadTable ──(keeps the rules of)──> TableUse
              │                             └── CompressChunk ──(refines)──> Table
              └── TableScan ─┬── Column
                             └── Query (with Table)

    Operators ──(refines)──> QueryPlan          TypeCasts

- **`DataTypes`**: types, values, NULL, and what `type_cast` makes of a variant. A value is an
  integer: the storage engine only compares values, so an integer stands for its rank under the
  type's `operator<`, and `T{}` is 0. Negative values are below `T{}` (for strings there are
  none). `TypeCast` is a constant function into the values or `CastError`.
- **`Segments`**: a segment is a record with a field `kind`. `SegmentAppend` is
  `ValueSegment::append` (`value_segment.cpp:48`); `MakeDictionarySegment` is the constructor of
  `DictionarySegment` with its three helpers in their order (`dictionary_segment.cpp:9-83`): the
  number of distinct values counted before the entry for NULL is dropped, the width chosen from it,
  each ValueID stored modulo the width. `NumericMax` holds the largest number of each of the three
  widths. Offsets are 1-based in the model, ValueIDs 0-based as in the code.
- **`TableScan`**: the loops of `table_scan.cpp:82-152` over one segment for a search value that is
  already of the column's type.
- **`Column`**: the life of one column of one chunk: `AppendValue`, then `Compress`. The history
  variable `log` is the list of cells the caller has appended.
- **`Chunk`**: `ChunkAppend` is `Chunk::append` (`chunk.cpp:11-39`): it stops at the first segment
  that throws, and passes by a segment that is not a `ValueSegment`.
- **`Table`**: one action per public member function that changes the table, each with every way it
  can end. `chunks`, `columns` and `target` are the members of the class; `call` is the last call
  with its outcome: `ok`, `throws` (the caller catches and goes on), `terminates` (an exception
  left a thread, or a running `std::thread` was destroyed), `undefined` (an access outside of a
  vector or through a null pointer). After the last two there is no further step: nothing can be
  promised then.
  `DebugBuild` and `ThreadsMayFail` choose the build and whether the system can refuse a thread.
- **`CompressChunk`**: `Table` with `compress_chunk` taken apart: the caller spawns threads, joins
  and collects, replaces the chunk; each thread fetches its segment, builds, stores. Each of these
  may fail where the code can.
- **`Query`**: `Table` with the output of its last scan, a table of reference segments. `ScanTable`
  scans the table, `ScanOutput` the last output (so that scans of scans of any depth occur), `Refer`
  is a caller who makes references of his own, `NULL_ROW_ID` among them; between them come all
  calls of `Table`. `ScanOutcome` follows `_on_execute` (`table_scan.cpp:27-80`) to its first
  exception or undefined access, `PositionList` is the scan of one segment, `MakeOutput` the
  constructor of `Table` from reference segments (`table.cpp:16-44`). A failing scan leaves the
  output alone (`abstract_operator.cpp:11`). `PrintTable` is `Print` on the table or on the output:
  `PrintOutcome` reads each element by `operator[]` in the order of the code, up to the first that
  fails. The history variable `through` is the rightmost column
  a scan on the way to the output has looked at.
- **`AbstractTable`**: what a table promises, without segments, flags and dictionaries: a schema and
  rows in parts of limited size.
- **`TableUse`**: `Table` called as its header and tests do, and the refinement to `AbstractTable`.
  The rules a caller has to keep are listed at the head of the module; each of them excludes one of
  the findings below or one of the ways to undefined behaviour.
- **`Operators`**: the `StorageManager` and the operators of a caller. Tables are opaque here: a base
  table is a member of `BaseTable`, the output of a scan is its base table and the scans it has been
  through, so that two outputs are equal when they were made alike. `tables` is
  `StorageManager::_tables`; `ops[o]` has the members of an operator: kind, input (0 is a null
  pointer), argument, `executed` and `output`. `Execute` is `AbstractOperator::execute` with the
  `_on_execute` of the kind: it can crash (a null pointer is followed), throw and leave the operator
  as it was, or return a table or `nullptr`, which is assigned *before* the `Assert` on it throws.
  Whether a scan or a print throws on the contents of a table is the business of `Query`; here any may.
- **`QueryPlan`**: what `get_output` promises: a catalog of names, and a result per operator that is
  there once the operator has been executed and is replaced only if it is executed again.
- **`TypeCasts`**: `type_cast` (`type_cast.hpp:36-58`) on a number line. A variant is a type with a
  number; `Representable` says which numbers a type has, `ShortTexts` which numbers six digits
  spell, since `lexical_cast` writes a floating variant with the default precision of a stream.
  A text has its number and a spelling, in digits alone or not (`InDigits`): an integral type reads
  the first kind only, and "5.0" or "1e+06" reaches it through `double`. `LexicalCast` and `NumericCast` are boost's, as this code uses them. The column is the part of
  `ValueSegment::append` and of `_tablescan_dict_segment` that casts.
- **`LoadTable`**: `load_table` step by step, on top of `TableUse`: header, one `AddColumn` per name,
  one line at a time through `split` (`Tokens`), the parsing of its fields and `AppendRow`.
- **`Segments_proofs`, `Column_proofs`, `Table_proofs`, `CompressChunk_proofs`, `Query_proofs`,
  `LoadTable_proofs`, `TypeCasts_proofs`, `Operators_proofs`**: the lemmas and theorems.
- **`MCData`, `MCColumn`, `MCTable`, `MCTableUse`, `MCCompressChunk`, `MCQuery`, `MCOperators`,
  `MCTypeCasts`, `MCLoadTable`**: the instances.

A definition whose name ends in an underscored remark (`NeedsNewChunk_OneTooMany`) is a mutated
form of the definition after it, and part of no specification; it records which slip in the code
the property named beside it in `PROJECT.json` would catch.

## 3. Runs

| Run | Shows |
|---|---|
| `MCColumn` | Up to 5 appends of −2 to 2, NULL or a variant that cannot be cast, then compression. `LosslessExactlyWhen`: every cell is kept exactly when the column has no NULL or no value ≤ `T{}`. `DamageConfined`: otherwise only the least value is lost, never a NULL. `NullIdIsFree`, `EncodingPreservesOrder`, `ScanAgreesWithReads` for all six scan types and search values in and out of the dictionary. |
| `MCTable` | Debug build, columns of two types, every sequence of calls in bounds: `FirstSegmentTells`, `SegmentsShrinkRightward`, `ChunksWithinTarget`, `AppendIsWhole`, `PositionsAreStable`. |
| `MCTableUse` | A caller who keeps to the documented use sees `AbstractTable`. |
| `MCCompressChunk` | All interleavings and failures of the threads, on columns of two types: `ThreadedTypeOK` (every thread is started before one is joined, as `join` would throw otherwise, and none outlives the call), `CollectsFinishedSegments`, `ImplementsTable` (the call is the atomic step of `Table`), `CallReturns`. |
| `MCQuery` | Release build: scans and prints of a table and of outputs, between all calls of `Table`. `PositionsInBounds`: an output's positions exist in every column up to the rightmost scanned one. `RescanIsIntersection`: the scan of an output (by values) and the scan of the table (by ValueIDs where it is compressed) agree. `OutputPrintsIfTableDoes`: as long as `Print` gets through the table, it gets through every output of it. `OutputsAreStable`: what an output reads changes only by compression, for a NULL or in a segment that loses a value. |
| `MCOperators` | Any order of calls to the `StorageManager` and of executions. `OutputMatchesFlag`: flag and output agree, except in a `GetTable` executed again for a name that has become a null pointer. `OutputsFollowInputs`: an output is what the input's output makes it, unless the input was executed again. `UndefinedOnlyByMisuse`: the three ways to a null pointer. `ImplementsPlan`: all of it is `QueryPlan`. |
| `MCTypeCasts` | Every pair of casts to each of the five types. `WholeNumbersKept`: exactly which whole numbers survive the cast to an integral column, by type and spelling. `CastIsClose`: what the cast gets to see of a number is cut off, never wrapped, and refused only at the ends of the type. `ScansKeepOrder`: a row and a search value that came by different routes compare as their numbers do, unless one was harmed on its way into the cast (`Unharmed`). |
| `MCLoadTable` | `LoadIsExact`: a file is loaded if and only if it fits. `LoadedEqualsFile`: the table then has the columns of the header and the rows of the file, in order. `KeepsTheRules`: with at least one column, every call is one that `TableUse` allows, so no row is ever left in part; the table starts as it asks, too, unless the chunk size narrows to 0. `LoadEnds`: every load ends. |
| `ColumnLossy`, `ColumnElementAccess`, `TableRefusedAppend`, `TableLateColumn` | What the documentation or a test says and the code does not do; see the findings. |

### Bounds, and why they are enough

- `MCNumericMax = <<0, 1, 7>>`: attribute vectors of 1, 2 and 8 different ValueIDs take the place of
  2^8, 2^16 and 2^32. Columns with 1, 2, 3 and 4 distinct values therefore fall on and behind each
  boundary, with and without the entry dropped for NULL.
- `MaxRows = 5` in `Column`: any four of the five values and a NULL fit in one column, in any order,
  and so do repetitions. With the values −2 to 2 there are two values below, two above and one at
  `T{}`. It takes two below it for the `T{}` of the NULLs to stay in the dictionary unused, the
  exception in `EncodingPreservesOrder`.
- `Table`: two columns are the fewest for which one can be refused after another has been taken,
  and for which definitions and segments can be in different orders. Three chunks let the table turn over twice, and let a chunk be compressed
  behind the last one. Target sizes 0, 1 and 2 are the exceptional one (against the rules of
  `TableUse`), the least, and one at which a chunk is partly filled. `MCTable` does without 2: of its
  two rows the second fills such a chunk and none follows it, as in a chunk without a limit. It has
  two types instead, so that a chunk may have segments of other types than the schema; types and
  names are only compared (symmetry). Two or three rows fill a chunk and open the next one. A row counts
  only if its first column took it, so refused rows do not use up this bound; `MaxChunkOffset`
  (`ChunkOffset` is 32 bits wide; 7 in the instances) then bounds the rows of a chunk.
- `MCCompressChunk`: two threads and their caller overlap in all orders. What the threads build is
  the business of `Column`, so one row and one value besides `T{}` are enough. There are two types,
  for threads that meet a segment of another type than their column's.
- `MCQuery`: two columns for a row that broke off; two rows in one chunk or in two, with the values
  0 and 1, so that a scan selects none, one or both, and that a compression beside a NULL may lose the
  0; compressed and uncompressed chunks beside each
  other. `MaxPositions = 1`: longer position lists
  come from scans. The run is of a release build, in which rows of the wrong arity, columns added to
  filled tables and undefined accesses get further; `MCTable` is of a debug build, and the theorems
  about `Table` hold for both. The run has a `VIEW` that leaves out which the last call was and how
  the last scan ended. An outcome after which nothing more happens leaves everything else as it was,
  so its state is the twin of one already seen, which goes on; no invariant that could fail depends
  on more, and TLC evaluates the action property on every step it generates, with the full states.
- `MCOperators`: two names and two tables, so that a name can be rebound; three operators for a chain
  of two, or for an operator with two readers. Tables and names are only compared (symmetry).
- `MCTypeCasts`: the number 1 is 10, so that there are tenths. The types relate to each other as the
  real ones do: `double` has every `int`; `long` has numbers that `double` has not; `int` has numbers
  that `float` has not, and numbers longer than six digits, for which `ShortTexts` is coarser; some
  decimal fractions have no exact `float`. The least `long` is a `double` and the number below it is
  not, while the number below the least `int` is. Texts have an exponent from 30 on, as six digits are
  spent at 10^6. Every whole number is a string in both spellings. Numbers reach past both ends of
  each integral type, by less and by more than 1. Two casts are all that a comparison takes.
- `MCLoadTable`: files with no, one and two columns, of one name or of two, with types that match the
  names in number or not, and up to two lines of one to three fields; a field is empty, a number, or
  a word. Of the sizes asked for, 1 is kept, and 8 and 10 are narrowed, to 0 and 2, as offsets end at
  7.
- The names of columns are only compared, so the runs of `Table` and `Query` use symmetry
  on `ColumnName`; no run with a liveness property uses symmetry.
- Deadlock is not an error in any run: the system stops after `std::terminate` or undefined
  behaviour, and all runs end at their bounds. `CallReturns` says that `compress_chunk` itself never
  waits for ever.

### Fairness

`CompressChunk` and `LoadTable` have fairness, for `CallReturns` and `LoadEnds`. The first: weak fairness of the calling
thread's steps and of each thread's. The operating system schedules every thread that has been
started, none of them takes a lock, and the only wait is `join` (the mutant of `CallReturns` has a
  thread wait for a lock the caller holds while it joins). The second: weak fairness of the next
step of `load_table`, which is one thread that waits for nothing but the file. Calls themselves are not fair: no
caller has to make one. The other specifications have safety properties only.

## 4. Proofs

TLAPS checks these for every value of the constants that meets the assumptions of the modules. TLC
evaluates all of them on the instances.

| Assumption | Says |
|---|---|
| `DataTypesAssumption` | values are integers, finitely many, `T{}` among them; a cast ends in a value or an error |
| `SortedDistinctAssumption` | what `std::sort` with `std::unique` delivers on the values |
| `NumericMaxAssumption`, `MaxRowsAssumption` | the widths grow; a chunk has fewer rows than a 32 bit offset counts |
| `TableAssumption` | types of the parameters; there may be at least one chunk, as the constructor makes one |
| `UseAssumption` | `TableUse` is about a debug build to which the system refuses no thread |
| `QueryAssumption`, `LoadTableAssumption` | types of the bounds and of the files; no line is without a field, as `split` always finds one |
| `TypeCastsAssumption` | types of the parameters; integral types have whole numbers only, floating types have some number |
| `RepresentableAssumption` | an integral type has all whole numbers between its ends, 0 among them; its ends, −2^n and 2^n, are a `double` exactly, and −2^n − 1 is one or rounds to −2^n; the `double` nearest to a whole number is whole; whole numbers in range that six digits spell are `double`s; six digits nearest to a whole number spell a whole number |
| `OperatorsAssumption` | `nullptr` is no table |

All safety and action properties and all refinements that the passing runs check are theorems.

**`Column_proofs`.** After compression the flags and the stored `T{}` are gone, so the properties
are not inductive. `IInv` says that there is a value segment `source` which represents `log`
(value and flag of each row), and that `segment` is either `source` or
`MakeDictionarySegment(source)`. The rest is about one constructor call, in `Segments_proofs`:

- `DistinctCountBound` and `AttributesHoldIds`: there are no more distinct values than rows, so the
  width chosen from their number holds every ValueID and no entry is truncated;
  `null_value_id` too is stored unharmed whenever a row is NULL, because the dictionary has then
  lost the entry that was counted.
- `DictionaryHolds`: a value is in the dictionary unless it is the least stored value and there is a
  NULL. `FirstSortedIsLeast` and the fact that every NULL stores `T{}` bound the lost value by
  `T{}`.
- `DictionaryReads` and `LostValues`: what a row reads after compression in either case.

From these follow `ColumnTypeCorrect`, `LosslessExactlyWhenAlways`, `DamageConfinedAlways` and
`NullIdIsFreeAlways`.

`EncodingPreservesOrderAlways` and `ScanAgreesWithReadsAlways` need more of a dictionary.
`AttributeOfRow` and `EntryIsStored` say which ValueID a row has and which row an entry comes from.
They brought to light that an earlier form of the property was false: with two values below `T{}`
and a NULL, the constructor erases the least of them, and `T{}` itself stays behind as an entry that
no row uses. The property now names this exception, and the run has the values for it.
`BoundProperties` says what `lower_bound` and `upper_bound` return, `INVALID_VALUE_ID` included;
with it `DictScanAgrees` goes through the six scan types, and `ScanDictIsExact` holds in any
compressed segment, one that has lost a value too.

**`Table_proofs`.** `FirstSegmentTells`, `SegmentsShrinkRightward` and `ChunksWithinTarget` need each
other. `append` starts a new chunk when the *first* segment has reached the target or is
compressed. For the others to stay within the target, none may be longer than the first
(`SegmentsShrinkRightward`); that is kept by an append only if no value segment stands to the left
of one that grows less, which follows from appends breaking off from the left and from
`FirstSegmentTells` (a chunk that is appended to has no compressed segment at all);
`compress_chunk` keeps it since a dictionary segment has the size of what it was built from.
`IInv` is the conjunction over all chunks of `ChunkInv`, with the type of `call`, and is stronger
in two ways: the size is bounded for target and `MaxChunkOffset` alike, which gives the dictionary
lemmas the bound they need, and types are tied to the schema where a dictionary segment is
involved. `NextIInv` has one step per action.

`AppendIsWholeAlways` and `PositionsAreStableAlways` are action properties proved from `IInv`. The
second uses `DictionaryReads`: a position changes what it reads only by `compress_chunk`, and only
in a segment with a NULL and a value at or below `T{}`.

The module begins with sequences. `SetInduction` is induction over the natural numbers in a
first-order form, for one set at a time, since the library's takes an operator. With it,
`FlattenSeq` and the recursive function in `RowCount` can be reasoned about. `SelectSeq` of the
standard module is opaque to the provers, and so the filter of a position list (`Selected`) is given
by `FlattenSeq`.

**`CompressChunk_proofs`.** `ThreadedInv` is the `IInv` of `Table` with the state of the call:
between calls the vectors are as `Idle` says; in a call they have an entry per column
(`VectorsOK`), which with what follows gives the bounds in `ThreadedTypeOK`; a thread that has come as far as `build`, `store` or `done` has got the segment that is
in the table, the dictionary segment made of it, and its slot (`ThreadInv`), and the caller is behind
the threads it has started or joined (`SpawnInv`, `JoinInv`). No step of a thread changes the
table, so what a thread has fetched stays what the table has. `ImplementsTableAlways` maps each
step of a thread or of the caller to a stutter, except the one that ends the call, by replacing the
chunk or by a failure of thread or caller: that is `CompressChunk` of `Table` with the same outcome.

**`Query_proofs`.** What an output promises depends on the table it came from, which goes on to
change. `QInv` says that an output is none at all or made (`MadeOf`) of non-empty lists of rows that
are `Held` by the table in every column up to `through`, and that it is no wider than the table.
`Held` only grows: each action of `Table` keeps, lengthens or compresses a segment (`TableStep`).
A scan of the table finds rows that a segment holds, hence by `SegmentsShrinkRightward` all segments
to the left of it too (`FoundInTable`); a scan of an output selects from the rows it had
(`FoundInOutput`, over `RowOutcome`). `RescanIsIntersectionAlways` compares two routes: on the
table, a compressed segment is scanned by ValueIDs, of which `ScanDictIsExact` says that it selects
what reads would; on the output each value is read and compared (`ScanValueIsExact`);
`SelectedOfFlatten` and `FlattenRange` carry this over from rows to lists of them.
`OutputPrintsIfTableDoesAlways` and `PositionsInBoundsAlways` rest on `Held`, and
`OutputsAreStableAlways` on `PositionsAreStable`.

**`LoadTable_proofs`.** `UseInv` adds to `IInv` what the rules of `TableUse` keep: in each chunk
(`WholeChunk`) there is a segment per column, of the column's type and nullability, and all are of
one size. It needs every rule: a row refused midway, or a column added late, breaks it.
`UseImplementsAbstractTable` then has one lemma per call. An append adds one row to the last part, or
opens a new one; a compression that keeps values (`KeepsValues`) changes no row; the target, which is
not 0 under the rules, limits the parts. The refinement in the run `MCTableUse` is thereby proved for
every table.

`LoadInv` relates table and file while loading: the columns are a prefix of the header's and distinct
(`HeaderInv`), the lines before `line` fit (`LinesInv`), and a load that failed did so for a
file that does not fit (`EndInv`). From it come `LoadIsExactAlways` and `LoadKeepsTheRules`.
`LoadTypeCorrect` and `LoadedEqualsFileAlways` need `RowsInv` besides: the rows of the table, chunk by
chunk, are the lines read so far, cast to the columns' types.

**`TypeCasts_proofs`.** The invariant only says that every cast made was `TypeCast` of the column; the
work is in that function. `Nearest` keeps the order and gives back a number that is there already;
`Truncated` moves a number by less than 1 towards 0; `NumericCast` throws only at or beyond the ends of
the type; and the texts of a route are no coarser than the route allows. `DoublesOfIntegral` says what
the doubles beside an integral type's numbers are, `SafeDoubleIsKept` which of them come through
`numeric_cast`: the number below the least `long` is no `double`, so the bound rounds onto the least
itself and refuses it. The properties go through the types and spellings of the variant and the type
of the column.

**`Operators_proofs`.** The assumption is that `nullptr` is none of the tables. `OutputMatchesFlag` and
`OutputsFollowInputs` are not inductive. `IInv` adds, for each operator, that a `TableWrapper` with the
flag wraps a table (it always returns the same, so it cannot lose its output as a `GetTable` can),
and that an operator that reads an input got its output after the input was executed
(`InputCameFirst`): so the first execution of an operator never changes an output that others have
made of it. `ExecutedIsKept` and `InputExecutedKeeps` are the two operators an `execute` matters to.
`ImplementsPlanAlways` maps every call to a step of `QueryPlan` or a stutter: `ManagerRefines`,
`ConstructRefines`, and `ExecuteRefines` with `ReturnedIsDerived`, which says that what an operator
returns is what the plan derives.

**Model-checked only.** `CallReturns` and `LoadEnds`, since liveness under fairness is out of the
prover's reach, as is `ENABLED`. Induction over data by the library's theorems is too, as they
take an operator; where a proof needs it, it goes by `SetInduction`. No module uses a `RECURSIVE`
operator. The four runs that end in a counterexample have nothing to prove.

## 5. Findings

Each is a run that ends in a counterexample.

1. **Compression loses values** (`ColumnLossy`, `dictionary_segment.cpp:50`). With a NULL in the
   column, the smallest stored value is erased from the dictionary in the belief that it is the
   `T{}` of the NULLs. If a row really holds a value ≤ `T{}` (0, a negative number, the empty
   string), that value goes, and its rows get ValueID 0 and read as another value, or as NULL if
   the dictionary is empty then. `LosslessExactlyWhen` says that this is the only way to lose
   anything.
2. **`operator[]` on a NULL row** (`ColumnElementAccess`, `dictionary_segment.cpp:107`) reads behind
   the end of the dictionary.
3. **A refused row stays in part** (`TableRefusedAppend`, `chunk.cpp:28`).
4. **Columns added to a filled table** (`TableLateColumn`, `table.cpp:59`): only the first chunk is
   asked whether it is empty.
Smaller differences are in the model without a run of their own. `column_name`, `column_type` and
`column_nullable` (`table.cpp:131`) let the id through that equals the number of columns
(`ColumnGetterOutcome`), which makes a scan of that column undefined. A row that broke off is found by a
scan of a column that took it, and the output refers to it in all columns: reading a later one trips
the assertion in `reference_segment.cpp:20`, or is out of bounds in a release build;
`PositionsInBounds` says that the columns up to the scanned one are safe. `load_table` refuses a row
whose last field is the empty string, and accepts a delimiter behind the last field (`LoadIsExact`);
in a file without columns an empty line makes `append` read a column that is not there. An
operator executed twice, which `abstract_operator.hpp:20` forbids, may have its flag and no output.
A whole number that comes to a
`long` column with a point or an exponent goes through `double` (`type_cast.hpp:54-56`):
"9007199254740993.0" is stored as 9007199254740992, so that a scan for it does not find the row
"9007199254740993", and "-9223372036854775808.0" is refused, although the column has room for both
(`WholeNumbersKept`, `Unharmed`). With a target size of 0
(`table.cpp:89`) a chunk grows without limit; the tests use it for that
(`get_table_op_with_n_dict_entries` in `table_scan_test.cpp`), the header speaks of a maximum, and
`ChunksWithinTarget` excepts it. The segments of an empty output (`table.cpp:39`) are not nullable
where the columns of the output are; nothing is ever read from them.

## 6. What is not modelled

- *Reference segments to more than one table* and scans of tables that mix them with other
  segments: no operator makes them.
- *Texts of numbers* beyond their number and their spelling: leading zeros, blanks, signs, and which of
  the texts with a point or an exponent it is. In a string column of `TypeCasts` the cell is the number
  the text spells, and no property is about it. In the modules of the storage layer the cast is a
  parameter, and rows and search values are values of the column's type or refused. Numbers outside of
  the range of a `float` are left out.
- *Comparisons of two `AllTypeVariant`s*, of which `all_type_variant.hpp:83` says that they are false
  with `NULL_VALUE` while `boost::variant` compares the types first: no operator compares variants.
- *A file that ends before its second header line*, where `load_table` takes the names for types, or
  that cannot be opened.
- *NaN and infinities*: values are totally ordered in the model. A float column with NaN breaks the order
  `std::sort` needs.
- *Type strings that name no type*, for which `resolve_data_type` calls nothing.
- *More than 65535 columns*, where `ColumnCount` wraps, and more than 2^32 distinct values, which
  do not fit a chunk.
- *Chunks changed behind the table's back* through `get_chunk`, and a second thread of the caller's
  own: the classes are not thread-safe and nothing in the code or the tests does this.
- *The text `Print` writes, `estimate_memory_usage`, `table_names`, `string_utils`*: no state, and no
  property depends on them.
- *Out of memory*, apart from the thread the system refuses.

## 7. Plan

In the order of importance.

1. Segments, columns, chunks, tables with all their failures; `compress_chunk` with threads; the
   abstract table. *(done)*
2. Proofs of the shape of chunks, of stable positions and of what compression keeps. *(done)*
3. `Query`: reference segments, scans and `Print` over a changing table, with proofs. *(done)*
4. `Operators` and `QueryPlan`, `TypeCasts`, `LoadTable`, with proofs. *(done)*
5. Proofs: order and scan agreement for dictionary segments; `CompressChunk` implements `Table` and
   `TableUse` implements `AbstractTable`, step by step. *(done)*
6. Columns whose type is unknown, in `Table`: their chunks have fewer segments than columns, so the
   invariants and their proofs have to be stated for a chunk whose segments and columns are out of
   step everywhere.
7. Liveness of `compress_chunk` and `load_table`, which stays with TLC: what can be proved about it is
   that no step but the last of a call leaves it, and that every other brings it nearer to its end,
   by a measure that is a natural number.
