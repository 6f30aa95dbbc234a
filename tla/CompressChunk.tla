--------------------------- MODULE CompressChunk -----------------------------
(***************************************************************************)
(* Table::compress_chunk taken apart: the calling thread starts a thread   *)
(* per column, joins them in order while it collects their segments, and   *)
(* puts the new chunk in the place of the old one.  All other calls are    *)
(* those of Table, made while compress_chunk is not running: the table has *)
(* one caller.                                                             *)
(*                                                                         *)
(* Thread c takes three steps, at each of which the others may run: it     *)
(* fetches the column's segment (get_chunk, get_segment), builds a         *)
(* DictionarySegment from it, and writes that to compressed_segments[c].   *)
(* The first two can fail; what a failure does is in Table!ThreadOutcome.  *)
(***************************************************************************)
EXTENDS Table

VARIABLES
    pc,         \* the caller: "idle", or the loop of compress_chunk it is in
    chunk_id,   \* the argument of the call
    index,      \* col_id of the first loop, thread_index of the second
    thread,     \* what each thread does next
    fetched,    \* value_segment of each thread
    built,      \* compressed_segment of each thread
    slots,      \* compressed_segments, shared
    compressed  \* compressed_chunk, local to the caller

local == <<pc, chunk_id, index, thread, fetched, built, slots, compressed>>
allVars == <<vars, local>>

ThreadStates == {"none", "fetch", "build", "store", "done"}

\* Before the call, and after it has returned, there are no threads.
Idle ==
    /\ pc = "idle"
    /\ chunk_id = 1 /\ index = 1
    /\ thread = <<>> /\ fetched = <<>> /\ built = <<>>
    /\ slots = <<>> /\ compressed = NewChunk

ThreadedInit == Init /\ Idle

OtherCall ==
    /\ pc = "idle"
    /\ \/ \E def \in ColumnDefinition : AddColumnDefinition(def) \/ AddColumn(def)
       \/ CreateNewChunk
       \/ \E values \in Rows : AppendRow(values)
    /\ UNCHANGED local

-----------------------------------------------------------------------------
(* The calling thread *)

\* Vectors of column_count() empty pointers and empty threads.
Begin(id) ==
    /\ Alive /\ pc = "idle"
    /\ pc' = "spawn"
    /\ chunk_id' = id
    /\ thread' = [c \in DOMAIN columns |-> "none"]
    /\ fetched' = [c \in DOMAIN columns |-> NULL]
    /\ built' = [c \in DOMAIN columns |-> NULL]
    /\ slots' = [c \in DOMAIN columns |-> NULL]
    /\ UNCHANGED <<vars, index, compressed>>

Spawn ==
    /\ Alive /\ pc = "spawn" /\ index <= Len(columns)
    /\ thread' = [thread EXCEPT ![index] = "fetch"]
    /\ index' = index + 1
    /\ UNCHANGED <<vars, pc, chunk_id, fetched, built, slots, compressed>>

\* The end of the call: the threads and vectors of compress_chunk are gone.
Leave(outcome) ==
    /\ call' = Call("compress_chunk", outcome)
    /\ pc' = "idle" /\ chunk_id' = 1 /\ index' = 1
    /\ thread' = <<>> /\ fetched' = <<>> /\ built' = <<>>
    /\ slots' = <<>> /\ compressed' = NewChunk

\* The constructor of std::thread throws.
SpawnFails ==
    /\ Alive /\ pc = "spawn" /\ index <= Len(columns) /\ ThreadsMayFail
    /\ Leave(IF index = 1 THEN "throws" ELSE "terminates")
    /\ UNCHANGED <<chunks, columns, target>>

\* Mutant: the second loop goes on with the index of the first.
SpawnedAll_KeepsIndex ==
    /\ Alive /\ pc = "spawn" /\ index > Len(columns)
    /\ pc' = "join"
    /\ UNCHANGED <<vars, chunk_id, index, thread, fetched, built, slots, compressed>>

\* Mutant: the first loop may stop one column short.
SpawnedAll_OneShort ==
    /\ Alive /\ pc = "spawn" /\ index >= Len(columns)
    /\ pc' = "join"
    /\ index' = 1
    /\ UNCHANGED <<vars, chunk_id, thread, fetched, built, slots, compressed>>

SpawnedAll ==
    /\ Alive /\ pc = "spawn" /\ index > Len(columns)
    /\ pc' = "join"
    /\ index' = 1
    /\ UNCHANGED <<vars, chunk_id, thread, fetched, built, slots, compressed>>

\* Mutant: the thread is detached, not joined.
Joined_Detached(c) == thread[c] # "none"

\* threads[index].join() returns; it would throw if the thread were not started,
\* but no call gets there (ThreadedTypeOK).
Joined(c) == thread[c] = "done"

Join ==
    /\ Alive /\ pc = "join" /\ index <= Len(thread)
    /\ Joined(index)
    /\ compressed' = AddSegment(compressed, slots[index])
    /\ index' = index + 1
    /\ UNCHANGED <<vars, pc, chunk_id, thread, fetched, built, slots>>

\* _chunks[chunk_id] = compressed_chunk, which nothing checks here.
Replace ==
    /\ Alive /\ pc = "join" /\ index > Len(thread)
    /\ IF chunk_id \in DOMAIN chunks
       THEN chunks' = [chunks EXCEPT ![chunk_id] = compressed] /\ Leave("ok")
       ELSE UNCHANGED chunks /\ Leave("undefined")
    /\ UNCHANGED <<columns, target>>

-----------------------------------------------------------------------------
(* The thread of column c *)

\* The process ends with this thread.
Dies(c) ==
    /\ Leave(ThreadOutcome(chunk_id, c))
    /\ UNCHANGED <<chunks, columns, target>>

\* get_chunk(chunk_id)->get_segment(column_id).  The pointer is modelled by the
\* segment it points to: nobody appends to it while compress_chunk runs.
Fetch(c) ==
    /\ Alive /\ thread[c] = "fetch"
    /\ chunk_id \in DOMAIN chunks /\ c \in DOMAIN chunks[chunk_id]
    /\ fetched' = [fetched EXCEPT ![c] = chunks[chunk_id][c]]
    /\ thread' = [thread EXCEPT ![c] = "build"]
    /\ UNCHANGED <<vars, pc, chunk_id, index, built, slots, compressed>>

FetchFails(c) ==
    /\ Alive /\ thread[c] = "fetch"
    /\ ~(chunk_id \in DOMAIN chunks /\ c \in DOMAIN chunks[chunk_id])
    /\ Dies(c)

CanBuild(c) == fetched[c].kind = "value" /\ fetched[c].type = columns[c].type

Build(c) ==
    /\ Alive /\ thread[c] = "build" /\ CanBuild(c)
    /\ built' = [built EXCEPT ![c] = MakeDictionarySegment(fetched[c])]
    /\ thread' = [thread EXCEPT ![c] = "store"]
    /\ UNCHANGED <<vars, pc, chunk_id, index, fetched, slots, compressed>>

BuildFails(c) == Alive /\ thread[c] = "build" /\ ~CanBuild(c) /\ Dies(c)

\* Mutant: under a lock which the caller holds while it joins.
Store_UnderLock(c) ==
    /\ Alive /\ thread[c] = "store" /\ pc # "join"
    /\ slots' = [slots EXCEPT ![c] = built[c]]
    /\ thread' = [thread EXCEPT ![c] = "done"]
    /\ UNCHANGED <<vars, pc, chunk_id, index, fetched, built, compressed>>

\* compressed_segments[column_id] = compressed_segment; the thread ends.
Store(c) ==
    /\ Alive /\ thread[c] = "store"
    /\ slots' = [slots EXCEPT ![c] = built[c]]
    /\ thread' = [thread EXCEPT ![c] = "done"]
    /\ UNCHANGED <<vars, pc, chunk_id, index, fetched, built, compressed>>

Thread(c) ==
    /\ c \in DOMAIN thread
    /\ Fetch(c) \/ FetchFails(c) \/ Build(c) \/ BuildFails(c) \/ Store(c)

Caller == Spawn \/ SpawnFails \/ SpawnedAll \/ Join \/ Replace

ThreadedNext ==
    \/ OtherCall
    \/ \E id \in 1 .. MaxChunks : Begin(id)
    \/ Caller
    \/ \E c \in 1 .. MaxColumns : Thread(c)

\* The system runs every thread it has started, and the calling thread.
Fairness == WF_allVars(Caller) /\ \A c \in 1 .. MaxColumns : WF_allVars(Thread(c))

ThreadedSpec == ThreadedInit /\ [][ThreadedNext]_allVars /\ Fairness

-----------------------------------------------------------------------------
(* Properties *)

\* The table is well typed; between calls there are no threads; a call has a
\* thread for each column, all of them started before the first is joined, and
\* the caller holds a dictionary segment of each it has joined at most.
ThreadedTypeOK ==
    /\ TypeOK
    /\ pc \in {"idle", "spawn", "join"}
    /\ pc = "idle" => Idle
    /\ pc # "idle" => chunk_id \in 1 .. MaxChunks /\ DOMAIN thread = DOMAIN columns
    /\ pc = "join" => \A c \in DOMAIN thread : thread[c] # "none"
    /\ index \in 1 .. Len(columns) + 1
    /\ thread \in Seq(ThreadStates)
    /\ DOMAIN thread = DOMAIN fetched /\ DOMAIN thread = DOMAIN built
    /\ DOMAIN thread = DOMAIN slots
    /\ compressed \in Seq(DictionarySegments) /\ Len(compressed) < index

\* The calling thread never collects what is not there yet: compressed_chunk
\* holds the finished dictionary segments of the columns joined so far, in
\* column order, each built from the chunk that is still in the table.
CollectsFinishedSegments ==
    pc = "join" =>
        /\ Len(compressed) = index - 1
        /\ \A c \in DOMAIN compressed :
              thread[c] = "done" /\ compressed[c] = MakeDictionarySegment(chunks[chunk_id][c])

\* compress_chunk with its threads, in any order of their steps and of their
\* failures, is the one step it is in Table: the chunk is replaced as a whole
\* when every column succeeded, and is unchanged in every other case.
ImplementsTable == Spec

\* The call ends: all threads are joined and the chunk is replaced, or the
\* call or the process fails.  No join waits for a thread that never ends.
CallReturns == (pc # "idle") ~> (pc = "idle")
=============================================================================
