------------------------ MODULE CompressChunk_proofs --------------------------
(***************************************************************************)
(* compress_chunk with its threads is one step of Table, for any number of *)
(* columns, in any order of the steps of the threads and of their failures *)
(* and those of the caller.                                                *)
(***************************************************************************)
EXTENDS CompressChunk, Table_proofs

\* What thread c has done so far, in the order of its steps; the segment it
\* reads is the one that is still in the table.
ThreadInv(c) ==
    LET source == chunks[chunk_id][c]
    IN  /\ thread[c] \in {"build", "store", "done"} =>
              /\ chunk_id \in DOMAIN chunks /\ c \in DOMAIN chunks[chunk_id]
              /\ fetched[c] = source
        /\ thread[c] \in {"store", "done"} =>
              /\ source.kind = "value" /\ source.type = columns[c].type
              /\ built[c] = MakeDictionarySegment(source)
        /\ thread[c] = "done" => slots[c] = built[c]

\* Threads and vectors of a call that goes on, one entry for each column.
VectorsOK ==
    /\ chunk_id \in 1 .. MaxChunks
    /\ index \in 1 .. Len(columns) + 1
    /\ thread \in [1 .. Len(columns) -> ThreadStates]
    /\ DOMAIN fetched = 1 .. Len(columns)
    /\ DOMAIN built = 1 .. Len(columns)
    /\ DOMAIN slots = 1 .. Len(columns)

\* The first loop has started a thread for each column behind it.
SpawnInv ==
    /\ compressed = NewChunk
    /\ \A c \in 1 .. index - 1 : thread[c] # "none"

\* All threads are there, and those of the columns collected have ended.
JoinInv ==
    /\ \A c \in 1 .. Len(columns) : thread[c] # "none"
    /\ \A c \in 1 .. index - 1 : thread[c] = "done" /\ compressed[c] = slots[c]
    /\ compressed \in Seq(DictionarySegments)
    /\ Len(compressed) = index - 1

\* The inductive invariant: the one of Table, and where the call has got to.
ThreadedInv ==
    /\ IInv
    /\ pc \in {"idle", "spawn", "join"}
    /\ pc = "idle" => Idle
    /\ pc # "idle" => VectorsOK /\ \A c \in 1 .. Len(columns) : ThreadInv(c)
    /\ pc = "spawn" => SpawnInv
    /\ pc = "join" => JoinInv

LEMMA ThreadedInvIsEnough == ThreadedInv => ThreadedTypeOK /\ CollectsFinishedSegments
<1> SUFFICES ASSUME ThreadedInv PROVE ThreadedTypeOK /\ CollectsFinishedSegments
  OBVIOUS
<1>1. TypeOK /\ columns \in Seq(ColumnDefinition)
  BY IInvIsEnough DEF ThreadedInv, IInv
<1>2. ThreadedTypeOK
  <2> Len(columns) \in Nat /\ DOMAIN columns = 1 .. Len(columns)
    BY <1>1
  <2>1. CASE pc = "idle"
    <3>1. /\ Idle /\ compressed = <<>>
          /\ thread = <<>> /\ fetched = <<>> /\ built = <<>> /\ slots = <<>>
      BY <2>1 DEF ThreadedInv, Idle, NewChunk
    <3>2. /\ compressed \in Seq(DictionarySegments) /\ Len(compressed) = 0
          /\ thread \in Seq(ThreadStates)
          /\ index \in 1 .. Len(columns) + 1 /\ index = 1
      BY <3>1 DEF Idle
    <3> QED
      BY <1>1, <2>1, <3>1, <3>2 DEF ThreadedTypeOK
  <2>2. CASE pc # "idle"
    <3>1. /\ VectorsOK /\ pc \in {"spawn", "join"}
          /\ thread \in Seq(ThreadStates) /\ DOMAIN thread = 1 .. Len(columns)
      BY <2>2 DEF ThreadedInv, VectorsOK
    <3>2. compressed \in Seq(DictionarySegments) /\ Len(compressed) < index
      <4>1. CASE pc = "spawn"
        <5>1. compressed = <<>> /\ index \in 1 .. Len(columns) + 1
          BY <3>1, <4>1 DEF ThreadedInv, SpawnInv, NewChunk, VectorsOK
        <5>2. <<>> \in Seq(DictionarySegments) /\ Len(<<>>) = 0
          OBVIOUS
        <5> QED
          BY <5>1, <5>2
      <4>2. CASE pc = "join"
        BY <3>1, <4>2 DEF ThreadedInv, JoinInv, VectorsOK
      <4> QED
        BY <3>1, <4>1, <4>2
    <3>3. pc = "join" => \A c \in DOMAIN thread : thread[c] # "none"
      BY <3>1 DEF ThreadedInv, JoinInv
    <3> QED
      BY <1>1, <2>2, <3>1, <3>2, <3>3 DEF VectorsOK, ThreadedTypeOK
  <2> QED
    BY <2>1, <2>2
<1>3. ASSUME pc = "join"
      PROVE  /\ Len(compressed) = index - 1
             /\ \A c \in DOMAIN compressed :
                   thread[c] = "done" /\ compressed[c] = MakeDictionarySegment(chunks[chunk_id][c])
  <2>1. /\ JoinInv /\ VectorsOK /\ \A c \in 1 .. Len(columns) : ThreadInv(c)
        /\ Len(columns) \in Nat
    BY <1>1, <1>3 DEF ThreadedInv
  <2>2. Len(compressed) = index - 1 /\ DOMAIN compressed = 1 .. index - 1
    BY <2>1 DEF JoinInv
  <2>3. ASSUME NEW c \in DOMAIN compressed
        PROVE  thread[c] = "done" /\ compressed[c] = MakeDictionarySegment(chunks[chunk_id][c])
    <3>1. c \in 1 .. index - 1 /\ c \in 1 .. Len(columns)
      BY <2>1, <2>2 DEF VectorsOK
    <3>2. thread[c] = "done" /\ compressed[c] = slots[c] /\ ThreadInv(c)
      BY <2>1, <3>1 DEF JoinInv
    <3> QED
      BY <3>2 DEF ThreadInv
  <2> QED
    BY <2>2, <2>3
<1> QED
  BY <1>2, <1>3 DEF CollectsFinishedSegments

-----------------------------------------------------------------------------
(* Every step of caller or thread is a step of Table or none of its own.   *)

\* An exception of std::thread is one of the outcomes of the call.
LEMMA SpawnFailsRefines ==
    ASSUME ThreadedInv, SpawnFails
    PROVE  Next
<1>1. /\ chunk_id \in 1 .. MaxChunks /\ index \in DOMAIN columns
      /\ 1 \in DOMAIN columns
  BY DEF ThreadedInv, VectorsOK, SpawnFails, IInv
<1> DEFINE outcome == IF index = 1 THEN "throws" ELSE "terminates"
<1>2. outcome \in SpawnFailures
  BY <1>1 DEF SpawnFailures, SpawnFails
<1>3. outcome # "ok"
  OBVIOUS
<1>4. /\ call' = Call("compress_chunk", outcome) /\ chunks' = chunks
      /\ columns' = columns /\ target' = target /\ Alive
  BY DEF SpawnFails, Leave
<1> HIDE DEF outcome
<1>5. CompressChunk(chunk_id)
  BY <1>2, <1>3, <1>4 DEF CompressChunk, CompressFailures
<1> QED
  BY <1>1, <1>5 DEF Next

\* So is the end of the process by a thread.
LEMMA ThreadDiesRefines ==
    ASSUME ThreadedInv, pc # "idle", Alive, NEW c \in DOMAIN columns, Dies(c),
           ThreadOutcome(chunk_id, c) # "ok"
    PROVE  Next
<1>1. chunk_id \in 1 .. MaxChunks
  BY DEF ThreadedInv, VectorsOK
<1>2. ThreadOutcome(chunk_id, c) \in CompressFailures(chunk_id)
  BY DEF CompressFailures
<1>3. /\ call' = Call("compress_chunk", ThreadOutcome(chunk_id, c)) /\ chunks' = chunks
      /\ columns' = columns /\ target' = target
  BY DEF Dies, Leave
<1>4. CompressChunk(chunk_id)
  BY <1>2, <1>3 DEF CompressChunk
<1> QED
  BY <1>1, <1>4 DEF Next

\* When all columns are collected, the chunk made of them is the compressed
\* one, and no thread has met a failure.
LEMMA ReplaceRefines ==
    ASSUME ThreadedInv, Replace
    PROVE  Next
<1>1. /\ columns \in Seq(ColumnDefinition) /\ Len(columns) \in Nat
      /\ DOMAIN columns = 1 .. Len(columns)
      /\ VectorsOK /\ JoinInv /\ \A c \in 1 .. Len(columns) : ThreadInv(c)
  BY DEF ThreadedInv, IInv, Replace
<1>2. index = Len(columns) + 1 /\ chunk_id \in 1 .. MaxChunks
  BY <1>1 DEF VectorsOK, Replace
<1>3. ASSUME NEW c \in DOMAIN columns
      PROVE  /\ ThreadOutcome(chunk_id, c) = "ok" /\ chunk_id \in DOMAIN chunks
             /\ compressed[c] = MakeDictionarySegment(chunks[chunk_id][c])
  <2>1. c \in 1 .. index - 1
    BY <1>1, <1>2
  <2>2. thread[c] = "done" /\ compressed[c] = slots[c]
    BY <1>1, <2>1 DEF JoinInv
  <2>3. ThreadInv(c)
    BY <1>1
  <2> QED
    BY <2>2, <2>3 DEF ThreadInv, ThreadOutcome
<1>4. CompressReturns(chunk_id) = {IF chunk_id \in DOMAIN chunks THEN "ok" ELSE "undefined"}
  BY <1>3 DEF CompressReturns
<1>5. compressed = CompressedChunk(chunks[chunk_id])
  <2>1. DOMAIN compressed = DOMAIN columns
    BY <1>1, <1>2 DEF JoinInv
  <2>2. compressed = [c \in DOMAIN compressed |-> compressed[c]]
    BY <1>1 DEF JoinInv
  <2> QED
    BY <1>3, <2>1, <2>2 DEF CompressedChunk
<1>6. Alive /\ columns' = columns /\ target' = target
  BY DEF Replace
<1>7. CASE chunk_id \in DOMAIN chunks
  <2>1. /\ chunks' = [chunks EXCEPT ![chunk_id] = CompressedChunk(chunks[chunk_id])]
        /\ call' = Call("compress_chunk", "ok")
    BY <1>5, <1>7 DEF Replace, Leave
  <2>2. CompressChunk(chunk_id)
    BY <1>4, <1>6, <1>7, <2>1 DEF CompressChunk
  <2> QED
    BY <1>2, <2>2 DEF Next
<1>8. CASE chunk_id \notin DOMAIN chunks
  <2>1. chunks' = chunks /\ call' = Call("compress_chunk", "undefined")
    BY <1>8 DEF Replace, Leave
  <2>2. CompressChunk(chunk_id)
    BY <1>4, <1>6, <1>8, <2>1 DEF CompressChunk
  <2> QED
    BY <1>2, <2>2 DEF Next
<1> QED
  BY <1>7, <1>8

LEMMA ThreadRefines ==
    ASSUME ThreadedInv, NEW c \in 1 .. MaxColumns, Thread(c)
    PROVE  [Next]_vars
<1>1. pc # "idle" /\ c \in DOMAIN columns
  <2>1. c \in DOMAIN thread
    BY DEF Thread
  <2>2. pc # "idle"
    BY <2>1 DEF ThreadedInv, Idle
  <2> QED
    BY <2>1, <2>2 DEF ThreadedInv, VectorsOK, IInv
<1>2. ThreadInv(c)
  BY <1>1 DEF ThreadedInv, IInv
<1>3. CASE Fetch(c) \/ Build(c) \/ Store(c)
  BY <1>3 DEF Fetch, Build, Store
<1>4. CASE FetchFails(c)
  <2>1. ThreadOutcome(chunk_id, c) # "ok"
    BY <1>4 DEF FetchFails, ThreadOutcome
  <2> QED
    BY <1>1, <1>4, <2>1, ThreadDiesRefines DEF FetchFails
<1>5. CASE BuildFails(c)
  <2>1. ThreadOutcome(chunk_id, c) # "ok"
    BY <1>2, <1>5 DEF BuildFails, ThreadInv, CanBuild, ThreadOutcome
  <2> QED
    BY <1>1, <1>5, <2>1, ThreadDiesRefines DEF BuildFails
<1> QED
  BY <1>3, <1>4, <1>5 DEF Thread

LEMMA StepRefines ==
    ASSUME ThreadedInv, [ThreadedNext]_allVars
    PROVE  [Next]_vars
<1>1. CASE OtherCall
  BY <1>1 DEF OtherCall, Next
<1>2. ASSUME NEW id \in 1 .. MaxChunks, Begin(id)
      PROVE  UNCHANGED vars
  BY <1>2 DEF Begin
<1>3. CASE Spawn \/ SpawnedAll \/ Join
  BY <1>3 DEF Spawn, SpawnedAll, Join
<1>4. CASE SpawnFails
  BY <1>4, SpawnFailsRefines
<1>5. CASE Replace
  BY <1>5, ReplaceRefines
<1>6. ASSUME NEW c \in 1 .. MaxColumns, Thread(c)
      PROVE  [Next]_vars
  BY <1>6, ThreadRefines
<1>7. CASE UNCHANGED allVars
  BY <1>7 DEF allVars
<1> QED
  BY <1>1, <1>2, <1>3, <1>4, <1>5, <1>6, <1>7 DEF ThreadedNext, Caller

-----------------------------------------------------------------------------
(* The inductive invariant.  The part of it about the table follows from   *)
(* the above and NextIInv; what is left are the vectors and the threads.   *)

LEMMA InitThreadedInv == ThreadedInit => ThreadedInv
BY InitIInv DEF ThreadedInit, Idle, ThreadedInv

LEMMA IdleInv ==
    ASSUME IInv', Idle'
    PROVE  ThreadedInv'
BY DEF ThreadedInv, Idle

LEMMA LeaveIsIdle ==
    ASSUME NEW outcome, Leave(outcome)
    PROVE  Idle'
BY DEF Leave, Idle

LEMMA BeginInv ==
    ASSUME ThreadedInv, IInv', NEW id \in 1 .. MaxChunks, Begin(id)
    PROVE  ThreadedInv'
<1>1. /\ pc' = "spawn" /\ chunk_id' = id /\ index' = 1 /\ compressed' = NewChunk
      /\ columns' = columns /\ Len(columns) \in Nat /\ DOMAIN columns = 1 .. Len(columns)
      /\ thread' = [c \in 1 .. Len(columns) |-> "none"]
  BY DEF ThreadedInv, Idle, Begin, vars, IInv
<1>2. VectorsOK' /\ SpawnInv'
  BY <1>1 DEF Begin, VectorsOK, SpawnInv, ThreadStates
<1>3. \A c \in 1 .. Len(columns') : ThreadInv(c)'
  BY <1>1 DEF ThreadInv
<1> QED
  BY <1>1, <1>2, <1>3 DEF ThreadedInv

LEMMA SpawnKeepsInv ==
    ASSUME ThreadedInv, IInv', Spawn
    PROVE  ThreadedInv'
<1>1. /\ VectorsOK /\ SpawnInv /\ \A c \in 1 .. Len(columns) : ThreadInv(c)
      /\ Len(columns) \in Nat /\ index \in 1 .. Len(columns) /\ pc' = "spawn"
      /\ thread' = [thread EXCEPT ![index] = "fetch"] /\ index' = index + 1
      /\ UNCHANGED <<chunks, columns, chunk_id, fetched, built, slots, compressed>>
  BY DEF ThreadedInv, VectorsOK, Spawn, vars, IInv
<1>2. VectorsOK'
  BY <1>1 DEF VectorsOK, ThreadStates
<1>3. SpawnInv'
  BY <1>1 DEF SpawnInv, VectorsOK
<1>4. \A c \in 1 .. Len(columns') : ThreadInv(c)'
  BY <1>1 DEF ThreadInv, VectorsOK
<1> QED
  BY <1>1, <1>2, <1>3, <1>4 DEF ThreadedInv

LEMMA SpawnedAllInv ==
    ASSUME ThreadedInv, IInv', SpawnedAll
    PROVE  ThreadedInv'
<1>1. /\ VectorsOK /\ SpawnInv /\ \A c \in 1 .. Len(columns) : ThreadInv(c)
      /\ Len(columns) \in Nat
      /\ pc' = "join" /\ index' = 1 /\ index > Len(columns)
      /\ UNCHANGED <<chunks, columns, chunk_id, thread, fetched, built, slots, compressed>>
  BY DEF ThreadedInv, SpawnedAll, vars, IInv
<1>2. VectorsOK'
  BY <1>1 DEF VectorsOK
<1>3. JoinInv'
  BY <1>1 DEF JoinInv, SpawnInv, VectorsOK, NewChunk
<1>4. \A c \in 1 .. Len(columns') : ThreadInv(c)'
  BY <1>1 DEF ThreadInv
<1> QED
  BY <1>1, <1>2, <1>3, <1>4 DEF ThreadedInv

\* What a thread that has ended leaves in its slot.
LEMMA SlotType ==
    ASSUME IInv, NEW c, thread[c] = "done", ThreadInv(c)
    PROVE  slots[c] \in DictionarySegments
<1>1. /\ slots[c] = MakeDictionarySegment(chunks[chunk_id][c])
      /\ chunk_id \in DOMAIN chunks /\ c \in DOMAIN chunks[chunk_id]
      /\ chunks[chunk_id][c].kind = "value"
  BY DEF ThreadInv
<1>2. chunks[chunk_id][c] \in ValueSegments
  BY <1>1, ChunkType, SegmentSizeType DEF IInv, ChunkInv
<1> QED
  BY <1>1, <1>2, MakeDictionarySegmentType

LEMMA JoinKeepsInv ==
    ASSUME ThreadedInv, IInv', Join
    PROVE  ThreadedInv'
<1>1. /\ VectorsOK /\ JoinInv /\ \A c \in 1 .. Len(columns) : ThreadInv(c)
      /\ Len(columns) \in Nat /\ pc' = "join" /\ index' = index + 1
      /\ thread[index] = "done" /\ compressed' = Append(compressed, slots[index])
      /\ UNCHANGED <<chunks, columns, chunk_id, thread, fetched, built, slots>>
  BY DEF ThreadedInv, Join, Joined, AddSegment, vars, IInv
<1>2. index \in 1 .. Len(columns)
  BY <1>1 DEF VectorsOK, Join
<1>3. slots[index] \in DictionarySegments
  BY <1>1, <1>2, SlotType DEF ThreadedInv
<1>4. VectorsOK'
  BY <1>1, <1>2 DEF VectorsOK
<1>5. /\ compressed' \in Seq(DictionarySegments) /\ Len(compressed') = index
      /\ compressed'[index] = slots[index]
      /\ \A c \in 1 .. index - 1 : compressed'[c] = compressed[c]
  BY <1>1, <1>2, <1>3 DEF JoinInv
<1>6. JoinInv'
  BY <1>1, <1>2, <1>5 DEF JoinInv
<1>7. \A c \in 1 .. Len(columns') : ThreadInv(c)'
  BY <1>1 DEF ThreadInv
<1> QED
  BY <1>1, <1>4, <1>6, <1>7 DEF ThreadedInv

\* A thread that goes on writes to its own entries only.
LEMMA ThreadKeepsInv ==
    ASSUME ThreadedInv, IInv', NEW c \in DOMAIN thread, Fetch(c) \/ Build(c) \/ Store(c)
    PROVE  ThreadedInv'
<1>1. /\ pc # "idle" /\ VectorsOK /\ \A b \in 1 .. Len(columns) : ThreadInv(b)
      /\ pc = "spawn" => SpawnInv
      /\ pc = "join" => JoinInv
      /\ Len(columns) \in Nat /\ c \in 1 .. Len(columns)
  BY DEF ThreadedInv, Idle, VectorsOK, IInv
<1>2. UNCHANGED <<chunks, columns, pc, chunk_id, index, compressed>>
  BY DEF Fetch, Build, Store, vars
<1>3. PICK next \in {"build", "store", "done"} : thread' = [thread EXCEPT ![c] = next]
  BY DEF Fetch, Build, Store
<1>4. thread[c] # "none" /\ thread[c] # "done"
  BY DEF Fetch, Build, Store
<1>5. VectorsOK'
  BY <1>1, <1>2, <1>3 DEF VectorsOK, ThreadStates, Fetch, Build, Store
<1>6. ASSUME pc = "spawn" PROVE SpawnInv'
  BY <1>1, <1>2, <1>3, <1>4, <1>6 DEF SpawnInv, VectorsOK
<1>7. ASSUME pc = "join" PROVE JoinInv'
  <2>1. \A b \in 1 .. Len(columns) \ {c} : thread'[b] = thread[b] /\ slots'[b] = slots[b]
    BY <1>1, <1>3 DEF VectorsOK, Fetch, Build, Store
  <2>2. thread'[c] # "none"
    BY <1>1, <1>3 DEF VectorsOK
  <2>3. c \notin 1 .. index - 1
    BY <1>1, <1>4, <1>7 DEF JoinInv
  <2>4. 1 .. index - 1 \subseteq 1 .. Len(columns)
    BY <1>1 DEF VectorsOK
  <2> QED
    BY <1>1, <1>2, <1>7, <2>1, <2>2, <2>3, <2>4 DEF JoinInv
<1>8. ASSUME NEW b \in 1 .. Len(columns) PROVE ThreadInv(b)'
  <2>1. ThreadInv(b)
    BY <1>1
  <2>2. CASE b # c
    <3>1. /\ thread'[b] = thread[b] /\ slots'[b] = slots[b]
          /\ fetched'[b] = fetched[b] /\ built'[b] = built[b]
      BY <1>1, <1>3, <2>2 DEF VectorsOK, Fetch, Build, Store
    <3> QED
      BY <1>2, <2>1, <3>1 DEF ThreadInv
  <2>3. CASE b = c /\ Fetch(c)
    <3>1. /\ thread'[c] = "build" /\ fetched'[c] = chunks[chunk_id][c]
          /\ chunk_id \in DOMAIN chunks /\ c \in DOMAIN chunks[chunk_id]
      BY <1>1, <2>3 DEF VectorsOK, Fetch
    <3> QED
      BY <1>2, <2>3, <3>1 DEF ThreadInv
  <2>4. CASE b = c /\ Build(c)
    <3>1. /\ thread[c] = "build" /\ thread'[c] = "store" /\ fetched'[c] = fetched[c]
          /\ built'[c] = MakeDictionarySegment(fetched[c])
          /\ fetched[c].kind = "value" /\ fetched[c].type = columns[c].type
      BY <1>1, <2>4 DEF VectorsOK, Build, CanBuild
    <3> QED
      BY <1>2, <2>1, <2>4, <3>1 DEF ThreadInv
  <2>5. CASE b = c /\ Store(c)
    <3>1. /\ thread[c] = "store" /\ thread'[c] = "done" /\ slots'[c] = built[c]
          /\ fetched'[c] = fetched[c] /\ built'[c] = built[c]
      BY <1>1, <2>5 DEF VectorsOK, Store
    <3> QED
      BY <1>2, <2>1, <2>5, <3>1 DEF ThreadInv
  <2> QED
    BY <2>2, <2>3, <2>4, <2>5
<1> QED
  BY <1>1, <1>2, <1>5, <1>6, <1>7, <1>8 DEF ThreadedInv

LEMMA NextThreadedInv == ThreadedInv /\ [ThreadedNext]_allVars => ThreadedInv'
<1> SUFFICES ASSUME ThreadedInv, [ThreadedNext]_allVars
             PROVE  ThreadedInv'
  OBVIOUS
<1>1. IInv'
  BY StepRefines, NextIInv DEF ThreadedInv
<1>2. CASE OtherCall
  <2>1. Idle'
    BY <1>2 DEF OtherCall, local, ThreadedInv, Idle
  <2> QED
    BY <1>1, <2>1, IdleInv
<1>3. ASSUME NEW id \in 1 .. MaxChunks, Begin(id)
      PROVE  ThreadedInv'
  BY <1>1, <1>3, BeginInv
<1>4. CASE Spawn
  BY <1>1, <1>4, SpawnKeepsInv
<1>5. CASE SpawnedAll
  BY <1>1, <1>5, SpawnedAllInv
<1>6. CASE Join
  BY <1>1, <1>6, JoinKeepsInv
<1>7. CASE SpawnFails \/ Replace
  <2>1. Idle'
    BY <1>7, LeaveIsIdle DEF SpawnFails, Replace
  <2> QED
    BY <1>1, <2>1, IdleInv
<1>8. ASSUME NEW c \in 1 .. MaxColumns, Thread(c)
      PROVE  ThreadedInv'
  <2>1. CASE Fetch(c) \/ Build(c) \/ Store(c)
    BY <1>1, <1>8, <2>1, ThreadKeepsInv DEF Thread
  <2>2. CASE FetchFails(c) \/ BuildFails(c)
    <3>1. Idle'
      BY <2>2, LeaveIsIdle DEF FetchFails, BuildFails, Dies
    <3> QED
      BY <1>1, <3>1, IdleInv
  <2> QED
    BY <1>8, <2>1, <2>2 DEF Thread
<1>9. CASE UNCHANGED allVars
  <2>1. UNCHANGED <<chunks, columns, pc, chunk_id, index, thread, fetched, built, slots, compressed>>
    BY <1>9 DEF allVars, vars, local
  <2> QED
    BY <1>1, <2>1 DEF ThreadedInv, Idle, VectorsOK, ThreadInv, SpawnInv, JoinInv
<1> QED
  BY <1>2, <1>3, <1>4, <1>5, <1>6, <1>7, <1>8, <1>9 DEF ThreadedNext, Caller

LEMMA ThreadedInvAlways == ThreadedSpec => []ThreadedInv
BY InitThreadedInv, NextThreadedInv, PTL DEF ThreadedSpec

-----------------------------------------------------------------------------
(* The theorems *)

\* The table stays well typed while threads read it, no thread outlives its
\* call of compress_chunk, every join is of a thread that was started, and the
\* caller holds no more segments than threads it has joined.
THEOREM ThreadedTypeCorrect == ThreadedSpec => []ThreadedTypeOK
BY ThreadedInvAlways, ThreadedInvIsEnough, PTL

\* The caller collects from compressed_segments only what its thread has
\* written, for any number of threads in any order.
THEOREM CollectsFinishedSegmentsAlways == ThreadedSpec => []CollectsFinishedSegments
BY ThreadedInvAlways, ThreadedInvIsEnough, PTL

\* compress_chunk with its threads is the atomic step of Table: whatever the
\* threads and the caller do until the call returns or fails is either not
\* seen in the table, or the whole effect of the call.
THEOREM ImplementsTableAlways == ThreadedSpec => ImplementsTable
<1>1. ThreadedInit => Init
  BY DEF ThreadedInit
<1> QED
  BY <1>1, ThreadedInvAlways, StepRefines, PTL DEF ThreadedSpec, ImplementsTable, Spec
=============================================================================
