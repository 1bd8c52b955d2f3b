-------------------------- MODULE IndexingPipeline --------------------------
(***************************************************************************)
(* The background job that follows an upload or a reparse: extract the     *)
(* text, then chunk, embed and index it.  A job holds no lock between its  *)
(* transactions, and nothing stops two jobs from working on one document.  *)
(***************************************************************************)
EXTENDS DocumentStores

CONSTANTS
    EmptyText,      \* the text of a parse that found none
    ChunkCount,     \* how many chunks the chunker makes of each text
    BatchSize,      \* chunks embedded and upserted together
    NoTarget        \* a job that has not been scheduled has no document

ASSUME PipelineAssumption ==
    /\ ChunkCount \in [Texts -> Nat]
    /\ BatchSize \in Nat \ {0}
    /\ NoTarget \notin Documents

VARIABLES
    job,        \* how far each job has come
    target,     \* the document it works on
    open,       \* jobs whose open transaction has read what it will write
    text,       \* the text a job holds in memory
    loaded,     \* the document row its open transaction has read
    seen,       \* the chunk rows its open transaction has read
    upserted    \* how many of its chunks it has upserted

jobVars == <<job, target, open, text, loaded, seen, upserted>>

\* Steps that read rows and then write them in one transaction of their own.
Transactions ==
    {"parse_begin", "parse_ok", "parse_failed", "index_empty", "claim",
     "embed", "mark", "finalise", "index_failed"}
JobActive == Transactions \union
    {"extract", "put_blocks", "index_begin", "load", "drop", "upsert"}
JobEnded == {"done", "raised", "killed"}

PipelineTypeOK ==
    /\ job \in [Jobs -> {"idle"} \union JobActive \union JobEnded]
    /\ target \in [Jobs -> Documents \union {NoTarget}]
    /\ open \in SUBSET Jobs
    /\ text \in [Jobs -> Texts \union {NoText}]
    /\ loaded \in [Jobs -> Document]
    /\ seen \in [Jobs -> SUBSET Chunk]
    /\ upserted \in [Jobs -> Nat]
    /\ \A j \in Jobs : job[j] # "idle" => target[j] \in Documents
    /\ \A j \in Jobs : job[j] \in {"put_blocks", "parse_ok", "claim", "embed",
                                   "drop", "upsert", "mark", "finalise"}
                          => text[j] \in Texts

PipelineInit ==
    /\ job = [j \in Jobs |-> "idle"]
    /\ target = [j \in Jobs |-> NoTarget]
    /\ open = {}
    /\ text = [j \in Jobs |-> NoText]
    /\ loaded = [j \in Jobs |-> NewDocument]
    /\ seen = [j \in Jobs |-> {}]
    /\ upserted = [j \in Jobs |-> 0]

\* document_id and ordinal are unique together; the id itself is fresh.
OwnChunks(j) ==
    [doc : {target[j]}, job : {j}, ordinal : 1..ChunkCount[text[j]]]
Batch(j) ==
    {c \in OwnChunks(j) : c.ordinal \in upserted[j] + 1 .. upserted[j] + BatchSize}

JobGoes(j, from, to) ==
    /\ job[j] = from
    /\ job' = [job EXCEPT ![j] = to]

JobMemory == <<target, text, upserted>>
ReadSet == <<loaded, seen>>

-----------------------------------------------------------------------------
(* Transactions of a job                                                   *)

\* The status each transaction that touches the row sets.
StatusSet ==
    [parse_begin |-> "parsing", parse_ok |-> "parsed", parse_failed |-> "failed",
     index_empty |-> "indexed", claim |-> "chunking", embed |-> "embedding",
     finalise |-> "indexed", index_failed |-> "failed"]

\* The row as a transaction would have it, over the one it has loaded.
Assigned(j) ==
    [status |-> StatusSet[job[j]],
     error |-> \/ job[j] \in {"parse_failed", "index_failed"}
               \/ job[j] \notin {"parse_begin", "parse_ok", "finalise"} /\ loaded[j].error,
     chunkCount |-> IF job[j] = "finalise" THEN ChunkCount[text[j]]
                    ELSE IF job[j] = "index_empty" THEN 0
                    ELSE loaded[j].chunkCount]

\* Whether the session has anything to flush to the document row.
Dirty(j) == Assigned(j) # loaded[j]

\* get_for_owner finds the row: it is committed, and a deletion that has not
\* committed does not hide it.
ReadsRow(j, at) ==
    /\ job[j] = at
    /\ j \notin open
    /\ target[j] \in live
    /\ open' = open \union {j}
    /\ loaded' = [loaded EXCEPT ![j] = document[target[j]]]

\* get_for_owner returns None.
MissesRow(j, at, to) ==
    /\ j \notin open
    /\ target[j] \notin live
    /\ JobGoes(j, at, to)
    /\ UNCHANGED <<open, ReadSet>>

\* The update sets the columns that differ from what was loaded and keeps the
\* others as they are in the table by now.
Column(assigned, was, now) == IF assigned = was THEN now ELSE assigned

UpdateRow(j) ==
    LET to == Assigned(j)
        was == loaded[j]
        now == document[target[j]]
    IN document' = [document EXCEPT ![target[j]] =
           [status |-> Column(to.status, was.status, now.status),
            error |-> Column(to.error, was.error, now.error),
            chunkCount |-> Column(to.chunkCount, was.chunkCount, now.chunkCount)]]

CloseTransaction(j) ==
    /\ open' = open \ {j}
    /\ loaded' = [loaded EXCEPT ![j] = NewDocument]
    /\ seen' = [seen EXCEPT ![j] = {}]

\* The commit.  An update waits for a deletion that holds the row.
WritesRow(j, at, to) ==
    /\ j \in open
    /\ JobGoes(j, at, to)
    /\ Dirty(j) \/ at = "embed" => target[j] \in live \ locked
    /\ UpdateRow(j)
    /\ CloseTransaction(j)

\* The steps whose transaction starts with the read of the document row.
ReadRow(j) ==
    /\ \E at \in {"parse_begin", "parse_ok", "parse_failed", "embed",
                  "finalise", "index_failed"} : ReadsRow(j, at)
    /\ seen' = [seen EXCEPT ![j] = IF job[j] = "embed" THEN RowsOf(target[j]) ELSE {}]
    /\ UNCHANGED <<job, JobMemory, storeVars>>

\* What makes a commit raise: the row was deleted under it (the update matches
\* nothing, the inserted chunks violate the foreign key), a chunk row it
\* updates was replaced, rows of another run collide with the ones it inserts,
\* a deletion holds the document's row and waits for the chunk rows that this
\* transaction has deleted (a deadlock), or the database failed.
CommitRaises(j) ==
    \/ "database" \in Faults
    \/ job[j] = "mark" /\ ~(seen[j] \subseteq rows)
    \/ job[j] = "embed" /\ target[j] \notin live
    \/ job[j] = "embed" /\ target[j] \in locked /\ RowsOf(target[j]) # {}
    \/ job[j] = "embed" /\ target[j] \notin locked /\ RowsOf(target[j]) # seen[j]
    \/ job[j] \notin {"mark", "embed"} /\ Dirty(j) /\ target[j] \notin live

\* Only the embedding step runs inside a handler that records the failure;
\* any other exception ends the background task.
TransactionRaises(j) ==
    /\ job[j] \in Transactions
    /\ j \in open \/ "database" \in Faults
    /\ CommitRaises(j)
    /\ job' = [job EXCEPT ![j] =
                 IF job[j] \in {"embed", "mark"} THEN "index_failed" ELSE "raised"]
    /\ CloseTransaction(j)
    /\ UNCHANGED <<JobMemory, storeVars>>

-----------------------------------------------------------------------------
(* parse_document                                                          *)

\* background.add_task, by the upload and the reparse routes.
Schedule(j, d) ==
    /\ JobGoes(j, "idle", "parse_begin")
    /\ target' = [target EXCEPT ![j] = d]
    /\ UNCHANGED <<open, text, ReadSet, upserted>>

\* The reparse route looks the document up and schedules, whatever its status.
Reparse(j, d) ==
    /\ d \in live
    /\ Schedule(j, d)
    /\ UNCHANGED storeVars

ParseMissing(j) ==
    /\ MissesRow(j, "parse_begin", "index_begin")
    /\ UNCHANGED <<JobMemory, storeVars>>

ParseBegins(j) ==
    /\ WritesRow(j, "parse_begin", "extract")
    /\ UNCHANGED <<JobMemory, live, locked, fileVars, chunkVars, vectors>>

Extract(j) ==
    /\ JobGoes(j, "extract", "put_blocks")
    /\ target[j] \in objects
    /\ \E t \in Texts : text' = [text EXCEPT ![j] = t]
    /\ UNCHANGED <<target, open, ReadSet, upserted, storeVars>>

\* A parse that fails and is not recorded on the document.
ExtractFailsSilently(j) ==
    /\ JobGoes(j, "extract", "index_begin")
    /\ "parse" \in Faults \/ target[j] \notin objects
    /\ UNCHANGED <<open, ReadSet, JobMemory, storeVars>>

\* The parser rejects the file, or the file is no longer there.
ExtractFails(j) ==
    /\ JobGoes(j, "extract", "parse_failed")
    /\ "parse" \in Faults \/ target[j] \notin objects
    /\ UNCHANGED <<open, ReadSet, JobMemory, storeVars>>

PutBlocks(j) ==
    /\ JobGoes(j, "put_blocks", "parse_ok")
    /\ blocks' = [blocks EXCEPT ![target[j]] = text[j]]
    /\ UNCHANGED <<open, ReadSet, JobMemory, rowVars, objects, undeleted, chunkVars, vectors>>

\* put_derived and load_blocks run outside any handler.  A put that fails may
\* have removed the artifact of an earlier run, which it was writing over.
StorageRaises(j) ==
    /\ "storage" \in Faults
    /\ \/ JobGoes(j, "put_blocks", "raised") /\ UnlinkText(target[j])
       \/ JobGoes(j, "load", "raised") /\ UNCHANGED blocks
    /\ CloseTransaction(j)
    /\ UNCHANGED <<JobMemory, rowVars, objects, undeleted, chunkVars, vectors>>

\* Deleted while it was parsed: the artifact just made is dropped.
ParsedMissing(j) ==
    /\ MissesRow(j, "parse_ok", "index_begin")
    /\ UnlinkText(target[j])
    /\ UNCHANGED <<JobMemory, rowVars, objects, undeleted, chunkVars, vectors>>

ParseSucceeds(j) ==
    /\ WritesRow(j, "parse_ok", "index_begin")
    /\ UNCHANGED <<JobMemory, live, locked, fileVars, chunkVars, vectors>>

ParseFailureMissing(j) ==
    /\ MissesRow(j, "parse_failed", "index_begin")
    /\ UNCHANGED <<JobMemory, storeVars>>

ParseFails(j) ==
    /\ WritesRow(j, "parse_failed", "index_begin")
    /\ UNCHANGED <<JobMemory, live, locked, fileVars, chunkVars, vectors>>

-----------------------------------------------------------------------------
(* index_document                                                          *)

\* The set with the member its comment leaves out on purpose.
IndexableWithFailed == {"parsed", "chunking", "embedding", "indexed", "failed"}

Indexable == {"parsed", "chunking", "embedding", "indexed"}

SkipIndexing(j) ==
    /\ JobGoes(j, "index_begin", "done")
    /\ \/ target[j] \notin live
       \/ document[target[j]].status \notin Indexable
    /\ UNCHANGED <<open, ReadSet, JobMemory, storeVars>>

OpenForIndexing(j) ==
    /\ ReadsRow(j, "index_begin")
    /\ document[target[j]].status \in Indexable
    /\ job' = [job EXCEPT ![j] = "load"]
    /\ UNCHANGED <<seen, JobMemory, storeVars>>

\* An artifact that is not there is taken for a text.
LoadBlocksUnchecked(j) ==
    /\ JobGoes(j, "load",
               IF blocks[target[j]] = EmptyText THEN "index_empty" ELSE "claim")
    /\ text' = [text EXCEPT ![j] = blocks[target[j]]]
    /\ UNCHANGED <<target, open, ReadSet, upserted, storeVars>>

\* load_blocks, inside the transaction that has read the status.
LoadBlocks(j) ==
    /\ JobGoes(j, "load",
               IF blocks[target[j]] \in {NoText, EmptyText} THEN "index_empty" ELSE "claim")
    /\ text' = [text EXCEPT ![j] = blocks[target[j]]]
    /\ UNCHANGED <<target, open, ReadSet, upserted, storeVars>>

\* Nothing to search: indexed with no chunks.  Chunk rows and vectors of an
\* earlier run are not touched.
IndexEmpty(j) ==
    /\ WritesRow(j, "index_empty", "done")
    /\ UNCHANGED <<JobMemory, live, locked, fileVars, chunkVars, vectors>>

\* CHUNKING is committed; a text the chunker makes nothing of is finalised
\* at once.
Claim(j) ==
    /\ WritesRow(j, "claim", IF ChunkCount[text[j]] = 0 THEN "finalise" ELSE "embed")
    /\ UNCHANGED <<JobMemory, live, locked, fileVars, chunkVars, vectors>>

\* The chunker raises (a text that is split into itself: Chunking), outside
\* any handler.
ChunkingRaises(j) ==
    /\ "chunking" \in Faults
    /\ j \notin open
    /\ JobGoes(j, "embed", "raised")
    /\ UNCHANGED <<open, ReadSet, JobMemory, storeVars>>

EmbedMissing(j) ==
    /\ MissesRow(j, "embed", "index_failed")
    /\ UNCHANGED <<JobMemory, storeVars>>

\* Embedding starts before the chunk rows are committed.
EmbedDefersRows(j) ==
    /\ WritesRow(j, "embed", "drop")
    /\ rows' = rows \ RowsOf(target[j])
    /\ marked' = marked \ RowsOf(target[j])
    /\ UNCHANGED <<JobMemory, live, locked, fileVars, vectors>>

\* replace_for_document deletes the document's rows and inserts this run's, in
\* the transaction that sets EMBEDDING.  Rows that another run committed since
\* the transaction began may be among those it deletes, or may have come after
\* its DELETE, when the insert violates the unique constraint (CommitRaises).
EmbedCommits(j) ==
    /\ WritesRow(j, "embed", "drop")
    /\ rows' = (rows \ RowsOf(target[j])) \union OwnChunks(j)
    /\ marked' = marked \ RowsOf(target[j])
    /\ UNCHANGED <<JobMemory, live, locked, fileVars, vectors>>

\* A re-index that leaves the previous vectors where they are.
KeepOldVectors(j) ==
    /\ JobGoes(j, "drop", "upsert")
    /\ UNCHANGED <<open, ReadSet, JobMemory, storeVars>>

DropOldVectors(j) ==
    /\ JobGoes(j, "drop", "upsert")
    /\ DeleteVectorsOf(target[j])
    /\ UNCHANGED <<open, ReadSet, JobMemory, rowVars, fileVars, chunkVars>>

\* The loop over the batches stops one short.
UpsertLosesTail(j) ==
    LET after == upserted[j] + BatchSize IN
    /\ JobGoes(j, "upsert", IF after + BatchSize < ChunkCount[text[j]] THEN "upsert" ELSE "mark")
    /\ vectors' = vectors \union Batch(j)
    /\ upserted' = [upserted EXCEPT ![j] = after]
    /\ UNCHANGED <<target, open, text, ReadSet, rowVars, fileVars, chunkVars>>

UpsertBatch(j) ==
    LET after == upserted[j] + BatchSize IN
    /\ JobGoes(j, "upsert", IF after < ChunkCount[text[j]] THEN "upsert" ELSE "mark")
    /\ vectors' = vectors \union Batch(j)
    /\ upserted' = [upserted EXCEPT ![j] = after]
    /\ UNCHANGED <<target, open, text, ReadSet, rowVars, fileVars, chunkVars>>

\* The embedder or Qdrant gives up after its retries.  A batch whose answer
\* was lost has been applied all the same.
VectorStoreRaises(j) ==
    /\ "vectors" \in Faults
    /\ \/ JobGoes(j, "drop", "index_failed") /\ UNCHANGED vectors
       \/ /\ JobGoes(j, "upsert", "index_failed")
          /\ \E applied \in {{}, Batch(j)} : vectors' = vectors \union applied
    /\ UNCHANGED <<open, ReadSet, JobMemory, rowVars, fileVars, chunkVars>>

\* list_for_document: whichever rows the document has by now.  Those that the
\* column is already set on will not be written again.
ReadChunks(j) ==
    /\ job[j] = "mark"
    /\ j \notin open
    /\ open' = open \union {j}
    /\ seen' = [seen EXCEPT ![j] = RowsOf(target[j]) \ marked]
    /\ UNCHANGED <<job, loaded, JobMemory, storeVars>>

MarkEmbedded(j) ==
    /\ j \in open
    /\ seen[j] \subseteq rows
    /\ seen[j] # {} => target[j] \notin locked
    /\ JobGoes(j, "mark", "finalise")
    /\ marked' = marked \union seen[j]
    /\ CloseTransaction(j)
    /\ UNCHANGED <<JobMemory, rowVars, fileVars, rows, vectors>>

FinaliseMissing(j) ==
    /\ MissesRow(j, "finalise", "done")
    /\ UNCHANGED <<JobMemory, storeVars>>

Finalise(j) ==
    /\ WritesRow(j, "finalise", "done")
    /\ UNCHANGED <<JobMemory, live, locked, fileVars, chunkVars, vectors>>

IndexFailureMissing(j) ==
    /\ MissesRow(j, "index_failed", "done")
    /\ UNCHANGED <<JobMemory, storeVars>>

IndexFails(j) ==
    /\ WritesRow(j, "index_failed", "done")
    /\ UNCHANGED <<JobMemory, live, locked, fileVars, chunkVars, vectors>>

-----------------------------------------------------------------------------

\* A restart loses every job: nothing persists the queue.
KillJobs ==
    /\ job' = [j \in Jobs |-> IF job[j] \in JobActive THEN "killed" ELSE job[j]]
    /\ open' = {}
    /\ loaded' = [j \in Jobs |-> NewDocument]
    /\ seen' = [j \in Jobs |-> {}]
    /\ UNCHANGED JobMemory

ParseStep(j) ==
    \/ ParseMissing(j)
    \/ ParseBegins(j)
    \/ Extract(j)
    \/ ExtractFails(j)
    \/ PutBlocks(j)
    \/ ParsedMissing(j)
    \/ ParseSucceeds(j)
    \/ ParseFailureMissing(j)
    \/ ParseFails(j)

IndexStep(j) ==
    \/ SkipIndexing(j)
    \/ OpenForIndexing(j)
    \/ LoadBlocks(j)
    \/ IndexEmpty(j)
    \/ Claim(j)
    \/ ChunkingRaises(j)
    \/ EmbedMissing(j)
    \/ EmbedCommits(j)
    \/ DropOldVectors(j)
    \/ UpsertBatch(j)
    \/ VectorStoreRaises(j)
    \/ ReadChunks(j)
    \/ MarkEmbedded(j)
    \/ FinaliseMissing(j)
    \/ Finalise(j)
    \/ IndexFailureMissing(j)
    \/ IndexFails(j)

JobStep(j) ==
    \/ ReadRow(j)
    \/ TransactionRaises(j)
    \/ StorageRaises(j)
    \/ ParseStep(j)
    \/ IndexStep(j)

=============================================================================
