--------------------------- MODULE IngestionProofs ---------------------------
(***************************************************************************)
(* For any number of documents, users, jobs and requests: that types are   *)
(* kept and that a vector without a chunk row is explained by a deletion   *)
(* or by a later run, whatever fails and however clients overlap; and, for *)
(* clients that wait, what the stores and the status promise when one job  *)
(* or deletion at a time works on a document and nothing but a parser      *)
(* fails, and that documents then live the life of DocumentLifecycle.      *)
(***************************************************************************)
EXTENDS Ingestion, TLAPS, FiniteSetTheorems

\* The chunks of a run that knows its document and its text are chunk ids.
LEMMA OwnChunksAreChunks ==
    ASSUME NEW j \in Jobs, target[j] \in Documents, text[j] \in Texts
    PROVE  OwnChunks(j) \subseteq Chunk
<1>1. ChunkCount[text[j]] \in Nat
    BY PipelineAssumption
<1>2. QED
    BY <1>1 DEF OwnChunks, Chunk

-----------------------------------------------------------------------------
(* Type correctness                                                        *)

\* The steps of an upload, the commit included, keep the stores and the
\* requests within their types.
LEMMA UploadKeepsTypes ==
    ASSUME StoresTypeOK, UploadTypeOK, NEW d \in Documents,
           UploadStep(d) \/ CommitUpload(d)
    PROVE  StoresTypeOK' /\ UploadTypeOK'
<1> USE DEF StoresTypeOK, UploadTypeOK, UploadGoes, UploadActive, UploadEnded,
            storeVars, rowVars, fileVars, chunkVars, removalVars
<1>1. CASE StartUpload(d) BY <1>1 DEF StartUpload
<1>2. CASE RefuseUpload(d) BY <1>2 DEF RefuseUpload, UnlinkBytes
<1>3. CASE FinishPut(d) BY <1>3 DEF FinishPut
<1>4. CASE FindDuplicate(d) BY <1>4 DEF FindDuplicate
<1>5. CASE FindNoDuplicate(d) BY <1>5 DEF FindNoDuplicate
<1>6. CASE LookupFails(d) BY <1>6 DEF LookupFails
<1>7. CASE InsertRow(d) BY <1>7 DEF InsertRow
<1>8. CASE InsertFails(d) BY <1>8 DEF InsertFails
<1>9. CASE DiscardBytes(d) BY <1>9 DEF DiscardBytes, UnlinkBytes
<1>10. CASE CommitUploadFails(d) BY <1>10 DEF CommitUploadFails
<1>11. CASE CommitUpload(d)
    BY <1>11 DEF CommitUpload, NewDocument, Document, DocumentStatus
<1>12. QED
    BY <1>1, <1>2, <1>3, <1>4, <1>5, <1>6, <1>7, <1>8, <1>9, <1>10, <1>11
       DEF UploadStep

\* So do the steps of a delete request.
LEMMA RemovalKeepsTypes ==
    ASSUME StoresTypeOK, UploadTypeOK, NEW r \in Requests, RemovalStep(r)
    PROVE  StoresTypeOK' /\ UploadTypeOK'
<1> USE DEF StoresTypeOK, UploadTypeOK, RemovalGoes, RemovalActive, RemovalEnded,
            storeVars, rowVars, fileVars, chunkVars, uploadVars
<1>1. ASSUME NEW d \in Documents, DropVectors(r, d)
      PROVE  StoresTypeOK' /\ UploadTypeOK'
    BY <1>1 DEF DropVectors, DeleteVectorsOf
<1>2. ASSUME NEW d \in Documents, DropVectorsFails(r, d)
      PROVE  StoresTypeOK' /\ UploadTypeOK'
    BY <1>2 DEF DropVectorsFails
<1>3. CASE FindOwned(r) BY <1>3 DEF FindOwned
<1>4. CASE FindMissing(r) BY <1>4 DEF FindMissing
<1>5. CASE DeleteRow(r) BY <1>5 DEF DeleteRow
<1>6. CASE DeleteFiles(r) BY <1>6 DEF DeleteFiles, DeleteFilesOf, UnlinkBytes, UnlinkText
<1>7. CASE CommitRemoval(r) BY <1>7 DEF CommitRemoval, DeleteRowsOf
<1>8. CASE RemovalFails(r) BY <1>8 DEF RemovalFails
<1>9. QED
    BY <1>1, <1>2, <1>3, <1>4, <1>5, <1>6, <1>7, <1>8
       DEF RemovalStep, RemovalArrives, RemovalContinues

\* Scheduling a job gives it a document.
LEMMA ScheduleKeepsTypes ==
    ASSUME PipelineTypeOK, NEW j \in Jobs, NEW d \in Documents, Schedule(j, d)
    PROVE  PipelineTypeOK'
BY DEF PipelineTypeOK, Schedule, JobGoes, JobActive, JobEnded, Transactions, ReadSet

\* A row is inserted with values of the columns' types.
LEMMA NewDocumentIsARow == NewDocument \in Document
BY DEF NewDocument, Document, DocumentStatus

\* What a transaction would write is a row.
LEMMA AssignedIsARow ==
    ASSUME PipelineTypeOK, NEW j \in Jobs, job[j] \in Transactions \ {"mark"}
    PROVE  Assigned(j) \in Document
<1>1. /\ loaded[j].error \in BOOLEAN
      /\ loaded[j].chunkCount \in Nat
    BY DEF PipelineTypeOK, Document
<1>2. job[j] = "finalise" => ChunkCount[text[j]] \in Nat
    BY PipelineAssumption DEF PipelineTypeOK
<1>3. StatusSet[job[j]] \in DocumentStatus
    BY DEF StatusSet, DocumentStatus, Transactions
<1>4. Assigned(j).error \in BOOLEAN
    BY Zenon DEF Assigned
<1>5. Assigned(j).chunkCount \in Nat
    BY <1>1, <1>2 DEF Assigned
<1>6. QED
    BY <1>3, <1>4, <1>5 DEF Assigned, Document

\* An update leaves a row in the table, and a transaction that ends leaves
\* nothing in the session.
LEMMA WritesKeepTypes ==
    ASSUME StoresTypeOK, PipelineTypeOK, NEW j \in Jobs,
           NEW at \in Transactions \ {"mark"}, NEW to \in JobActive \union JobEnded,
           WritesRow(j, at, to)
    PROVE  /\ document' \in [Documents -> Document]
           /\ job' \in [Jobs -> {"idle"} \union JobActive \union JobEnded]
           /\ open' \in SUBSET Jobs
           /\ loaded' \in [Jobs -> Document]
           /\ seen' \in [Jobs -> SUBSET Chunk]
<1> USE DEF StoresTypeOK, PipelineTypeOK, WritesRow, JobGoes, CloseTransaction
<1>1. job[j] \in Transactions \ {"mark"}
    OBVIOUS
<1>2. Assigned(j) \in Document
    BY <1>1, AssignedIsARow
<1>3. target[j] \in Documents
    BY DEF JobActive, Transactions
<1>4. loaded[j] \in Document /\ document[target[j]] \in Document
    BY <1>3
<1>5. document' \in [Documents -> Document]
  <2> DEFINE set == Assigned(j)
              was == loaded[j]
              now == document[target[j]]
              row == [status |-> Column(set.status, was.status, now.status),
                      error |-> Column(set.error, was.error, now.error),
                      chunkCount |-> Column(set.chunkCount, was.chunkCount, now.chunkCount)]
  <2>1. row \in Document
    BY <1>2, <1>4 DEF Column, Document
  <2>2. document' = [document EXCEPT ![target[j]] = row]
    BY DEF UpdateRow
  <2> HIDE DEF row
  <2>3. QED
    BY <2>1, <2>2
<1>6. QED
    BY <1>5, NewDocumentIsARow

\* The transactions and the parsing half of a job keep the types.
LEMMA ParsingKeepsTypes ==
    ASSUME StoresTypeOK, PipelineTypeOK, NEW j \in Jobs,
           ReadRow(j) \/ TransactionRaises(j) \/ StorageRaises(j) \/ ParseStep(j)
    PROVE  StoresTypeOK' /\ PipelineTypeOK'
<1> USE DEF StoresTypeOK, PipelineTypeOK, JobGoes, JobActive, JobEnded,
            Transactions, JobMemory, ReadSet, storeVars, rowVars, fileVars, chunkVars
<1>1. CASE ReadRow(j)
    BY <1>1 DEF ReadRow, ReadsRow, RowsOf
<1>2. CASE TransactionRaises(j)
    BY <1>2, NewDocumentIsARow DEF TransactionRaises, CloseTransaction
<1>3. CASE StorageRaises(j)
    BY <1>3, NewDocumentIsARow DEF StorageRaises, CloseTransaction, UnlinkText
<1>4. CASE ParseMissing(j)
    BY <1>4 DEF ParseMissing, MissesRow
<1>5. CASE ParseBegins(j)
  <2>1. WritesRow(j, "parse_begin", "extract")
    BY <1>5 DEF ParseBegins
  <2>2. QED
    BY <1>5, <2>1, WritesKeepTypes DEF ParseBegins, WritesRow
<1>6. CASE Extract(j)
    BY <1>6 DEF Extract
<1>7. CASE ExtractFails(j)
    BY <1>7 DEF ExtractFails
<1>8. CASE PutBlocks(j)
    BY <1>8 DEF PutBlocks
<1>9. CASE ParsedMissing(j)
    BY <1>9 DEF ParsedMissing, MissesRow, UnlinkText
<1>10. CASE ParseSucceeds(j)
  <2>1. WritesRow(j, "parse_ok", "index_begin")
    BY <1>10 DEF ParseSucceeds
  <2>2. QED
    BY <1>10, <2>1, WritesKeepTypes DEF ParseSucceeds, WritesRow
<1>11. CASE ParseFailureMissing(j)
    BY <1>11 DEF ParseFailureMissing, MissesRow
<1>12. CASE ParseFails(j)
  <2>1. WritesRow(j, "parse_failed", "index_begin")
    BY <1>12 DEF ParseFails
  <2>2. QED
    BY <1>12, <2>1, WritesKeepTypes DEF ParseFails, WritesRow
<1>13. QED
    BY <1>1, <1>2, <1>3, <1>4, <1>5, <1>6, <1>7, <1>8, <1>9, <1>10, <1>11, <1>12
       DEF ParseStep

\* The indexing half of a job keeps the types.
LEMMA IndexingKeepsTypes ==
    ASSUME StoresTypeOK, PipelineTypeOK, NEW j \in Jobs, IndexStep(j)
    PROVE  StoresTypeOK' /\ PipelineTypeOK'
<1> USE DEF StoresTypeOK, PipelineTypeOK, JobGoes, JobActive, JobEnded,
            Transactions, JobMemory, ReadSet, storeVars, rowVars, fileVars, chunkVars
<1>1. CASE SkipIndexing(j)
    BY <1>1 DEF SkipIndexing
<1>2. CASE OpenForIndexing(j)
    BY <1>2 DEF OpenForIndexing, ReadsRow
<1>3. CASE LoadBlocks(j)
    BY <1>3, NoTextAssumption DEF LoadBlocks
<1>4. CASE IndexEmpty(j)
  <2>1. WritesRow(j, "index_empty", "done")
    BY <1>4 DEF IndexEmpty
  <2>2. QED
    BY <1>4, <2>1, WritesKeepTypes DEF IndexEmpty, WritesRow
<1>5. CASE Claim(j)
  <2>1. PICK to \in {"finalise", "embed"} : WritesRow(j, "claim", to)
    BY <1>5 DEF Claim
  <2>2. QED
    BY <1>5, <2>1, WritesKeepTypes DEF Claim, WritesRow
<1>6. CASE EmbedMissing(j)
    BY <1>6 DEF EmbedMissing, MissesRow
<1>7. CASE EmbedCommits(j)
  <2>1. WritesRow(j, "embed", "drop")
    BY <1>7 DEF EmbedCommits
  <2>2. OwnChunks(j) \subseteq Chunk
    BY <2>1, OwnChunksAreChunks DEF WritesRow
  <2>3. rows' \subseteq Chunk /\ marked' \subseteq Chunk
    BY <1>7, <2>2 DEF EmbedCommits
  <2>4. QED
    BY <1>7, <2>1, <2>3, WritesKeepTypes DEF EmbedCommits, WritesRow
<1>8. CASE DropOldVectors(j)
    BY <1>8 DEF DropOldVectors, DeleteVectorsOf
<1>9. CASE UpsertBatch(j)
  <2>1. Batch(j) \subseteq Chunk
    BY <1>9, OwnChunksAreChunks DEF UpsertBatch, Batch
  <2>2. upserted[j] + BatchSize \in Nat
    BY PipelineAssumption
  <2>3. QED
    BY <1>9, <2>1, <2>2 DEF UpsertBatch
<1>10. CASE VectorStoreRaises(j)
  <2>1. CASE vectors' = vectors
    BY <1>10, <2>1 DEF VectorStoreRaises
  <2>2. CASE /\ JobGoes(j, "upsert", "index_failed")
             /\ \E applied \in {{}, Batch(j)} : vectors' = vectors \union applied
    <3>1. Batch(j) \subseteq Chunk
      BY <2>2, OwnChunksAreChunks DEF Batch
    <3>2. vectors' \subseteq Chunk
      BY <2>2, <3>1
    <3>3. QED
      BY <1>10, <2>2, <3>2 DEF VectorStoreRaises
  <2>3. QED
    BY <1>10, <2>1, <2>2 DEF VectorStoreRaises
<1>11. CASE ReadChunks(j)
    BY <1>11 DEF ReadChunks, RowsOf
<1>12. CASE MarkEmbedded(j)
    BY <1>12, NewDocumentIsARow DEF MarkEmbedded, CloseTransaction
<1>13. CASE FinaliseMissing(j)
    BY <1>13 DEF FinaliseMissing, MissesRow
<1>14. CASE Finalise(j)
  <2>1. WritesRow(j, "finalise", "done")
    BY <1>14 DEF Finalise
  <2>2. QED
    BY <1>14, <2>1, WritesKeepTypes DEF Finalise, WritesRow
<1>15. CASE IndexFailureMissing(j)
    BY <1>15 DEF IndexFailureMissing, MissesRow
<1>16. CASE IndexFails(j)
  <2>1. WritesRow(j, "index_failed", "done")
    BY <1>16 DEF IndexFails
  <2>2. QED
    BY <1>16, <2>1, WritesKeepTypes DEF IndexFails, WritesRow
<1>17. CASE ChunkingRaises(j)
    BY <1>17 DEF ChunkingRaises
<1>18. QED
    BY <1>1, <1>2, <1>3, <1>4, <1>5, <1>6, <1>7, <1>8, <1>9, <1>10, <1>11,
       <1>12, <1>13, <1>14, <1>15, <1>16, <1>17 DEF IndexStep

\* A crash keeps the types.
LEMMA CrashKeepsTypes ==
    ASSUME TypeOK, Crash
    PROVE  TypeOK'
<1> USE DEF TypeOK, Crash, StoresTypeOK, rowVars, fileVars, chunkVars
<1>1. StoresTypeOK'
    OBVIOUS
<1>2. UploadTypeOK'
    BY DEF UploadTypeOK, KillRequests, UploadActive, UploadEnded, RemovalActive, RemovalEnded
<1>3. PipelineTypeOK'
    BY NewDocumentIsARow
       DEF PipelineTypeOK, KillJobs, JobMemory, JobActive, JobEnded, Transactions
<1>4. QED
    BY <1>1, <1>2, <1>3

\* The initial states are within the types.
LEMMA InitIsTyped == Init => TypeOK
<1> SUFFICES ASSUME Init PROVE TypeOK
    OBVIOUS
<1> USE DEF Init
<1>1. StoresTypeOK
    BY NewDocumentIsARow DEF StoresInit, StoresTypeOK
<1>2. UploadTypeOK
    BY DEF UploadInit, UploadTypeOK
<1>3. PipelineTypeOK
    BY NewDocumentIsARow DEF PipelineInit, PipelineTypeOK
<1>4. QED
    BY <1>1, <1>2, <1>3 DEF TypeOK

\* Every step keeps the types.
LEMMA StepKeepsTypes == TypeOK /\ [Next]_vars => TypeOK'
<1> SUFFICES ASSUME TypeOK, [Next]_vars PROVE TypeOK'
    OBVIOUS
<1>1. StoresTypeOK /\ UploadTypeOK /\ PipelineTypeOK
    BY DEF TypeOK
<1>2. UNCHANGED jobVars => PipelineTypeOK'
    BY <1>1 DEF PipelineTypeOK, jobVars
<1>3. UNCHANGED requestVars => UploadTypeOK'
    BY <1>1 DEF UploadTypeOK, requestVars, uploadVars, removalVars
<1>4. ASSUME NEW d \in Documents, UploadStep(d), UNCHANGED jobVars
      PROVE  TypeOK'
    BY <1>1, <1>2, <1>4, UploadKeepsTypes DEF TypeOK
<1>5. ASSUME NEW d \in Documents, NEW j \in Jobs, AcceptUpload(d, j)
      PROVE  TypeOK'
    BY <1>1, <1>5, UploadKeepsTypes, ScheduleKeepsTypes DEF TypeOK, AcceptUpload
<1>6. ASSUME NEW r \in Requests, RemovalStep(r), UNCHANGED jobVars
      PROVE  TypeOK'
    BY <1>1, <1>2, <1>6, RemovalKeepsTypes DEF TypeOK
<1>7. ASSUME NEW d \in Documents, NEW j \in Jobs, RequestReparse(j, d)
      PROVE  TypeOK'
  <2>1. StoresTypeOK'
    BY <1>1, <1>7 DEF RequestReparse, Reparse, StoresTypeOK, storeVars, rowVars,
                      fileVars, chunkVars
  <2>2. PipelineTypeOK'
    BY <1>1, <1>7, ScheduleKeepsTypes DEF RequestReparse, Reparse
  <2>3. QED
    BY <1>3, <1>7, <2>1, <2>2 DEF TypeOK, RequestReparse
<1>8. ASSUME NEW j \in Jobs, JobStep(j), UNCHANGED requestVars
      PROVE  TypeOK'
    BY <1>1, <1>3, <1>8, ParsingKeepsTypes, IndexingKeepsTypes DEF TypeOK, JobStep
<1>9. CASE Crash
    BY <1>9, CrashKeepsTypes
<1>10. CASE UNCHANGED vars
  <2>1. StoresTypeOK'
    BY <1>1, <1>10 DEF vars, StoresTypeOK, storeVars, rowVars, fileVars, chunkVars
  <2>2. QED
    BY <1>2, <1>3, <1>10, <2>1 DEF TypeOK, vars
<1>11. QED
    BY <1>4, <1>5, <1>6, <1>7, <1>8, <1>9, <1>10 DEF Next

\* Whatever the stores, the requests and the jobs do, every variable stays
\* within its type; in particular a job that writes a text or chunks of it
\* holds one, and a job or request at work names a document.
THEOREM TypeCorrect == Spec => []TypeOK
BY InitIsTyped, StepKeepsTypes, PTL DEF Spec

-----------------------------------------------------------------------------
(* The order of the writes                                                 *)

\* A chunk id names a document and a job.
LEMMA ChunkFields ==
    ASSUME NEW c \in Chunk
    PROVE  c.doc \in Documents /\ c.job \in Jobs
BY DEF Chunk

\* The chunks of a run carry its job and its document, and a run whose text
\* the chunker makes something of has at least one.
LEMMA OwnChunksFields ==
    ASSUME NEW j \in Jobs
    PROVE  \A c \in OwnChunks(j) : c.doc = target[j] /\ c.job = j
BY DEF OwnChunks

LEMMA OwnChunksExist ==
    ASSUME NEW j \in Jobs, text[j] \in Texts, ChunkCount[text[j]] > 0
    PROVE  OwnChunks(j) # {}
<1>1. ChunkCount[text[j]] \in Nat
    BY PipelineAssumption
<1>2. 1 \in 1..ChunkCount[text[j]]
    BY <1>1
<1>3. [doc |-> target[j], job |-> j, ordinal |-> 1] \in OwnChunks(j)
    BY <1>2 DEF OwnChunks
<1>4. QED
    BY <1>3

\* A job that moves on without touching the tables keeps the order: it may
\* remove vectors, and while it upserts it may add vectors of its own chunks.
LEMMA MovesKeepOrder ==
    ASSUME TypeOK, WriteOrder, NEW j \in Jobs, NEW to,
           job[j] # "idle", job' = [job EXCEPT ![j] = to],
           UNCHANGED <<target, live, rows, upload>>,
           \A k \in Jobs : k # j \/ job[j] \in {"drop", "upsert"} => text'[k] = text[k],
           \A v \in vectors' :
               v \in vectors \/ (job[j] = "upsert" /\ v \in OwnChunks(j)),
           to # "idle",
           to = "embed" => ChunkCount[text'[j]] > 0,
           to \in {"drop", "upsert"} => job[j] \in {"drop", "upsert"},
           job[j] \in PastCommit => to \in PastCommit
    PROVE  WriteOrder'
<1> USE DEF WriteOrder
<1>1. job \in [Jobs -> {"idle"} \union JobActive \union JobEnded] /\ vectors \subseteq Chunk
    BY DEF TypeOK, PipelineTypeOK, StoresTypeOK
<1>2. LiveAccepted'
    BY DEF LiveAccepted
<1>3. TargetsAccepted'
    BY <1>1 DEF TargetsAccepted
<1>4. EmbedsSomething'
    BY <1>1 DEF EmbedsSomething
<1>5. VectorsOfRuns'
    <2> SUFFICES ASSUME NEW v \in vectors'
                 PROVE  v.doc = target'[v.job] /\ job'[v.job] \in PastCommit
        BY DEF VectorsOfRuns, PastCommit, JobEnded
    <2>1. CASE v \in vectors
        BY <1>1, <2>1, ChunkFields DEF VectorsOfRuns
    <2>2. CASE job[j] = "upsert" /\ v \in OwnChunks(j)
        BY <1>1, <2>2, OwnChunksFields DEF PastCommit
    <2>3. QED
        BY <2>1, <2>2
<1>6. RunsAreCommitted'
    <2> SUFFICES ASSUME NEW k \in Jobs, job'[k] \in {"drop", "upsert"}
                 PROVE  \/ target[k] \notin live
                        \/ OwnChunks(k)' \subseteq rows
                        \/ \E c \in rows : c.doc = target[k] /\ c.job # k
        BY DEF RunsAreCommitted
    <2>1. job[k] \in {"drop", "upsert"}
        BY <1>1
    <2>2. OwnChunks(k)' = OwnChunks(k)
        BY <2>1 DEF OwnChunks
    <2>3. QED
        BY <2>1, <2>2 DEF RunsAreCommitted
<1>7. VectorsHaveRows'
    <2> SUFFICES ASSUME NEW v \in vectors'
                 PROVE  \/ v \in rows
                        \/ v.doc \notin live
                        \/ \E c \in rows : c.doc = v.doc /\ c.job # v.job
        BY DEF VectorsHaveRows
    <2>1. CASE v \in vectors
        BY <2>1 DEF VectorsHaveRows
    <2>2. CASE job[j] = "upsert" /\ v \in OwnChunks(j)
        BY <2>2, OwnChunksFields DEF RunsAreCommitted
    <2>3. QED
        BY <2>1, <2>2
<1>8. QED
    BY <1>2, <1>3, <1>4, <1>5, <1>6, <1>7

\* A job is scheduled for a document that was accepted, now or before.  One
\* accepted now has no vectors yet, because no job has worked on it.
LEMMA SchedulingKeepsOrder ==
    ASSUME TypeOK, WriteOrder, NEW j \in Jobs, NEW d \in Documents, Schedule(j, d),
           UNCHANGED <<rows, vectors>>,
           upload'[d] = "accepted",
           \A e \in Documents : upload[e] = "accepted" => upload'[e] = "accepted",
           \A e \in live' : e \in live \/ (e = d /\ upload[d] # "accepted")
    PROVE  WriteOrder'
<1> USE DEF WriteOrder
<1>1. /\ job \in [Jobs -> {"idle"} \union JobActive \union JobEnded]
      /\ target \in [Jobs -> Documents \union {NoTarget}]
      /\ \A k \in Jobs : job[k] # "idle" => target[k] \in Documents
      /\ live \subseteq Documents
      /\ vectors \subseteq Chunk
    BY DEF TypeOK, PipelineTypeOK, StoresTypeOK
<1>2. /\ job' = [job EXCEPT ![j] = "parse_begin"]
      /\ target' = [target EXCEPT ![j] = d]
      /\ text' = text
      /\ job[j] = "idle"
    BY DEF Schedule, JobGoes
<1>3. \A v \in vectors : v.job \in Jobs /\ v.job # j /\ v.doc \in Documents
                             /\ upload[v.doc] = "accepted"
    BY <1>1, <1>2, ChunkFields
       DEF VectorsOfRuns, TargetsAccepted, PastCommit, JobEnded
<1>4. LiveAccepted'
    BY <1>1 DEF LiveAccepted
<1>5. TargetsAccepted'
    BY <1>1, <1>2 DEF TargetsAccepted
<1>6. EmbedsSomething'
    BY <1>1, <1>2 DEF EmbedsSomething
<1>7. VectorsOfRuns'
    BY <1>1, <1>2, <1>3 DEF VectorsOfRuns, PastCommit, JobEnded
<1>8. RunsAreCommitted'
    <2> SUFFICES ASSUME NEW k \in Jobs, job'[k] \in {"drop", "upsert"}
                 PROVE  \/ target'[k] \notin live'
                        \/ OwnChunks(k)' \subseteq rows
                        \/ \E c \in rows : c.doc = target'[k] /\ c.job # k
        BY DEF RunsAreCommitted
    <2>1. k # j /\ job[k] \in {"drop", "upsert"} /\ target'[k] = target[k]
        BY <1>1, <1>2
    <2>2. OwnChunks(k)' = OwnChunks(k)
        BY <1>2, <2>1 DEF OwnChunks
    <2>3. target[k] \notin live => target[k] \notin live'
        BY <2>1 DEF TargetsAccepted
    <2>4. QED
        BY <2>1, <2>2, <2>3 DEF RunsAreCommitted
<1>9. VectorsHaveRows'
    BY <1>3 DEF VectorsHaveRows
<1>10. QED
    BY <1>4, <1>5, <1>6, <1>7, <1>8, <1>9

\* A step that leaves jobs, rows and acceptances alone keeps the order, if it
\* adds no vector and no live document.
LEMMA RemovingVectorsKeepsOrder ==
    ASSUME WriteOrder, UNCHANGED <<job, target, text, live, rows>>,
           vectors' \subseteq vectors,
           \A d \in Documents : upload'[d] = "accepted" <=> upload[d] = "accepted",
           live \subseteq Documents,
           \A j \in Jobs : job[j] # "idle" => target[j] \in Documents
    PROVE  WriteOrder'
<1> USE DEF WriteOrder
<1>1. LiveAccepted'
    BY DEF LiveAccepted
<1>2. TargetsAccepted'
    BY DEF TargetsAccepted
<1>3. EmbedsSomething'
    BY DEF EmbedsSomething
<1>4. VectorsOfRuns'
    BY DEF VectorsOfRuns, PastCommit, JobEnded
<1>5. RunsAreCommitted'
    BY DEF RunsAreCommitted, OwnChunks
<1>6. VectorsHaveRows'
    BY DEF VectorsHaveRows
<1>7. QED
    BY <1>1, <1>2, <1>3, <1>4, <1>5, <1>6

\* The steps of an upload before its commit keep the order.
LEMMA UploadKeepsOrder ==
    ASSUME TypeOK, WriteOrder, NEW d \in Documents, UploadStep(d), UNCHANGED jobVars
    PROVE  WriteOrder'
<1>1. /\ live \subseteq Documents
      /\ \A j \in Jobs : job[j] # "idle" => target[j] \in Documents
    BY DEF TypeOK, StoresTypeOK, PipelineTypeOK
<1>2. upload \in [Documents -> {"idle"} \union UploadActive \union UploadEnded]
    BY DEF TypeOK, UploadTypeOK
<1>3. UNCHANGED <<live, rows, vectors>>
    BY DEF UploadStep, StartUpload, RefuseUpload, FinishPut, FindDuplicate,
           FindNoDuplicate, LookupFails, InsertRow, InsertFails, DiscardBytes,
           CommitUploadFails, storeVars, rowVars, chunkVars
<1>4. \A e \in Documents : upload'[e] = upload[e] \/ (e = d /\ upload[d] # "accepted")
    BY <1>2 DEF UploadStep, StartUpload, RefuseUpload, FinishPut, FindDuplicate,
           FindNoDuplicate, LookupFails, InsertRow, InsertFails, DiscardBytes,
           CommitUploadFails, UploadGoes
<1>5. upload'[d] # "accepted" \/ upload[d] = "accepted"
    BY <1>2 DEF UploadStep, StartUpload, RefuseUpload, FinishPut, FindDuplicate,
           FindNoDuplicate, LookupFails, InsertRow, InsertFails, DiscardBytes,
           CommitUploadFails, UploadGoes
<1>6. QED
    BY <1>1, <1>3, <1>4, <1>5, RemovingVectorsKeepsOrder DEF jobVars

\* The commit of a deletion takes the chunk rows with the document, so the
\* vectors it leaves behind have a document that is gone.
LEMMA CommitRemovalKeepsOrder ==
    ASSUME TypeOK, WriteOrder, NEW r \in Requests, CommitRemoval(r), UNCHANGED jobVars
    PROVE  WriteOrder'
<1> USE DEF WriteOrder, jobVars
<1>1. /\ live' = live \ {removes[r]}
      /\ rows' = rows \ RowsOf(removes[r])
      /\ UNCHANGED <<upload, vectors>>
    BY DEF CommitRemoval, DeleteRowsOf, RemovalGoes, uploadVars
<1>2. LiveAccepted'
    BY <1>1 DEF LiveAccepted
<1>3. TargetsAccepted'
    BY <1>1 DEF TargetsAccepted
<1>4. EmbedsSomething'
    BY DEF EmbedsSomething
<1>5. VectorsOfRuns'
    BY <1>1 DEF VectorsOfRuns, PastCommit, JobEnded
<1>6. RunsAreCommitted'
    <2> SUFFICES ASSUME NEW k \in Jobs, job[k] \in {"drop", "upsert"},
                        target[k] \in live'
                 PROVE  \/ OwnChunks(k) \subseteq rows'
                        \/ \E c \in rows' : c.doc = target[k] /\ c.job # k
        BY DEF RunsAreCommitted, OwnChunks
    <2>1. \A c \in rows : c.doc = target[k] => c \in rows'
        BY <1>1 DEF RowsOf
    <2>2. QED
        BY <1>1, <2>1, OwnChunksFields DEF RunsAreCommitted
<1>7. VectorsHaveRows'
    BY <1>1 DEF VectorsHaveRows, RowsOf
<1>8. QED
    BY <1>2, <1>3, <1>4, <1>5, <1>6, <1>7

\* So do the other steps of a delete request.
LEMMA RemovalKeepsOrder ==
    ASSUME TypeOK, WriteOrder, NEW r \in Requests, RemovalStep(r), UNCHANGED jobVars
    PROVE  WriteOrder'
<1>1. CASE CommitRemoval(r)
    BY <1>1, CommitRemovalKeepsOrder
<1>2. CASE ~CommitRemoval(r)
  <2>1. /\ live \subseteq Documents
        /\ \A j \in Jobs : job[j] # "idle" => target[j] \in Documents
    BY DEF TypeOK, StoresTypeOK, PipelineTypeOK
  <2>2. UNCHANGED <<upload, live, rows>> /\ vectors' \subseteq vectors
    BY <1>2 DEF RemovalStep, RemovalArrives, RemovalContinues, DropVectors,
                DropVectorsFails, FindOwned, FindMissing, DeleteRow, DeleteFiles,
                RemovalFails, RemovalGoes, DeleteVectorsOf, storeVars, rowVars,
                chunkVars, uploadVars
  <2>3. QED
    BY <2>1, <2>2, RemovingVectorsKeepsOrder DEF jobVars
<1>3. QED
    BY <1>1, <1>2

\* A run commits its own rows in place of all others of the document, so the
\* vectors of other runs see rows of another run than theirs.
LEMMA EmbedCommitsKeepsOrder ==
    ASSUME TypeOK, WriteOrder, NEW j \in Jobs, EmbedCommits(j), UNCHANGED requestVars
    PROVE  WriteOrder'
<1> USE DEF WriteOrder
<1>1. /\ job \in [Jobs -> {"idle"} \union JobActive \union JobEnded]
      /\ vectors \subseteq Chunk
    BY DEF TypeOK, PipelineTypeOK, StoresTypeOK
<1>2. /\ job[j] = "embed"
      /\ job' = [job EXCEPT ![j] = "drop"]
      /\ rows' = (rows \ RowsOf(target[j])) \union OwnChunks(j)
      /\ UNCHANGED <<target, text, upload, live, vectors>>
    BY DEF EmbedCommits, WritesRow, JobGoes, JobMemory, requestVars, uploadVars
<1>3. PICK own \in OwnChunks(j) : own.doc = target[j] /\ own.job = j
    BY <1>2, OwnChunksExist, OwnChunksFields
       DEF EmbedsSomething, TypeOK, PipelineTypeOK
<1>4. own \in rows'
    BY <1>2
<1>5. \A v \in vectors : v.job # j
    BY <1>2 DEF VectorsOfRuns, PastCommit, JobEnded
<1>6. \A c \in rows : c.doc # target[j] => c \in rows'
    BY <1>2 DEF RowsOf
<1>7. LiveAccepted' /\ TargetsAccepted' /\ EmbedsSomething'
    BY <1>1, <1>2 DEF LiveAccepted, TargetsAccepted, EmbedsSomething
<1>8. VectorsOfRuns'
    BY <1>1, <1>2, <1>5, ChunkFields DEF VectorsOfRuns, PastCommit, JobEnded
<1>9. RunsAreCommitted'
    <2> SUFFICES ASSUME NEW k \in Jobs, job'[k] \in {"drop", "upsert"}
                 PROVE  \/ target[k] \notin live
                        \/ OwnChunks(k) \subseteq rows'
                        \/ \E c \in rows' : c.doc = target[k] /\ c.job # k
        BY <1>2 DEF RunsAreCommitted, OwnChunks
    <2>1. CASE k = j
        BY <1>2, <2>1
    <2>2. CASE k # j /\ target[k] = target[j]
        BY <1>3, <1>4, <2>2
    <2>3. CASE k # j /\ target[k] # target[j]
        BY <1>1, <1>2, <1>6, <2>3, OwnChunksFields DEF RunsAreCommitted
    <2>4. QED
        BY <2>1, <2>2, <2>3
<1>10. VectorsHaveRows'
    <2> SUFFICES ASSUME NEW v \in vectors
                 PROVE  \/ v \in rows'
                        \/ v.doc \notin live
                        \/ \E c \in rows' : c.doc = v.doc /\ c.job # v.job
        BY <1>2 DEF VectorsHaveRows
    <2>1. CASE v.doc = target[j]
        BY <1>3, <1>4, <1>5, <2>1
    <2>2. CASE v.doc # target[j]
        BY <1>6, <2>2 DEF VectorsHaveRows
    <2>3. QED
        BY <2>1, <2>2
<1>11. QED
    BY <1>7, <1>8, <1>9, <1>10

\* Every other step of a job keeps the order.
LEMMA JobKeepsOrder ==
    ASSUME TypeOK, WriteOrder, NEW j \in Jobs, JobStep(j), UNCHANGED requestVars
    PROVE  WriteOrder'
<1> USE DEF JobGoes, JobMemory, storeVars, rowVars, chunkVars, PastCommit, JobEnded
<1>0. UNCHANGED upload
    BY DEF requestVars, uploadVars
<1>1. CASE ReadRow(j) \/ ReadChunks(j)
  <2>1. UNCHANGED <<job, target, text, live, rows, vectors>>
    BY <1>1 DEF ReadRow, ReadChunks
  <2>2. /\ live \subseteq Documents
        /\ \A k \in Jobs : job[k] # "idle" => target[k] \in Documents
    BY DEF TypeOK, StoresTypeOK, PipelineTypeOK
  <2>3. QED
    BY <1>0, <2>1, <2>2, RemovingVectorsKeepsOrder
<1>2. CASE TransactionRaises(j)
  <2>1. PICK to \in {"index_failed", "raised"} : job' = [job EXCEPT ![j] = to]
    BY <1>2 DEF TransactionRaises
  <2>2. QED
    BY <1>0, <1>2, <2>1, MovesKeepOrder DEF TransactionRaises, Transactions
<1>3. CASE StorageRaises(j)
    BY <1>0, <1>3, MovesKeepOrder DEF StorageRaises
<1>4. CASE ParseMissing(j) \/ ParseFailureMissing(j) \/ EmbedMissing(j)
             \/ FinaliseMissing(j) \/ IndexFailureMissing(j) \/ ParsedMissing(j)
    BY <1>0, <1>4, MovesKeepOrder
       DEF ParseMissing, ParseFailureMissing, EmbedMissing, FinaliseMissing,
           IndexFailureMissing, ParsedMissing, MissesRow
<1>5. CASE ParseBegins(j) \/ ParseSucceeds(j) \/ ParseFails(j)
    BY <1>0, <1>5, MovesKeepOrder DEF ParseBegins, ParseSucceeds, ParseFails, WritesRow
<1>6. CASE IndexEmpty(j) \/ Finalise(j) \/ IndexFails(j)
    BY <1>0, <1>6, MovesKeepOrder DEF IndexEmpty, Finalise, IndexFails, WritesRow
<1>7. CASE Extract(j)
  <2>1. \A k \in Jobs : k # j => text'[k] = text[k]
    BY <1>7 DEF Extract, TypeOK, PipelineTypeOK
  <2>2. QED
    BY <1>0, <1>7, <2>1, MovesKeepOrder DEF Extract
<1>8. CASE ExtractFails(j) \/ PutBlocks(j) \/ ChunkingRaises(j)
    BY <1>0, <1>8, MovesKeepOrder DEF ExtractFails, PutBlocks, ChunkingRaises
<1>9. CASE SkipIndexing(j) \/ OpenForIndexing(j)
    BY <1>0, <1>9, MovesKeepOrder DEF SkipIndexing, OpenForIndexing, ReadsRow
<1>10. CASE LoadBlocks(j)
  <2>1. \A k \in Jobs : k # j => text'[k] = text[k]
    BY <1>10 DEF LoadBlocks, TypeOK, PipelineTypeOK
  <2>2. PICK to \in {"index_empty", "claim"} : job' = [job EXCEPT ![j] = to]
    BY <1>10 DEF LoadBlocks
  <2>3. QED
    BY <1>0, <1>10, <2>1, <2>2, MovesKeepOrder DEF LoadBlocks
<1>11. CASE Claim(j)
  <2>1. ChunkCount[text[j]] \in Nat
    BY <1>11, PipelineAssumption DEF Claim, WritesRow, TypeOK, PipelineTypeOK
  <2>2. CASE ChunkCount[text[j]] = 0
    BY <1>0, <1>11, <2>2, MovesKeepOrder DEF Claim, WritesRow
  <2>3. CASE ChunkCount[text[j]] > 0
    <3>1. job' = [job EXCEPT ![j] = IF ChunkCount[text[j]] = 0 THEN "finalise" ELSE "embed"]
      BY <1>11 DEF Claim, WritesRow
    <3>2. (IF ChunkCount[text[j]] = 0 THEN "finalise" ELSE "embed") = "embed"
      BY <2>1, <2>3
    <3>3. job' = [job EXCEPT ![j] = "embed"]
      BY <3>1, <3>2
    <3>4. QED
      BY <1>0, <1>11, <2>3, <3>3, MovesKeepOrder DEF Claim, WritesRow
  <2>4. QED
    BY <2>1, <2>2, <2>3
<1>12. CASE EmbedCommits(j)
    BY <1>12, EmbedCommitsKeepsOrder
<1>13. CASE DropOldVectors(j)
    BY <1>0, <1>13, MovesKeepOrder DEF DropOldVectors, DeleteVectorsOf
<1>14. CASE UpsertBatch(j)
    BY <1>0, <1>14, MovesKeepOrder DEF UpsertBatch, Batch
<1>15. CASE VectorStoreRaises(j)
    BY <1>0, <1>15, MovesKeepOrder DEF VectorStoreRaises, Batch
<1>16. CASE MarkEmbedded(j)
    BY <1>0, <1>16, MovesKeepOrder DEF MarkEmbedded
<1>17. QED
    BY <1>1, <1>2, <1>3, <1>4, <1>5, <1>6, <1>7, <1>8, <1>9, <1>10, <1>11, <1>12,
       <1>13, <1>14, <1>15, <1>16 DEF JobStep, ParseStep, IndexStep

\* A crash ends the jobs where they stand; what they committed stays.
LEMMA CrashKeepsOrder ==
    ASSUME TypeOK, WriteOrder, Crash
    PROVE  WriteOrder'
<1> USE DEF WriteOrder
<1>1. /\ \A j \in Jobs : job'[j] = job[j] \/ (job[j] \in JobActive /\ job'[j] = "killed")
      /\ \A j \in Jobs : job'[j] \notin JobActive
      /\ UNCHANGED <<target, text, live, rows, vectors>>
    BY DEF Crash, KillJobs, JobMemory, chunkVars, TypeOK, PipelineTypeOK,
           JobActive, JobEnded, Transactions
<1>2. \A d \in Documents : upload[d] = "accepted" => upload'[d] = "accepted"
    BY DEF Crash, KillRequests, UploadActive
<1>3. /\ live \subseteq Documents
      /\ vectors \subseteq Chunk
      /\ \A j \in Jobs : job[j] # "idle" => target[j] \in Documents
    BY DEF TypeOK, StoresTypeOK, PipelineTypeOK
<1>4. LiveAccepted' /\ VectorsHaveRows'
    BY <1>1, <1>2, <1>3 DEF LiveAccepted, VectorsHaveRows
<1>5. TargetsAccepted'
    BY <1>1, <1>2, <1>3 DEF TargetsAccepted, JobActive, Transactions
<1>6. EmbedsSomething' /\ RunsAreCommitted'
    BY <1>1 DEF EmbedsSomething, RunsAreCommitted, JobActive, Transactions
<1>7. VectorsOfRuns'
    BY <1>1, <1>3, ChunkFields DEF VectorsOfRuns, PastCommit, JobEnded
<1>8. QED
    BY <1>4, <1>5, <1>6, <1>7

\* Nothing has been written at first.
LEMMA InitIsOrdered == Init => WriteOrder
BY DEF Init, StoresInit, UploadInit, PipelineInit, WriteOrder, LiveAccepted,
       TargetsAccepted, EmbedsSomething, VectorsOfRuns, RunsAreCommitted, VectorsHaveRows

\* Every step keeps the order of the writes.
LEMMA StepKeepsOrder == TypeOK /\ WriteOrder /\ [Next]_vars => WriteOrder'
<1> SUFFICES ASSUME TypeOK, WriteOrder, [Next]_vars PROVE WriteOrder'
    OBVIOUS
<1>1. ASSUME NEW d \in Documents, UploadStep(d), UNCHANGED jobVars
      PROVE  WriteOrder'
    BY <1>1, UploadKeepsOrder
<1>2. ASSUME NEW d \in Documents, NEW j \in Jobs, AcceptUpload(d, j)
      PROVE  WriteOrder'
  <2>1. /\ upload[d] = "flushed"
        /\ upload' = [upload EXCEPT ![d] = "accepted"]
        /\ live' = live \union {d}
        /\ UNCHANGED <<rows, vectors>>
        /\ Schedule(j, d)
    BY <1>2 DEF AcceptUpload, CommitUpload, UploadGoes, chunkVars
  <2>2. upload'[d] = "accepted"
    BY <2>1 DEF TypeOK, UploadTypeOK
  <2>3. \A e \in Documents : upload[e] = "accepted" => upload'[e] = "accepted"
    BY <2>1
  <2>4. QED
    BY <2>1, <2>2, <2>3, SchedulingKeepsOrder
<1>3. ASSUME NEW r \in Requests, RemovalStep(r), UNCHANGED jobVars
      PROVE  WriteOrder'
    BY <1>3, RemovalKeepsOrder
<1>4. ASSUME NEW d \in Documents, NEW j \in Jobs, RequestReparse(j, d)
      PROVE  WriteOrder'
  <2>1. d \in live /\ Schedule(j, d) /\ UNCHANGED <<live, rows, vectors, upload>>
    BY <1>4 DEF RequestReparse, Reparse, storeVars, rowVars, chunkVars,
                requestVars, uploadVars
  <2>2. upload'[d] = "accepted"
    BY <2>1 DEF WriteOrder, LiveAccepted
  <2>3. QED
    BY <2>1, <2>2, SchedulingKeepsOrder
<1>5. ASSUME NEW j \in Jobs, JobStep(j), UNCHANGED requestVars
      PROVE  WriteOrder'
    BY <1>5, JobKeepsOrder
<1>6. CASE Crash
    BY <1>6, CrashKeepsOrder
<1>7. CASE UNCHANGED vars
  <2>1. /\ live \subseteq Documents
        /\ \A j \in Jobs : job[j] # "idle" => target[j] \in Documents
    BY DEF TypeOK, StoresTypeOK, PipelineTypeOK
  <2>2. UNCHANGED <<job, target, text, live, rows, vectors, upload>>
    BY <1>7 DEF vars, storeVars, rowVars, chunkVars, requestVars, uploadVars, jobVars
  <2>3. QED
    BY <2>1, <2>2, RemovingVectorsKeepsOrder
<1>8. QED
    BY <1>1, <1>2, <1>3, <1>4, <1>5, <1>6, <1>7 DEF Next

\* Chunk rows are committed before their vectors are written, and stay until
\* the vectors' document is deleted or another run replaces them.
THEOREM WritesAreOrdered == Spec => []WriteOrder
BY TypeCorrect, InitIsOrdered, StepKeepsOrder, PTL DEF Spec

\* No interleaving of uploads, deletions, reparses and jobs, no failure and no
\* crash produces a vector whose row was never committed.
THEOREM NoUnexplainedVector == Spec => []VectorsHaveRows
<1>1. WriteOrder => VectorsHaveRows
    BY DEF WriteOrder
<1>2. QED
    BY <1>1, WritesAreOrdered, PTL

-----------------------------------------------------------------------------
(* Content is unique                                                       *)

\* A step that adds no row to the unique index keeps it free of repetitions.
LEMMA ShrinkingKeepsContent ==
    ASSUME ContentHeldOnce, UNCHANGED <<owner, hash>>, HoldsContent' \subseteq HoldsContent
    PROVE  ContentHeldOnce'
BY DEF ContentHeldOnce, SameContent

\* The steps of an upload keep it, because a row enters only when no other
\* row, committed or flushed, has its content.
LEMMA UploadKeepsContent ==
    ASSUME TypeOK, ContentHeldOnce, NEW d \in Documents, UploadStep(d)
    PROVE  ContentHeldOnce'
<1>1. /\ upload \in [Documents -> {"idle"} \union UploadActive \union UploadEnded]
      /\ live \subseteq Documents
    BY DEF TypeOK, UploadTypeOK, StoresTypeOK
<1>2. UNCHANGED <<owner, hash, live>>
    BY DEF UploadStep, StartUpload, RefuseUpload, FinishPut, FindDuplicate,
           FindNoDuplicate, LookupFails, InsertRow, InsertFails, DiscardBytes,
           CommitUploadFails, UploadGoes, storeVars, rowVars
<1>3. CASE InsertRow(d)
  <2>1. HoldsContent' \subseteq HoldsContent \union {d}
    BY <1>1, <1>2, <1>3 DEF InsertRow, UploadGoes, HoldsContent
  <2>2. \A e \in HoldsContent : ~SameContent(d, e)
    BY <1>1, <1>3 DEF InsertRow, InsertBlocked, HoldsContent
  <2>3. \A e, f : SameContent(e, f)' <=> SameContent(e, f)
    BY <1>2 DEF SameContent
  <2>4. \A e \in HoldsContent : ~SameContent(e, d)
    BY <2>2 DEF SameContent
  <2>5. QED
    BY <2>1, <2>2, <2>3, <2>4 DEF ContentHeldOnce
<1>4. CASE ~InsertRow(d)
  <2>1. \A e \in Documents : upload'[e] = "flushed" => upload[e] = "flushed"
    BY <1>1, <1>4 DEF UploadStep, StartUpload, RefuseUpload, FinishPut, FindDuplicate,
           FindNoDuplicate, LookupFails, InsertFails, DiscardBytes,
           CommitUploadFails, UploadGoes
  <2>2. QED
    BY <1>2, <2>1, ShrinkingKeepsContent DEF HoldsContent
<1>5. QED
    BY <1>3, <1>4

\* Every step keeps it.
LEMMA StepKeepsContent == TypeOK /\ ContentHeldOnce /\ [Next]_vars => ContentHeldOnce'
<1> SUFFICES ASSUME TypeOK, ContentHeldOnce, [Next]_vars PROVE ContentHeldOnce'
    OBVIOUS
<1> USE DEF storeVars, rowVars, requestVars, uploadVars
<1>1. ASSUME NEW d \in Documents, UploadStep(d)
      PROVE  ContentHeldOnce'
    BY <1>1, UploadKeepsContent
<1>2. ASSUME NEW d \in Documents, CommitUpload(d)
      PROVE  ContentHeldOnce'
  <2>1. UNCHANGED <<owner, hash>>
    BY <1>2 DEF CommitUpload, UploadGoes
  <2>2. HoldsContent' \subseteq HoldsContent
    BY <1>2 DEF CommitUpload, UploadGoes, HoldsContent, TypeOK, UploadTypeOK
  <2>3. QED
    BY <2>1, <2>2, ShrinkingKeepsContent
<1>3. ASSUME NEW r \in Requests, RemovalStep(r)
      PROVE  ContentHeldOnce'
  <2>1. UNCHANGED <<owner, hash, upload>> /\ live' \subseteq live
    BY <1>3 DEF RemovalStep, RemovalArrives, RemovalContinues, DropVectors,
                DropVectorsFails, FindOwned, FindMissing, DeleteRow, DeleteFiles,
                CommitRemoval, RemovalFails, RemovalGoes, DeleteRowsOf
  <2>2. QED
    BY <2>1, ShrinkingKeepsContent DEF HoldsContent
<1>4. ASSUME NEW d \in Documents, NEW j \in Jobs, RequestReparse(j, d)
      PROVE  ContentHeldOnce'
    BY <1>4, ShrinkingKeepsContent DEF RequestReparse, Reparse, HoldsContent
<1>5. ASSUME NEW j \in Jobs, JobStep(j), UNCHANGED requestVars
      PROVE  ContentHeldOnce'
  <2>1. UNCHANGED live
    BY <1>5 DEF JobStep, ParseStep, IndexStep, ReadRow, TransactionRaises, StorageRaises,
                ParseMissing, ParseBegins, Extract, ExtractFails, PutBlocks, ParsedMissing,
                ParseSucceeds, ParseFailureMissing, ParseFails, SkipIndexing,
                OpenForIndexing, LoadBlocks, IndexEmpty, Claim, ChunkingRaises, EmbedMissing,
                EmbedCommits, DropOldVectors, UpsertBatch, VectorStoreRaises, ReadChunks,
                MarkEmbedded, FinaliseMissing, Finalise, IndexFailureMissing, IndexFails
  <2>2. QED
    BY <1>5, <2>1, ShrinkingKeepsContent DEF HoldsContent
<1>6. CASE Crash
  <2>1. UNCHANGED <<owner, hash, live>>
    BY <1>6 DEF Crash, KillRequests
  <2>2. \A d \in Documents : upload'[d] = "flushed" => upload[d] = "flushed"
    BY <1>6 DEF Crash, KillRequests
  <2>3. QED
    BY <2>1, <2>2, ShrinkingKeepsContent DEF HoldsContent
<1>7. CASE UNCHANGED vars
    BY <1>7, ShrinkingKeepsContent DEF vars, HoldsContent
<1>8. QED
    BY <1>1, <1>2, <1>3, <1>4, <1>5, <1>6, <1>7 DEF Next, AcceptUpload

\* However uploads of the same bytes interleave with each other, with
\* deletions and with failures, a user has one document per content.
THEOREM ContentIsUnique == Spec => []UniqueContent
<1>1. Init => ContentHeldOnce
    BY DEF Init, StoresInit, UploadInit, ContentHeldOnce, HoldsContent
<1>2. ContentHeldOnce => UniqueContent
    BY DEF ContentHeldOnce, HoldsContent, UniqueContent
<1>3. QED
    BY <1>1, <1>2, TypeCorrect, StepKeepsContent, PTL DEF Spec

-----------------------------------------------------------------------------
(* Bytes and rows                                                          *)

\* An unlink removes the bytes or leaves them on the list of those it did not.
LEMMA UnlinkIsLogged ==
    ASSUME NEW d, UnlinkBytes(d)
    PROVE  /\ objects' \subseteq objects /\ objects \subseteq objects' \union {d}
           /\ undeleted \subseteq undeleted'
           /\ d \notin objects' \/ d \in undeleted'
BY DEF UnlinkBytes

\* Only documents that were accepted are removed, and the files go before the
\* row does, or are known to have stayed.
RemovalsOfAccepted ==
    \A r \in Requests : removal[r] # "idle" => upload[removes[r]] = "accepted"
FilesGoFirst ==
    \A r \in Requests : removal[r] = "files_deleted" =>
        removes[r] \notin objects \/ removes[r] \in undeleted

\* An upload keeps its bytes until it has been decided.
UploadsHoldBytes == \A d \in Documents : upload[d] \in UploadActive => d \in objects

\* A row without bytes was deprived of them by a deletion that has not
\* committed.
MissingBytesAreRemoved ==
    \A d \in live :
        \/ d \in objects
        \/ \E r \in Requests : removes[r] = d /\ removal[r] \in {"files_deleted", "unsaved"}

BytesInv ==
    /\ LiveAccepted /\ RemovalsOfAccepted /\ FilesGoFirst
    /\ UploadsHoldBytes /\ MissingBytesAreRemoved /\ BytesAreReferenced

LEMMA UploadKeepsBytes ==
    ASSUME StoresTypeOK, UploadTypeOK, BytesInv, NEW d \in Documents,
           UploadStep(d) \/ CommitUpload(d)
    PROVE  BytesInv'
<1>t. /\ upload \in [Documents -> {"idle"} \union UploadActive \union UploadEnded]
      /\ live \subseteq Documents /\ objects \subseteq Documents
      /\ \A r \in Requests : removal[r] # "idle" => removes[r] \in Documents
    BY DEF UploadTypeOK, StoresTypeOK
<1>1. UNCHANGED <<removal, removes>> /\ upload' = [upload EXCEPT ![d] = upload'[d]]
    BY <1>t DEF UploadStep, StartUpload, RefuseUpload, FinishPut, FindDuplicate, FindNoDuplicate,
           LookupFails, InsertRow, InsertFails, DiscardBytes, CommitUploadFails,
           CommitUpload, UploadGoes, removalVars
<1>2. upload[d] # "accepted" /\ d \notin live
    BY DEF UploadStep, StartUpload, RefuseUpload, FinishPut, FindDuplicate, FindNoDuplicate,
           LookupFails, InsertRow, InsertFails, DiscardBytes, CommitUploadFails,
           CommitUpload, UploadGoes, BytesInv, LiveAccepted
<1>q. ASSUME live' \subseteq live \union {d},
             \A e \in Documents : e # d => (e \in live' <=> e \in live) /\ (e \in objects' <=> e \in objects),
             d \in live' => upload'[d] = "accepted" /\ d \in objects',
             upload'[d] \in UploadActive => d \in objects',
             d \in objects' => \/ d \in live' \/ upload'[d] \in UploadActive \union {"unsaved"}
                               \/ d \in undeleted',
             undeleted \subseteq undeleted',
             objects' \subseteq Documents
      PROVE  BytesInv'
    <2>1. \A e \in Documents : e # d => upload'[e] = upload[e]
        BY <1>t, <1>1
    <2>2. \A r \in Requests : removal[r] # "idle" => removes[r] # d
        BY <1>2 DEF BytesInv, RemovalsOfAccepted
    <2>3. LiveAccepted' /\ RemovalsOfAccepted' /\ FilesGoFirst'
        BY <1>t, <1>1, <1>q, <2>1, <2>2 DEF BytesInv, LiveAccepted, RemovalsOfAccepted, FilesGoFirst
    <2>4. UploadsHoldBytes' /\ BytesAreReferenced'
        BY <1>t, <1>1, <1>q, <2>1 DEF BytesInv, UploadsHoldBytes, BytesAreReferenced
    <2>5. MissingBytesAreRemoved'
        BY <1>t, <1>1, <1>q, <2>1, <2>2 DEF BytesInv, MissingBytesAreRemoved
    <2> QED
        BY <2>3, <2>4, <2>5 DEF BytesInv
<1>3. CASE StartUpload(d)
    BY <1>t, <1>2, <1>3, <1>q DEF StartUpload, UploadGoes, UploadActive, rowVars
<1>4. CASE RefuseUpload(d)
    BY <1>t, <1>2, <1>4, <1>q, UnlinkIsLogged DEF RefuseUpload, UploadGoes, UploadActive, rowVars
<1>5. CASE \/ FinishPut(d) \/ FindDuplicate(d) \/ FindNoDuplicate(d) \/ InsertRow(d)
           \/ InsertFails(d) \/ LookupFails(d) \/ CommitUploadFails(d)
    <2>1. /\ UNCHANGED <<live, objects, undeleted>> /\ upload[d] \in UploadActive
          /\ upload'[d] \in UploadActive \union {"unsaved"}
        BY <1>t, <1>5 DEF FinishPut, FindDuplicate, FindNoDuplicate, InsertRow, InsertFails,
               LookupFails, CommitUploadFails, UploadGoes, UploadActive, storeVars, rowVars, fileVars
    <2>2. d \in objects
        BY <2>1 DEF BytesInv, UploadsHoldBytes
    <2> QED
        BY <1>t, <1>2, <1>q, <2>1, <2>2
<1>6. CASE DiscardBytes(d)
    BY <1>t, <1>2, <1>6, <1>q, UnlinkIsLogged DEF DiscardBytes, UploadGoes, UploadActive, rowVars
<1>7. CASE CommitUpload(d)
    <2>1. d \in objects
        BY <1>7 DEF BytesInv, UploadsHoldBytes, CommitUpload, UploadGoes, UploadActive
    <2> QED
        BY <1>t, <1>2, <1>7, <1>q, <2>1 DEF CommitUpload, UploadGoes, UploadActive, fileVars
<1> QED
    BY <1>3, <1>4, <1>5, <1>6, <1>7 DEF UploadStep

LEMMA RemovalKeepsBytes ==
    ASSUME StoresTypeOK, UploadTypeOK, BytesInv, NEW r \in Requests, RemovalStep(r)
    PROVE  BytesInv'
<1>t. /\ removal \in [Requests -> {"idle"} \union RemovalActive \union RemovalEnded]
      /\ removes \in [Requests -> Documents \union {NoDocument}]
      /\ live \subseteq Documents /\ objects \subseteq Documents
      /\ \A s \in Requests : removal[s] # "idle" => removes[s] \in Documents
    BY DEF UploadTypeOK, StoresTypeOK
<1> USE DEF BytesInv, LiveAccepted, RemovalsOfAccepted, FilesGoFirst, UploadsHoldBytes,
            MissingBytesAreRemoved, BytesAreReferenced
<1>1. ASSUME NEW d \in Documents, DropVectors(r, d) \/ DropVectorsFails(r, d)
      PROVE  BytesInv'
    <2>1. /\ upload' = upload /\ live' = live /\ objects' = objects /\ undeleted' = undeleted
          /\ Nameable(d) /\ removal[r] = "idle"
          /\ removal' = [removal EXCEPT ![r] = removal'[r]] /\ removes' = [removes EXCEPT ![r] = d]
          /\ removal'[r] \in {"vectors_dropped", "failed"}
        BY <1>t, <1>1 DEF DropVectors, DropVectorsFails, uploadVars, storeVars, rowVars, fileVars
    <2>2. /\ removes'[r] = d
          /\ \A s \in Requests : s # r => removes'[s] = removes[s] /\ removal'[s] = removal[s]
        BY <1>t, <2>1
    <2> QED
        BY <2>1, <2>2 DEF Nameable
<1>2. CASE FindOwned(r) \/ FindMissing(r) \/ DeleteRow(r)
    <2>1. /\ UNCHANGED <<upload, live, objects, undeleted, removes>>
          /\ removal[r] \in {"vectors_dropped", "found"}
          /\ removal' = [removal EXCEPT ![r] = removal'[r]]
          /\ removal'[r] \in {"found", "missing", "row_deleted"}
        BY <1>t, <1>2 DEF FindOwned, FindMissing, DeleteRow, RemovalGoes, uploadVars, storeVars,
                     rowVars, fileVars
    <2>2. \A s \in Requests : s # r => removal'[s] = removal[s]
        BY <1>t, <2>1
    <2> QED
        BY <2>1, <2>2
<1>3. CASE DeleteFiles(r)
    <2>1. /\ UNCHANGED <<upload, live, removes>>
          /\ objects' \subseteq objects /\ objects \subseteq objects' \union {removes[r]}
          /\ undeleted \subseteq undeleted'
          /\ removes[r] \notin objects' \/ removes[r] \in undeleted'
          /\ removal[r] = "row_deleted" /\ removal'[r] = "files_deleted"
          /\ \A s \in Requests : s # r => removal'[s] = removal[s]
        BY <1>t, <1>3, UnlinkIsLogged DEF DeleteFiles, DeleteFilesOf, RemovalGoes, uploadVars, rowVars
    <2>2. upload[removes[r]] \notin UploadActive
        BY <2>1 DEF UploadActive
    <2> QED
        BY <2>1, <2>2
<1>4. CASE CommitRemoval(r)
    <2>1. /\ UNCHANGED <<upload, objects, undeleted, removes>> /\ live' = live \ {removes[r]}
          /\ removal[r] = "files_deleted" /\ removal'[r] = "removed"
          /\ \A s \in Requests : s # r => removal'[s] = removal[s]
        BY <1>t, <1>4 DEF CommitRemoval, DeleteRowsOf, RemovalGoes, uploadVars, fileVars
    <2> QED
        BY <2>1
<1>5. CASE RemovalFails(r)
    <2>1. /\ UNCHANGED <<upload, live, objects, undeleted, removes>>
          /\ removal[r] # "idle" /\ removal'[r] \in {"failed", "unsaved"}
          /\ removal[r] = "files_deleted" => removal'[r] = "unsaved"
          /\ removal[r] # "unsaved"
          /\ \A s \in Requests : s # r => removal'[s] = removal[s]
        BY <1>t, <1>5 DEF RemovalFails, RemovalGoes, uploadVars, fileVars
    <2> QED
        BY <2>1
<1> QED
    BY <1>1, <1>2, <1>3, <1>4, <1>5 DEF RemovalStep, RemovalArrives, RemovalContinues

LEMMA StutterKeepsBytes ==
    ASSUME BytesInv, UNCHANGED <<live, objects, undeleted, upload, removal, removes>>
    PROVE  BytesInv'
BY DEF BytesInv, LiveAccepted, RemovalsOfAccepted, FilesGoFirst, UploadsHoldBytes,
       MissingBytesAreRemoved, BytesAreReferenced

\* What the requests keep, by themselves.
RequestsInv == StoresTypeOK /\ UploadTypeOK /\ BytesInv

LEMMA RequestsEstablishInv == RequestsInit => RequestsInv
BY DEF RequestsInit, StoresInit, UploadInit, RequestsInv, StoresTypeOK, UploadTypeOK, NewDocument,
       Document, DocumentStatus, BytesInv, LiveAccepted, RemovalsOfAccepted, FilesGoFirst,
       UploadsHoldBytes, UploadActive, MissingBytesAreRemoved, BytesAreReferenced

LEMMA RequestsKeepInv ==
    RequestsInv /\ [RequestsNext]_<<storeVars, requestVars>> => RequestsInv'
<1> SUFFICES ASSUME RequestsInv, [RequestsNext]_<<storeVars, requestVars>>
             PROVE  RequestsInv'
    OBVIOUS
<1>1. ASSUME NEW d \in Documents, UploadStep(d) \/ CommitUpload(d)
      PROVE  RequestsInv'
    BY <1>1, UploadKeepsTypes, UploadKeepsBytes DEF RequestsInv
<1>2. ASSUME NEW r \in Requests, RemovalStep(r)
      PROVE  RequestsInv'
    BY <1>2, RemovalKeepsTypes, RemovalKeepsBytes DEF RequestsInv
<1>3. CASE UNCHANGED <<storeVars, requestVars>>
    <2>1. /\ UNCHANGED <<live, locked, document, objects, undeleted, blocks, rows, marked, vectors>>
          /\ UNCHANGED <<owner, hash, upload, removal, removes, remover>>
        BY <1>3 DEF storeVars, rowVars, fileVars, chunkVars, requestVars, uploadVars, removalVars
    <2> QED
        BY <2>1, StutterKeepsBytes DEF RequestsInv, StoresTypeOK, UploadTypeOK
<1> QED
    BY <1>1, <1>2, <1>3 DEF RequestsNext

\* Bytes that `upload` has stored belong to a row, to an upload that is still
\* deciding, or to one whose database failed after the put, or are known not
\* to have been removed.
THEOREM StoredBytesAreReferenced == RequestsSpec => []BytesAreReferenced
<1>1. RequestsInv => BytesAreReferenced
    BY DEF RequestsInv, BytesInv
<1> QED
    BY <1>1, RequestsEstablishInv, RequestsKeepInv, PTL DEF RequestsSpec

\* `delete` leaves no row without its bytes but while it is at work, or when
\* its commit failed.
THEOREM RowsKeepBytes == RequestsSpec => []RowsHaveBytes
<1>1. RequestsInv => RowsHaveBytes
    BY DEF RequestsInv, BytesInv, MissingBytesAreRemoved, RowsHaveBytes, RemovalActive
<1> QED
    BY <1>1, RequestsEstablishInv, RequestsKeepInv, PTL DEF RequestsSpec

\* Neither does a job or a request to parse again change that: as long as the
\* process lives, the same holds of the whole system.
THEOREM BytesUnderJobs ==
    ASSUME "crash" \notin Faults
    PROVE  Spec => [](BytesAreReferenced /\ RowsHaveBytes)
<1>1. Init => TypeOK /\ BytesInv
    BY InitIsTyped, RequestsEstablishInv DEF Init, RequestsInit, RequestsInv
<1>2. TypeOK /\ BytesInv /\ [Next]_vars => (TypeOK /\ BytesInv)'
    <2> SUFFICES ASSUME TypeOK, BytesInv, [Next]_vars PROVE BytesInv'
        BY StepKeepsTypes
    <2>1. ASSUME NEW d \in Documents, UploadStep(d) \/ CommitUpload(d) PROVE BytesInv'
        BY <2>1, UploadKeepsBytes DEF TypeOK
    <2>2. ASSUME NEW r \in Requests, RemovalStep(r) PROVE BytesInv'
        BY <2>2, RemovalKeepsBytes DEF TypeOK
    <2>3. ASSUME NEW d \in Documents, NEW j \in Jobs, RequestReparse(j, d) PROVE BytesInv'
        BY <2>3, StutterKeepsBytes
           DEF RequestReparse, Reparse, requestVars, uploadVars, removalVars, storeVars, rowVars,
               fileVars
    <2>4. ASSUME NEW j \in Jobs, JobStep(j), UNCHANGED requestVars PROVE BytesInv'
        <3>1. UNCHANGED <<live, objects, undeleted>>
            BY <2>4
               DEF JobStep, ParseStep, IndexStep, ReadRow, TransactionRaises, StorageRaises,
                   ParseMissing, ParseBegins, Extract, ExtractFails, PutBlocks, ParsedMissing,
                   ParseSucceeds, ParseFailureMissing, ParseFails, SkipIndexing,
                   OpenForIndexing, LoadBlocks, IndexEmpty, Claim, ChunkingRaises, EmbedMissing,
                   EmbedCommits, DropOldVectors, UpsertBatch, VectorStoreRaises, ReadChunks,
                   MarkEmbedded, FinaliseMissing, Finalise, IndexFailureMissing, IndexFails,
                   storeVars, rowVars, fileVars
        <3> QED
            BY <2>4, <3>1, StutterKeepsBytes DEF requestVars, uploadVars, removalVars
    <2>5. CASE UNCHANGED vars
        BY <2>5, StutterKeepsBytes
           DEF vars, requestVars, uploadVars, removalVars, storeVars, rowVars, fileVars
    <2> QED
        BY <2>1, <2>2, <2>3, <2>4, <2>5 DEF Next, AcceptUpload, Crash
<1>3. BytesInv => BytesAreReferenced /\ RowsHaveBytes
    BY DEF BytesInv, MissingBytesAreRemoved, RowsHaveBytes, RemovalActive
<1> QED
    BY <1>1, <1>2, <1>3, PTL DEF Spec

-----------------------------------------------------------------------------
(* The outcome of a document                                               *)

\* Parsers and the vector store may fail; nothing else does.
ServerStands == Faults \subseteq {"parse", "vectors"}

\* Where a job is that will give a document of some status its next one.
Pursuits ==
    [pending |-> {"parse_begin"},
     parsing |-> {"extract", "put_blocks", "parse_ok", "parse_failed"},
     parsed |-> {"index_begin", "load", "index_empty", "claim"},
     chunking |-> {"embed", "finalise", "index_failed"},
     embedding |-> {"drop", "upsert", "mark", "finalise", "index_failed"}]
Settled == {"indexed", "failed"}

\* A job that pursues the document, from the status as it is by now.
InCharge(j, d) ==
    /\ target[j] = d
    /\ job[j] \in Pursuits[document[d].status]
    /\ j \in open /\ job[j] # "mark" => loaded[j].status = document[d].status

\* However many jobs interleave on a document, whichever of them has set its
\* status is still at work on it.
OutcomeInv ==
    /\ \A d \in live : document[d].status \in Settled \/ \E j \in Jobs : InCharge(j, d)
    /\ \A j \in open : job[j] # "idle"

LEMMA OutcomeTypes ==
    ASSUME TypeOK
    PROVE  /\ job \in [Jobs -> {"idle"} \union JobActive \union JobEnded]
           /\ target \in [Jobs -> Documents \union {NoTarget}] /\ open \subseteq Jobs
           /\ loaded \in [Jobs -> Document] /\ live \subseteq Documents
           /\ document \in [Documents -> Document]
           /\ \A d \in live : document[d].status \in DocumentStatus
BY DEF TypeOK, StoresTypeOK, PipelineTypeOK, Document

LEMMA PursuersAreActive ==
    ASSUME NEW s \in DocumentStatus \ Settled
    PROVE  Pursuits[s] \subseteq JobActive
BY DEF DocumentStatus, Settled, Pursuits, JobActive, Transactions

\* A write that reaches the row takes the document on, and with it the job; one
\* that finds the column already set leaves it to the job in charge.
LEMMA WritingKeepsOutcome ==
    ASSUME TypeOK, OutcomeInv, NEW j \in Jobs, NEW at, NEW to, WritesRow(j, at, to),
           \/ at = "parse_begin" /\ to = "extract"
           \/ at = "parse_ok" /\ to = "index_begin"
           \/ at = "parse_failed" /\ to = "index_begin"
           \/ at = "index_empty" /\ to = "done"
           \/ at = "claim" /\ to \in {"finalise", "embed"}
           \/ at = "embed" /\ to = "drop"
           \/ at = "finalise" /\ to = "done"
           \/ at = "index_failed" /\ to = "done",
           live' = live, target' = target
    PROVE  OutcomeInv'
<1>d. PICK d : d = target[j]
    OBVIOUS
<1>1. /\ job[j] = at /\ j \in open /\ UpdateRow(j) /\ job' = [job EXCEPT ![j] = to]
      /\ open' = open \ {j} /\ loaded' = [loaded EXCEPT ![j] = NewDocument]
    BY DEF WritesRow, JobGoes, CloseTransaction
<1>2. /\ job'[j] = to /\ \A k \in Jobs \ {j} : job'[k] = job[k] /\ loaded'[k] = loaded[k]
                                                /\ (k \in open' <=> k \in open)
    BY <1>1, OutcomeTypes
<1>3. \A k \in open' : job'[k] # "idle"
    BY <1>1, <1>2, OutcomeTypes DEF OutcomeInv
<1>4. \A e \in Documents \ {d} : document'[e] = document[e]
    BY <1>d, <1>1, OutcomeTypes DEF UpdateRow
<1>5. ASSUME NEW e \in live, e # d
      PROVE  document'[e].status \in Settled \/ \E k \in Jobs : InCharge(k, e)'
    <2>1. CASE document[e].status \in Settled
        BY <1>4, <1>5, <2>1, OutcomeTypes
    <2>2. ASSUME NEW k \in Jobs, InCharge(k, e)
          PROVE  InCharge(k, e)'
        BY <1>d, <1>2, <1>4, <1>5, <2>2, OutcomeTypes DEF InCharge
    <2> QED
        BY <2>1, <2>2 DEF OutcomeInv
<1>6. ASSUME d \in live
      PROVE  document'[d].status \in Settled \/ \E k \in Jobs : InCharge(k, d)'
    <2>1. document'[d].status = Column(Assigned(j).status, loaded[j].status, document[d].status)
        <3> DEFINE row == [status |-> Column(Assigned(j).status, loaded[j].status, document[d].status),
                           error |-> Column(Assigned(j).error, loaded[j].error, document[d].error),
                           chunkCount |-> Column(Assigned(j).chunkCount, loaded[j].chunkCount,
                                                 document[d].chunkCount)]
        <3>1. document' = [document EXCEPT ![d] = row]
            BY <1>d, <1>1 DEF UpdateRow
        <3>2. d \in Documents
            BY <1>6, OutcomeTypes
        <3> QED
            BY <3>1, <3>2, OutcomeTypes
    <2>2. Assigned(j).status = StatusSet[at]
        BY <1>1 DEF Assigned
    <2>3. CASE document'[d].status = StatusSet[at]
        <3>1. StatusSet[at] \in Settled \/ to \in Pursuits[StatusSet[at]]
            BY DEF StatusSet, Settled, Pursuits
        <3>2. j \notin open' /\ target'[j] = d
            BY <1>d, <1>1
        <3> QED
            BY <1>2, <2>3, <3>1, <3>2 DEF InCharge
    <2>4. CASE document'[d].status # StatusSet[at]
        <3>1. document'[d].status = document[d].status /\ loaded[j].status # document[d].status
            BY <2>1, <2>2, <2>4 DEF Column
        <3>2. at # "mark"
            OBVIOUS
        <3>3. ~InCharge(j, d)
            BY <1>1, <3>1, <3>2 DEF InCharge
        <3>4. ASSUME NEW k \in Jobs, InCharge(k, d)
              PROVE  InCharge(k, d)'
            BY <1>2, <3>1, <3>3, <3>4 DEF InCharge
        <3> QED
            BY <1>6, <3>1, <3>4 DEF OutcomeInv
    <2> QED
        BY <2>3, <2>4
<1> QED
    BY <1>3, <1>5, <1>6 DEF OutcomeInv

WritesStatus(j) ==
    \/ ParseBegins(j) \/ ParseSucceeds(j) \/ ParseFails(j)
    \/ IndexEmpty(j) \/ Claim(j) \/ EmbedCommits(j) \/ Finalise(j) \/ IndexFails(j)

\* The other steps of a job leave the row, and whoever is in charge stays so.
LEMMA WorkKeepsCharge ==
    ASSUME ServerStands, TypeOK, OutcomeInv, NEW j \in Jobs, JobStep(j), ~WritesStatus(j),
           document' = document, NEW d \in live, InCharge(j, d), document[d].status \notin Settled
    PROVE  InCharge(j, d)'
<1> DEFINE s == document[d].status
<1>1. /\ job \in [Jobs -> {"idle"} \union JobActive \union JobEnded]
      /\ open \subseteq Jobs /\ loaded \in [Jobs -> Document]
      /\ s \in DocumentStatus \ Settled
    BY OutcomeTypes
<1>2. target[j] = d /\ job[j] \in Pursuits[s]
      /\ (j \in open /\ job[j] # "mark" => loaded[j].status = s)
    BY DEF InCharge
<1> HIDE DEF s
<1>3. target' = target
    BY DEF JobStep, ReadRow, TransactionRaises, StorageRaises, ParseStep, IndexStep, ParseMissing,
           ParseBegins, Extract, ExtractFails, PutBlocks, ParsedMissing, ParseSucceeds,
           ParseFailureMissing, ParseFails, SkipIndexing, OpenForIndexing, LoadBlocks, IndexEmpty,
           Claim, ChunkingRaises, EmbedMissing, EmbedCommits, DropOldVectors, UpsertBatch,
           VectorStoreRaises, ReadChunks, MarkEmbedded, FinaliseMissing, Finalise,
           IndexFailureMissing, IndexFails, JobMemory
<1>q. ASSUME job'[j] \in Pursuits[s],
             j \in open' /\ job'[j] # "mark" =>
                 \/ loaded'[j].status = s
                 \/ j \in open /\ job[j] # "mark" /\ loaded' = loaded
      PROVE  InCharge(j, d)'
    BY <1>2, <1>3, <1>q DEF InCharge, s
<1>4. CASE ReadRow(j)
    <2>1. job' = job /\ loaded' = [loaded EXCEPT ![j] = document[d]]
        BY <1>2, <1>4 DEF ReadRow, ReadsRow
    <2>2. loaded'[j].status = s
        BY <1>1, <2>1 DEF s
    <2> QED
        BY <1>2, <1>q, <2>1, <2>2
<1>5. CASE TransactionRaises(j)
    <2>1. /\ job[j] \in {"embed", "mark"}
          /\ job' = [job EXCEPT ![j] = "index_failed"] /\ open' = open \ {j}
        <3>1. target[j] \in live /\ "database" \notin Faults
            BY <1>2 DEF ServerStands
        <3>2. job[j] \in {"embed", "mark"}
            BY <1>5, <3>1 DEF TransactionRaises, CommitRaises
        <3> QED
            BY <1>5, <3>2 DEF TransactionRaises, CloseTransaction
    <2>2. "index_failed" \in Pursuits[s]
        BY <1>1, <1>2, <2>1 DEF Pursuits, DocumentStatus, Settled
    <2> QED
        BY <1>1, <1>q, <2>1, <2>2
<1>6. CASE Extract(j) \/ ExtractFails(j) \/ PutBlocks(j) \/ LoadBlocks(j) \/ DropOldVectors(j)
           \/ UpsertBatch(j)
    <2>1. /\ open' = open /\ loaded' = loaded
          /\ \/ job[j] = "extract" /\ job'[j] \in {"put_blocks", "parse_failed"}
             \/ job[j] = "put_blocks" /\ job'[j] = "parse_ok"
             \/ job[j] = "load" /\ job'[j] \in {"index_empty", "claim"}
             \/ job[j] = "drop" /\ job'[j] = "upsert"
             \/ job[j] = "upsert" /\ job'[j] \in {"upsert", "mark"}
        BY <1>1, <1>6 DEF Extract, ExtractFails, PutBlocks, LoadBlocks, DropOldVectors, UpsertBatch,
                          JobGoes, ReadSet
    <2>2. job'[j] \in Pursuits[s] /\ job[j] # "mark"
        BY <1>1, <1>2, <2>1 DEF Pursuits, DocumentStatus, Settled
    <2> QED
        BY <1>q, <2>1, <2>2
<1>7. CASE OpenForIndexing(j)
    <2>1. /\ job[j] = "index_begin" /\ job'[j] = "load"
          /\ loaded' = [loaded EXCEPT ![j] = document[d]]
        BY <1>1, <1>2, <1>7 DEF OpenForIndexing, ReadsRow
    <2>3. loaded'[j].status = s
        BY <1>1, <2>1 DEF s
    <2>2. job'[j] \in Pursuits[s]
        BY <1>1, <1>2, <2>1 DEF Pursuits, DocumentStatus, Settled
    <2> QED
        BY <1>q, <2>2, <2>3
<1>8. CASE ReadChunks(j)
    BY <1>2, <1>8, <1>q DEF ReadChunks
<1>9. CASE MarkEmbedded(j)
    <2>1. job[j] = "mark" /\ job'[j] = "finalise" /\ j \notin open'
        BY <1>1, <1>9 DEF MarkEmbedded, JobGoes, CloseTransaction
    <2>2. job'[j] \in Pursuits[s]
        BY <1>1, <1>2, <2>1 DEF Pursuits, DocumentStatus, Settled
    <2> QED
        BY <1>q, <2>1, <2>2
<1>10. CASE VectorStoreRaises(j)
    <2>1. /\ open' = open /\ loaded' = loaded
          /\ job[j] \in {"drop", "upsert"} /\ job'[j] = "index_failed"
        BY <1>1, <1>10 DEF VectorStoreRaises, JobGoes, ReadSet
    <2>2. job'[j] \in Pursuits[s] /\ job[j] # "mark"
        BY <1>1, <1>2, <2>1 DEF Pursuits, DocumentStatus, Settled
    <2> QED
        BY <1>q, <2>1, <2>2
<1>11. ~SkipIndexing(j)
    <2>1. job[j] = "index_begin" => s \in Indexable
        BY <1>1, <1>2 DEF Pursuits, DocumentStatus, Settled, Indexable
    <2> QED
        BY <1>2, <2>1 DEF SkipIndexing, JobGoes, s
<1>12. /\ ~StorageRaises(j) /\ ~ChunkingRaises(j)
       /\ ~ParseMissing(j) /\ ~ParsedMissing(j) /\ ~ParseFailureMissing(j)
       /\ ~EmbedMissing(j) /\ ~FinaliseMissing(j) /\ ~IndexFailureMissing(j)
    BY <1>2 DEF StorageRaises, ChunkingRaises, ServerStands, ParseMissing, ParsedMissing,
                ParseFailureMissing, EmbedMissing, FinaliseMissing, IndexFailureMissing, MissesRow
<1> QED
    BY <1>4, <1>5, <1>6, <1>7, <1>8, <1>9, <1>10, <1>11, <1>12
       DEF JobStep, ParseStep, IndexStep, WritesStatus

LEMMA JobKeepsOutcome ==
    ASSUME ServerStands, TypeOK, OutcomeInv, NEW j \in Jobs, JobStep(j)
    PROVE  OutcomeInv'
<1>1. CASE WritesStatus(j)
    <2>1. live' = live /\ target' = target
        BY <1>1 DEF WritesStatus, ParseBegins, ParseSucceeds, ParseFails, IndexEmpty, Claim,
                    EmbedCommits, Finalise, IndexFails, JobMemory
    <2>2. PICK at, to :
              /\ WritesRow(j, at, to)
              /\ \/ at = "parse_begin" /\ to = "extract"
                 \/ at = "parse_ok" /\ to = "index_begin"
                 \/ at = "parse_failed" /\ to = "index_begin"
                 \/ at = "index_empty" /\ to = "done"
                 \/ at = "claim" /\ to \in {"finalise", "embed"}
                 \/ at = "embed" /\ to = "drop"
                 \/ at = "finalise" /\ to = "done"
                 \/ at = "index_failed" /\ to = "done"
        BY <1>1 DEF WritesStatus, ParseBegins, ParseSucceeds, ParseFails, IndexEmpty, Claim,
                    EmbedCommits, Finalise, IndexFails
    <2> QED
        BY <2>1, <2>2, WritingKeepsOutcome
<1>2. CASE ~WritesStatus(j)
    <2>1. /\ live' = live /\ document' = document /\ target' = target
          /\ \A k \in Jobs \ {j} : /\ job'[k] = job[k] /\ loaded'[k] = loaded[k]
                                     /\ (k \in open' <=> k \in open)
          /\ job[j] # "idle" /\ job'[j] # "idle" /\ open' \subseteq Jobs
        <3>1. /\ live' = live /\ document' = document /\ target' = target
              /\ job[j] \in JobActive
              /\ \E to \in JobActive \union JobEnded : job' = [job EXCEPT ![j] = to]
              /\ open' \in {open, open \union {j}, open \ {j}}
              /\ loaded' = loaded \/ \E row : loaded' = [loaded EXCEPT ![j] = row]
            BY <1>2, OutcomeTypes
               DEF WritesStatus, JobStep, ReadRow, ReadsRow, TransactionRaises, StorageRaises,
                   ParseStep, IndexStep, ParseMissing, Extract, ExtractFails, PutBlocks,
                   ParsedMissing, ParseFailureMissing, SkipIndexing, OpenForIndexing, LoadBlocks,
                   ChunkingRaises, EmbedMissing, DropOldVectors, UpsertBatch, VectorStoreRaises,
                   ReadChunks, MarkEmbedded, FinaliseMissing, IndexFailureMissing, MissesRow,
                   JobGoes, CloseTransaction, JobMemory, ReadSet, storeVars, rowVars, JobActive,
                   JobEnded, Transactions
        <3> QED
            BY <3>1, OutcomeTypes DEF JobActive, JobEnded, Transactions
    <2>2. \A k \in open' : job'[k] # "idle"
        BY <2>1 DEF OutcomeInv
    <2>3. ASSUME NEW d \in live, document[d].status \notin Settled
          PROVE  \E k \in Jobs : InCharge(k, d)'
        <3>1. PICK k \in Jobs : InCharge(k, d)
            BY <2>3 DEF OutcomeInv
        <3>2. CASE k = j
            BY <1>2, <2>1, <2>3, <3>1, <3>2, WorkKeepsCharge
        <3>3. CASE k # j
            BY <2>1, <3>1, <3>3 DEF InCharge
        <3> QED
            BY <3>2, <3>3
    <2> QED
        BY <2>1, <2>2, <2>3 DEF OutcomeInv
<1> QED
    BY <1>1, <1>2

LEMMA StepKeepsOutcome ==
    ASSUME ServerStands, TypeOK, OutcomeInv, [Next]_vars
    PROVE  OutcomeInv'
<1>1. ASSUME live' \subseteq live, \A d \in live' : document'[d] = document[d], UNCHANGED jobVars
      PROVE  OutcomeInv'
    BY <1>1 DEF jobVars, OutcomeInv, InCharge
<1>2. ASSUME NEW d \in Documents, NEW j \in Jobs, Schedule(j, d),
             \/ live' = live /\ document' = document
             \/ live' = live \union {d} /\ document' = [document EXCEPT ![d] = NewDocument]
      PROVE  OutcomeInv'
    <2>1. /\ job[j] = "idle" /\ open' = open /\ loaded' = loaded
          /\ job'[j] = "parse_begin" /\ target'[j] = d
          /\ \A k \in Jobs \ {j} : job'[k] = job[k] /\ target'[k] = target[k]
        BY <1>2, OutcomeTypes DEF Schedule, JobGoes, ReadSet
    <2>2. j \notin open
        BY <2>1 DEF OutcomeInv
    <2>3. \A k \in open' : job'[k] # "idle"
        BY <2>1, <2>2, OutcomeTypes DEF OutcomeInv
    <2>4. ASSUME NEW e \in live, document'[e] = document[e]
          PROVE  document'[e].status \in Settled \/ \E k \in Jobs : InCharge(k, e)'
        <3>1. \A k \in Jobs : InCharge(k, e) /\ document[e].status \notin Settled => k # j
            BY <2>1, OutcomeTypes, PursuersAreActive DEF InCharge, JobActive, Transactions
        <3> QED
            BY <2>1, <2>4, <3>1 DEF OutcomeInv, InCharge
    <2>5. CASE live' = live /\ document' = document
        BY <2>3, <2>4, <2>5 DEF OutcomeInv
    <2>6. CASE live' = live \union {d} /\ document' = [document EXCEPT ![d] = NewDocument]
        <3>1. document'[d].status = "pending" /\ \A e \in Documents \ {d} : document'[e] = document[e]
            BY <2>6, OutcomeTypes DEF NewDocument
        <3>2. InCharge(j, d)'
            BY <2>1, <2>2, <3>1 DEF InCharge, Pursuits
        <3> QED
            BY <2>3, <2>4, <2>6, <3>1, <3>2, OutcomeTypes DEF OutcomeInv
    <2> QED
        BY <1>2, <2>5, <2>6
<1>3. CASE UNCHANGED vars
    BY <1>1, <1>3 DEF vars, storeVars, rowVars
<1>4. ASSUME NEW d \in Documents, UploadStep(d), UNCHANGED jobVars PROVE OutcomeInv'
    <2>1. live' = live /\ document' = document
        BY <1>4 DEF UploadStep, StartUpload, RefuseUpload, FinishPut, FindDuplicate,
                    FindNoDuplicate, LookupFails, InsertRow, InsertFails, DiscardBytes,
                    CommitUploadFails, storeVars, rowVars
    <2> QED
        BY <1>1, <1>4, <2>1
<1>5. ASSUME NEW r \in Requests, RemovalStep(r), UNCHANGED jobVars PROVE OutcomeInv'
    <2>1. live' \subseteq live /\ document' = document
        BY <1>5 DEF RemovalStep, RemovalArrives, RemovalContinues, DropVectors, DropVectorsFails,
                    FindOwned, FindMissing, DeleteRow, DeleteFiles, CommitRemoval, DeleteRowsOf,
                    RemovalFails, storeVars, rowVars
    <2> QED
        BY <1>1, <1>5, <2>1
<1>6. ASSUME NEW d \in Documents, NEW j \in Jobs, AcceptUpload(d, j) PROVE OutcomeInv'
    BY <1>2, <1>6 DEF AcceptUpload, CommitUpload
<1>7. ASSUME NEW d \in Documents, NEW j \in Jobs, RequestReparse(j, d) PROVE OutcomeInv'
    BY <1>2, <1>7 DEF RequestReparse, Reparse, storeVars, rowVars
<1>8. ASSUME NEW j \in Jobs, JobStep(j) PROVE OutcomeInv'
    BY <1>8, JobKeepsOutcome
<1>9. ~Crash
    BY DEF Crash, ServerStands
<1> QED
    BY <1>3, <1>4, <1>5, <1>6, <1>7, <1>8, <1>9 DEF Next

\* Whatever uploads, reparses and deletions overlap, and whatever the parsers
\* and the vector store do, a document that nobody works on is indexed or
\* failed (`parse_document` and `index_document` record every outcome).
THEOREM OutcomeAlwaysRecorded ==
    ASSUME ServerStands
    PROVE  Spec => []OutcomeRecorded
<1>1. Init => OutcomeInv
    BY DEF Init, StoresInit, PipelineInit, OutcomeInv
<1>2. TypeOK /\ OutcomeInv /\ [Next]_vars => OutcomeInv'
    BY StepKeepsOutcome
<1>3. TypeOK /\ OutcomeInv => OutcomeRecorded
    <2> SUFFICES ASSUME TypeOK, OutcomeInv, NEW d \in live, AtRest(d),
                        document[d].status \notin Settled
                 PROVE  FALSE
        BY DEF OutcomeRecorded, Settled
    <2>1. PICK k \in Jobs : InCharge(k, d)
        BY DEF OutcomeInv
    <2>2. k \in JobsOn(d)
        BY <2>1, OutcomeTypes, PursuersAreActive DEF InCharge, JobsOn
    <2> QED
        BY <2>2 DEF AtRest
<1> QED
    BY <1>1, <1>2, <1>3, TypeCorrect, PTL DEF Spec

-----------------------------------------------------------------------------
(* Clients that wait                                                       *)

OnlyParsingFails == Faults \subseteq {"parse"}

\* Every parse finds something to index.
TextsYield == EmptyText \notin Texts /\ \A t \in Texts : ChunkCount[t] > 0

\* Users delete their own documents.
OwnDeletes ==
    \A r \in Requests : removal[r] # "idle" => remover[r] = owner[removes[r]]

-----------------------------------------------------------------------------
(* The inductive invariant                                                 *)

\* The stages of the jobs at work on a document: none, or one.
Stages(d) == {job[j] : j \in JobsOn(d)}

\* The status a document has while a job is at some stage.
StatusFits(status, stage) ==
    /\ stage = "parse_begin" => status \in {"pending", "indexed", "failed"}
    /\ stage \in {"extract", "put_blocks", "parse_ok", "parse_failed"} => status = "parsing"
    /\ stage = "index_begin" => status \in {"parsed", "failed"}
    /\ stage \in {"load", "index_empty", "claim"} => status = "parsed"
    /\ stage = "embed" => status = "chunking"
    /\ stage \in {"drop", "upsert", "mark"} => status = "embedding"
    /\ stage = "finalise" => status \in {"chunking", "embedding"}
    /\ stage # "index_failed"

\* The row, the chunks and the vectors of a document.
DocumentInv(d) ==
    /\ d \notin live => RowsOf(d) = {} /\ VectorsOf(d) = {} /\ blocks[d] = NoText
    /\ document[d].error <=> document[d].status = "failed"
    /\ \A stage \in Stages(d) : StatusFits(document[d].status, stage)
    /\ d \in live /\ JobsOn(d) = {} => document[d].status \in {"indexed", "failed"}
    /\ TextsYield /\ d \in live /\ document[d].status = "indexed" =>
          document[d].chunkCount = Cardinality(RowsOf(d))
    /\ "drop" \notin Stages(d) => VectorsOf(d) \subseteq RowsOf(d)
    /\ RemovalsOf(d) # {} => VectorsOf(d) = {}
    /\ d \in locked => \E r \in RemovalsOf(d) : removal[r] \in {"row_deleted", "files_deleted"}

Upserted(j) == {c \in OwnChunks(j) : c.ordinal <= upserted[j]}
Unmarked(j) == OwnChunks(j) \intersect marked = {}

\* What a job at work has read is what there is, and what it has written is
\* all there is.
JobInv(j) ==
    /\ j \in open => job[j] \in Transactions \union {"load"}
    /\ job[j] \notin {"upsert", "mark", "finalise", "done"} => upserted[j] = 0
    /\ job[j] \notin {"raised", "killed"}
    /\ job[j] \in JobActive =>
          /\ target[j] \in live
          /\ j \in open /\ job[j] # "mark" => loaded[j] = document[target[j]]
          /\ j \in open /\ job[j] \in {"embed", "mark"} => seen[j] = RowsOf(target[j])
          /\ \/ job[j] \in {"parse_ok", "load", "index_empty"}
             \/ job[j] = "index_begin" /\ document[target[j]].status = "parsed"
             => blocks[target[j]] \in Texts
          /\ job[j] = "index_empty" => blocks[target[j]] = EmptyText
          /\ job[j] \in {"drop", "upsert"} => ChunkCount[text[j]] > 0
          /\ job[j] \in {"drop", "upsert", "mark"} =>
                RowsOf(target[j]) = OwnChunks(j) /\ Unmarked(j)
          /\ job[j] = "upsert" =>
                VectorsOf(target[j]) = Upserted(j) /\ upserted[j] < ChunkCount[text[j]]
          /\ job[j] = "mark" => VectorsOf(target[j]) = OwnChunks(j)
          /\ job[j] = "finalise" /\ ChunkCount[text[j]] > 0 =>
                VectorsOf(target[j]) = OwnChunks(j) /\ RowsOf(target[j]) = OwnChunks(j)

\* The text goes before the row does.
RemovalInv(r) == removal[r] = "files_deleted" => blocks[removes[r]] = NoText

\* Rows come from runs that have embedded, and only rows are marked.
RowsOfRuns ==
    /\ marked \subseteq rows
    /\ \A c \in rows : job[c.job] \in {"drop", "upsert", "mark", "finalise", "done"}

SerialInv ==
    /\ OneAtATime
    /\ \A d \in Documents : DocumentInv(d)
    /\ \A j \in Jobs : JobInv(j)
    /\ \A r \in Requests : RemovalInv(r)
    /\ RowsOfRuns

\* A document that nobody rebuilds or removes is all findable, as far as users
\* delete their own documents.
Rebuilding == {"drop", "upsert", "mark"}
Findable(d) ==
    RemovalsOf(d) = {} /\ Stages(d) \intersect Rebuilding = {} =>
        VectorsOf(d) = RowsOf(d) /\ RowsOf(d) \subseteq marked
SearchInv == \A d \in Documents : Findable(d)

-----------------------------------------------------------------------------
(* What a job does when it is alone                                        *)

LEMMA SerialTypes ==
    ASSUME TypeOK
    PROVE  /\ job \in [Jobs -> {"idle"} \union JobActive \union JobEnded]
           /\ target \in [Jobs -> Documents \union {NoTarget}] /\ open \subseteq Jobs
           /\ text \in [Jobs -> Texts \union {NoText}] /\ upserted \in [Jobs -> Nat]
           /\ loaded \in [Jobs -> Document] /\ seen \in [Jobs -> SUBSET Chunk]
           /\ \A j \in Jobs : job[j] # "idle" => target[j] \in Documents
           /\ document \in [Documents -> Document]
           /\ blocks \in [Documents -> Texts \union {NoText}]
           /\ live \subseteq Documents /\ locked \subseteq Documents
           /\ rows \subseteq Chunk /\ marked \subseteq Chunk /\ vectors \subseteq Chunk
           /\ removal \in [Requests -> {"idle"} \union RemovalActive \union RemovalEnded]
           /\ removes \in [Requests -> Documents \union {NoDocument}]
           /\ \A r \in Requests : removal[r] # "idle" => removes[r] \in Documents
           /\ upload \in [Documents -> {"idle"} \union UploadActive \union UploadEnded]
BY DEF TypeOK, StoresTypeOK, PipelineTypeOK, UploadTypeOK

\* A job at work is alone with its document.
LEMMA JobIsAlone ==
    ASSUME TypeOK, SerialInv, NEW j \in Jobs, job[j] \in JobActive
    PROVE  /\ target[j] \in Documents /\ target[j] \in live /\ target[j] \notin locked
           /\ JobsOn(target[j]) = {j} /\ Stages(target[j]) = {job[j]}
           /\ RemovalsOf(target[j]) = {}
           /\ \A k \in Jobs : k # j /\ job[k] \in JobActive => target[k] # target[j]
           /\ \A r \in Requests : removal[r] \in RemovalActive => removes[r] # target[j]
<1>1. target[j] \in Documents
    BY SerialTypes DEF JobActive, Transactions
<1>2. target[j] \in live
    BY DEF SerialInv, JobInv
<1>3. j \in JobsOn(target[j])
    BY DEF JobsOn
<1>4. JobsOn(target[j]) = {j} /\ RemovalsOf(target[j]) = {}
    BY <1>1, <1>3 DEF SerialInv, OneAtATime
<1>5. target[j] \notin locked
    BY <1>1, <1>4 DEF SerialInv, DocumentInv
<1>6. Stages(target[j]) = {job[j]}
    BY <1>4 DEF Stages
<1> QED
    BY <1>1, <1>2, <1>4, <1>5, <1>6 DEF JobsOn, RemovalsOf

\* A transaction writes what it means to, because the row is as it was read.
LEMMA WriteIsExact ==
    ASSUME TypeOK, SerialInv, NEW j \in Jobs, NEW at \in Transactions \ {"mark"}, NEW to,
           WritesRow(j, at, to)
    PROVE  /\ job[j] = at /\ j \in open /\ loaded[j] = document[target[j]]
           /\ document' = [document EXCEPT ![target[j]] = Assigned(j)]
           /\ job' = [job EXCEPT ![j] = to] /\ open' = open \ {j}
           /\ loaded' = [loaded EXCEPT ![j] = NewDocument]
           /\ seen' = [seen EXCEPT ![j] = {}]
<1>1. /\ job[j] = at /\ j \in open /\ UpdateRow(j)
      /\ job' = [job EXCEPT ![j] = to] /\ open' = open \ {j}
      /\ loaded' = [loaded EXCEPT ![j] = NewDocument]
      /\ seen' = [seen EXCEPT ![j] = {}]
    BY DEF WritesRow, JobGoes, CloseTransaction
<1>2. loaded[j] = document[target[j]]
    BY <1>1 DEF SerialInv, JobInv, JobActive
<1> DEFINE set == Assigned(j)
           row == [status |-> Column(set.status, loaded[j].status, document[target[j]].status),
                   error |-> Column(set.error, loaded[j].error, document[target[j]].error),
                   chunkCount |-> Column(set.chunkCount, loaded[j].chunkCount,
                                         document[target[j]].chunkCount)]
<1>3. document' = [document EXCEPT ![target[j]] = row]
    BY <1>1, Zenon DEF UpdateRow
<1>4. /\ row.status = set.status /\ row.error = set.error /\ row.chunkCount = set.chunkCount
    BY <1>2, Zenon DEF Column
<1>5. row = [status |-> set.status, error |-> set.error, chunkCount |-> set.chunkCount]
    BY <1>4, Zenon
<1>6. set = [status |-> set.status, error |-> set.error, chunkCount |-> set.chunkCount]
    BY Zenon DEF Assigned
<1> HIDE DEF set, row
<1> QED
    BY <1>1, <1>2, <1>3, <1>5, <1>6 DEF set

\* The steps that are left when nothing but a parser fails.
Extracts(j) == Extract(j) \/ ExtractFails(j) \/ PutBlocks(j)
Writes(j) ==
    \/ ParseBegins(j) \/ ParseSucceeds(j) \/ ParseFails(j)
    \/ IndexEmpty(j) \/ Claim(j) \/ Finalise(j)
Rebuilds(j) == EmbedCommits(j) \/ DropOldVectors(j) \/ UpsertBatch(j) \/ MarkEmbedded(j)
Reads(j) == ReadRow(j) \/ OpenForIndexing(j) \/ LoadBlocks(j) \/ ReadChunks(j)

LEMMA JobsDoTheirWork ==
    ASSUME OnlyParsingFails, TypeOK, SerialInv, NEW j \in Jobs, JobStep(j)
    PROVE  /\ job[j] \in JobActive
           /\ Extracts(j) \/ Writes(j) \/ Rebuilds(j) \/ Reads(j) \/ SkipIndexing(j)
<1>1. job[j] \in JobActive
    BY DEF JobStep, ReadRow, ReadsRow, TransactionRaises, StorageRaises, ParseStep, IndexStep,
           ParseMissing, ParseBegins, Extract, ExtractFails, PutBlocks, ParsedMissing,
           ParseSucceeds, ParseFailureMissing, ParseFails, SkipIndexing, OpenForIndexing,
           LoadBlocks, IndexEmpty, Claim, ChunkingRaises, EmbedMissing, EmbedCommits,
           DropOldVectors, UpsertBatch, VectorStoreRaises, ReadChunks, MarkEmbedded,
           FinaliseMissing, Finalise, IndexFailureMissing, IndexFails, MissesRow, WritesRow,
           JobGoes, JobActive, Transactions
<1>2. target[j] \in live /\ target[j] \notin locked
    BY <1>1, JobIsAlone
<1>3. job[j] # "index_failed"
    <2>1. target[j] \in Documents /\ job[j] \in Stages(target[j])
        BY <1>1, JobIsAlone
    <2> QED
        BY <2>1 DEF SerialInv, DocumentInv, StatusFits
<1>4. ~TransactionRaises(j)
    <2> SUFFICES ASSUME j \in open, CommitRaises(j), job[j] \in Transactions PROVE FALSE
        BY DEF TransactionRaises, OnlyParsingFails
    <2>1. job[j] = "embed" => seen[j] = RowsOf(target[j])
        BY <1>1 DEF SerialInv, JobInv
    <2>2. job[j] = "mark" => seen[j] \subseteq rows
        BY <1>1 DEF SerialInv, JobInv, RowsOf
    <2> QED
        BY <1>2, <2>1, <2>2 DEF CommitRaises, OnlyParsingFails
<1>5. ~StorageRaises(j) /\ ~ChunkingRaises(j) /\ ~VectorStoreRaises(j)
    BY DEF StorageRaises, ChunkingRaises, VectorStoreRaises, OnlyParsingFails
<1>6. /\ ~ParseMissing(j) /\ ~ParsedMissing(j) /\ ~ParseFailureMissing(j)
      /\ ~EmbedMissing(j) /\ ~FinaliseMissing(j) /\ ~IndexFailureMissing(j)
    BY <1>2 DEF ParseMissing, ParsedMissing, ParseFailureMissing, EmbedMissing, FinaliseMissing,
                IndexFailureMissing, MissesRow
<1>7. ~IndexFails(j)
    BY <1>3 DEF IndexFails, WritesRow, JobGoes
<1> QED
    BY <1>1, <1>4, <1>5, <1>6, <1>7
       DEF JobStep, ParseStep, IndexStep, Extracts, Writes, Rebuilds, Reads

-----------------------------------------------------------------------------
(* Steps on one document leave the others alone                            *)

MarkedOf(d) == {c \in marked : c.doc = d}

SameDocument(d) ==
    /\ document'[d] = document[d] /\ blocks'[d] = blocks[d]
    /\ d \in live' <=> d \in live
    /\ d \in locked' <=> d \in locked
    /\ RowsOf(d)' = RowsOf(d) /\ VectorsOf(d)' = VectorsOf(d) /\ MarkedOf(d)' = MarkedOf(d)
SameJob(j) ==
    /\ job'[j] = job[j] /\ target'[j] = target[j] /\ (j \in open' <=> j \in open)
    /\ loaded'[j] = loaded[j] /\ seen'[j] = seen[j] /\ text'[j] = text[j]
    /\ upserted'[j] = upserted[j]
SameRemoval(r) == removal'[r] = removal[r] /\ removes'[r] = removes[r]

StepOn(d) ==
    /\ \A e \in Documents \ {d} : SameDocument(e)
    /\ \A j \in Jobs :
          \/ SameJob(j)
          \/ /\ job[j] \in JobActive => target[j] = d
             /\ job'[j] \in JobActive => target'[j] = d
    /\ \A r \in Requests :
          \/ SameRemoval(r)
          \/ /\ removal[r] \in RemovalActive => removes[r] = d
             /\ removal'[r] \in RemovalActive => removes'[r] = d

LEMMA OtherDocumentsKeep ==
    ASSUME NEW d, StepOn(d), NEW e \in Documents \ {d}, DocumentInv(e)
    PROVE  DocumentInv(e)'
<1>1. JobsOn(e)' = JobsOn(e)
    BY DEF StepOn, SameJob, JobsOn
<1>2. \A j \in JobsOn(e) : job'[j] = job[j]
    BY DEF StepOn, SameJob, JobsOn
<1>3. Stages(e)' = Stages(e)
    BY <1>1, <1>2 DEF Stages
<1>4. RemovalsOf(e)' = RemovalsOf(e)
    BY DEF StepOn, SameRemoval, RemovalsOf
<1>5. \A r \in RemovalsOf(e) : removal'[r] = removal[r]
    BY DEF StepOn, SameRemoval, RemovalsOf
<1>6. SameDocument(e)
    BY DEF StepOn
<1> QED
    BY <1>1, <1>3, <1>4, <1>5, <1>6 DEF DocumentInv, SameDocument

LEMMA OtherJobsKeep ==
    ASSUME NEW d, StepOn(d), NEW j \in Jobs, SameJob(j), JobInv(j),
           job[j] \in JobActive => target[j] \in Documents \ {d}
    PROVE  JobInv(j)'
<1>1. CASE job[j] \notin JobActive
    BY <1>1 DEF SameJob, JobInv
<1>2. CASE job[j] \in JobActive
    <2>1. PICK e \in Documents \ {d} : e = target[j]
        BY <1>2
    <2>2. SameDocument(e) /\ target'[j] = e
        BY <2>1 DEF StepOn, SameJob
    <2>3. OwnChunks(j)' = OwnChunks(j)
        BY DEF SameJob, OwnChunks
    <2>4. Upserted(j)' = Upserted(j)
        BY <2>3 DEF SameJob, Upserted
    <2>5. Unmarked(j)' = Unmarked(j)
        <3>1. \A c \in OwnChunks(j) : c.doc = e
            BY <2>1 DEF OwnChunks
        <3>2. \A c \in OwnChunks(j) : /\ c \in marked <=> c \in MarkedOf(e)
                                      /\ c \in marked' <=> c \in MarkedOf(e)'
            BY <3>1 DEF MarkedOf
        <3> QED
            BY <2>2, <2>3, <3>2 DEF SameDocument, Unmarked
    <2> QED
        BY <1>2, <2>1, <2>2, <2>3, <2>4, <2>5 DEF SameDocument, SameJob, JobInv
<1> QED
    BY <1>1, <1>2

LEMMA OtherRemovalsKeep ==
    ASSUME NEW d, StepOn(d), NEW r \in Requests, SameRemoval(r), RemovalInv(r),
           removal[r] \in RemovalActive => removes[r] \in Documents \ {d}
    PROVE  RemovalInv(r)'
BY DEF StepOn, SameDocument, SameRemoval, RemovalInv, RemovalActive

\* A step of one job, with its transaction and its memory.
StepOf(j) ==
    /\ job[j] \in JobActive /\ target' = target
    /\ UNCHANGED <<live, locked, upload, removal, removes, owner, remover>>
    /\ \A k \in Jobs \ {j} : SameJob(k)
    /\ \A e \in Documents \ {target[j]} : SameDocument(e)

LEMMA JobStepsAlone ==
    ASSUME TypeOK, NEW j \in Jobs, StepOf(j)
    PROVE  StepOn(target[j])
BY DEF StepOn, StepOf, SameRemoval

\* What is left to show of a step of a job: the document and the job itself.
LEMMA JobKeepsSerialInv ==
    ASSUME TypeOK, SerialInv, OneAtATime', NEW j \in Jobs, StepOf(j), RowsOfRuns', JobInv(j)',
           NEW status, NEW stage,
           document'[target[j]].status = status, job'[j] = stage,
           document'[target[j]].error <=> status = "failed",
           stage \in JobActive => StatusFits(status, stage),
           stage \notin JobActive => status \in {"indexed", "failed"},
           TextsYield /\ status = "indexed" =>
               document'[target[j]].chunkCount = Cardinality(RowsOf(target[j])'),
           stage # "drop" => VectorsOf(target[j])' \subseteq RowsOf(target[j])'
    PROVE  SerialInv'
<1>0. PICK d \in Documents : d = target[j] /\ target'[j] = d
    BY JobIsAlone DEF StepOf
<1>1. /\ d \in live /\ d \notin locked /\ RemovalsOf(d) = {}
      /\ \A k \in Jobs : k # j /\ job[k] \in JobActive => target[k] # d
      /\ \A r \in Requests : removal[r] \in RemovalActive => removes[r] # d
    BY <1>0, JobIsAlone DEF StepOf
<1>2. StepOn(d)
    BY <1>0, JobStepsAlone
<1>3. \A e \in Documents \ {d} : DocumentInv(e)'
    BY <1>2, OtherDocumentsKeep DEF SerialInv
<1>4. \A k \in Jobs \ {j} : JobInv(k)'
    <2> SUFFICES ASSUME NEW k \in Jobs \ {j} PROVE JobInv(k)'
        OBVIOUS
    <2>1. job[k] \in JobActive => target[k] \in Documents \ {d}
        BY <1>1, SerialTypes DEF JobActive, Transactions
    <2> QED
        BY <1>2, <2>1, OtherJobsKeep DEF SerialInv, StepOf
<1>5. \A r \in Requests : RemovalInv(r)'
    <2> SUFFICES ASSUME NEW r \in Requests PROVE RemovalInv(r)'
        OBVIOUS
    <2>1. removal[r] \in RemovalActive => removes[r] \in Documents \ {d}
        BY <1>1, SerialTypes DEF RemovalActive
    <2> QED
        BY <1>2, <2>1, OtherRemovalsKeep DEF SerialInv, StepOf, SameRemoval
<1>6. DocumentInv(d)'
    <2>1. JobsOn(d)' = IF stage \in JobActive THEN {j} ELSE {}
        BY <1>0, <1>1 DEF StepOf, SameJob, JobsOn
    <2>2. Stages(d)' = IF stage \in JobActive THEN {stage} ELSE {}
        BY <2>1 DEF Stages
    <2>3. RemovalsOf(d)' = {}
        BY <1>1 DEF StepOf, RemovalsOf
    <2>4. d \in live' /\ d \notin locked'
        BY <1>1 DEF StepOf
    <2>5. "drop" \notin Stages(d)' => stage # "drop"
        BY <2>2 DEF JobActive
    <2> QED
        BY <1>0, <2>1, <2>2, <2>3, <2>4, <2>5 DEF DocumentInv
<1> QED
    BY <1>3, <1>4, <1>5, <1>6 DEF SerialInv, StepOf

-----------------------------------------------------------------------------
(* The steps of a job                                                      *)

LEMMA DocumentOfJob ==
    ASSUME TypeOK, SerialInv, NEW j \in Jobs, job[j] \in JobActive
    PROVE  /\ document[target[j]].error <=> document[target[j]].status = "failed"
           /\ StatusFits(document[target[j]].status, job[j])
           /\ TextsYield /\ document[target[j]].status = "indexed" =>
                 document[target[j]].chunkCount = Cardinality(RowsOf(target[j]))
           /\ job[j] # "drop" => VectorsOf(target[j]) \subseteq RowsOf(target[j])
           /\ JobInv(j)
BY JobIsAlone DEF SerialInv, DocumentInv

\* A run's rows may be there whatever the other jobs do.
LEMMA RunsStay ==
    ASSUME TypeOK, SerialInv, NEW j \in Jobs, job[j] \in JobActive,
           \A k \in Jobs \ {j} : job'[k] = job[k],
           UNCHANGED <<rows, marked>>,
           job[j] \in {"drop", "upsert", "mark", "finalise"} =>
               job'[j] \in {"drop", "upsert", "mark", "finalise", "done"}
    PROVE  RowsOfRuns'
<1>1. \A c \in rows : c.job \in Jobs
    BY SerialTypes DEF Chunk
<1> QED
    BY <1>1 DEF SerialInv, RowsOfRuns, JobActive, Transactions

LEMMA ReadingKeepsSerialInv ==
    ASSUME TypeOK, SerialInv, OneAtATime', NEW j \in Jobs, UNCHANGED requestVars,
           Extract(j) \/ ExtractFails(j) \/ Reads(j) \/ SkipIndexing(j)
    PROVE  SerialInv'
<1>t. /\ job \in [Jobs -> {"idle"} \union JobActive \union JobEnded] /\ open \subseteq Jobs
      /\ text \in [Jobs -> Texts \union {NoText}] /\ upserted \in [Jobs -> Nat]
      /\ loaded \in [Jobs -> Document] /\ seen \in [Jobs -> SUBSET Chunk]
    BY SerialTypes
<1>1. /\ job' = [job EXCEPT ![j] = job'[j]] /\ target' = target
      /\ UNCHANGED <<live, locked, document, objects, undeleted, blocks, rows, marked, vectors, upserted>>
      /\ \A k \in Jobs \ {j} : SameJob(k)
      /\ job[j] \in JobActive
    BY <1>t DEF Extract, ExtractFails, Reads, ReadRow, ReadsRow, OpenForIndexing, LoadBlocks,
                ReadChunks, SkipIndexing, JobGoes, JobMemory, ReadSet, SameJob, storeVars, rowVars,
                fileVars, chunkVars, JobActive, Transactions
<1>2. /\ UNCHANGED <<owner, upload, removal, removes, remover>>
    BY DEF requestVars, uploadVars, removalVars
<1>d. PICK d \in Documents : d = target[j] /\ target'[j] = d
    BY <1>1, JobIsAlone
<1>3. RowsOf(d)' = RowsOf(d) /\ VectorsOf(d)' = VectorsOf(d)
    BY <1>1 DEF RowsOf, VectorsOf
<1>4. StepOf(j)
    BY <1>1, <1>2 DEF StepOf, SameDocument, RowsOf, VectorsOf, MarkedOf
<1>5. /\ document[d].error <=> document[d].status = "failed"
      /\ StatusFits(document[d].status, job[j])
      /\ TextsYield /\ document[d].status = "indexed" =>
            document[d].chunkCount = Cardinality(RowsOf(d))
      /\ job[j] # "drop" => VectorsOf(d) \subseteq RowsOf(d)
      /\ d \in live
    BY <1>1, <1>d, DocumentOfJob, JobIsAlone
<1>6. JobInv(j)
    BY DEF SerialInv
<1>q. ASSUME JobInv(j)', job[j] \notin {"drop", "upsert"},
             job[j] \in {"mark", "finalise"} => job'[j] = job[j],
             job'[j] \in JobActive => StatusFits(document[d].status, job'[j]),
             job'[j] \notin JobActive => document[d].status \in {"indexed", "failed"}
      PROVE  SerialInv'
    <2>1. RowsOfRuns'
        BY <1>t, <1>1, <1>q, RunsStay DEF SameJob
    <2> QED
        BY <1>1, <1>d, <1>3, <1>4, <1>5, <1>q, <2>1, JobKeepsSerialInv
<1>7. CASE Extract(j)
    <2>1. /\ job[j] = "extract" /\ job'[j] = "put_blocks" /\ open' = open
          /\ loaded' = loaded /\ seen' = seen
        BY <1>t, <1>7 DEF Extract, JobGoes, ReadSet
    <2>2. JobInv(j)'
        BY <1>t, <1>1, <1>d, <1>3, <1>6, <2>1 DEF JobInv, JobActive, Transactions
    <2> QED
        BY <1>5, <1>q, <2>1, <2>2 DEF StatusFits, JobActive
<1>8. CASE ExtractFails(j)
    <2>1. /\ job[j] = "extract" /\ job'[j] = "parse_failed" /\ open' = open
          /\ loaded' = loaded /\ seen' = seen
        BY <1>t, <1>8 DEF ExtractFails, JobGoes, ReadSet
    <2>2. JobInv(j)'
        BY <1>t, <1>1, <1>d, <1>3, <1>6, <2>1 DEF JobInv, JobActive, Transactions
    <2> QED
        BY <1>5, <1>q, <2>1, <2>2 DEF StatusFits, JobActive, Transactions
<1>9. CASE ReadRow(j)
    <2>1. /\ job'[j] = job[j] /\ text'[j] = text[j]
          /\ job[j] \in {"parse_begin", "parse_ok", "parse_failed", "embed", "finalise",
                         "index_failed"}
          /\ loaded'[j] = document[d]
          /\ seen'[j] = IF job[j] = "embed" THEN RowsOf(d) ELSE {}
        BY <1>t, <1>9, <1>d DEF ReadRow, ReadsRow, JobMemory
    <2>2. OwnChunks(j)' = OwnChunks(j)
        BY <1>1, <2>1 DEF OwnChunks
    <2>3. JobInv(j)'
        BY <1>1, <1>d, <1>3, <1>6, <2>1, <2>2 DEF JobInv, Transactions
    <2> QED
        BY <1>1, <1>5, <1>q, <2>1, <2>3
<1>10. CASE OpenForIndexing(j)
    <2>1. /\ job[j] = "index_begin" /\ job'[j] = "load" /\ text'[j] = text[j]
          /\ loaded'[j] = document[d] /\ document[d].status \in Indexable
        BY <1>t, <1>10, <1>d DEF OpenForIndexing, ReadsRow, JobMemory
    <2>2. document[d].status = "parsed"
        BY <1>5, <2>1 DEF StatusFits, Indexable
    <2>3. JobInv(j)'
        BY <1>1, <1>d, <1>3, <1>6, <2>1, <2>2 DEF JobInv, JobActive
    <2> QED
        BY <1>5, <1>q, <2>1, <2>2, <2>3 DEF StatusFits, JobActive
<1>11. CASE LoadBlocks(j)
    <2>1. /\ job[j] = "load" /\ open' = open /\ loaded' = loaded /\ seen' = seen
          /\ job'[j] = IF blocks[d] \in {NoText, EmptyText} THEN "index_empty" ELSE "claim"
        BY <1>t, <1>11, <1>d DEF LoadBlocks, JobGoes, ReadSet
    <2>2. blocks[d] \in Texts /\ blocks[d] # NoText
        BY <1>1, <1>d, <1>6, <2>1, NoTextAssumption DEF JobInv
    <2>3. JobInv(j)'
        BY <1>1, <1>d, <1>3, <1>6, <2>1, <2>2 DEF JobInv, JobActive, Transactions
    <2> QED
        BY <1>5, <1>q, <2>1, <2>3 DEF StatusFits, JobActive, Transactions
<1>12. CASE ReadChunks(j)
    <2>1. /\ job[j] = "mark" /\ job'[j] = job[j] /\ text'[j] = text[j]
          /\ seen'[j] = RowsOf(d) \ marked
        BY <1>t, <1>12, <1>d DEF ReadChunks, JobMemory
    <2>2. OwnChunks(j)' = OwnChunks(j) /\ Unmarked(j)' = Unmarked(j)
        BY <1>1, <2>1 DEF OwnChunks, Unmarked
    <2>3. seen'[j] = RowsOf(d)
        BY <1>1, <1>d, <1>6, <2>1 DEF JobInv, Unmarked
    <2>4. JobInv(j)'
        BY <1>1, <1>d, <1>3, <1>6, <2>1, <2>2, <2>3 DEF JobInv, Transactions
    <2> QED
        BY <1>1, <1>5, <1>q, <2>1, <2>4
<1>13. CASE SkipIndexing(j)
    <2>1. /\ job[j] = "index_begin" /\ job'[j] = "done" /\ open' = open
          /\ document[d].status \notin Indexable
        BY <1>t, <1>5, <1>13, <1>d DEF SkipIndexing, JobGoes
    <2>2. document[d].status = "failed"
        BY <1>5, <2>1 DEF StatusFits, Indexable
    <2>3. JobInv(j)'
        BY <1>1, <1>d, <1>3, <1>6, <2>1 DEF JobInv, JobActive, Transactions
    <2> QED
        BY <1>5, <1>q, <2>1, <2>2, <2>3 DEF JobActive, Transactions
<1> QED
    BY <1>7, <1>8, <1>9, <1>10, <1>11, <1>12, <1>13 DEF Reads

LEMMA PuttingKeepsSerialInv ==
    ASSUME TypeOK, SerialInv, OneAtATime', NEW j \in Jobs, UNCHANGED requestVars, PutBlocks(j)
    PROVE  SerialInv'
<1>1. /\ job[j] = "put_blocks" /\ job' = [job EXCEPT ![j] = "parse_ok"]
      /\ blocks' = [blocks EXCEPT ![target[j]] = text[j]]
      /\ UNCHANGED <<target, text, open, loaded, seen, upserted>>
      /\ UNCHANGED <<live, locked, document, rows, marked, vectors>>
      /\ UNCHANGED <<owner, upload, removal, removes, remover>>
    BY DEF PutBlocks, JobGoes, ReadSet, JobMemory, rowVars, chunkVars, requestVars, uploadVars,
           removalVars
<1>2. job[j] \in JobActive
    BY <1>1 DEF JobActive
<1>d. PICK d \in Documents : d = target[j] /\ target'[j] = d
    BY <1>1, <1>2, JobIsAlone
<1>3. /\ RowsOf(d)' = RowsOf(d) /\ VectorsOf(d)' = VectorsOf(d)
      /\ job'[j] = "parse_ok" /\ \A k \in Jobs \ {j} : job'[k] = job[k]
      /\ blocks'[d] = text[j] /\ \A e \in Documents \ {d} : blocks'[e] = blocks[e]
    BY <1>1, <1>d, SerialTypes DEF RowsOf, VectorsOf
<1>4. text[j] \in Texts
    BY <1>1 DEF TypeOK, PipelineTypeOK
<1>5. StepOf(j)
    BY <1>1, <1>2, <1>d, <1>3 DEF StepOf, SameDocument, SameJob, RowsOf, VectorsOf, MarkedOf
<1>6. JobInv(j)'
    BY <1>1, <1>2, <1>d, <1>3, <1>4 DEF SerialInv, JobInv, JobActive, Transactions
<1>7. RowsOfRuns'
    BY <1>1, <1>2, <1>3, RunsStay
<1>8. /\ document[d].error <=> document[d].status = "failed"
      /\ document[d].status = "parsing"
      /\ VectorsOf(d) \subseteq RowsOf(d)
    BY <1>1, <1>2, <1>d, DocumentOfJob DEF StatusFits
<1>9. StatusFits("parsing", "parse_ok") /\ "parse_ok" \in JobActive
    BY DEF StatusFits, JobActive, Transactions
<1> QED
    BY <1>1, <1>d, <1>3, <1>5, <1>6, <1>7, <1>8, <1>9, JobKeepsSerialInv

\* A run makes as many chunks as the chunker makes of its text.
LEMMA OwnChunksCount ==
    ASSUME NEW j \in Jobs, text[j] \in Texts
    PROVE  /\ IsFiniteSet(OwnChunks(j))
           /\ Cardinality(OwnChunks(j)) = ChunkCount[text[j]]
<1> DEFINE n == ChunkCount[text[j]]
           d == target[j]
           f == [k \in 1..n |-> [doc |-> d, job |-> j, ordinal |-> k]]
           own == [doc : {d}, job : {j}, ordinal : 1..n]
<1>1. n \in Nat
    BY PipelineAssumption
<1>2. OwnChunks(j) = own
    BY DEF OwnChunks
<1> HIDE DEF n, d
<1>3. f \in Bijection(1..n, own)
    <2>1. f \in [1..n -> own]
        OBVIOUS
    <2>2. \A a, b \in 1..n : f[a] = f[b] => a = b
        <3> SUFFICES ASSUME NEW a \in 1..n, NEW b \in 1..n, f[a] = f[b] PROVE a = b
            OBVIOUS
        <3>1. f[a].ordinal = a /\ f[b].ordinal = b
            OBVIOUS
        <3> QED
            BY <3>1
    <2>3. \A c \in own : f[c.ordinal] = c /\ c.ordinal \in 1..n
        OBVIOUS
    <2> HIDE DEF f, own
    <2> QED
        BY <2>1, <2>2, <2>3 DEF Bijection, Injection, Surjection, IsInjective
<1>4. IsFiniteSet(1..n) /\ Cardinality(1..n) = n
    BY <1>1, FS_Interval
<1> HIDE DEF f, own
<1>5. IsFiniteSet(own) /\ Cardinality(1..n) = Cardinality(own)
    BY <1>3, <1>4, FS_Bijection DEF ExistsBijection
<1> QED
    BY <1>2, <1>4, <1>5 DEF n

\* A transaction that sets the status of its document.
LEMMA WritingKeepsSerialInv ==
    ASSUME OnlyParsingFails, TypeOK, SerialInv, OneAtATime', NEW j \in Jobs,
           UNCHANGED requestVars, Writes(j)
    PROVE  SerialInv'
<1>1. PICK at \in Transactions \ {"mark"}, to \in JobActive \union JobEnded :
          /\ WritesRow(j, at, to)
          /\ \/ at = "parse_begin" /\ to = "extract"
             \/ at = "parse_ok" /\ to = "index_begin"
             \/ at = "parse_failed" /\ to = "index_begin"
             \/ at = "index_empty" /\ to = "done"
             \/ at = "claim" /\ to = IF ChunkCount[text[j]] = 0 THEN "finalise" ELSE "embed"
             \/ at = "finalise" /\ to = "done"
    BY DEF Writes, ParseBegins, ParseSucceeds, ParseFails, IndexEmpty, Claim, Finalise,
           Transactions, JobActive, JobEnded
<1>2. /\ UNCHANGED <<target, text, upserted>>
      /\ UNCHANGED <<live, locked, blocks, rows, marked, vectors>>
      /\ UNCHANGED <<owner, upload, removal, removes, remover>>
    BY DEF Writes, ParseBegins, ParseSucceeds, ParseFails, IndexEmpty, Claim, Finalise, JobMemory,
           fileVars, chunkVars, requestVars, uploadVars, removalVars
<1>3. /\ job[j] = at /\ job' = [job EXCEPT ![j] = to]
      /\ document' = [document EXCEPT ![target[j]] = Assigned(j)]
      /\ open' = open \ {j} /\ loaded' = [loaded EXCEPT ![j] = NewDocument]
      /\ seen' = [seen EXCEPT ![j] = {}] /\ loaded[j] = document[target[j]]
    BY <1>1, WriteIsExact
<1>4. job[j] \in JobActive
    BY <1>3 DEF JobActive
<1>d. PICK d \in Documents : d = target[j] /\ target'[j] = d
    BY <1>2, <1>4, JobIsAlone
<1>5. /\ document'[d] = Assigned(j) /\ \A e \in Documents \ {d} : document'[e] = document[e]
      /\ job'[j] = to /\ \A k \in Jobs \ {j} : job'[k] = job[k]
      /\ RowsOf(d)' = RowsOf(d) /\ VectorsOf(d)' = VectorsOf(d)
    BY <1>2, <1>3, <1>d, SerialTypes DEF RowsOf, VectorsOf
<1>6. StepOf(j)
    <2>1. \A k \in Jobs \ {j} : SameJob(k)
        BY <1>2, <1>3, <1>5, SerialTypes DEF SameJob
    <2> QED
        BY <1>2, <1>4, <1>d, <1>5, <2>1 DEF StepOf, SameDocument, RowsOf, VectorsOf, MarkedOf
<1>7. RowsOfRuns'
    BY <1>1, <1>2, <1>3, <1>4, <1>5, RunsStay
<1>8. /\ document[d].error <=> document[d].status = "failed"
      /\ StatusFits(document[d].status, job[j])
      /\ at # "drop" /\ VectorsOf(d) \subseteq RowsOf(d)
      /\ d \in live /\ JobInv(j)
    BY <1>1, <1>3, <1>4, <1>d, DocumentOfJob, JobIsAlone DEF Transactions
<1> DEFINE status == document'[d].status
           count == document'[d].chunkCount
<1>9. /\ status = StatusSet[at]
      /\ document'[d].error <=> status = "failed"
      /\ at = "finalise" => count = ChunkCount[text[j]]
    <2> DEFINE set == Assigned(j)
    <2>1. /\ set.status = StatusSet[at]
          /\ set.error = (at \in {"parse_failed", "index_failed"}
                            \/ (at \notin {"parse_begin", "parse_ok", "finalise"}
                                 /\ loaded[j].error))
          /\ at = "finalise" => set.chunkCount = ChunkCount[text[j]]
        BY <1>3 DEF Assigned
    <2>2. at \in {"index_empty", "claim"} => document[d].error = FALSE
        BY <1>3, <1>8 DEF StatusFits
    <2>3. document'[d] = set /\ loaded[j] = document[d]
        BY <1>3, <1>5, <1>d
    <2> HIDE DEF set
    <2>4. /\ status = StatusSet[at] /\ (at = "finalise" => count = ChunkCount[text[j]])
          /\ document'[d].error <=> at = "parse_failed"
        BY <1>1, <2>1, <2>2, <2>3
    <2>5. StatusSet[at] = "failed" <=> at = "parse_failed"
        BY <1>1 DEF StatusSet
    <2> QED
        BY <2>4, <2>5
<1>10. at # "claim" => OwnChunks(j)' = OwnChunks(j)
    BY <1>2 DEF OwnChunks
<1>11. JobInv(j)'
    <2>1. j \notin open'
        BY <1>3
    <2>2. /\ to = "index_begin" /\ status = "parsed" => blocks[d] \in Texts
        BY <1>1, <1>3, <1>4, <1>8, <1>9, <1>d DEF JobInv, StatusSet
    <2>3. to = "finalise" => ~(ChunkCount[text[j]] > 0)
        BY <1>1
    <2> QED
        BY <1>1, <1>2, <1>3, <1>d, <1>5, <1>8, <2>1, <2>2, <2>3 DEF JobInv, JobActive, Transactions
<1>12. TextsYield /\ status = "indexed" => count = Cardinality(RowsOf(d))
    <2>1. CASE at = "index_empty"
        BY <1>3, <1>4, <1>8, <1>d, <2>1 DEF JobInv, TextsYield
    <2>2. CASE at = "finalise"
        <3>1. text[j] \in Texts
            BY <1>3, <2>2 DEF TypeOK, PipelineTypeOK
        <3>2. TextsYield => RowsOf(d) = OwnChunks(j)
            BY <1>3, <1>4, <1>8, <1>d, <2>2, <3>1 DEF JobInv, TextsYield
        <3> QED
            BY <1>9, <2>2, <3>1, <3>2, OwnChunksCount
    <2>3. CASE at \notin {"index_empty", "finalise"}
        BY <1>1, <1>9, <2>3 DEF StatusSet
    <2> QED
        BY <2>1, <2>2, <2>3
<1>13. /\ to \in JobActive => StatusFits(status, to)
       /\ to \notin JobActive => status \in {"indexed", "failed"}
    BY <1>1, <1>9 DEF StatusSet, StatusFits, JobActive, Transactions
<1> QED
    <2>1. to # "drop" => VectorsOf(d)' \subseteq RowsOf(d)'
        BY <1>5, <1>8
    <2>2. TextsYield /\ status = "indexed" => count = Cardinality(RowsOf(d)')
        BY <1>5, <1>12
    <2>3. PICK s, stage : s = status /\ stage = to
        OBVIOUS
    <2> HIDE DEF status, count
    <2> QED
        BY <1>d, <1>5, <1>6, <1>7, <1>9, <1>11, <1>13, <2>1, <2>2, <2>3, JobKeepsSerialInv
           DEF status, count

\* A run's chunks are its document's, and rows before that were another run's.
LEMMA EmbeddingKeepsSerialInv ==
    ASSUME TypeOK, SerialInv, EmbedsSomething, OneAtATime', NEW j \in Jobs,
           UNCHANGED requestVars, EmbedCommits(j)
    PROVE  SerialInv'
<1>1. /\ WritesRow(j, "embed", "drop")
      /\ rows' = (rows \ RowsOf(target[j])) \union OwnChunks(j)
      /\ marked' = marked \ RowsOf(target[j])
      /\ UNCHANGED <<target, text, upserted>>
      /\ UNCHANGED <<live, locked, blocks, vectors>>
      /\ UNCHANGED <<owner, upload, removal, removes, remover>>
    BY DEF EmbedCommits, JobMemory, fileVars, requestVars, uploadVars, removalVars
<1>2. "embed" \in Transactions \ {"mark"}
    BY DEF Transactions
<1>3. /\ job[j] = "embed" /\ job' = [job EXCEPT ![j] = "drop"]
      /\ document' = [document EXCEPT ![target[j]] = Assigned(j)]
      /\ open' = open \ {j} /\ loaded' = [loaded EXCEPT ![j] = NewDocument]
      /\ seen' = [seen EXCEPT ![j] = {}] /\ loaded[j] = document[target[j]]
    BY <1>1, <1>2, WriteIsExact
<1>4. job[j] \in JobActive
    BY <1>2, <1>3 DEF JobActive
<1>d. PICK d \in Documents : d = target[j] /\ target'[j] = d
    BY <1>1, <1>4, JobIsAlone
<1>5. /\ document'[d] = Assigned(j) /\ \A e \in Documents \ {d} : document'[e] = document[e]
      /\ job'[j] = "drop" /\ \A k \in Jobs \ {j} : job'[k] = job[k]
      /\ VectorsOf(d)' = VectorsOf(d)
    BY <1>1, <1>3, <1>d, SerialTypes DEF VectorsOf
<1>6. \A c \in OwnChunks(j) : c.doc = d /\ c.job = j
    BY <1>d DEF OwnChunks
<1>7. \A c \in rows : c.job \in Jobs \ {j}
    <2>1. \A c \in rows : c.job \in Jobs
        BY SerialTypes DEF Chunk
    <2> QED
        BY <1>3, <2>1 DEF SerialInv, RowsOfRuns
<1>8. RowsOf(d)' = OwnChunks(j) /\ OwnChunks(j)' = OwnChunks(j)
    BY <1>1, <1>d, <1>6 DEF RowsOf, OwnChunks
<1>9. marked \subseteq rows
    BY DEF SerialInv, RowsOfRuns
<1>10. Unmarked(j)'
    BY <1>1, <1>6, <1>7, <1>8, <1>9 DEF Unmarked
<1>11. RowsOfRuns'
    <2>1. marked' \subseteq rows'
        BY <1>1, <1>9
    <2>2. \A c \in rows' : c \in rows \/ c.job = j
        BY <1>1, <1>6
    <2> QED
        BY <1>5, <1>7, <2>1, <2>2 DEF SerialInv, RowsOfRuns
<1>12. StepOf(j)
    <2>1. \A k \in Jobs \ {j} : SameJob(k)
        BY <1>1, <1>3, <1>5, SerialTypes DEF SameJob
    <2>2. \A e \in Documents \ {d} :
              RowsOf(e)' = RowsOf(e) /\ VectorsOf(e)' = VectorsOf(e) /\ MarkedOf(e)' = MarkedOf(e)
        BY <1>1, <1>d, <1>6 DEF RowsOf, VectorsOf, MarkedOf
    <2> QED
        BY <1>1, <1>4, <1>d, <1>5, <2>1, <2>2 DEF StepOf, SameDocument
<1>13. /\ document[d].error <=> document[d].status = "failed"
       /\ StatusFits(document[d].status, "embed")
       /\ d \in live /\ JobInv(j)
    BY <1>3, <1>4, <1>d, DocumentOfJob, JobIsAlone
<1>14. document'[d].status = "embedding" /\ ~document'[d].error
    <2> DEFINE set == Assigned(j)
    <2>1. set.status = StatusSet["embed"] /\ (set.error <=> loaded[j].error)
        BY <1>3 DEF Assigned
    <2>2. document'[d] = set /\ loaded[j] = document[d] /\ ~document[d].error
        BY <1>3, <1>5, <1>d, <1>13 DEF StatusFits
    <2>3. StatusSet["embed"] = "embedding"
        BY DEF StatusSet
    <2> HIDE DEF set
    <2> QED
        BY <2>1, <2>2, <2>3
<1>15. JobInv(j)'
    <2>1. j \notin open' /\ upserted[j] = 0 /\ ChunkCount[text[j]] > 0
        BY <1>3, <1>13 DEF JobInv, EmbedsSomething
    <2> QED
        BY <1>1, <1>d, <1>5, <1>8, <1>10, <1>13, <2>1 DEF JobInv
<1>16. StatusFits("embedding", "drop") /\ "drop" \in JobActive
    BY DEF StatusFits, JobActive
<1> QED
    BY <1>d, <1>5, <1>11, <1>12, <1>14, <1>15, <1>16, JobKeepsSerialInv

LEMMA DroppingKeepsSerialInv ==
    ASSUME TypeOK, SerialInv, OneAtATime', NEW j \in Jobs, UNCHANGED requestVars,
           DropOldVectors(j)
    PROVE  SerialInv'
<1>1. /\ job[j] = "drop" /\ job' = [job EXCEPT ![j] = "upsert"]
      /\ vectors' = vectors \ VectorsOf(target[j])
      /\ UNCHANGED <<target, text, open, loaded, seen, upserted>>
      /\ UNCHANGED <<live, locked, document, blocks, rows, marked>>
      /\ UNCHANGED <<owner, upload, removal, removes, remover>>
    BY DEF DropOldVectors, DeleteVectorsOf, JobGoes, ReadSet, JobMemory, rowVars, fileVars,
           chunkVars, requestVars, uploadVars, removalVars
<1>2. job[j] \in JobActive
    BY <1>1 DEF JobActive
<1>d. PICK d \in Documents : d = target[j] /\ target'[j] = d
    BY <1>1, <1>2, JobIsAlone
<1>3. /\ job'[j] = "upsert" /\ \A k \in Jobs \ {j} : job'[k] = job[k]
      /\ RowsOf(d)' = RowsOf(d) /\ VectorsOf(d)' = {}
    BY <1>1, <1>d, SerialTypes DEF RowsOf, VectorsOf
<1>4. StepOf(j)
    <2>1. \A e \in Documents \ {d} :
              RowsOf(e)' = RowsOf(e) /\ VectorsOf(e)' = VectorsOf(e) /\ MarkedOf(e)' = MarkedOf(e)
        BY <1>1, <1>d DEF RowsOf, VectorsOf, MarkedOf
    <2> QED
        BY <1>1, <1>2, <1>d, <1>3, <2>1 DEF StepOf, SameDocument, SameJob
<1>5. RowsOfRuns'
    BY <1>1, <1>2, <1>3, RunsStay
<1>6. /\ document[d].error <=> document[d].status = "failed"
      /\ document[d].status = "embedding" /\ d \in live /\ JobInv(j)
    BY <1>1, <1>2, <1>d, DocumentOfJob, JobIsAlone DEF StatusFits
<1>7. JobInv(j)'
    <2>1. upserted[j] = 0 /\ j \notin open /\ ChunkCount[text[j]] > 0
        BY <1>1, <1>2, <1>6 DEF JobInv, Transactions
    <2>2. OwnChunks(j)' = OwnChunks(j) /\ Unmarked(j)' = Unmarked(j)
        BY <1>1 DEF OwnChunks, Unmarked
    <2>3. Upserted(j)' = {}
        BY <1>1, <2>1, <2>2, PipelineAssumption DEF Upserted, OwnChunks
    <2> QED
        BY <1>1, <1>2, <1>d, <1>3, <1>6, <2>1, <2>2, <2>3 DEF JobInv
<1>8. StatusFits("embedding", "upsert") /\ "upsert" \in JobActive
    BY DEF StatusFits, JobActive
<1> QED
    BY <1>1, <1>d, <1>3, <1>4, <1>5, <1>6, <1>7, <1>8, JobKeepsSerialInv

\* Batches follow on one another.
LEMMA BatchesAddUp ==
    ASSUME TypeOK, NEW j \in Jobs, job[j] = "upsert"
    PROVE  /\ Upserted(j) \union Batch(j) =
                  {c \in OwnChunks(j) : c.ordinal <= upserted[j] + BatchSize}
           /\ upserted[j] + BatchSize >= ChunkCount[text[j]] =>
                  Upserted(j) \union Batch(j) = OwnChunks(j)
           /\ upserted[j] \in Nat /\ upserted[j] + BatchSize \in Nat
           /\ ChunkCount[text[j]] \in Nat
<1>1. text[j] \in Texts
    BY DEF TypeOK, PipelineTypeOK
<1>2. /\ upserted[j] \in Nat /\ BatchSize \in Nat \ {0} /\ ChunkCount[text[j]] \in Nat
    BY <1>1, SerialTypes, PipelineAssumption
<1>3. \A c \in OwnChunks(j) : c.ordinal \in 1..ChunkCount[text[j]]
    BY DEF OwnChunks
<1> QED
    BY <1>2, <1>3 DEF Upserted, Batch

LEMMA UpsertingKeepsSerialInv ==
    ASSUME TypeOK, SerialInv, OneAtATime', NEW j \in Jobs, UNCHANGED requestVars, UpsertBatch(j)
    PROVE  SerialInv'
<1> DEFINE n == ChunkCount[text[j]]
           after == upserted[j] + BatchSize
<1>1. PICK to \in {"upsert", "mark"} :
          /\ job[j] = "upsert" /\ job' = [job EXCEPT ![j] = to]
          /\ to = IF after < n THEN "upsert" ELSE "mark"
    BY DEF UpsertBatch, JobGoes
<1>2. /\ vectors' = vectors \union Batch(j) /\ upserted' = [upserted EXCEPT ![j] = after]
      /\ UNCHANGED <<target, text, open, loaded, seen>>
      /\ UNCHANGED <<live, locked, document, blocks, rows, marked>>
      /\ UNCHANGED <<owner, upload, removal, removes, remover>>
    BY DEF UpsertBatch, ReadSet, rowVars, fileVars, chunkVars, requestVars, uploadVars, removalVars
<1> HIDE DEF n, after
<1>3. job[j] \in JobActive
    BY <1>1 DEF JobActive
<1>d. PICK d \in Documents : d = target[j] /\ target'[j] = d
    BY <1>2, <1>3, JobIsAlone
<1>4. \A c \in Batch(j) : c.doc = d
    BY <1>d DEF Batch, OwnChunks
<1>5. /\ job'[j] = to /\ \A k \in Jobs \ {j} : job'[k] = job[k]
      /\ upserted'[j] = after /\ \A k \in Jobs \ {j} : upserted'[k] = upserted[k]
      /\ RowsOf(d)' = RowsOf(d) /\ VectorsOf(d)' = VectorsOf(d) \union Batch(j)
    BY <1>1, <1>2, <1>4, SerialTypes DEF RowsOf, VectorsOf
<1>6. StepOf(j)
    <2>1. \A e \in Documents \ {d} :
              RowsOf(e)' = RowsOf(e) /\ VectorsOf(e)' = VectorsOf(e) /\ MarkedOf(e)' = MarkedOf(e)
        BY <1>2, <1>4 DEF RowsOf, VectorsOf, MarkedOf
    <2> QED
        BY <1>2, <1>3, <1>d, <1>5, <2>1 DEF StepOf, SameDocument, SameJob
<1>7. RowsOfRuns'
    BY <1>2, <1>3, <1>5, RunsStay
<1>8. /\ document[d].error <=> document[d].status = "failed"
      /\ document[d].status = "embedding" /\ d \in live /\ JobInv(j)
    BY <1>1, <1>3, <1>d, DocumentOfJob, JobIsAlone DEF StatusFits
<1>9. /\ j \notin open /\ n > 0 /\ RowsOf(d) = OwnChunks(j) /\ Unmarked(j)
      /\ VectorsOf(d) = Upserted(j)
    BY <1>1, <1>3, <1>d, <1>8 DEF JobInv, Transactions, n
<1>10. OwnChunks(j)' = OwnChunks(j) /\ Unmarked(j)' = Unmarked(j)
    BY <1>2 DEF OwnChunks, Unmarked
<1>11. VectorsOf(d)' = Upserted(j)' /\ (to = "mark" => VectorsOf(d)' = OwnChunks(j))
    <2>1. Upserted(j)' = {c \in OwnChunks(j) : c.ordinal <= after}
        BY <1>5, <1>10 DEF Upserted
    <2> QED
        BY <1>1, <1>5, <1>9, <2>1, BatchesAddUp DEF n, after
<1>12. to = "upsert" => upserted'[j] < ChunkCount[text[j]]
    BY <1>1, <1>5 DEF n
<1>13. JobInv(j)'
    BY <1>1, <1>2, <1>3, <1>d, <1>5, <1>8, <1>9, <1>10, <1>11, <1>12 DEF JobInv, n
<1>14. StatusFits("embedding", to) /\ to \in JobActive
    BY <1>1 DEF StatusFits, JobActive, Transactions
<1>15. VectorsOf(d)' \subseteq RowsOf(d)'
    BY <1>5, <1>9, <1>10, <1>11 DEF Upserted
<1> QED
    BY <1>2, <1>d, <1>5, <1>6, <1>7, <1>8, <1>13, <1>14, <1>15, JobKeepsSerialInv

LEMMA MarkingKeepsSerialInv ==
    ASSUME TypeOK, SerialInv, OneAtATime', NEW j \in Jobs, UNCHANGED requestVars,
           MarkEmbedded(j)
    PROVE  SerialInv'
<1>1. /\ job[j] = "mark" /\ j \in open /\ job' = [job EXCEPT ![j] = "finalise"]
      /\ seen[j] \subseteq rows /\ marked' = marked \union seen[j]
      /\ open' = open \ {j} /\ loaded' = [loaded EXCEPT ![j] = NewDocument]
      /\ seen' = [seen EXCEPT ![j] = {}]
      /\ UNCHANGED <<target, text, upserted>>
      /\ UNCHANGED <<live, locked, document, blocks, rows, vectors>>
      /\ UNCHANGED <<owner, upload, removal, removes, remover>>
    BY DEF MarkEmbedded, CloseTransaction, JobGoes, JobMemory, rowVars, fileVars, requestVars,
           uploadVars, removalVars
<1>2. job[j] \in JobActive
    BY <1>1 DEF JobActive, Transactions
<1>d. PICK d \in Documents : d = target[j] /\ target'[j] = d
    BY <1>1, <1>2, JobIsAlone
<1>3. /\ job'[j] = "finalise" /\ \A k \in Jobs \ {j} : job'[k] = job[k]
      /\ RowsOf(d)' = RowsOf(d) /\ VectorsOf(d)' = VectorsOf(d)
    BY <1>1, <1>d, SerialTypes DEF RowsOf, VectorsOf
<1>4. /\ document[d].error <=> document[d].status = "failed"
      /\ document[d].status = "embedding" /\ d \in live /\ JobInv(j)
      /\ VectorsOf(d) \subseteq RowsOf(d)
    BY <1>1, <1>2, <1>d, DocumentOfJob, JobIsAlone DEF StatusFits
<1>5. /\ seen[j] = RowsOf(d) /\ RowsOf(d) = OwnChunks(j) /\ VectorsOf(d) = OwnChunks(j)
    BY <1>1, <1>2, <1>d, <1>4 DEF JobInv
<1>6. StepOf(j)
    <2>1. \A e \in Documents \ {d} :
              RowsOf(e)' = RowsOf(e) /\ VectorsOf(e)' = VectorsOf(e) /\ MarkedOf(e)' = MarkedOf(e)
        BY <1>1, <1>5 DEF RowsOf, VectorsOf, MarkedOf
    <2>2. \A k \in Jobs \ {j} : SameJob(k)
        BY <1>1, <1>3, SerialTypes DEF SameJob
    <2> QED
        BY <1>1, <1>2, <1>d, <1>3, <2>1, <2>2 DEF StepOf, SameDocument
<1>7. RowsOfRuns'
    <2>1. \A c \in rows : c.job \in Jobs
        BY SerialTypes DEF Chunk
    <2> QED
        BY <1>1, <1>3, <2>1 DEF SerialInv, RowsOfRuns
<1>8. OwnChunks(j)' = OwnChunks(j)
    BY <1>1 DEF OwnChunks
<1>9. JobInv(j)'
    BY <1>1, <1>d, <1>3, <1>4, <1>5, <1>8 DEF JobInv
<1>10. StatusFits("embedding", "finalise") /\ "finalise" \in JobActive
    BY DEF StatusFits, JobActive, Transactions
<1> QED
    BY <1>1, <1>d, <1>3, <1>4, <1>6, <1>7, <1>9, <1>10, JobKeepsSerialInv

LEMMA WorkKeepsSerialInv ==
    ASSUME OnlyParsingFails, TypeOK, WriteOrder, SerialInv, OneAtATime', NEW j \in Jobs,
           UNCHANGED requestVars, JobStep(j)
    PROVE  SerialInv'
<1>1. Extracts(j) \/ Writes(j) \/ Rebuilds(j) \/ Reads(j) \/ SkipIndexing(j)
    BY JobsDoTheirWork
<1>2. CASE Extracts(j) \/ Reads(j) \/ SkipIndexing(j)
    BY <1>2, ReadingKeepsSerialInv, PuttingKeepsSerialInv DEF Extracts
<1>3. CASE Writes(j)
    BY <1>3, WritingKeepsSerialInv
<1>4. CASE Rebuilds(j)
    <2>1. EmbedsSomething
        BY DEF WriteOrder
    <2> QED
        BY <1>4, <2>1, EmbeddingKeepsSerialInv, DroppingKeepsSerialInv, UpsertingKeepsSerialInv,
           MarkingKeepsSerialInv DEF Rebuilds
<1> QED
    BY <1>1, <1>2, <1>3, <1>4

-----------------------------------------------------------------------------
(* The steps of a request                                                  *)

\* Bytes and the progress of an upload are none of the invariant's business.
LEMMA QuietKeepsSerialInv ==
    ASSUME SerialInv, UNCHANGED <<live, locked, document, blocks, rows, marked, vectors>>,
           UNCHANGED <<removal, removes, jobVars>>
    PROVE  SerialInv'
<1>1. UNCHANGED <<job, target, open, text, loaded, seen, upserted>>
    BY DEF jobVars
<1>2. \A d \in Documents : /\ JobsOn(d)' = JobsOn(d) /\ Stages(d)' = Stages(d)
                           /\ RemovalsOf(d)' = RemovalsOf(d)
                           /\ RowsOf(d)' = RowsOf(d) /\ VectorsOf(d)' = VectorsOf(d)
    BY <1>1 DEF JobsOn, Stages, RemovalsOf, RowsOf, VectorsOf
<1>3. OneAtATime'
    BY <1>2 DEF SerialInv, OneAtATime
<1>4. ASSUME NEW d \in Documents PROVE DocumentInv(d)'
    BY <1>2 DEF SerialInv, DocumentInv
<1>5. ASSUME NEW j \in Jobs PROVE JobInv(j)'
    <2>1. OwnChunks(j)' = OwnChunks(j) /\ RowsOf(target[j])' = RowsOf(target[j])
          /\ VectorsOf(target[j])' = VectorsOf(target[j])
        BY <1>1 DEF OwnChunks, RowsOf, VectorsOf
    <2>2. Upserted(j)' = Upserted(j) /\ Unmarked(j)' = Unmarked(j)
        BY <1>1, <2>1 DEF Upserted, Unmarked
    <2> QED
        BY <1>1, <2>1, <2>2 DEF SerialInv, JobInv
<1>6. \A r \in Requests : RemovalInv(r)'
    BY DEF SerialInv, RemovalInv
<1>7. RowsOfRuns'
    BY <1>1 DEF SerialInv, RowsOfRuns
<1> QED
    BY <1>3, <1>4, <1>5, <1>6, <1>7 DEF SerialInv

\* A job starts on a document that nothing is at work on.
LEMMA SchedulingKeepsSerialInv ==
    ASSUME TypeOK, SerialInv, OneAtATime', NEW j \in Jobs, NEW d \in Documents, Schedule(j, d),
           UNCHANGED <<locked, blocks, rows, marked, vectors, removal, removes>>,
           \A e \in Documents \ {d} : document'[e] = document[e] /\ (e \in live' <=> e \in live),
           d \in live', live \subseteq live',
           document'[d].status \in {"pending", "indexed", "failed"},
           document'[d].error <=> document'[d].status = "failed",
           TextsYield /\ document'[d].status = "indexed" =>
               document'[d].chunkCount = Cardinality(RowsOf(d))
    PROVE  SerialInv'
<1>1. /\ job[j] = "idle" /\ job' = [job EXCEPT ![j] = "parse_begin"]
      /\ target' = [target EXCEPT ![j] = d]
      /\ UNCHANGED <<open, text, loaded, seen, upserted>>
    BY DEF Schedule, JobGoes, ReadSet
<1>2. /\ job'[j] = "parse_begin" /\ target'[j] = d
      /\ \A k \in Jobs \ {j} : job'[k] = job[k] /\ target'[k] = target[k]
    BY <1>1, SerialTypes
<1>3. "parse_begin" \in JobActive /\ "idle" \notin JobActive
    BY DEF JobActive, Transactions
<1>4. j \in JobsOn(d)'
    BY <1>2, <1>3 DEF JobsOn
<1>5. JobsOn(d)' = {j} /\ RemovalsOf(d)' = {}
    BY <1>4 DEF OneAtATime
<1>6. RemovalsOf(d) = {}
    BY <1>5 DEF RemovalsOf
<1>7. JobsOn(d) = {}
    <2> SUFFICES ASSUME NEW k \in JobsOn(d) PROVE FALSE
        OBVIOUS
    <2>1. k # j
        BY <1>1, <1>3 DEF JobsOn
    <2>2. k \in JobsOn(d)'
        BY <1>2, <2>1 DEF JobsOn
    <2> QED
        BY <1>5, <2>1, <2>2
<1>8. Stages(d) = {} /\ Stages(d)' = {"parse_begin"}
    BY <1>2, <1>5, <1>7 DEF Stages
<1>9. /\ RowsOf(d)' = RowsOf(d) /\ VectorsOf(d)' = VectorsOf(d)
      /\ VectorsOf(d) \subseteq RowsOf(d) /\ d \notin locked
    BY <1>6, <1>8 DEF RowsOf, VectorsOf, SerialInv, DocumentInv
<1>10. StepOn(d)
    <2>1. \A k \in Jobs \ {j} : SameJob(k)
        BY <1>1, <1>2 DEF SameJob
    <2>2. \A r \in Requests : SameRemoval(r)
        BY DEF SameRemoval
    <2>3. \A e \in Documents \ {d} : SameDocument(e)
        BY DEF SameDocument, RowsOf, VectorsOf, MarkedOf
    <2> QED
        BY <1>1, <1>2, <1>3, <2>1, <2>2, <2>3 DEF StepOn
<1>11. DocumentInv(d)'
    <2>1. StatusFits(document'[d].status, "parse_begin")
        BY DEF StatusFits
    <2> QED
        BY <1>5, <1>8, <1>9, <2>1 DEF DocumentInv
<1>12. JobInv(j)'
    <2>1. j \notin open /\ upserted[j] = 0
        BY <1>1 DEF SerialInv, JobInv, Transactions
    <2> QED
        BY <1>1, <1>2, <2>1 DEF JobInv
<1>13. \A e \in Documents \ {d} : DocumentInv(e)'
    BY <1>10, OtherDocumentsKeep DEF SerialInv
<1>14. \A k \in Jobs \ {j} : JobInv(k)'
    <2> SUFFICES ASSUME NEW k \in Jobs \ {j} PROVE JobInv(k)'
        OBVIOUS
    <2>1. SameJob(k)
        BY <1>1, <1>2 DEF SameJob
    <2>2. job[k] \in JobActive => target[k] \in Documents \ {d}
        BY <1>3, <1>7, SerialTypes DEF JobsOn
    <2> QED
        BY <1>10, <2>1, <2>2, OtherJobsKeep DEF SerialInv
<1>15. \A r \in Requests : RemovalInv(r)'
    BY DEF SerialInv, RemovalInv
<1>16. RowsOfRuns'
    <2>1. \A c \in rows : c.job \in Jobs
        BY SerialTypes DEF Chunk
    <2> QED
        BY <1>1, <1>2, <2>1 DEF SerialInv, RowsOfRuns
<1> QED
    BY <1>11, <1>12, <1>13, <1>14, <1>15, <1>16 DEF SerialInv

\* What is left to show of a step of a deletion: the document it deletes.
LEMMA RemovalKeepsSerialInv ==
    ASSUME TypeOK, SerialInv, OneAtATime', NEW r \in Requests, NEW d \in Documents,
           UNCHANGED jobVars, removes'[r] = d,
           removal[r] \in RemovalActive => removes[r] = d,
           JobsOn(d) = {}, \A s \in RemovalsOf(d) : s = r,
           \A s \in Requests \ {r} : SameRemoval(s),
           \A e \in Documents \ {d} : SameDocument(e),
           document'[d] = document[d], VectorsOf(d)' = {},
           d \in live' => d \in live /\ RowsOf(d)' = RowsOf(d),
           d \notin live' => RowsOf(d)' = {} /\ blocks'[d] = NoText,
           d \in locked' => removal'[r] \in {"row_deleted", "files_deleted"},
           removal'[r] = "files_deleted" => blocks'[d] = NoText,
           marked' \subseteq rows', rows' \subseteq rows
    PROVE  SerialInv'
<1>1. UNCHANGED <<job, target, open, text, loaded, seen, upserted>>
    BY DEF jobVars
<1>2. StepOn(d)
    BY <1>1 DEF StepOn, SameJob
<1>3. \A e \in Documents \ {d} : DocumentInv(e)'
    BY <1>2, OtherDocumentsKeep DEF SerialInv
<1>4. \A j \in Jobs : JobInv(j)'
    <2> SUFFICES ASSUME NEW j \in Jobs PROVE JobInv(j)'
        OBVIOUS
    <2>1. SameJob(j)
        BY <1>1 DEF SameJob
    <2>2. job[j] \in JobActive => target[j] \in Documents \ {d}
        BY SerialTypes DEF JobsOn, JobActive, Transactions
    <2> QED
        BY <1>2, <2>1, <2>2, OtherJobsKeep DEF SerialInv
<1>5. \A s \in Requests \ {r} : RemovalInv(s)'
    <2> SUFFICES ASSUME NEW s \in Requests \ {r} PROVE RemovalInv(s)'
        OBVIOUS
    <2>1. removal[s] \in RemovalActive => removes[s] \in Documents \ {d}
        BY SerialTypes DEF RemovalsOf, RemovalActive
    <2> QED
        BY <1>2, <2>1, OtherRemovalsKeep DEF SerialInv
<1>6. RemovalInv(r)'
    BY DEF RemovalInv
<1>7. RowsOfRuns'
    BY <1>1 DEF SerialInv, RowsOfRuns
<1>8. DocumentInv(d)'
    <2>1. JobsOn(d)' = {} /\ Stages(d)' = {} /\ Stages(d) = {}
        BY <1>1 DEF JobsOn, Stages
    <2>2. d \in locked' => \E s \in RemovalsOf(d)' : removal'[s] \in {"row_deleted", "files_deleted"}
        BY DEF RemovalsOf, RemovalActive
    <2> QED
        BY <2>1, <2>2 DEF SerialInv, DocumentInv
<1> QED
    BY <1>3, <1>4, <1>5, <1>6, <1>7, <1>8 DEF SerialInv

\* A deletion at work is alone with its document.
LEMMA RemovalIsAlone ==
    ASSUME TypeOK, SerialInv, NEW r \in Requests, removal[r] \in RemovalActive
    PROVE  /\ removes[r] \in Documents /\ JobsOn(removes[r]) = {}
           /\ RemovalsOf(removes[r]) = {r} /\ VectorsOf(removes[r]) = {}
           /\ removal[r] \in {"vectors_dropped", "found"} => removes[r] \notin locked
           /\ removal[r] = "files_deleted" => blocks[removes[r]] = NoText
           /\ removes[r] \notin live =>
                  RowsOf(removes[r]) = {} /\ blocks[removes[r]] = NoText
<1>1. removes[r] \in Documents /\ r \in RemovalsOf(removes[r])
    BY SerialTypes DEF RemovalActive, RemovalsOf
<1>2. JobsOn(removes[r]) = {} /\ RemovalsOf(removes[r]) = {r}
    BY <1>1 DEF SerialInv, OneAtATime
<1> QED
    BY <1>1, <1>2 DEF SerialInv, DocumentInv, RemovalInv

LEMMA DeletingKeepsSerialInv ==
    ASSUME OnlyParsingFails, TypeOK, SerialInv, OneAtATime', NEW r \in Requests,
           RemovalStep(r), UNCHANGED jobVars
    PROVE  SerialInv'
<1>t. /\ removal \in [Requests -> {"idle"} \union RemovalActive \union RemovalEnded]
      /\ removes \in [Requests -> Documents \union {NoDocument}]
      /\ blocks \in [Documents -> Texts \union {NoText}]
    BY SerialTypes
<1>m. marked \subseteq rows
    BY DEF SerialInv, RowsOfRuns
<1>1. ASSUME NEW d \in Documents, DropVectors(r, d)
      PROVE  SerialInv'
    <2>1. /\ removal[r] = "idle" /\ removal' = [removal EXCEPT ![r] = "vectors_dropped"]
          /\ removes' = [removes EXCEPT ![r] = d] /\ vectors' = vectors \ VectorsOf(d)
          /\ UNCHANGED <<live, locked, document, blocks, rows, marked>>
        BY <1>1 DEF DropVectors, DeleteVectorsOf, rowVars, fileVars, chunkVars
    <2>2. /\ removal'[r] = "vectors_dropped" /\ removes'[r] = d
          /\ \A s \in Requests \ {r} : SameRemoval(s)
        BY <1>t, <2>1 DEF SameRemoval
    <2>3. JobsOn(d)' = JobsOn(d)
        BY DEF jobVars, JobsOn
    <2>4. r \in RemovalsOf(d)' /\ RemovalsOf(d) \subseteq RemovalsOf(d)'
        BY <2>1, <2>2 DEF RemovalsOf, RemovalActive, SameRemoval
    <2>5. JobsOn(d) = {} /\ \A s \in RemovalsOf(d) : s = r
        BY <2>3, <2>4 DEF OneAtATime
    <2>6. RemovalsOf(d) = {}
        BY <2>1, <2>5 DEF RemovalsOf, RemovalActive
    <2>7. /\ VectorsOf(d)' = {} /\ RowsOf(d)' = RowsOf(d)
          /\ \A e \in Documents \ {d} : SameDocument(e)
        BY <2>1 DEF VectorsOf, RowsOf, MarkedOf, SameDocument
    <2>8. d \notin live => RowsOf(d) = {} /\ blocks[d] = NoText
        BY DEF SerialInv, DocumentInv
    <2>9. d \notin locked
        BY <2>6 DEF SerialInv, DocumentInv
    <2>10. removal[r] \notin RemovalActive
        BY <2>1 DEF RemovalActive
    <2> QED
        BY <1>m, <2>1, <2>2, <2>5, <2>7, <2>8, <2>9, <2>10, RemovalKeepsSerialInv
<1>2. ASSUME removal[r] \in RemovalActive, NEW to,
             removal' = [removal EXCEPT ![r] = to], removes' = removes,
             UNCHANGED <<document, vectors>>,
             \A e \in Documents \ {removes[r]} : SameDocument(e),
             removes[r] \in live' => removes[r] \in live /\ RowsOf(removes[r])' = RowsOf(removes[r]),
             removes[r] \notin live' => RowsOf(removes[r])' = {} /\ blocks'[removes[r]] = NoText,
             removes[r] \in locked' => to \in {"row_deleted", "files_deleted"},
             to = "files_deleted" => blocks'[removes[r]] = NoText,
             marked' \subseteq rows', rows' \subseteq rows
      PROVE  SerialInv'
    <2>1. PICK d \in Documents : d = removes[r] /\ removes'[r] = d
        BY <1>2, RemovalIsAlone
    <2>2. JobsOn(d) = {} /\ RemovalsOf(d) = {r} /\ VectorsOf(d) = {}
        BY <1>2, <2>1, RemovalIsAlone
    <2>3. VectorsOf(d)' = {}
        BY <1>2, <2>2 DEF VectorsOf
    <2>4. removal'[r] = to /\ \A s \in Requests \ {r} : SameRemoval(s)
        BY <1>t, <1>2 DEF SameRemoval
    <2>5. RowsOf(removes[r])' = RowsOf(d)'
        BY <1>2, <2>1 DEF RowsOf
    <2> QED
        BY <1>2, <2>1, <2>2, <2>3, <2>4, <2>5, RemovalKeepsSerialInv
<1>3. CASE FindOwned(r) \/ FindMissing(r)
    <2>1. /\ removal[r] = "vectors_dropped" /\ removes' = removes
          /\ UNCHANGED <<live, locked, document, blocks, rows, marked, vectors>>
          /\ \E to \in {"found", "missing"} : removal' = [removal EXCEPT ![r] = to]
        BY <1>3 DEF FindOwned, FindMissing, RemovalGoes, storeVars, rowVars, fileVars, chunkVars
    <2>2. removal[r] \in RemovalActive
        BY <2>1 DEF RemovalActive
    <2>3. /\ removes[r] \notin locked
          /\ removes[r] \notin live => RowsOf(removes[r]) = {} /\ blocks[removes[r]] = NoText
        BY <2>1, <2>2, RemovalIsAlone
    <2>4. RowsOf(removes[r])' = RowsOf(removes[r]) /\ \A e \in Documents : SameDocument(e)
        BY <2>1 DEF RowsOf, VectorsOf, MarkedOf, SameDocument
    <2> QED
        BY <1>m, <1>2, <2>1, <2>2, <2>3, <2>4
<1>4. CASE DeleteRow(r)
    <2>1. /\ removal[r] = "found" /\ removes' = removes
          /\ UNCHANGED <<live, document, blocks, rows, marked, vectors>>
          /\ locked' = locked \union ({removes[r]} \intersect live)
          /\ removal' = [removal EXCEPT ![r] = "row_deleted"]
        BY <1>4 DEF DeleteRow, RemovalGoes, fileVars, chunkVars
    <2>2. removal[r] \in RemovalActive
        BY <2>1 DEF RemovalActive
    <2>3. removes[r] \notin live => RowsOf(removes[r]) = {} /\ blocks[removes[r]] = NoText
        BY <2>1, <2>2, RemovalIsAlone
    <2>4. /\ RowsOf(removes[r])' = RowsOf(removes[r])
          /\ \A e \in Documents \ {removes[r]} : SameDocument(e)
        BY <2>1 DEF RowsOf, VectorsOf, MarkedOf, SameDocument
    <2> QED
        BY <1>m, <1>2, <2>1, <2>2, <2>3, <2>4
<1>5. CASE DeleteFiles(r)
    <2>1. /\ removal[r] = "row_deleted" /\ removes' = removes
          /\ UNCHANGED <<live, locked, document, rows, marked, vectors>>
          /\ blocks' = [blocks EXCEPT ![removes[r]] = NoText]
          /\ removal' = [removal EXCEPT ![r] = "files_deleted"]
        BY <1>5 DEF DeleteFiles, DeleteFilesOf, UnlinkText, RemovalGoes, rowVars, chunkVars,
                    OnlyParsingFails
    <2>2. removal[r] \in RemovalActive
        BY <2>1 DEF RemovalActive
    <2>3. /\ removes[r] \notin live => RowsOf(removes[r]) = {}
          /\ blocks'[removes[r]] = NoText
        BY <1>t, <2>1, <2>2, RemovalIsAlone
    <2>4. /\ RowsOf(removes[r])' = RowsOf(removes[r])
          /\ \A e \in Documents \ {removes[r]} : SameDocument(e)
        BY <1>t, <2>1 DEF RowsOf, VectorsOf, MarkedOf, SameDocument
    <2> QED
        BY <1>m, <1>2, <2>1, <2>2, <2>3, <2>4
<1>6. CASE CommitRemoval(r)
    <2>1. /\ removal[r] = "files_deleted" /\ removes' = removes
          /\ UNCHANGED <<document, blocks, vectors>>
          /\ live' = live \ {removes[r]} /\ rows' = rows \ RowsOf(removes[r])
          /\ marked' = marked \ RowsOf(removes[r]) /\ locked' = locked \ {removes[r]}
          /\ removal' = [removal EXCEPT ![r] = "removed"]
        BY <1>6 DEF CommitRemoval, DeleteRowsOf, RemovalGoes, fileVars
    <2>2. removal[r] \in RemovalActive
        BY <2>1 DEF RemovalActive
    <2>3. blocks[removes[r]] = NoText
        BY <2>1, <2>2, RemovalIsAlone
    <2>4. /\ RowsOf(removes[r])' = {}
          /\ \A e \in Documents \ {removes[r]} : SameDocument(e)
        BY <2>1 DEF RowsOf, VectorsOf, MarkedOf, SameDocument
    <2> QED
        BY <1>m, <1>2, <2>1, <2>2, <2>3, <2>4
<1>7. ~RemovalFails(r) /\ \A d \in Documents : ~DropVectorsFails(r, d)
    BY DEF RemovalFails, DropVectorsFails, OnlyParsingFails
<1> QED
    BY <1>1, <1>3, <1>4, <1>5, <1>6, <1>7 DEF RemovalStep, RemovalArrives, RemovalContinues

-----------------------------------------------------------------------------
(* The invariant                                                           *)

LEMMA InitIsSerial == Init => SerialInv
<1> SUFFICES ASSUME Init PROVE SerialInv
    OBVIOUS
<1> USE DEF Init, StoresInit, UploadInit, PipelineInit
<1>1. \A d \in Documents : JobsOn(d) = {} /\ Stages(d) = {} /\ RemovalsOf(d) = {}
    BY DEF JobsOn, Stages, RemovalsOf, JobActive, Transactions, RemovalActive
<1>2. \A d \in Documents : DocumentInv(d)
    BY <1>1 DEF DocumentInv, RowsOf, VectorsOf, NewDocument
<1>3. \A j \in Jobs : JobInv(j)
    BY DEF JobInv, JobActive, Transactions
<1> QED
    BY <1>1, <1>2, <1>3 DEF SerialInv, OneAtATime, RemovalInv, RowsOfRuns

LEMMA StepKeepsSerialInv ==
    ASSUME OnlyParsingFails, TypeOK, WriteOrder, SerialInv, [Next /\ OneAtATime']_vars
    PROVE  SerialInv'
<1>1. CASE UNCHANGED vars
    BY <1>1, QuietKeepsSerialInv
       DEF vars, storeVars, rowVars, fileVars, chunkVars, requestVars, removalVars
<1>2. ASSUME OneAtATime', NEW d \in Documents, UploadStep(d), UNCHANGED jobVars
      PROVE  SerialInv'
    <2>1. UNCHANGED <<live, locked, document, blocks, rows, marked, vectors, removal, removes>>
        BY <1>2 DEF UploadStep, StartUpload, RefuseUpload, FinishPut, FindDuplicate,
                    FindNoDuplicate, LookupFails, InsertRow, InsertFails, DiscardBytes,
                    CommitUploadFails, UploadGoes, storeVars, rowVars, fileVars, chunkVars,
                    removalVars
    <2> QED
        BY <1>2, <2>1, QuietKeepsSerialInv
<1>3. ASSUME OneAtATime', NEW d \in Documents, NEW j \in Jobs, AcceptUpload(d, j)
      PROVE  SerialInv'
    <2>1. /\ upload[d] = "flushed" /\ live' = live \union {d} /\ Schedule(j, d)
          /\ document' = [document EXCEPT ![d] = NewDocument]
          /\ UNCHANGED <<locked, blocks, rows, marked, vectors, removal, removes>>
        BY <1>3 DEF AcceptUpload, CommitUpload, UploadGoes, fileVars, chunkVars, removalVars
    <2>2. document'[d] = NewDocument /\ \A e \in Documents \ {d} : document'[e] = document[e]
        BY <2>1, SerialTypes
    <2>3. document'[d].status = "pending" /\ ~document'[d].error
        BY <2>2 DEF NewDocument
    <2> QED
        BY <1>3, <2>1, <2>2, <2>3, SchedulingKeepsSerialInv
<1>4. ASSUME OneAtATime', NEW r \in Requests, RemovalStep(r), UNCHANGED jobVars
      PROVE  SerialInv'
    BY <1>4, DeletingKeepsSerialInv
<1>5. ASSUME OneAtATime', NEW d \in Documents, NEW j \in Jobs, RequestReparse(j, d)
      PROVE  SerialInv'
    <2>1. /\ d \in live /\ Schedule(j, d)
          /\ UNCHANGED <<live, locked, document, blocks, rows, marked, vectors, removal, removes>>
        BY <1>5 DEF RequestReparse, Reparse, storeVars, rowVars, fileVars, chunkVars, requestVars,
                    removalVars
    <2>2. JobsOn(d) = {}
        <3>1. j \in JobsOn(d)'
            BY <2>1, SerialTypes DEF Schedule, JobGoes, JobsOn, JobActive, Transactions
        <3>2. JobsOn(d) \subseteq JobsOn(d)' \ {j}
            BY <2>1, SerialTypes DEF Schedule, JobGoes, JobsOn, JobActive, Transactions
        <3> QED
            BY <1>5, <3>1, <3>2 DEF OneAtATime
    <2>3. /\ document[d].status \in {"indexed", "failed"}
          /\ document[d].error <=> document[d].status = "failed"
          /\ TextsYield /\ document[d].status = "indexed" =>
                document[d].chunkCount = Cardinality(RowsOf(d))
        BY <2>1, <2>2 DEF SerialInv, DocumentInv
    <2> QED
        BY <1>5, <2>1, <2>3, SchedulingKeepsSerialInv
<1>6. ASSUME OneAtATime', NEW j \in Jobs, JobStep(j), UNCHANGED requestVars
      PROVE  SerialInv'
    BY <1>6, WorkKeepsSerialInv
<1>7. ~Crash
    BY DEF Crash, OnlyParsingFails
<1> QED
    BY <1>1, <1>2, <1>3, <1>4, <1>5, <1>6, <1>7 DEF Next

\* What one job or deletion at a time finds and leaves, stage by stage.
THEOREM OneAtATimeIsConsistent ==
    ASSUME OnlyParsingFails
    PROVE  SerialSpec => []SerialInv
<1>1. SerialSpec => Spec
    <2>1. [Next /\ OneAtATime']_vars => [Next]_vars
        OBVIOUS
    <2> QED
        BY <2>1, PTL DEF SerialSpec, Spec
<1>2. TypeOK /\ WriteOrder /\ SerialInv /\ [Next /\ OneAtATime']_vars => SerialInv'
    BY StepKeepsSerialInv
<1> QED
    BY <1>1, <1>2, InitIsSerial, TypeCorrect, WritesAreOrdered, PTL DEF SerialSpec

LEMMA SerialSpecIsSpec == SerialSpec => Spec
<1>1. [Next /\ OneAtATime']_vars => [Next]_vars
    OBVIOUS
<1> QED
    BY <1>1, PTL DEF SerialSpec, Spec

\* A document at rest has no vector without its chunk row (`embed_and_upsert`
\* replaces the vectors after it has replaced the rows).
THEOREM NoVectorIsOrphaned ==
    ASSUME OnlyParsingFails
    PROVE  SerialSpec => []NoOrphanVectors
<1>1. TypeOK /\ SerialInv => NoOrphanVectors
    <2> SUFFICES ASSUME TypeOK, SerialInv, NEW v \in vectors, AtRest(v.doc)
                 PROVE  v \in rows
        BY DEF NoOrphanVectors
    <2>1. v.doc \in Documents /\ v \in VectorsOf(v.doc)
        BY SerialTypes DEF Chunk, VectorsOf
    <2>2. Stages(v.doc) = {}
        BY DEF AtRest, Stages
    <2> QED
        BY <2>1, <2>2 DEF SerialInv, DocumentInv, RowsOf
<1> QED
    BY <1>1, OneAtATimeIsConsistent, SerialSpecIsSpec, TypeCorrect, PTL

\* Text is not left behind by a deletion (`delete_prefix` takes the extracted
\* text with the original).
THEOREM TextNeverOutlives ==
    ASSUME OnlyParsingFails
    PROVE  SerialSpec => []TextDiesWithDocument
<1>1. SerialInv => TextDiesWithDocument
    BY DEF SerialInv, DocumentInv, TextDiesWithDocument
<1> QED
    BY <1>1, OneAtATimeIsConsistent, PTL

\* A document shows an error exactly when its last run failed (`mark_parsing`
\* and `mark_indexed` clear what an earlier run left).
THEOREM ErrorsAreExplained ==
    ASSUME OnlyParsingFails
    PROVE  SerialSpec => []ErrorExplainsFailure
<1>1. TypeOK /\ SerialInv => ErrorExplainsFailure
    BY SerialTypes DEF SerialInv, DocumentInv, ErrorExplainsFailure
<1> QED
    BY <1>1, OneAtATimeIsConsistent, SerialSpecIsSpec, TypeCorrect, PTL

-----------------------------------------------------------------------------
(* What a search finds                                                     *)

LEMMA FindableStays ==
    ASSUME SearchInv, NEW d \in Documents,
           RowsOf(d)' = RowsOf(d), VectorsOf(d)' = VectorsOf(d), MarkedOf(d)' = MarkedOf(d),
           RemovalsOf(d)' = {} =>
               RemovalsOf(d) = {} \/ (RowsOf(d) = {} /\ VectorsOf(d) = {}),
           Stages(d)' \intersect Rebuilding = {} => Stages(d) \intersect Rebuilding = {}
    PROVE  Findable(d)'
<1>1. CASE RemovalsOf(d) = {}
    <2>1. RowsOf(d) \subseteq marked => RowsOf(d)' \subseteq marked'
        BY DEF RowsOf, MarkedOf
    <2> QED
        BY <1>1, <2>1 DEF SearchInv, Findable
<1>2. CASE RowsOf(d) = {} /\ VectorsOf(d) = {}
    BY <1>2 DEF Findable
<1>3. CASE RemovalsOf(d)' # {}
    BY <1>3 DEF Findable
<1> QED
    BY <1>1, <1>2, <1>3

\* A step that touches no chunk, vector or removal and starts no rebuilding
\* nor ends any.
LEMMA QuietKeepsSearch ==
    ASSUME SearchInv, UNCHANGED <<rows, marked, vectors, removal, removes>>,
           \A j \in Jobs : \/ job'[j] = job[j] /\ target'[j] = target[j]
                           \/ job[j] \notin Rebuilding
    PROVE  SearchInv'
<1> SUFFICES ASSUME NEW d \in Documents PROVE Findable(d)'
    BY DEF SearchInv
<1>1. /\ RowsOf(d)' = RowsOf(d) /\ VectorsOf(d)' = VectorsOf(d) /\ MarkedOf(d)' = MarkedOf(d)
      /\ RemovalsOf(d)' = RemovalsOf(d)
    BY DEF RowsOf, VectorsOf, MarkedOf, RemovalsOf
<1>2. Stages(d) \intersect Rebuilding \subseteq Stages(d)'
    <2> SUFFICES ASSUME NEW j \in JobsOn(d), job[j] \in Rebuilding
                 PROVE  job[j] \in Stages(d)'
        BY DEF Stages
    <2>1. job'[j] = job[j] /\ j \in JobsOn(d)'
        BY DEF JobsOn
    <2> QED
        BY <2>1 DEF Stages
<1> QED
    BY <1>1, <1>2, FindableStays

\* A run that is rebuilding is on its way, and what it leaves is findable.
LEMMA WorkKeepsSearch ==
    ASSUME OnlyParsingFails, TypeOK, SerialInv, SearchInv, NEW j \in Jobs,
           UNCHANGED requestVars, JobStep(j)
    PROVE  SearchInv'
<1>1. /\ job[j] \in JobActive
      /\ Extracts(j) \/ Writes(j) \/ Rebuilds(j) \/ Reads(j) \/ SkipIndexing(j)
    BY JobsDoTheirWork
<1>2. removal' = removal /\ removes' = removes
    BY DEF requestVars, removalVars
<1>3. job \in [Jobs -> {"idle"} \union JobActive \union JobEnded]
    BY SerialTypes
<1>d. PICK d \in Documents : d = target[j]
    BY <1>1, JobIsAlone
<1>4. CASE Extracts(j) \/ Writes(j) \/ Reads(j) \/ SkipIndexing(j)
    <2>1. UNCHANGED <<rows, marked, vectors, target>>
        BY <1>4 DEF Extracts, Extract, ExtractFails, PutBlocks, Writes, ParseBegins,
                    ParseSucceeds, ParseFails, IndexEmpty, Claim, Finalise, Reads, ReadRow,
                    OpenForIndexing, LoadBlocks, ReadChunks, SkipIndexing, JobMemory, storeVars,
                    chunkVars
    <2>2. \/ job' = job
          \/ job[j] \notin Rebuilding /\ \E to \in JobActive \union JobEnded :
                                            job' = [job EXCEPT ![j] = to]
        BY <1>4 DEF Extracts, Extract, ExtractFails, PutBlocks, Writes, ParseBegins,
                    ParseSucceeds, ParseFails, IndexEmpty, Claim, Finalise, Reads, ReadRow,
                    OpenForIndexing, LoadBlocks, ReadChunks, SkipIndexing, WritesRow, ReadsRow,
                    JobGoes, Rebuilding, JobActive, JobEnded, Transactions
    <2>3. \A k \in Jobs \ {j} : job'[k] = job[k]
        BY <1>3, <2>2
    <2> QED
        BY <1>2, <2>1, <2>2, <2>3, QuietKeepsSearch
<1>5. ASSUME Rebuilds(j), NEW e \in Documents, e # d
      PROVE  Findable(e)'
    <2>1. /\ target' = target /\ \E to \in JobActive : job' = [job EXCEPT ![j] = to]
        BY <1>5 DEF Rebuilds, EmbedCommits, DropOldVectors, UpsertBatch, MarkEmbedded, WritesRow,
                    JobGoes, JobMemory, JobActive, Transactions
    <2>2. \A k \in Jobs \ {j} : job'[k] = job[k]
        BY <1>3, <2>1
    <2>3. JobsOn(e)' = JobsOn(e) /\ j \notin JobsOn(e)
        BY <1>5, <1>d, <2>1, <2>2 DEF JobsOn
    <2>4. Stages(e)' = Stages(e)
        BY <2>2, <2>3 DEF Stages, JobsOn
    <2>5. RemovalsOf(e)' = RemovalsOf(e)
        BY <1>2 DEF RemovalsOf
    <2>6. \A c \in OwnChunks(j) \union RowsOf(d) \union VectorsOf(d) : c.doc = d
        BY <1>d DEF OwnChunks, RowsOf, VectorsOf
    <2>7. job[j] = "mark" /\ j \in open => seen[j] = RowsOf(d)
        BY <1>1, <1>d DEF SerialInv, JobInv
    <2>8. \/ /\ rows' = (rows \ RowsOf(d)) \union OwnChunks(j) /\ marked' = marked \ RowsOf(d)
             /\ vectors' = vectors
          \/ UNCHANGED <<rows, marked>> /\ vectors' = vectors \ VectorsOf(d)
          \/ UNCHANGED <<rows, marked>> /\ vectors' = vectors \union Batch(j)
          \/ UNCHANGED <<rows, vectors>> /\ marked' = marked \union RowsOf(d)
        BY <1>5, <1>d, <2>7
           DEF Rebuilds, EmbedCommits, DropOldVectors, DeleteVectorsOf, UpsertBatch, MarkEmbedded,
               JobGoes, fileVars, chunkVars
    <2>9. /\ RowsOf(e)' = RowsOf(e) /\ VectorsOf(e)' = VectorsOf(e)
          /\ MarkedOf(e)' = MarkedOf(e)
        BY <1>5, <2>6, <2>8 DEF RowsOf, VectorsOf, MarkedOf, Batch
    <2> QED
        BY <2>4, <2>5, <2>9, FindableStays
<1>6. ASSUME Rebuilds(j)
      PROVE  Findable(d)'
    <2>1. CASE MarkEmbedded(j)
        <3>1. /\ job[j] = "mark" /\ j \in open /\ marked' = marked \union seen[j]
              /\ UNCHANGED <<rows, vectors>>
            BY <2>1 DEF MarkEmbedded, JobGoes
        <3>2. /\ seen[j] = RowsOf(d) /\ RowsOf(d) = OwnChunks(j) /\ VectorsOf(d) = OwnChunks(j)
            BY <1>1, <1>d, <3>1 DEF SerialInv, JobInv
        <3>3. RowsOf(d)' = RowsOf(d) /\ VectorsOf(d)' = VectorsOf(d)
            BY <3>1 DEF RowsOf, VectorsOf
        <3> QED
            BY <3>1, <3>2, <3>3 DEF Findable
    <2>2. CASE EmbedCommits(j) \/ DropOldVectors(j) \/ UpsertBatch(j)
        <3>1. target' = target /\ \E to \in Rebuilding : job' = [job EXCEPT ![j] = to]
            BY <2>2 DEF EmbedCommits, DropOldVectors, UpsertBatch, WritesRow, JobGoes, JobMemory,
                        Rebuilding
        <3>2. job'[j] \in Rebuilding /\ target'[j] = d
            BY <1>3, <1>d, <3>1
        <3>3. j \in JobsOn(d)'
            BY <3>2 DEF JobsOn, Rebuilding, JobActive, Transactions
        <3>4. job'[j] \in Stages(d)'
            BY <3>3 DEF Stages
        <3> QED
            BY <3>2, <3>4 DEF Findable
    <2> QED
        BY <1>6, <2>1, <2>2 DEF Rebuilds
<1> QED
    BY <1>1, <1>4, <1>5, <1>6 DEF SearchInv

\* A deletion takes the vectors first, and its own document's rows in the end.
LEMMA DeletingKeepsSearch ==
    ASSUME OnlyParsingFails, OwnDeletes, TypeOK, SerialInv, SearchInv, NEW r \in Requests,
           RemovalStep(r), UNCHANGED jobVars
    PROVE  SearchInv'
<1>t. /\ removal \in [Requests -> {"idle"} \union RemovalActive \union RemovalEnded]
      /\ removes \in [Requests -> Documents \union {NoDocument}]
    BY SerialTypes
<1>s. \A d \in Documents : Stages(d)' = Stages(d)
    BY DEF jobVars, Stages, JobsOn
<1>1. ASSUME NEW d \in Documents, DropVectors(r, d)
      PROVE  SearchInv'
    <2>1. /\ removal[r] = "idle" /\ removal' = [removal EXCEPT ![r] = "vectors_dropped"]
          /\ removes' = [removes EXCEPT ![r] = d] /\ vectors' = vectors \ VectorsOf(d)
          /\ UNCHANGED <<rows, marked>>
        BY <1>1 DEF DropVectors, DeleteVectorsOf, chunkVars
    <2>2. /\ removal'[r] = "vectors_dropped" /\ removes'[r] = d
          /\ \A s \in Requests \ {r} : removal'[s] = removal[s] /\ removes'[s] = removes[s]
        BY <1>t, <2>1
    <2>3. ASSUME NEW e \in Documents, e # d PROVE Findable(e)'
        <3>1. /\ RowsOf(e)' = RowsOf(e) /\ VectorsOf(e)' = VectorsOf(e)
              /\ MarkedOf(e)' = MarkedOf(e)
            BY <2>1, <2>3 DEF RowsOf, VectorsOf, MarkedOf
        <3>2. RemovalsOf(e)' = RemovalsOf(e)
            BY <2>1, <2>2, <2>3 DEF RemovalsOf, RemovalActive
        <3> QED
            BY <1>s, <3>1, <3>2, FindableStays
    <2>4. r \in RemovalsOf(d)'
        BY <2>2 DEF RemovalsOf, RemovalActive
    <2> QED
        BY <2>3, <2>4 DEF SearchInv, Findable
<1>2. ASSUME NEW d \in Documents, removal[r] \in RemovalActive, removes[r] = d, NEW to,
             removal' = [removal EXCEPT ![r] = to], removes' = removes, vectors' = vectors,
             \/ UNCHANGED <<rows, marked>>
             \/ rows' = rows \ RowsOf(d) /\ marked' = marked \ RowsOf(d),
             to \notin RemovalActive => RowsOf(d)' = {} /\ VectorsOf(d) = {}
      PROVE  SearchInv'
    <2>1. removal'[r] = to /\ \A s \in Requests \ {r} : removal'[s] = removal[s]
        BY <1>t, <1>2
    <2>2. ASSUME NEW e \in Documents, e # d PROVE Findable(e)'
        <3>1. /\ RowsOf(e)' = RowsOf(e) /\ VectorsOf(e)' = VectorsOf(e)
              /\ MarkedOf(e)' = MarkedOf(e)
            BY <1>2, <2>2 DEF RowsOf, VectorsOf, MarkedOf
        <3>2. RemovalsOf(e)' = RemovalsOf(e)
            BY <1>2, <2>1, <2>2 DEF RemovalsOf
        <3> QED
            BY <1>s, <3>1, <3>2, FindableStays
    <2>3. CASE to \in RemovalActive
        <3>1. r \in RemovalsOf(d)'
            BY <1>2, <2>1, <2>3 DEF RemovalsOf
        <3> QED
            BY <2>2, <3>1 DEF SearchInv, Findable
    <2>4. CASE to \notin RemovalActive
        <3>1. VectorsOf(d)' = VectorsOf(d)
            BY <1>2 DEF VectorsOf
        <3>2. Findable(d)'
            BY <1>2, <2>4, <3>1 DEF Findable
        <3> QED
            BY <2>2, <3>2 DEF SearchInv
    <2> QED
        BY <2>3, <2>4
<1>3. CASE RemovalContinues(r)
    <2>1. /\ removal[r] \in RemovalActive /\ removes' = removes /\ vectors' = vectors
        BY <1>3 DEF RemovalContinues, FindOwned, FindMissing, DeleteRow, DeleteFiles, CommitRemoval,
                    RemovalFails, RemovalGoes, storeVars, RemovalActive, OnlyParsingFails
    <2>2. PICK d \in Documents : d = removes[r]
        BY <2>1, RemovalIsAlone
    <2>3. VectorsOf(d) = {} /\ (d \notin live => RowsOf(d) = {})
        BY <2>1, <2>2, RemovalIsAlone
    <2>4. CASE FindOwned(r) \/ DeleteRow(r) \/ DeleteFiles(r)
        <3>1. /\ UNCHANGED <<rows, marked>>
              /\ \E to \in RemovalActive : removal' = [removal EXCEPT ![r] = to]
            BY <2>4 DEF FindOwned, DeleteRow, DeleteFiles, RemovalGoes, storeVars, chunkVars,
                        RemovalActive
        <3> QED
            BY <1>2, <2>1, <2>2, <3>1
    <2>5. CASE FindMissing(r)
        <3>1. /\ UNCHANGED <<rows, marked>> /\ removal' = [removal EXCEPT ![r] = "missing"]
              /\ removal[r] = "vectors_dropped"
            BY <2>5 DEF FindMissing, RemovalGoes, storeVars, chunkVars
        <3>2. d \notin live
            BY <2>2, <2>5, <3>1 DEF FindMissing, Owned, OwnDeletes
        <3>3. RowsOf(d)' = {}
            BY <2>3, <3>1, <3>2 DEF RowsOf
        <3> QED
            BY <1>2, <2>1, <2>2, <2>3, <3>1, <3>3
    <2>6. CASE CommitRemoval(r)
        <3>1. /\ rows' = rows \ RowsOf(d) /\ marked' = marked \ RowsOf(d)
              /\ removal' = [removal EXCEPT ![r] = "removed"]
            BY <2>2, <2>6 DEF CommitRemoval, DeleteRowsOf, RemovalGoes
        <3>2. RowsOf(d)' = {}
            BY <3>1 DEF RowsOf
        <3> QED
            BY <1>2, <2>1, <2>2, <2>3, <3>1, <3>2
    <2> QED
        BY <1>3, <2>4, <2>5, <2>6 DEF RemovalContinues, RemovalFails, OnlyParsingFails
<1>4. \A d \in Documents : ~DropVectorsFails(r, d)
    BY DEF DropVectorsFails, OnlyParsingFails
<1> QED
    BY <1>1, <1>3, <1>4 DEF RemovalStep, RemovalArrives

LEMMA StepKeepsSearch ==
    ASSUME OnlyParsingFails, OwnDeletes, TypeOK, SerialInv, SearchInv, [Next]_vars
    PROVE  SearchInv'
<1>1. CASE UNCHANGED vars
    BY <1>1, QuietKeepsSearch
       DEF vars, storeVars, chunkVars, requestVars, removalVars, jobVars
<1>2. ASSUME NEW d \in Documents, UploadStep(d), UNCHANGED jobVars
      PROVE  SearchInv'
    <2>1. UNCHANGED <<rows, marked, vectors, removal, removes>>
        BY <1>2 DEF UploadStep, StartUpload, RefuseUpload, FinishPut, FindDuplicate,
                    FindNoDuplicate, LookupFails, InsertRow, InsertFails, DiscardBytes,
                    CommitUploadFails, UploadGoes, storeVars, chunkVars, removalVars
    <2> QED
        BY <1>2, <2>1, QuietKeepsSearch DEF jobVars
<1>3. ASSUME NEW d \in Documents, NEW j \in Jobs, AcceptUpload(d, j) \/ RequestReparse(j, d)
      PROVE  SearchInv'
    <2>1. /\ Schedule(j, d) /\ UNCHANGED <<rows, marked, vectors, removal, removes>>
        BY <1>3 DEF AcceptUpload, CommitUpload, UploadGoes, RequestReparse, Reparse, storeVars,
                    chunkVars, requestVars, removalVars
    <2>2. /\ job[j] \notin Rebuilding
          /\ \A k \in Jobs \ {j} : job'[k] = job[k] /\ target'[k] = target[k]
        BY <2>1, SerialTypes DEF Schedule, JobGoes, Rebuilding
    <2> QED
        BY <2>1, <2>2, QuietKeepsSearch
<1>4. ASSUME NEW r \in Requests, RemovalStep(r), UNCHANGED jobVars
      PROVE  SearchInv'
    BY <1>4, DeletingKeepsSearch
<1>5. ASSUME NEW j \in Jobs, JobStep(j), UNCHANGED requestVars
      PROVE  SearchInv'
    BY <1>5, WorkKeepsSearch
<1>6. ~Crash
    BY DEF Crash, OnlyParsingFails
<1> QED
    BY <1>1, <1>2, <1>3, <1>4, <1>5, <1>6 DEF Next

LEMMA SearchIsComplete ==
    ASSUME OnlyParsingFails
    PROVE  SerialSpec /\ []OwnDeletes => [](TypeOK /\ SerialInv /\ SearchInv)
<1>1. Init => SearchInv
    BY DEF Init, StoresInit, SearchInv, Findable, RowsOf, VectorsOf
<1>2. OwnDeletes /\ TypeOK /\ SerialInv /\ SearchInv /\ [Next]_vars => SearchInv'
    BY StepKeepsSearch
<1> QED
    BY <1>1, <1>2, OneAtATimeIsConsistent, SerialSpecIsSpec, TypeCorrect, PTL
       DEF SerialSpec, Spec

\* An indexed document at rest is searchable in full: rows, vectors and count
\* are the same chunks, all marked (`index_document`, which sets INDEXED last).
THEOREM IndexedMeansSearchable ==
    ASSUME OnlyParsingFails, TextsYield
    PROVE  SerialSpec /\ []OwnDeletes => []IndexedIsSearchable
<1>1. TypeOK /\ SerialInv /\ SearchInv => IndexedIsSearchable
    <2> SUFFICES ASSUME TypeOK, SerialInv, SearchInv, NEW d \in live, AtRest(d),
                        document[d].status = "indexed"
                 PROVE  /\ VectorsOf(d) = RowsOf(d) /\ RowsOf(d) \subseteq marked
                        /\ document[d].chunkCount = Cardinality(RowsOf(d))
        BY DEF IndexedIsSearchable
    <2>1. d \in Documents
        BY SerialTypes
    <2>2. Stages(d) = {} /\ RemovalsOf(d) = {}
        BY DEF AtRest, Stages
    <2> QED
        BY <2>1, <2>2 DEF SearchInv, Findable, SerialInv, DocumentInv
<1> QED
    BY <1>1, SearchIsComplete, PTL

\* embedding_model stands only on a row whose vector can be found
\* (`mark_embedded` comes after the upserts of its run).
THEOREM MarkedMeansLive ==
    ASSUME OnlyParsingFails
    PROVE  SerialSpec /\ []OwnDeletes => []MarkedIsLive
<1>1. TypeOK /\ SerialInv /\ SearchInv => MarkedIsLive
    <2> SUFFICES ASSUME TypeOK, SerialInv, SearchInv, NEW c \in marked, RemovalsOf(c.doc) = {}
                 PROVE  c \in vectors
        BY DEF MarkedIsLive
    <2>1. PICK d \in Documents : d = c.doc
        BY SerialTypes DEF Chunk
    <2>2. c \in RowsOf(d)
        BY <2>1 DEF SerialInv, RowsOfRuns, RowsOf
    <2>3. Stages(d) \intersect Rebuilding = {}
        <3> SUFFICES ASSUME NEW j \in JobsOn(d), job[j] \in Rebuilding PROVE FALSE
            BY DEF Stages
        <3>1. RowsOf(d) = OwnChunks(j) /\ Unmarked(j)
            BY DEF SerialInv, JobInv, JobsOn, Rebuilding
        <3> QED
            BY <2>2, <3>1 DEF Unmarked
    <2> QED
        BY <2>1, <2>2, <2>3 DEF SearchInv, Findable, VectorsOf
<1> QED
    BY <1>1, SearchIsComplete, PTL

-----------------------------------------------------------------------------
(* The life of a document                                                  *)

Found(d) == RowsOf(d) \intersect vectors

\* A step is one of the abstract ones when it takes one document along the
\* arrows of its life and leaves the others.
LEMMA LivesGoOn ==
    ASSUME NEW d \in Documents,
           \A e \in Documents \ {d} : PhaseOf(e)' = PhaseOf(e) /\ Found(e)' = Found(e),
           NEW p, NEW q, NEW f, NEW g,
           PhaseOf(d) = p, PhaseOf(d)' = q, Found(d) = f, Found(d)' = g,
           \/ p = q /\ f = g
           \/ p = "absent" /\ q = "waiting" /\ f = g
           \/ p \in {"waiting", "searchable", "failed"} /\ q = "reading" /\ f = g
           \/ p = "reading" /\ q = "building" /\ f = g
           \/ p = "reading" /\ q = "failed" /\ f = g
           \/ p = "building" /\ q = "building" /\ g \subseteq Chunk
           \/ p = "building" /\ q = "searchable" /\ f = g /\ f # {}
           \/ p \in Lifecycle!Kept /\ q = p /\ g = {}
           \/ p \in Lifecycle!Kept /\ q = "gone" /\ g = {}
    PROVE  [Lifecycle!Next]_(Lifecycle!vars)
<1>1. /\ [e \in Documents |-> PhaseOf(e)][d] = p
      /\ [e \in Documents |-> PhaseOf(e)]' = [[e \in Documents |-> PhaseOf(e)] EXCEPT ![d] = q]
      /\ q = p => [e \in Documents |-> PhaseOf(e)]' = [e \in Documents |-> PhaseOf(e)]
    OBVIOUS
<1>2. /\ [e \in Documents |-> RowsOf(e) \cap vectors][d] = f
      /\ [e \in Documents |-> RowsOf(e) \cap vectors]'[d] = g
      /\ [e \in Documents |-> RowsOf(e) \cap vectors]' =
             [[e \in Documents |-> RowsOf(e) \cap vectors] EXCEPT ![d] = g]
      /\ f = g => [e \in Documents |-> RowsOf(e) \cap vectors]' =
                      [e \in Documents |-> RowsOf(e) \cap vectors]
    BY DEF Found
<1> USE <1>1, <1>2
        DEF Lifecycle!Next, Lifecycle!vars, Lifecycle!Moves, Lifecycle!Kept, Lifecycle!Phases
<1>5. CASE p = q /\ f = g
    BY <1>5
<1>6. CASE p = "absent" /\ q = "waiting" /\ f = g
    <2>1. Lifecycle!Submit(d)
        BY <1>6 DEF Lifecycle!Submit
    <2> QED
        BY <2>1
<1>7. CASE p \in {"waiting", "searchable", "failed"} /\ q = "reading" /\ f = g
    <2>1. Lifecycle!Read(d)
        BY <1>7 DEF Lifecycle!Read
    <2> QED
        BY <2>1
<1>8. CASE p = "reading" /\ q = "building" /\ f = g
    <2>1. Lifecycle!Accept(d)
        BY <1>8 DEF Lifecycle!Accept
    <2> QED
        BY <2>1
<1>9. CASE p = "reading" /\ q = "failed" /\ f = g
    <2>1. Lifecycle!GiveUp(d)
        BY <1>9 DEF Lifecycle!GiveUp
    <2> QED
        BY <2>1
<1>10. CASE p = "building" /\ q = "building" /\ g \subseteq Chunk
    <2>1. Lifecycle!Rebuild(d)
        BY <1>10 DEF Lifecycle!Rebuild
    <2> QED
        BY <2>1
<1>11. CASE p = "building" /\ q = "searchable" /\ f = g /\ f # {}
    <2>1. Lifecycle!Publish(d)
        BY <1>11 DEF Lifecycle!Publish
    <2> QED
        BY <2>1
<1>12. CASE p \in Lifecycle!Kept /\ q = p /\ g = {}
    <2>1. Lifecycle!Withdraw(d)
        BY <1>12 DEF Lifecycle!Withdraw
    <2> QED
        BY <2>1
<1>13. CASE p \in Lifecycle!Kept /\ q = "gone" /\ g = {}
    <2>1. Lifecycle!Remove(d)
        BY <1>13 DEF Lifecycle!Remove
    <2> QED
        BY <2>1
<1> QED
    BY <1>5, <1>6, <1>7, <1>8, <1>9, <1>10, <1>11, <1>12, <1>13

LEMMA OtherLivesKeep ==
    ASSUME TypeOK, NEW e \in Documents, SameDocument(e), upload'[e] = upload[e]
    PROVE  PhaseOf(e)' = PhaseOf(e) /\ Found(e)' = Found(e)
<1>1. Found(e) = RowsOf(e) \intersect VectorsOf(e)
      /\ Found(e)' = RowsOf(e)' \intersect VectorsOf(e)'
    BY DEF Found, RowsOf, VectorsOf
<1>2. document[e].status \in DocumentStatus
    BY SerialTypes DEF Document
<1>3. PhaseOf(e)' = PhaseOf(e)
    BY <1>2 DEF SameDocument, PhaseOf, DocumentStatus
<1> QED
    BY <1>1, <1>3 DEF SameDocument

LEMMA QuietLives ==
    ASSUME TypeOK, UNCHANGED <<live, document, rows, vectors>>,
           \A d \in Documents \ live : upload'[d] = "accepted" <=> upload[d] = "accepted"
    PROVE  [Lifecycle!Next]_(Lifecycle!vars)
<1>1. \A d \in Documents : PhaseOf(d)' = PhaseOf(d)
    <2>1. \A d \in Documents : document[d].status \in DocumentStatus
        BY SerialTypes DEF Document
    <2> QED
        BY <2>1 DEF PhaseOf, DocumentStatus
<1>2. [d \in Documents |-> PhaseOf(d)]' = [d \in Documents |-> PhaseOf(d)]
    BY <1>1
<1>3. [d \in Documents |-> RowsOf(d) \cap vectors]' = [d \in Documents |-> RowsOf(d) \cap vectors]
    BY DEF RowsOf
<1> QED
    BY <1>2, <1>3 DEF Lifecycle!vars

\* A status is a phase of a live document.
LEMMA PhaseOfStatus ==
    ASSUME NEW d \in live
    PROVE  /\ document[d].status = "pending" => PhaseOf(d) = "waiting"
           /\ document[d].status = "parsing" => PhaseOf(d) = "reading"
           /\ document[d].status \in {"parsed", "chunking", "embedding"} => PhaseOf(d) = "building"
           /\ document[d].status = "indexed" => PhaseOf(d) = "searchable"
           /\ document[d].status = "failed" => PhaseOf(d) = "failed"
           /\ document[d].status \in DocumentStatus => PhaseOf(d) \in Lifecycle!Kept
<1>1. /\ document[d].status = "pending" => PhaseOf(d) = "waiting"
      /\ document[d].status = "parsing" => PhaseOf(d) = "reading"
      /\ document[d].status \in {"parsed", "chunking", "embedding"} => PhaseOf(d) = "building"
      /\ document[d].status = "indexed" => PhaseOf(d) = "searchable"
      /\ document[d].status = "failed" => PhaseOf(d) = "failed"
    BY DEF PhaseOf
<1> QED
    BY <1>1 DEF DocumentStatus, Lifecycle!Kept, Lifecycle!Phases

LEMMA WorkLives ==
    ASSUME OnlyParsingFails, TextsYield, TypeOK, TypeOK', SerialInv, NEW j \in Jobs,
           UNCHANGED requestVars, JobStep(j)
    PROVE  [Lifecycle!Next]_(Lifecycle!vars)
<1>1. /\ job[j] \in JobActive
      /\ Extracts(j) \/ Writes(j) \/ Rebuilds(j) \/ Reads(j) \/ SkipIndexing(j)
    BY JobsDoTheirWork
<1>2. upload' = upload
    BY DEF requestVars, uploadVars
<1>d. PICK d \in Documents : d = target[j] /\ d \in live
    BY <1>1, JobIsAlone
<1>3. StatusFits(document[d].status, job[j]) /\ JobInv(j)
    BY <1>1, <1>d, DocumentOfJob
<1>4. CASE Extracts(j) \/ Reads(j) \/ SkipIndexing(j)
    <2>1. UNCHANGED <<live, document, rows, vectors>>
        BY <1>4 DEF Extracts, Extract, ExtractFails, PutBlocks, Reads, ReadRow, OpenForIndexing,
                    LoadBlocks, ReadChunks, SkipIndexing, storeVars, rowVars, chunkVars
    <2> QED
        BY <1>2, <2>1, QuietLives
<1>q. ASSUME live' = live, \A e \in Documents \ {d} : SameDocument(e), NEW q, NEW g,
             document'[d].status \in DocumentStatus, PhaseOf(d)' = q, Found(d)' = g,
             \/ PhaseOf(d) \in {"waiting", "searchable", "failed"} /\ q = "reading" /\ g = Found(d)
             \/ PhaseOf(d) = "reading" /\ q \in {"building", "failed"} /\ g = Found(d)
             \/ PhaseOf(d) = "building" /\ q = "building" /\ g \subseteq Chunk
             \/ PhaseOf(d) = "building" /\ q = "searchable" /\ g = Found(d) /\ Found(d) # {}
      PROVE  [Lifecycle!Next]_(Lifecycle!vars)
    <2>1. \A e \in Documents \ {d} : PhaseOf(e)' = PhaseOf(e) /\ Found(e)' = Found(e)
        BY <1>2, <1>q, OtherLivesKeep
    <2>2. PICK p, f : p = PhaseOf(d) /\ f = Found(d)
        OBVIOUS
    <2> QED
        BY <1>q, <2>1, <2>2, LivesGoOn
<1>5. CASE Writes(j)
    <2>1. PICK at \in Transactions \ {"mark"}, to \in JobActive \union JobEnded :
              /\ WritesRow(j, at, to)
              /\ at \in {"parse_begin", "parse_ok", "parse_failed", "index_empty", "claim",
                         "finalise"}
        BY <1>5 DEF Writes, ParseBegins, ParseSucceeds, ParseFails, IndexEmpty, Claim, Finalise,
                    Transactions, JobActive, JobEnded
    <2>2. /\ UNCHANGED <<live, locked, rows, marked, vectors>>
          /\ at # "index_empty" => blocks' = blocks
        BY <1>5, <2>1 DEF Writes, ParseBegins, ParseSucceeds, ParseFails, IndexEmpty, Claim,
                    Finalise, fileVars, chunkVars
    <2>3. /\ job[j] = at /\ document' = [document EXCEPT ![d] = Assigned(j)]
        BY <1>d, <2>1, WriteIsExact
    <2>4. document'[d].status = StatusSet[at]
        <3>1. document'[d] = Assigned(j)
            BY <2>3, SerialTypes
        <3> QED
            BY <2>3, <3>1 DEF Assigned
    <2>5. at # "index_empty"
        BY <1>1, <1>3, <1>d, <2>3 DEF JobInv, TextsYield
    <2>6. blocks' = blocks
        BY <2>2, <2>5
    <2>7. \A e \in Documents \ {d} : SameDocument(e)
        BY <2>2, <2>3, <2>6, SerialTypes DEF SameDocument, RowsOf, VectorsOf, MarkedOf
    <2>8. Found(d)' = Found(d)
        BY <2>2 DEF Found, RowsOf
    <2>9. at = "finalise" => Found(d) # {}
        <3> SUFFICES ASSUME at = "finalise" PROVE Found(d) # {}
            OBVIOUS
        <3>1. text[j] \in Texts
            BY <2>3 DEF TypeOK, PipelineTypeOK
        <3>2. ChunkCount[text[j]] > 0 /\ ChunkCount[text[j]] \in Nat
            BY <3>1, PipelineAssumption DEF TextsYield
        <3>3. VectorsOf(d) = OwnChunks(j) /\ RowsOf(d) = OwnChunks(j)
            BY <1>1, <1>3, <1>d, <2>3, <3>2 DEF JobInv
        <3>4. [doc |-> target[j], job |-> j, ordinal |-> 1] \in OwnChunks(j)
            BY <3>2 DEF OwnChunks
        <3> QED
            BY <3>3, <3>4 DEF Found, VectorsOf
    <2>10. /\ at = "parse_begin" => document[d].status \in {"pending", "indexed", "failed"}
           /\ at \in {"parse_ok", "parse_failed"} => document[d].status = "parsing"
           /\ at \in {"claim", "finalise"} =>
                  document[d].status \in {"parsed", "chunking", "embedding"}
        BY <1>3, <2>3 DEF StatusFits
    <2>11. /\ at = "parse_begin" => document'[d].status = "parsing"
           /\ at = "parse_ok" => document'[d].status = "parsed"
           /\ at = "parse_failed" => document'[d].status = "failed"
           /\ at = "claim" => document'[d].status = "chunking"
           /\ at = "finalise" => document'[d].status = "indexed"
        BY <2>4 DEF StatusSet
    <2>12. /\ at = "parse_begin" => PhaseOf(d)' = "reading"
           /\ at \in {"parse_ok", "claim"} => PhaseOf(d)' = "building"
           /\ at = "parse_failed" => PhaseOf(d)' = "failed"
           /\ at = "finalise" => PhaseOf(d)' = "searchable"
        BY <1>d, <2>2, <2>11 DEF PhaseOf
    <2>13. /\ at = "parse_begin" => PhaseOf(d) \in {"waiting", "searchable", "failed"}
           /\ at \in {"parse_ok", "parse_failed"} => PhaseOf(d) = "reading"
           /\ at \in {"claim", "finalise"} => PhaseOf(d) = "building"
        BY <1>d, <2>10, PhaseOfStatus
    <2>14. document'[d].status \in DocumentStatus
        BY <2>1, <2>5, <2>11 DEF DocumentStatus
    <2>15. Found(d)' \subseteq Chunk
        BY <2>2, SerialTypes DEF Found, RowsOf
    <2> QED
        BY <1>q, <2>1, <2>2, <2>5, <2>7, <2>8, <2>9, <2>12, <2>13, <2>14, <2>15
<1>6. CASE Rebuilds(j)
    <2>1. \A c \in OwnChunks(j) \union RowsOf(d) \union VectorsOf(d) : c.doc = d
        BY <1>d DEF OwnChunks, RowsOf, VectorsOf
    <2>2. job[j] = "mark" /\ j \in open => seen[j] = RowsOf(d)
        BY <1>1, <1>3, <1>d DEF JobInv
    <2>3. \/ /\ rows' = (rows \ RowsOf(d)) \union OwnChunks(j) /\ marked' = marked \ RowsOf(d)
             /\ vectors' = vectors
          \/ UNCHANGED <<rows, marked>> /\ vectors' = vectors \ VectorsOf(d)
          \/ UNCHANGED <<rows, marked>> /\ vectors' = vectors \union Batch(j)
          \/ UNCHANGED <<rows, vectors>> /\ marked' = marked \union RowsOf(d)
        BY <1>6, <1>d, <2>2
           DEF Rebuilds, EmbedCommits, DropOldVectors, DeleteVectorsOf, UpsertBatch, MarkEmbedded,
               JobGoes, fileVars, chunkVars
    <2>4. /\ UNCHANGED <<live, locked, blocks>>
          /\ job[j] \in {"embed", "drop", "upsert", "mark"}
          /\ document' # document => EmbedCommits(j)
        BY <1>6 DEF Rebuilds, EmbedCommits, DropOldVectors, UpsertBatch, MarkEmbedded, WritesRow,
                    JobGoes, rowVars, fileVars
    <2>5. EmbedCommits(j) =>
              document' = [document EXCEPT ![d] = Assigned(j)] /\ job[j] = "embed"
        BY <1>d, WriteIsExact DEF EmbedCommits, Transactions
    <2>6. \A e \in Documents \ {d} : document'[e] = document[e]
        BY <2>4, <2>5, SerialTypes
    <2>7. document[d].status \in {"chunking", "embedding"}
        BY <1>3, <2>4 DEF StatusFits
    <2>8. document'[d].status \in {"chunking", "embedding"}
        <3>1. CASE document' = document
            BY <2>7, <3>1
        <3>2. CASE EmbedCommits(j)
            <4>1. document'[d] = Assigned(j) /\ job[j] = "embed"
                BY <2>5, <3>2, SerialTypes
            <4> QED
                BY <4>1 DEF Assigned, StatusSet
        <3> QED
            BY <2>4, <3>1, <3>2
    <2>9. \A e \in Documents \ {d} : RowsOf(e)' = RowsOf(e) /\ VectorsOf(e)' = VectorsOf(e)
                                        /\ MarkedOf(e)' = MarkedOf(e)
        BY <2>1, <2>3 DEF RowsOf, VectorsOf, MarkedOf, Batch
    <2>10. \A e \in Documents \ {d} : SameDocument(e)
        BY <2>4, <2>6, <2>9 DEF SameDocument
    <2>11. PhaseOf(d) = "building" /\ PhaseOf(d)' = "building"
        BY <1>d, <2>4, <2>7, <2>8 DEF PhaseOf
    <2>12. Found(d)' \subseteq Chunk
        BY DEF TypeOK, StoresTypeOK, Found, RowsOf
    <2>13. document'[d].status \in DocumentStatus
        BY <2>8 DEF DocumentStatus
    <2> QED
        BY <1>q, <2>4, <2>10, <2>11, <2>12, <2>13
<1> QED
    BY <1>1, <1>4, <1>5, <1>6

\* A deletion withdraws the document before it removes it.
LEMMA DeletionLives ==
    ASSUME OnlyParsingFails, TypeOK, LiveAccepted, SerialInv, NEW r \in Requests, RemovalStep(r),
           UNCHANGED jobVars
    PROVE  [Lifecycle!Next]_(Lifecycle!vars)
<1>1. upload' = upload
    BY DEF RemovalStep, RemovalArrives, RemovalContinues, DropVectors, DropVectorsFails, FindOwned,
           FindMissing, DeleteRow, DeleteFiles, CommitRemoval, RemovalFails, RemovalGoes, uploadVars
<1>2. \A d \in live : d \in Documents /\ document[d].status \in DocumentStatus
    BY SerialTypes DEF Document
<1>3. ASSUME NEW d \in Documents, DropVectors(r, d)
      PROVE  [Lifecycle!Next]_(Lifecycle!vars)
    <2>1. /\ vectors' = vectors \ VectorsOf(d)
          /\ UNCHANGED <<live, locked, document, blocks, rows, marked>>
        BY <1>3 DEF DropVectors, DeleteVectorsOf, rowVars, fileVars, chunkVars
    <2>2. CASE d \in live
        <3>1. \A e \in Documents \ {d} : SameDocument(e)
            BY <2>1 DEF SameDocument, RowsOf, VectorsOf, MarkedOf
        <3>2. \A e \in Documents \ {d} : PhaseOf(e)' = PhaseOf(e) /\ Found(e)' = Found(e)
            BY <1>1, <3>1, OtherLivesKeep
        <3>3. Found(d)' = {}
            BY <2>1 DEF Found, RowsOf, VectorsOf
        <3>4. PhaseOf(d)' = PhaseOf(d) /\ PhaseOf(d) \in Lifecycle!Kept
            BY <1>2, <2>1, <2>2, PhaseOfStatus DEF PhaseOf, DocumentStatus
        <3>5. PICK p, f : p = PhaseOf(d) /\ f = Found(d)
            OBVIOUS
        <3> QED
            BY <3>2, <3>3, <3>4, <3>5, LivesGoOn
    <2>3. CASE d \notin live
        <3>1. VectorsOf(d) = {}
            BY <2>3 DEF SerialInv, DocumentInv
        <3>2. vectors' = vectors
            BY <2>1, <3>1
        <3> QED
            BY <1>1, <2>1, <3>2, QuietLives
    <2> QED
        BY <2>2, <2>3
<1>4. CASE FindOwned(r) \/ FindMissing(r) \/ DeleteRow(r) \/ DeleteFiles(r)
    <2>1. UNCHANGED <<live, document, rows, vectors>>
        BY <1>4 DEF FindOwned, FindMissing, DeleteRow, DeleteFiles, storeVars, rowVars, chunkVars
    <2> QED
        BY <1>1, <2>1, QuietLives
<1>5. CASE CommitRemoval(r)
    <2>1. /\ removal[r] = "files_deleted" /\ UNCHANGED <<document, blocks, vectors>>
          /\ live' = live \ {removes[r]} /\ rows' = rows \ RowsOf(removes[r])
          /\ marked' = marked \ RowsOf(removes[r]) /\ locked' = locked \ {removes[r]}
        BY <1>5 DEF CommitRemoval, DeleteRowsOf, RemovalGoes, fileVars
    <2>2. removal[r] \in RemovalActive
        BY <2>1 DEF RemovalActive
    <2>3. PICK d \in Documents : d = removes[r]
        BY <2>2, RemovalIsAlone
    <2>4. CASE d \in live
        <3>1. \A e \in Documents \ {d} : SameDocument(e)
            BY <2>1, <2>3 DEF SameDocument, RowsOf, VectorsOf, MarkedOf
        <3>2. \A e \in Documents \ {d} : PhaseOf(e)' = PhaseOf(e) /\ Found(e)' = Found(e)
            BY <1>1, <3>1, OtherLivesKeep
        <3>3. Found(d)' = {}
            BY <2>1, <2>3 DEF Found, RowsOf
        <3>4. PhaseOf(d)' = "gone"
            BY <1>1, <2>1, <2>3, <2>4 DEF LiveAccepted, PhaseOf
        <3>5. PhaseOf(d) \in Lifecycle!Kept
            BY <1>2, <2>4, PhaseOfStatus
        <3>6. PICK p, f : p = PhaseOf(d) /\ f = Found(d)
            OBVIOUS
        <3> QED
            BY <3>2, <3>3, <3>4, <3>5, <3>6, LivesGoOn
    <2>5. CASE d \notin live
        <3>1. RowsOf(d) = {}
            BY <2>5 DEF SerialInv, DocumentInv
        <3>2. UNCHANGED <<live, document, rows, vectors>>
            BY <2>1, <2>3, <2>5, <3>1
        <3> QED
            BY <1>1, <3>2, QuietLives
    <2> QED
        BY <2>4, <2>5
<1>6. ~RemovalFails(r) /\ \A d \in Documents : ~DropVectorsFails(r, d)
    BY DEF RemovalFails, DropVectorsFails, OnlyParsingFails
<1> QED
    BY <1>3, <1>4, <1>5, <1>6 DEF RemovalStep, RemovalArrives, RemovalContinues

LEMMA StepLives ==
    ASSUME OnlyParsingFails, TextsYield, TypeOK, TypeOK', WriteOrder, SerialInv, [Next]_vars
    PROVE  [Lifecycle!Next]_(Lifecycle!vars)
<1>1. CASE UNCHANGED vars
    BY <1>1, QuietLives
       DEF vars, storeVars, rowVars, chunkVars, requestVars, uploadVars
<1>2. ASSUME NEW d \in Documents, UploadStep(d)
      PROVE  [Lifecycle!Next]_(Lifecycle!vars)
    <2>1. UNCHANGED <<live, document, rows, vectors>>
        BY <1>2 DEF UploadStep, StartUpload, RefuseUpload, FinishPut, FindDuplicate,
                    FindNoDuplicate, LookupFails, InsertRow, InsertFails, DiscardBytes,
                    CommitUploadFails, storeVars, rowVars, chunkVars
    <2>2. /\ upload[d] \in {"idle"} \union UploadActive
          /\ \E to \in (UploadActive \union UploadEnded) \ {"accepted"} :
                upload' = [upload EXCEPT ![d] = to]
        BY <1>2 DEF UploadStep, StartUpload, RefuseUpload, FinishPut, FindDuplicate,
                    FindNoDuplicate, LookupFails, InsertRow, InsertFails, DiscardBytes,
                    CommitUploadFails, UploadGoes, UploadActive, UploadEnded
    <2>3. upload[d] # "accepted" /\ upload'[d] # "accepted"
        BY <2>2, SerialTypes DEF UploadActive
    <2>4. \A e \in Documents \ {d} : upload'[e] = upload[e]
        BY <2>2, SerialTypes
    <2> QED
        BY <2>1, <2>3, <2>4, QuietLives
<1>3. ASSUME NEW d \in Documents, NEW j \in Jobs, AcceptUpload(d, j)
      PROVE  [Lifecycle!Next]_(Lifecycle!vars)
    <2>1. /\ upload[d] = "flushed" /\ live' = live \union {d}
          /\ document' = [document EXCEPT ![d] = NewDocument]
          /\ upload' = [upload EXCEPT ![d] = "accepted"]
          /\ UNCHANGED <<locked, blocks, rows, marked, vectors>>
        BY <1>3 DEF AcceptUpload, CommitUpload, UploadGoes, fileVars, chunkVars
    <2>2. /\ document'[d] = NewDocument
          /\ \A e \in Documents \ {d} : document'[e] = document[e] /\ upload'[e] = upload[e]
        BY <2>1, SerialTypes
    <2>3. \A e \in Documents \ {d} : SameDocument(e)
        BY <2>1, <2>2 DEF SameDocument, RowsOf, VectorsOf, MarkedOf
    <2>4. \A e \in Documents \ {d} : PhaseOf(e)' = PhaseOf(e) /\ Found(e)' = Found(e)
        BY <2>2, <2>3, OtherLivesKeep
    <2>5. PhaseOf(d) = "absent"
        BY <2>1 DEF WriteOrder, LiveAccepted, PhaseOf
    <2>6. PhaseOf(d)' = "waiting"
        BY <2>1, <2>2 DEF NewDocument, PhaseOf
    <2>7. Found(d)' = Found(d)
        BY <2>1 DEF Found, RowsOf
    <2>8. PICK f : f = Found(d)
        OBVIOUS
    <2> QED
        BY <2>4, <2>5, <2>6, <2>7, <2>8, LivesGoOn
<1>4. ASSUME NEW d \in Documents, NEW j \in Jobs, RequestReparse(j, d)
      PROVE  [Lifecycle!Next]_(Lifecycle!vars)
    BY <1>4, QuietLives DEF RequestReparse, Reparse, storeVars, rowVars, chunkVars, requestVars,
                            uploadVars
<1>5. ASSUME NEW r \in Requests, RemovalStep(r), UNCHANGED jobVars
      PROVE  [Lifecycle!Next]_(Lifecycle!vars)
    BY <1>5, DeletionLives DEF WriteOrder
<1>6. ASSUME NEW j \in Jobs, JobStep(j), UNCHANGED requestVars
      PROVE  [Lifecycle!Next]_(Lifecycle!vars)
    BY <1>6, WorkLives
<1>7. ~Crash
    BY DEF Crash, OnlyParsingFails
<1> QED
    BY <1>1, <1>2, <1>3, <1>4, <1>5, <1>6, <1>7 DEF Next

LEMMA InitLives == Init => Lifecycle!Init
<1> SUFFICES ASSUME Init PROVE Lifecycle!Init
    OBVIOUS
<1>1. \A d \in Documents : PhaseOf(d) = "absent" /\ RowsOf(d) \cap vectors = {}
    BY DEF Init, StoresInit, UploadInit, PhaseOf, RowsOf
<1> QED
    BY <1>1 DEF Lifecycle!Init

\* For clients that wait, and texts that yield something, a document lives the
\* life of DocumentLifecycle: its status takes it from phase to phase in that
\* order, and what a search finds of it changes only where that life says so.
THEOREM DocumentsLive ==
    ASSUME OnlyParsingFails, TextsYield
    PROVE  SerialSpec => ImplementsLifecycle
<1>1. /\ TypeOK /\ TypeOK' /\ WriteOrder /\ SerialInv /\ [Next]_vars
         => [Lifecycle!Next]_(Lifecycle!vars)
    BY StepLives
<1> QED
    BY <1>1, InitLives, OneAtATimeIsConsistent, SerialSpecIsSpec, TypeCorrect, WritesAreOrdered, PTL
       DEF ImplementsLifecycle, Lifecycle!Spec, Spec

=============================================================================
