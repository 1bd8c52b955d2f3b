------------------------------ MODULE Ingestion ------------------------------
(***************************************************************************)
(* Uploads, deletions and background jobs over the shared stores: the life *)
(* of a document from its upload to its deletion.                          *)
(***************************************************************************)
EXTENDS UploadService, IndexingPipeline

vars == <<storeVars, requestVars, jobVars>>

TypeOK == StoresTypeOK /\ UploadTypeOK /\ PipelineTypeOK

Init == StoresInit /\ UploadInit /\ PipelineInit

\* upload_document: the commit of the row, then the job.
AcceptUpload(d, j) ==
    /\ CommitUpload(d)
    /\ Schedule(j, d)

RequestReparse(j, d) ==
    /\ Reparse(j, d)
    /\ UNCHANGED requestVars

\* The process dies.  Everything in memory goes and every open transaction is
\* rolled back; the stores keep what they hold.
Crash ==
    /\ "crash" \in Faults
    /\ KillRequests
    /\ KillJobs
    /\ locked' = {}
    /\ UNCHANGED <<live, document, fileVars, chunkVars, vectors>>

Next ==
    \/ \E d \in Documents : UploadStep(d) /\ UNCHANGED jobVars
    \/ \E d \in Documents, j \in Jobs : AcceptUpload(d, j)
    \/ \E r \in Requests : RemovalStep(r) /\ UNCHANGED jobVars
    \/ \E d \in Documents, j \in Jobs : RequestReparse(j, d)
    \/ \E j \in Jobs : JobStep(j) /\ UNCHANGED requestVars
    \/ Crash

Spec == Init /\ [][Next]_vars

\* The server keeps running whatever it has started; clients owe it nothing.
UploadProgress(d) ==
    \/ upload[d] # "idle" /\ UploadStep(d) /\ UNCHANGED jobVars
    \/ \E j \in Jobs : AcceptUpload(d, j)

Fairness ==
    /\ \A d \in Documents : WF_vars(UploadProgress(d))
    /\ \A r \in Requests : WF_vars(RemovalContinues(r) /\ UNCHANGED jobVars)
    /\ \A j \in Jobs : WF_vars(JobStep(j) /\ UNCHANGED requestVars)

FairSpec == Spec /\ Fairness

-----------------------------------------------------------------------------
(* Who is at work on a document                                            *)

JobsOn(d) == {j \in Jobs : job[j] \in JobActive /\ target[j] = d}
AtRest(d) == upload[d] \notin UploadActive /\ JobsOn(d) = {} /\ RemovalsOf(d) = {}

\* Clients that wait: a reparse or a deletion arrives when nothing is at work
\* on the document.
OneAtATime ==
    \A d \in Documents :
        /\ \A j, k \in JobsOn(d) : j = k
        /\ \A r, s \in RemovalsOf(d) : r = s
        /\ JobsOn(d) = {} \/ RemovalsOf(d) = {}

SerialSpec == Init /\ [][Next /\ OneAtATime']_vars

-----------------------------------------------------------------------------
(* Properties of the stores                                                *)

\* A delete that cannot find the document for its user changes nothing: the
\* vectors of another user's document stay (`remove_document` relies on an
\* ownership check made before it).
RejectedDeleteChangesNothing ==
    [][\A r \in Requests :
          removal[r] = "idle" /\ removal'[r] = "vectors_dropped"
             /\ removes'[r] \in live /\ owner[removes'[r]] # remover[r]
          => vectors' = vectors]_vars

\* "A vector without a row" has a reason: its document is gone, or another
\* run has replaced the rows.  No run puts a vector into Qdrant whose row was
\* not committed first, under any interleaving, failure or crash.
VectorsHaveRows ==
    \A v \in vectors :
        \/ v \in rows
        \/ v.doc \notin live
        \/ \E c \in rows : c.doc = v.doc /\ c.job # v.job

\* What the order of the writes rests on: a run upserts only chunks it has
\* committed, and loses them only to a deletion or to another run's rows.
LiveAccepted == \A d \in live : upload[d] = "accepted"
TargetsAccepted == \A j \in Jobs : job[j] # "idle" => upload[target[j]] = "accepted"
EmbedsSomething == \A j \in Jobs : job[j] = "embed" => ChunkCount[text[j]] > 0
PastCommit == {"upsert", "mark", "finalise", "index_failed"} \union JobEnded
VectorsOfRuns ==
    \A v \in vectors : v.doc = target[v.job] /\ job[v.job] \in PastCommit
RunsAreCommitted ==
    \A j \in Jobs : job[j] \in {"drop", "upsert"} =>
        \/ target[j] \notin live
        \/ OwnChunks(j) \subseteq rows
        \/ \E c \in rows : c.doc = target[j] /\ c.job # j
WriteOrder ==
    /\ LiveAccepted
    /\ TargetsAccepted
    /\ EmbedsSomething
    /\ VectorsOfRuns
    /\ RunsAreCommitted
    /\ VectorsHaveRows

\* With nothing at work on a document, every vector of it has its chunk row.
NoOrphanVectors ==
    \A v \in vectors : AtRest(v.doc) => v \in rows

\* What the status promises once the work has ended: the rows, the vectors
\* and the count of an indexed document are the same chunks, all marked.
IndexedIsSearchable ==
    \A d \in live : AtRest(d) /\ document[d].status = "indexed" =>
        /\ VectorsOf(d) = RowsOf(d)
        /\ RowsOf(d) \subseteq marked
        /\ document[d].chunkCount = Cardinality(RowsOf(d))

\* embedding_model is set only on a row whose vector is live.
MarkedIsLive ==
    \A c \in marked : RemovalsOf(c.doc) = {} => c \in vectors

\* Extracted text does not outlive the document it was extracted from.
TextDiesWithDocument ==
    \A d \in Documents :
        AtRest(d) /\ upload[d] = "accepted" /\ d \notin live => blocks[d] = NoText

-----------------------------------------------------------------------------
(* Properties of the status a client polls                                 *)

\* Whatever a job ran into, it leaves an outcome on the document: a document
\* nobody works on is indexed or failed.
OutcomeRecorded ==
    \A d \in live : AtRest(d) => document[d].status \in {"indexed", "failed"}

\* The phase of a document behind its row and status, and what a search finds
\* of it: the chunks that have both their row and their vector.
PhaseOf(d) ==
    IF d \in live
    THEN CASE document[d].status = "pending" -> "waiting"
           [] document[d].status = "parsing" -> "reading"
           [] document[d].status \in {"parsed", "chunking", "embedding"} -> "building"
           [] document[d].status = "indexed" -> "searchable"
           [] document[d].status = "failed" -> "failed"
    ELSE IF upload[d] = "accepted" THEN "gone" ELSE "absent"

Lifecycle ==
    INSTANCE DocumentLifecycle WITH
        Chunks <- Chunk,
        phase <- [d \in Documents |-> PhaseOf(d)],
        found <- [d \in Documents |-> RowsOf(d) \intersect vectors]

\* For clients that wait, and texts that yield something, documents live the
\* life DocumentLifecycle describes: only extraction takes one out of FAILED
\* (the indexing half of a job does not erase the reason), nothing new can be
\* found of a document but while it is being built, and one that is called
\* indexed can be found.
ImplementsLifecycle == Lifecycle!Spec

\* A document shows the reason of a failure when its last run failed, and only
\* then: a later success leaves no error message behind.
ErrorExplainsFailure ==
    \A d \in live : AtRest(d) => (document[d].error <=> document[d].status = "failed")

\* Every document that was accepted ends up indexed, failed or deleted.
EventuallySettled ==
    \A d \in Documents :
        d \in live ~> (d \notin live \/ document[d].status \in {"indexed", "failed"})

\* Chunk rows that are written but not marked searchable do not stay so (the
\* "reconciliation worker" of the column's comment).
EventuallyReconciled ==
    \A d \in Documents :
        (\E c \in RowsOf(d) : c \notin marked) ~> (RowsOf(d) \subseteq marked)

=============================================================================
