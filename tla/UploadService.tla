---------------------------- MODULE UploadService ----------------------------
(***************************************************************************)
(* Upload and delete requests.  Each runs in its own request transaction,  *)
(* so between two of its steps any other request or job may run.           *)
(***************************************************************************)
EXTENDS DocumentStores

CONSTANTS
    Owners,         \* users
    Hashes,         \* distinct file contents
    Requests,       \* delete requests that may arrive
    NoDocument      \* a request that has not arrived names no document

ASSUME NoDocumentAssumption == NoDocument \notin Documents

VARIABLES
    owner, hash,    \* who sends each upload, and the digest of what is sent
    upload,         \* how far each upload has come
    removal,        \* how far each delete request has come
    removes,        \* the document a delete request names
    remover         \* the user who sends it

uploadVars == <<owner, hash, upload>>
removalVars == <<removal, removes, remover>>
requestVars == <<uploadVars, removalVars>>

UploadActive == {"writing", "stored", "duplicate_found", "inserting", "conflict", "flushed"}
UploadEnded == {"accepted", "duplicate", "refused", "unsaved", "killed"}
RemovalActive == {"vectors_dropped", "found", "row_deleted", "files_deleted"}
RemovalEnded == {"removed", "missing", "failed", "unsaved", "killed"}

UploadTypeOK ==
    /\ owner \in [Documents -> Owners]
    /\ hash \in [Documents -> Hashes]
    /\ upload \in [Documents -> {"idle"} \union UploadActive \union UploadEnded]
    /\ removal \in [Requests -> {"idle"} \union RemovalActive \union RemovalEnded]
    /\ removes \in [Requests -> Documents \union {NoDocument}]
    /\ remover \in [Requests -> Owners]
    /\ \A r \in Requests : removal[r] # "idle" => removes[r] \in Documents

UploadInit ==
    /\ owner \in [Documents -> Owners]
    /\ hash \in [Documents -> Hashes]
    /\ upload = [d \in Documents |-> "idle"]
    /\ removal = [r \in Requests |-> "idle"]
    /\ removes = [r \in Requests |-> NoDocument]
    /\ remover \in [Requests -> Owners]

\* The pair that the unique constraint on the table compares.
SameContent(d, e) == owner[d] = owner[e] /\ hash[d] = hash[e]

UploadGoes(d, from, to) ==
    /\ upload[d] = from
    /\ upload' = [upload EXCEPT ![d] = to]
    /\ UNCHANGED <<owner, hash, removalVars>>

RemovalGoes(r, from, to) ==
    /\ removal[r] = from
    /\ removal' = [removal EXCEPT ![r] = to]
    /\ UNCHANGED <<uploadVars, removes, remover>>

-----------------------------------------------------------------------------
(* upload *)

\* storage.put creates the file and starts to copy the stream into it.
StartUpload(d) ==
    /\ UploadGoes(d, "idle", "writing")
    /\ objects' = objects \union {d}
    /\ UNCHANGED <<rowVars, undeleted, blocks, chunkVars, vectors>>

\* The guarded stream raises (size, signature), the client goes away, or the
\* file turns out to be empty: the file is unlinked and the request fails.
RefuseUpload(d) ==
    /\ UploadGoes(d, "writing", "refused")
    /\ UnlinkBytes(d)
    /\ UNCHANGED <<rowVars, blocks, chunkVars, vectors>>

FinishPut(d) ==
    /\ UploadGoes(d, "writing", "stored")
    /\ UNCHANGED storeVars

\* find_by_content_hash, on what is committed when it runs.
FindDuplicate(d) ==
    /\ \E e \in live : SameContent(d, e)
    /\ UploadGoes(d, "stored", "duplicate_found")
    /\ UNCHANGED storeVars

FindNoDuplicate(d) ==
    /\ ~ \E e \in live : SameContent(d, e)
    /\ UploadGoes(d, "stored", "inserting")
    /\ UNCHANGED storeVars

\* The lookup raises.  Nothing has been written yet, but the bytes are stored.
LookupFails(d) ==
    /\ "database" \in Faults
    /\ UploadGoes(d, "stored", "unsaved")
    /\ UNCHANGED storeVars

\* An insert that does not see what other transactions have not committed.
InsertBlockedByCommitted(d) == \E e \in locked : SameContent(d, e)

\* An insert or a delete of the same pair that has not committed: the unique
\* index makes the insert wait for it.
InsertBlocked(d) ==
    \/ \E e \in locked : SameContent(d, e)
    \/ \E e \in Documents : upload[e] = "flushed" /\ SameContent(d, e)

\* documents.add flushes the new row inside the request's transaction.
InsertRow(d) ==
    /\ ~InsertBlocked(d)
    /\ ~ \E e \in live : SameContent(d, e)
    /\ UploadGoes(d, "inserting", "flushed")
    /\ UNCHANGED storeVars

\* The flush raises: it violates the unique constraint, or the database fails.
InsertFails(d) ==
    /\ \/ ~InsertBlocked(d) /\ \E e \in live : SameContent(d, e)
       \/ "database" \in Faults
    /\ UploadGoes(d, "inserting", "conflict")
    /\ UNCHANGED storeVars

\* The upload deletes the bytes of the document it duplicates.
DiscardBytesOfOriginal(d) ==
    /\ \/ UploadGoes(d, "duplicate_found", "duplicate")
       \/ UploadGoes(d, "conflict", "refused")
    /\ objects' = objects \ {e \in live : SameContent(d, e)}
    /\ UNCHANGED <<rowVars, undeleted, blocks, chunkVars, vectors>>

\* The losing upload raises without deleting what it stored.
DiscardBytesOfDuplicate(d) ==
    /\ \/ UploadGoes(d, "duplicate_found", "duplicate") /\ objects' = objects \ {d}
       \/ UploadGoes(d, "conflict", "refused") /\ UNCHANGED objects
    /\ UNCHANGED <<rowVars, undeleted, blocks, chunkVars, vectors>>

\* storage.delete of the stored bytes, whether the upload was recognised as a
\* duplicate or its row could not be inserted.  The request ends the same way
\* when the bytes could not be removed.
DiscardBytes(d) ==
    /\ \/ UploadGoes(d, "duplicate_found", "duplicate")
       \/ UploadGoes(d, "conflict", "refused")
    /\ UnlinkBytes(d)
    /\ UNCHANGED <<rowVars, blocks, chunkVars, vectors>>

\* The route commits before it schedules the background job.
CommitUpload(d) ==
    /\ UploadGoes(d, "flushed", "accepted")
    /\ live' = live \union {d}
    /\ document' = [document EXCEPT ![d] = NewDocument]
    /\ UNCHANGED <<locked, fileVars, chunkVars, vectors>>

\* That commit fails.  The handler's clean-up covered only the flush, so the
\* rollback takes the row and leaves the bytes.
CommitUploadFails(d) ==
    /\ "database" \in Faults
    /\ UploadGoes(d, "flushed", "unsaved")
    /\ UNCHANGED storeVars

-----------------------------------------------------------------------------
(* delete *)

\* A client can name a document once an upload has returned its id.
Nameable(d) == upload[d] = "accepted"

\* The route's first step, before anything looks at the document row.
DropVectors(r, d) ==
    /\ Nameable(d)
    /\ removal[r] = "idle"
    /\ removal' = [removal EXCEPT ![r] = "vectors_dropped"]
    /\ removes' = [removes EXCEPT ![r] = d]
    /\ DeleteVectorsOf(d)
    /\ UNCHANGED <<uploadVars, remover, rowVars, fileVars, chunkVars>>

\* Qdrant does not answer: the request ends with an error before it has
\* touched the database.
DropVectorsFails(r, d) ==
    /\ "vectors" \in Faults
    /\ Nameable(d)
    /\ removal[r] = "idle"
    /\ removal' = [removal EXCEPT ![r] = "failed"]
    /\ removes' = [removes EXCEPT ![r] = d]
    /\ UNCHANGED <<uploadVars, remover, storeVars>>

\* get_for_owner does not tell a missing document from another user's.
Owned(r) == removes[r] \in live /\ owner[removes[r]] = remover[r]

FindOwned(r) ==
    /\ Owned(r)
    /\ RemovalGoes(r, "vectors_dropped", "found")
    /\ UNCHANGED storeVars

FindMissing(r) ==
    /\ ~Owned(r)
    /\ RemovalGoes(r, "vectors_dropped", "missing")
    /\ UNCHANGED storeVars

\* The DELETE is flushed.  It waits for another transaction that holds the
\* row, and matches nothing when that transaction committed a deletion.
DeleteRow(r) ==
    /\ removes[r] \notin locked
    /\ RemovalGoes(r, "found", "row_deleted")
    /\ locked' = locked \union ({removes[r]} \intersect live)
    /\ UNCHANGED <<live, document, fileVars, chunkVars, vectors>>

\* The original goes, the text extracted from it stays.
DeleteOriginalOnly(r) ==
    /\ RemovalGoes(r, "row_deleted", "files_deleted")
    /\ objects' = objects \ {removes[r]}
    /\ UNCHANGED <<undeleted, blocks, rowVars, chunkVars, vectors>>

\* Files that could not be removed are logged (storage_object_orphaned, when
\* none was), and the deletion goes on.
DeleteFiles(r) ==
    /\ RemovalGoes(r, "row_deleted", "files_deleted")
    /\ DeleteFilesOf(removes[r])
    /\ UNCHANGED <<rowVars, chunkVars, vectors>>

\* The request's transaction commits as the session dependency is torn down.
CommitRemoval(r) ==
    /\ RemovalGoes(r, "files_deleted", "removed")
    /\ DeleteRowsOf(removes[r])
    /\ locked' = locked \ {removes[r]}
    /\ UNCHANGED <<document, fileVars, vectors>>

\* Any step that raises rolls the transaction back.  The vectors, and after
\* DeleteFiles the files, stay deleted.  Of storage, only the listing of the
\* directory in delete_prefix raises, before a file is touched.
RemovalFails(r) ==
    /\ \/ /\ "database" \in Faults
          /\ \/ RemovalGoes(r, "vectors_dropped", "failed")
             \/ RemovalGoes(r, "found", "failed")
             \/ RemovalGoes(r, "files_deleted", "unsaved")
       \/ /\ "storage" \in Faults
          /\ RemovalGoes(r, "row_deleted", "failed")
    /\ locked' = IF removal[r] \in {"row_deleted", "files_deleted"}
                 THEN locked \ {removes[r]} ELSE locked
    /\ UNCHANGED <<live, document, fileVars, chunkVars, vectors>>

-----------------------------------------------------------------------------

\* A restart ends every request where it stands; open transactions roll back.
KillRequests ==
    /\ upload' = [d \in Documents |->
                    IF upload[d] \in UploadActive THEN "killed" ELSE upload[d]]
    /\ removal' = [r \in Requests |->
                    IF removal[r] \in RemovalActive THEN "killed" ELSE removal[r]]
    /\ UNCHANGED <<owner, hash, removes, remover>>

\* The steps of one upload other than the commit, which schedules a job.
UploadStep(d) ==
    \/ StartUpload(d)
    \/ RefuseUpload(d)
    \/ FinishPut(d)
    \/ FindDuplicate(d)
    \/ FindNoDuplicate(d)
    \/ LookupFails(d)
    \/ InsertRow(d)
    \/ InsertFails(d)
    \/ DiscardBytes(d)
    \/ CommitUploadFails(d)

RemovalArrives(r) == \E d \in Documents : DropVectors(r, d) \/ DropVectorsFails(r, d)

RemovalContinues(r) ==
    \/ FindOwned(r)
    \/ FindMissing(r)
    \/ DeleteRow(r)
    \/ DeleteFiles(r)
    \/ CommitRemoval(r)
    \/ RemovalFails(r)

RemovalStep(r) == RemovalArrives(r) \/ RemovalContinues(r)

-----------------------------------------------------------------------------
(* The requests by themselves: everything but the jobs they schedule       *)

RequestsInit == StoresInit /\ UploadInit

RequestsNext ==
    \/ \E d \in Documents : UploadStep(d) \/ CommitUpload(d)
    \/ \E r \in Requests : RemovalStep(r)

RequestsSpec == RequestsInit /\ [][RequestsNext]_<<storeVars, requestVars>>

RemovalsOf(d) == {r \in Requests : removal[r] \in RemovalActive /\ removes[r] = d}

\* A user never has two documents with the same content, however two uploads
\* of it interleave (the unique constraint behind the look-up in `upload`).
UniqueContent ==
    \A d, e \in live : SameContent(d, e) => d = e

\* The rows the unique index compares: the committed ones and those that a
\* transaction has flushed.
HoldsContent == live \union {d \in Documents : upload[d] = "flushed"}
ContentHeldOnce ==
    \A d, e \in HoldsContent : SameContent(d, e) => d = e

\* Bytes in storage belong to a row, or to an upload that is still deciding
\* (the clean-up in `upload`: nothing else "will ever reference these bytes").
\* Two failures leave bytes for good, and nothing else does: an unlink that
\* failed, which was logged, and a database that failed after the put where the
\* clean-up does not reach (the look-up, the route's commit), which was not.
BytesAreReferenced ==
    \A d \in objects :
        \/ d \in live
        \/ upload[d] \in UploadActive \union {"unsaved"}
        \/ d \in undeleted

\* A row that is not being deleted has its bytes (`delete` removes the row
\* first, so that no row is left "pointing at nothing"), unless a deletion of
\* it failed to commit after it had removed the files.
RowsHaveBytes ==
    \A d \in live :
        \/ d \in objects
        \/ \E r \in Requests : removes[r] = d /\ removal[r] \in RemovalActive \union {"unsaved"}

=============================================================================
