--------------------------- MODULE DocumentStores ---------------------------
(***************************************************************************)
(* The four stores a document is spread over, as the handlers and the      *)
(* background jobs of the API share them:                                  *)
(*                                                                         *)
(*   document rows   the "documents" table                                 *)
(*   chunk rows      the "document_chunks" table, joined to the first by a *)
(*                   foreign key with ON DELETE CASCADE                    *)
(*   files           the original bytes and the extracted text beside them *)
(*   vectors         the Qdrant collection, which has no foreign key       *)
(*                                                                         *)
(* Only the two tables take part in a database transaction.  A document,   *)
(* its storage key and the upload that creates them are one identity here, *)
(* because the key and the row id are both fresh for every upload.         *)
(***************************************************************************)
EXTENDS Naturals, FiniteSets

CONSTANTS
    Documents,  \* uploads that may arrive, and the documents they create
    Jobs,       \* background jobs that may be scheduled
    Texts,      \* what extraction can produce
    NoText,     \* the artifact is absent
    Faults      \* the kinds of failure this instance lets happen

FaultKinds == {"parse", "chunking", "storage", "vectors", "database", "crash"}

ASSUME NoTextAssumption == NoText \notin Texts
ASSUME FaultsAssumption == Faults \subseteq FaultKinds

VARIABLES
    live,       \* documents whose row is committed
    locked,     \* rows deleted by a transaction that has not committed yet
    document,   \* the columns of each row that control depends on
    objects,    \* documents whose original bytes are in storage
    undeleted,  \* those an unlink failed to remove (object_delete_failed)
    blocks,     \* the extracted text stored beside each original
    rows,       \* committed chunk rows, by chunk id
    marked,     \* chunk rows whose embedding_model is set
    vectors     \* points in the vector collection, by chunk id

rowVars == <<live, locked, document>>
fileVars == <<objects, undeleted, blocks>>
chunkVars == <<rows, marked>>
storeVars == <<rowVars, fileVars, chunkVars, vectors>>

DocumentStatus ==
    {"pending", "parsing", "parsed", "chunking", "embedding", "indexed", "failed"}

Document == [status : DocumentStatus, error : BOOLEAN, chunkCount : Nat]

\* What a row holds when it is inserted, and what an unused row holds here.
NewDocument == [status |-> "pending", error |-> FALSE, chunkCount |-> 0]

\* A chunk id is a fresh uuid: the run that made it and the place in that run.
Chunk == [doc : Documents, job : Jobs, ordinal : Nat]

RowsOf(d) == {c \in rows : c.doc = d}
VectorsOf(d) == {v \in vectors : v.doc = d}

StoresTypeOK ==
    /\ live \in SUBSET Documents
    /\ locked \in SUBSET Documents
    /\ document \in [Documents -> Document]
    /\ objects \in SUBSET Documents
    /\ undeleted \in SUBSET Documents
    /\ blocks \in [Documents -> Texts \union {NoText}]
    /\ rows \subseteq Chunk
    /\ marked \subseteq Chunk
    /\ vectors \subseteq Chunk

StoresInit ==
    /\ live = {}
    /\ locked = {}
    /\ document = [d \in Documents |-> NewDocument]
    /\ objects = {}
    /\ undeleted = {}
    /\ blocks = [d \in Documents |-> NoText]
    /\ rows = {}
    /\ marked = {}
    /\ vectors = {}

-----------------------------------------------------------------------------

\* vectors.delete_by_document: every point whose payload names the document.
DeleteVectorsOf(d) == vectors' = vectors \ VectorsOf(d)

\* _unlink_quietly, on a document's bytes and on the text beside them: a file
\* that cannot be removed stays, which is logged and never raised.
UnlinkBytes(d) ==
    \/ /\ objects' = objects \ {d}
       /\ UNCHANGED undeleted
    \/ /\ "storage" \in Faults
       /\ d \in objects
       /\ undeleted' = undeleted \union {d}
       /\ UNCHANGED objects

UnlinkText(d) ==
    \/ blocks' = [blocks EXCEPT ![d] = NoText]
    \/ "storage" \in Faults /\ UNCHANGED blocks

\* storage.delete_prefix: the original and what was derived from it, each
\* whether or not the other could be removed.
DeleteFilesOf(d) == UnlinkBytes(d) /\ UnlinkText(d)

\* The committed deletion of a row; the chunk rows go with it.
DeleteRowsOf(d) ==
    /\ live' = live \ {d}
    /\ rows' = rows \ RowsOf(d)
    /\ marked' = marked \ RowsOf(d)

=============================================================================
