-------------------------- MODULE RepositoryImport --------------------------
(***************************************************************************)
(* Imports of Git repositories: one background job per accepted request,   *)
(* which clones, walks, stores and indexes, while other imports, syncs,    *)
(* deletions and the user's own uploads go on.  All are one user's, who       *)
(* deletes no documents here (UploadService has that).                      *)
(***************************************************************************)
EXTENDS RepositoryWalk, FiniteSets

CONSTANTS
    Repos,          \* repository rows that may be created
    Urls,           \* clone URLs
    Imports,        \* requests to import or to sync, and the jobs they start
    Checkouts,      \* what a clone may bring
    NoRepo, NoCollection,
    Faults          \* "clone", "storage", "database", "crash"

ASSUME ImportAssumption ==
    /\ Checkouts \subseteq Seq(Entries)
    /\ NoRepo \notin Repos
    /\ NoCollection \notin Imports
    /\ Faults \subseteq {"clone", "storage", "database", "crash"}

VARIABLES
    url,            \* the clone URL of each repository
    status,         \* the status column, or that there is no row
    collectionOf,   \* the collection of each repository
    documents,      \* committed documents, by the import and its file
    settled,        \* those that have been parsed and indexed, or have failed
    objects,        \* stored files
    undeleted,      \* those an unlink failed to remove (object_delete_failed)
    owned,          \* contents the user holds in documents uploaded otherwise
    import,         \* how far each import has come
    about,          \* the repository it works on
    found,          \* the repository's collection as it read it
    used,           \* the collection it puts its documents in
    checkout,       \* what its clone brought
    walk,           \* what the walk made of it
    flushed,        \* the files whose rows its transaction has inserted
    at,             \* how many files it has dealt with
    rivals          \* imports of its repository under way when it began

repoVars == <<url, status, collectionOf>>
storeVars == <<documents, settled, objects, undeleted>>
jobVars == <<about, found, used, checkout, walk, flushed, at, rivals>>
vars == <<repoVars, storeVars, owned, import, jobVars>>

InFlight == {"pending", "cloning", "importing"}
Status == InFlight \union {"ready", "failed", "absent", "deleted"}
Live(r) == status[r] \notin {"absent", "deleted"}

Working == {"scheduled", "cloning", "cloned", "ensuring", "collecting", "put",
            "look_up", "insert", "commit", "finalise", "index", "failing"}
Ended == {"refused", "unstarted", "done", "failed", "killed", "lost"}
UnderWay(i) == import[i] \in Working

\* A document, its row and its stored file: the import and the file's place.
Files(i) == walk[i].files
Key(i, n) == [import |-> i, file |-> n]
ContentOf(k) == Files(k.import)[k.file]
Held == {ContentOf(k) : k \in documents} \union owned
FlushedBy(i) == {ContentOf(k) : k \in flushed[i]}

Init ==
    /\ url \in [Repos -> Urls]
    /\ status = [r \in Repos |-> "absent"]
    /\ collectionOf = [r \in Repos |-> NoCollection]
    /\ documents = {} /\ settled = {} /\ objects = {} /\ undeleted = {}
    /\ owned = {}
    /\ import = [i \in Imports |-> "idle"]
    /\ about = [i \in Imports |-> NoRepo]
    /\ found = [i \in Imports |-> NoCollection]
    /\ used = [i \in Imports |-> NoCollection]
    /\ checkout = [i \in Imports |-> <<>>]
    /\ walk = [i \in Imports |-> NothingWalked]
    /\ flushed = [i \in Imports |-> {}]
    /\ at = [i \in Imports |-> 0]
    /\ rivals = [i \in Imports |-> {}]

Goes(i, from, to) ==
    /\ import[i] = from
    /\ import' = [import EXCEPT ![i] = to]

-----------------------------------------------------------------------------
(* Requests                                                                *)

\* The import route finds the user's row for the URL, or none.
Importable(r) ==
    \/ status[r] \in {"failed", "ready"}
    \/ status[r] = "absent" /\ ~ \E s \in Repos : Live(s) /\ url[s] = url[r]

RequestImport(i, r) ==
    /\ Importable(r)
    /\ Goes(i, "idle", "asked")
    /\ about' = [about EXCEPT ![i] = r]
    /\ UNCHANGED <<repoVars, storeVars, owned, found, used, checkout, walk, flushed, at, rivals>>

\* The sync route asks only whose the repository is.
RequestSync(i, r) ==
    /\ Live(r)
    /\ Goes(i, "idle", "asked")
    /\ about' = [about EXCEPT ![i] = r]
    /\ UNCHANGED <<repoVars, storeVars, owned, found, used, checkout, walk, flushed, at, rivals>>

\* A new row may violate the unique constraint on the URL by now, and the row
\* of an existing one may be gone.
Acceptable(r) ==
    \/ Live(r)
    \/ status[r] = "absent" /\ ~ \E s \in Repos : Live(s) /\ url[s] = url[r]

\* The route commits PENDING before it schedules the job.
AcceptRequest(i) ==
    LET r == about[i] IN
    /\ Goes(i, "asked", "scheduled")
    /\ Acceptable(r)
    /\ status' = [status EXCEPT ![r] = "pending"]
    /\ rivals' = [rivals EXCEPT ![i] = {j \in Imports : about[j] = r /\ UnderWay(j)}]
    /\ UNCHANGED <<url, collectionOf, storeVars, owned, about, found, used, checkout, walk,
                   flushed, at>>

RefuseRequest(i) ==
    /\ Goes(i, "asked", "refused")
    /\ ~Acceptable(about[i]) \/ "database" \in Faults
    /\ UNCHANGED <<repoVars, storeVars, owned, jobVars>>

\* The record goes; its documents, its collection and its jobs stay.
DeleteRepository(r) ==
    /\ Live(r)
    /\ status' = [status EXCEPT ![r] = "deleted"]
    /\ UNCHANGED <<url, collectionOf, storeVars, owned, import, jobVars>>

-----------------------------------------------------------------------------
(* The job                                                                 *)

\* _set_status does nothing when the row is gone, and the job goes on.
SetStatus(i, to) ==
    status' = IF Live(about[i]) THEN [status EXCEPT ![about[i]] = to] ELSE status

\* No directory can be made for the checkout.  That step comes before the
\* handler that records failures, so the task ends there and the record is
\* left at PENDING.
NoCheckout(i) ==
    /\ "storage" \in Faults
    /\ Goes(i, "scheduled", "unstarted")
    /\ UNCHANGED <<repoVars, storeVars, owned, jobVars>>

BeginClone(i) ==
    /\ Goes(i, "scheduled", "cloning")
    /\ SetStatus(i, "cloning")
    /\ UNCHANGED <<url, collectionOf, storeVars, owned, jobVars>>

Clone(i) ==
    /\ Goes(i, "cloning", "cloned")
    /\ \E c \in Checkouts : checkout' = [checkout EXCEPT ![i] = c]
    /\ UNCHANGED <<repoVars, storeVars, owned, about, found, used, walk, flushed, at, rivals>>

\* A failed clone of which the record says nothing.
CloneFailsSilently(i) ==
    /\ "clone" \in Faults
    /\ Goes(i, "cloning", "failed")
    /\ UNCHANGED <<repoVars, storeVars, owned, jobVars>>

\* Git is missing, reports an error, or is stopped after its time.
CloneFails(i) ==
    /\ "clone" \in Faults
    /\ Goes(i, "cloning", "failing")
    /\ UNCHANGED <<repoVars, storeVars, owned, jobVars>>

BeginImport(i) ==
    /\ Goes(i, "cloned", "ensuring")
    /\ SetStatus(i, "importing")
    /\ walk' = [walk EXCEPT ![i] = Walk(checkout[i])]
    /\ UNCHANGED <<url, collectionOf, storeVars, owned, about, found, used, checkout,
                   flushed, at, rivals>>

ReadCollection(i) ==
    /\ Goes(i, "ensuring", "collecting")
    /\ found' = [found EXCEPT ![i] =
                   IF Live(about[i]) THEN collectionOf[about[i]] ELSE NoCollection]
    /\ UNCHANGED <<repoVars, storeVars, owned, about, used, checkout, walk, flushed, at, rivals>>

NextFile(i, n) == IF n < Len(Files(i)) THEN "put" ELSE "commit"

\* Every import makes a collection of its own.
MakeCollection(i) ==
    /\ Goes(i, "collecting", NextFile(i, 0))
    /\ used' = [used EXCEPT ![i] = i]
    /\ collectionOf' = IF Live(about[i]) THEN [collectionOf EXCEPT ![about[i]] = i] ELSE collectionOf
    /\ UNCHANGED <<url, status, storeVars, owned, about, found, checkout, walk,
                   flushed, at, rivals>>

\* The collection found is used, or a new one is made and linked to the row,
\* if there still is one.
EnsureCollection(i) ==
    /\ Goes(i, "collecting", NextFile(i, 0))
    /\ used' = [used EXCEPT ![i] = IF found[i] = NoCollection THEN i ELSE found[i]]
    /\ collectionOf' =
          IF found[i] = NoCollection /\ Live(about[i])
          THEN [collectionOf EXCEPT ![about[i]] = i] ELSE collectionOf
    /\ UNCHANGED <<url, status, storeVars, owned, about, found, checkout, walk,
                   flushed, at, rivals>>

Current(i) == Key(i, at[i] + 1)
Advance(i) == at' = [at EXCEPT ![i] = @ + 1]

PutFile(i) ==
    /\ Goes(i, "put", "look_up")
    /\ objects' = objects \union {Current(i)}
    /\ UNCHANGED <<repoVars, documents, settled, undeleted, owned, jobVars>>

\* _unlink_quietly: a file that cannot be removed stays, which is logged and
\* never raised.
UnlinkCurrent(i) ==
    \/ objects' = objects \ {Current(i)} /\ UNCHANGED undeleted
    \/ /\ "storage" \in Faults
       /\ objects' = objects \union {Current(i)}
       /\ undeleted' = undeleted \union {Current(i)}

\* The duplicate is left out and its bytes are kept.
KeepDuplicate(i) ==
    /\ Goes(i, "look_up", NextFile(i, at[i] + 1))
    /\ ContentOf(Current(i)) \in Held \union FlushedBy(i)
    /\ Advance(i)
    /\ UNCHANGED <<repoVars, storeVars, owned, about, found, used, checkout, walk, flushed, rivals>>

\* The user holds the content already, or a file before this one had it.  The
\* walk goes on whether or not the bytes could be removed.
SkipDuplicate(i) ==
    /\ Goes(i, "look_up", NextFile(i, at[i] + 1))
    /\ ContentOf(Current(i)) \in Held \union FlushedBy(i)
    /\ Advance(i)
    /\ UnlinkCurrent(i)
    /\ UNCHANGED <<repoVars, documents, settled, owned, about, found, used, checkout, walk,
                   flushed, rivals>>

FindNoDuplicate(i) ==
    /\ Goes(i, "look_up", "insert")
    /\ ContentOf(Current(i)) \notin Held \union FlushedBy(i)
    /\ UNCHANGED <<repoVars, storeVars, owned, jobVars>>

\* Rows that another import has not committed are not seen.
SeesCommittedOnly(i) == TRUE

\* The unique index makes an insert wait for another transaction that has
\* inserted the same content.
MayInsert(i) ==
    \A j \in Imports \ {i} : ContentOf(Current(i)) \notin FlushedBy(j)

AddDocument(i) ==
    /\ Goes(i, "insert", NextFile(i, at[i] + 1))
    /\ MayInsert(i)
    /\ ContentOf(Current(i)) \notin Held
    /\ flushed' = [flushed EXCEPT ![i] = @ \union {Current(i)}]
    /\ Advance(i)
    /\ UNCHANGED <<repoVars, storeVars, owned, about, found, used, checkout, walk, rivals>>

\* One conflict, one file that cannot be stored, or a database that fails rolls
\* back every row of the walk.  The files stored before stay.
WalkFails(i) ==
    /\ \/ /\ Goes(i, "insert", "failing")
          /\ MayInsert(i)
          /\ ContentOf(Current(i)) \in Held
          /\ UNCHANGED <<objects, undeleted>>
       \/ "storage" \in Faults /\ Goes(i, "put", "failing") /\ UnlinkCurrent(i)
       \/ /\ "database" \in Faults
          /\ \E step \in {"look_up", "insert", "commit"} : Goes(i, step, "failing")
          /\ UNCHANGED <<objects, undeleted>>
    /\ flushed' = [flushed EXCEPT ![i] = {}]
    /\ UNCHANGED <<repoVars, documents, settled, owned, about, found, used, checkout, walk, at,
                   rivals>>

\* A read or a write of the repository's row raises, in the transactions that
\* set the status, look for the collection, or make it.
RecordStepRaises(i) ==
    /\ "database" \in Faults
    /\ \E step \in {"scheduled", "cloned", "ensuring", "collecting", "finalise"} :
          Goes(i, step, "failing")
    /\ UNCHANGED <<repoVars, storeVars, owned, jobVars>>

\* The session closes without a commit.
CommitForgotten(i) ==
    /\ Goes(i, "commit", "finalise")
    /\ flushed' = [flushed EXCEPT ![i] = {}]
    /\ UNCHANGED <<repoVars, storeVars, owned, about, found, used, checkout, walk, at, rivals>>

CommitDocuments(i) ==
    /\ Goes(i, "commit", "finalise")
    /\ documents' = documents \union flushed[i]
    /\ flushed' = [flushed EXCEPT ![i] = {}]
    /\ UNCHANGED <<repoVars, settled, objects, undeleted, owned, about, found, used, checkout, walk, at, rivals>>

\* READY, before anything has been parsed.
Finalise(i) ==
    /\ Goes(i, "finalise", "index")
    /\ SetStatus(i, "ready")
    /\ UNCHANGED <<url, collectionOf, storeVars, owned, jobVars>>

Unsettled(i) == {k \in documents \ settled : k.import = i}

\* Parsed and indexed one after another, each to an outcome of its own.
IndexDocument(i) ==
    /\ import[i] = "index"
    /\ \E k \in Unsettled(i) :
          /\ \A l \in Unsettled(i) : k.file <= l.file
          /\ settled' = settled \union {k}
    /\ UNCHANGED <<repoVars, documents, objects, undeleted, owned, import, jobVars>>

\* The loop over the documents is never entered.
FinishAtOnce(i) ==
    /\ Goes(i, "index", "done")
    /\ UNCHANGED <<repoVars, storeVars, owned, jobVars>>

FinishImport(i) ==
    /\ Unsettled(i) = {}
    /\ Goes(i, "index", "done")
    /\ UNCHANGED <<repoVars, storeVars, owned, jobVars>>

\* Storing or loading an artifact raises, or a transaction of the document's
\* does, and the loop ends there.
IndexRaises(i) ==
    /\ Faults \intersect {"storage", "database"} # {}
    /\ Unsettled(i) # {}
    /\ Goes(i, "index", "failing")
    /\ UNCHANGED <<repoVars, storeVars, owned, jobVars>>

RecordFailure(i) ==
    /\ Goes(i, "failing", "failed")
    /\ SetStatus(i, "failed")
    /\ UNCHANGED <<url, collectionOf, storeVars, owned, jobVars>>

\* Writing the failure down fails as well, and the task ends with it.
RecordRaises(i) ==
    /\ "database" \in Faults
    /\ Goes(i, "failing", "lost")
    /\ UNCHANGED <<repoVars, storeVars, owned, jobVars>>

-----------------------------------------------------------------------------
(* The rest of the world                                                   *)

\* The user uploads a file of the same content.
UploadElsewhere(c) ==
    /\ c \notin Held
    /\ \A i \in Imports : c \notin FlushedBy(i)
    /\ owned' = owned \union {c}
    /\ UNCHANGED <<repoVars, storeVars, import, jobVars>>

\* The process dies and takes every job with it.
Crash ==
    /\ "crash" \in Faults
    /\ import' = [i \in Imports |->
                    IF UnderWay(i) \/ import[i] = "asked" THEN "killed" ELSE import[i]]
    /\ flushed' = [i \in Imports |-> {}]
    /\ UNCHANGED <<repoVars, storeVars, owned, about, found, used, checkout, walk, at, rivals>>

-----------------------------------------------------------------------------

Arrives(i) == \E r \in Repos : RequestImport(i, r) \/ RequestSync(i, r)

JobStep(i) ==
    \/ AcceptRequest(i) \/ RefuseRequest(i)
    \/ NoCheckout(i) \/ BeginClone(i) \/ Clone(i) \/ CloneFails(i)
    \/ BeginImport(i) \/ ReadCollection(i) \/ EnsureCollection(i)
    \/ PutFile(i) \/ SkipDuplicate(i) \/ FindNoDuplicate(i)
    \/ AddDocument(i) \/ WalkFails(i) \/ CommitDocuments(i)
    \/ Finalise(i) \/ IndexDocument(i) \/ FinishImport(i) \/ IndexRaises(i)
    \/ RecordStepRaises(i) \/ RecordFailure(i) \/ RecordRaises(i)

Next ==
    \/ \E i \in Imports : Arrives(i) \/ JobStep(i)
    \/ \E r \in Repos : DeleteRepository(r)
    \/ \E c \in Contents : UploadElsewhere(c)
    \/ Crash

Spec == Init /\ [][Next]_vars

\* The background task runs on; git is stopped after its time.
FairSpec == Spec /\ \A i \in Imports : WF_vars(JobStep(i))

-----------------------------------------------------------------------------
(* Properties                                                              *)

TypeOK ==
    /\ url \in [Repos -> Urls]
    /\ status \in [Repos -> Status]
    /\ collectionOf \in [Repos -> Imports \union {NoCollection}]
    /\ documents \subseteq objects /\ settled \subseteq documents
    /\ objects \subseteq [import : Imports, file : 1..MaxFiles]
    /\ undeleted \subseteq [import : Imports, file : 1..MaxFiles]
    /\ owned \subseteq Contents
    /\ import \in [Imports -> {"idle", "asked"} \union Working \union Ended]
    /\ about \in [Imports -> Repos \union {NoRepo}]
    /\ found \in [Imports -> Imports \union {NoCollection}]
    /\ used \in [Imports -> Imports \union {NoCollection}]
    /\ checkout \in [Imports -> Checkouts \union {<<>>}]
    /\ flushed \in [Imports -> SUBSET objects]
    /\ at \in [Imports -> 0..MaxFiles]
    /\ rivals \in [Imports -> SUBSET Imports]

Overlap(i, j) == i \in rivals[j] \/ j \in rivals[i]

\* A user has one document of a content, however imports, syncs and uploads
\* of it interleave (the constraint behind the look-up in _import_files).
ContentIsUnique ==
    /\ \A k, l \in documents : ContentOf(k) = ContentOf(l) => k = l
    /\ \A k \in documents : ContentOf(k) \notin owned

\* Broke off in the walk, or in the loop that indexes: an error or a crash.
BrokeOff(i) == import[i] \in {"failing", "failed", "killed", "lost"}

\* A stored file has its document, or the import that stored it is at work or
\* broke off in its walk: a duplicate leaves its bytes behind only when the
\* unlink failed, which was logged.
FilesHaveDocuments ==
    \A k \in objects :
        k \in documents \/ UnderWay(k.import) \/ BrokeOff(k.import) \/ k \in undeleted

\* A document that is neither indexed nor failed belongs to an import that is
\* at work, or broke off: READY is written early, but an import that ends well
\* leaves nothing unindexed.
UnsettledHasReason ==
    \A k \in documents \ settled : UnderWay(k.import) \/ BrokeOff(k.import)

\* The documents of a repository are in one collection, its own, as long as
\* no two of its imports overlapped.
OneCollection ==
    \A r \in Repos :
        Live(r) /\ (\A i, j \in Imports : about[i] = r /\ about[j] = r => ~Overlap(i, j)) =>
            \A k \in documents : about[k.import] = r => used[k.import] = collectionOf[r]

\* When the record turns READY, every file the walk kept is a document of the
\* user, whatever other imports and uploads brought it in the meantime.
ReadyIsComplete ==
    [][\A i \in Imports : import[i] = "finalise" /\ import'[i] = "index" =>
          \A n \in 1..Len(Files(i)) : Files(i)[n] \in Held]_vars

\* An accepted import ends, ready or failed, unless the record is deleted, the
\* process or the database takes the job with it, or the job could not get a
\* directory for its checkout.
ImportEnds ==
    \A r \in Repos :
        status[r] = "pending" ~>
            \/ status[r] \in {"ready", "failed", "deleted"}
            \/ \E i \in Imports : about[i] = r /\ import[i] \in {"unstarted", "killed", "lost"}

\* A record that says an import is in flight has one (import_repository records
\* "failure rather than raising", lest the record be "stuck").
StuckHasReason ==
    \A r \in Repos :
        status[r] \in InFlight => \E i \in Imports : about[i] = r /\ UnderWay(i)

=============================================================================
