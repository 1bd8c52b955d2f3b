# SecondBrain AI: specifications and proofs

TLA+ modules of the SecondBrain AI server (`src/backend/app`) and of its browser client, the TLC
instances that check them, and TLAPS proofs about them. SecondBrain takes
documents and source repositories, extracts and indexes their text, and answers
questions from it. What makes it hard to get right is that one document is
spread over four stores of which only two share transactions, that the work on
it runs in background tasks with no queue behind them, and that nothing
serialises two pieces of work on the same document.

## The system

| part | state | operations | interacts with |
| --- | --- | --- | --- |
| Upload and document routes (`api/v1/routes/documents.py`, `services/uploads`) | `documents` rows, original files | upload, list, reparse, delete | database, storage, vectors; schedules a background job |
| Parsing pipeline (`services/parsing/pipeline.py`) | status and error of the row, extracted text beside the original | `parse_document` | database (three transactions), storage |
| Indexing pipeline (`services/indexing.py`) | status, `chunk_count`, `document_chunks` rows, vectors | `index_document`, `remove_document` | database (four transactions), chunker, embedder, Qdrant |
| Vector store (`services/vectorstore/qdrant_store.py`) | points, the collection, its payload indexes | upsert, delete by document, search, ensure, drop | Qdrant |
| Database sessions (`db/session.py`, `api/deps.py`) | one transaction per request, committed after the handler; sessions of their own for jobs | | everything above |
| Authentication (`services/auth.py`, `repositories/refresh_token.py`) | users, refresh token rows grouped in families | login, refresh with rotation, replay detection, logout | database |
| Browser session client (`frontend/src/lib/api`, `auth-provider.tsx`) | access token in memory, refresh in flight | 401 and retry, refresh, logout | authentication |
| Chat (`routes/chat.py`, `services/chat.py`) | conversations, messages with ordinals, `message_count` | ask (streamed), rename, delete | retrieval, LLM, database |
| Repository import (`routes/repositories.py`, `services/repositories`) | repository status, collection, one document per file | import, sync, delete | git, walker, uploads, both pipelines |
| Retrieval (`services/retrieval.py`) | none | dense and keyword search, rank fusion, hydration | Qdrant, database |
| Analytics (`services/analytics.py`) | `search_events` rows | record a search, dashboard | retrieval, database, Qdrant |
| Parsers (`services/parsing`) | none | one parser per format | parsing pipeline |
| Chunking (`services/chunking`) | none | split, pack, overlap | indexing pipeline |
| LLM providers (`services/llm`) | none | prompt and stream of each vendor | chat |
| Upload queue of the browser (`hooks/use-uploads.ts`) | items, controllers | enqueue, cancel | upload route |
| Embedding providers, OCR engine, file type detection, container, logging, migrations, pages | | | |

`PROJECT.json` lists every part with the reason for those that are not modelled.

### Which behaviours are hard

* **Interleaving.** Every `await` lets any other request or job run. An upload,
  a deletion, an upload-scheduled job and any number of reparses may be at work
  on one document together; the reparse route does not look at the status.
* **Stores without a common transaction.** Vectors and files change the moment
  they are written. Rows change when their transaction commits, which for a
  request is after the handler has returned.
* **Failure half-way.** A lost answer from Qdrant, a storage error, a failed
  commit, a deadlock, a restart, which takes every scheduled job with it. A file
  that cannot be unlinked raises nothing, and everything goes on without it.
* **Stale reads.** A job's transaction writes what it computed from rows it
  read earlier, a request deletes by an id it has not looked up yet, a search
  reads four times while documents change.
* **Streams.** An answer is saved by a second transaction after the model has
  ended, when the client may have left and the conversation may be gone.
* **One cookie, many tabs.** A refresh token is good for one exchange, and each
  tab only knows of its own.

### What makes each part correct

* Uploads: one document per user and content; no bytes without a row, but for
  what failed and was logged, no row without its bytes.
* Jobs: a vector is written only after its row is durable; an indexed document
  has exactly the vectors of its rows, all marked; a job leaves an outcome; a
  failure is shown until the document is parsed again.
* Deletion: nothing of the document survives it, and a rejected one changes
  nothing.
* Authentication: a used token buys nothing, a revoked family stays revoked.
* Browser: the client never ends its own session, an expired token is not seen.
* Chat: places in a conversation are distinct, `message_count` counts what is
  there, the last event is true, an answer rests on sources.
* Import: every file kept by the walk has its one document, in the repository's
  collection; an import ends.
* Retrieval: a hit is real, nothing that was there throughout is missed,
  agreement beats confidence.
* Parsing and chunking: no text is lost without a reason, a citation is true of
  its text, a chunk fits the embedding model.

## Modules

| module | models | built on |
| --- | --- | --- |
| `DocumentStores` | the four stores, what a deletion does to each | |
| `UploadService` | upload and delete requests | `DocumentStores` |
| `IndexingPipeline` | the background job, both halves | `DocumentStores` |
| `Ingestion` | all of them together, crash, fairness, properties | `UploadService`, `IndexingPipeline` |
| `DocumentLifecycle` | the abstract life of a document: its phase, and what a search finds of it | implemented by `Ingestion` |
| `AuthTokens` | refresh tokens: login, rotation, replay, logout | |
| `BrowserSession` | tabs, cookie, refresh in flight, requests | the server as `AuthTokens` has it |
| `LanguageModels` | prompts and streams of the four vendors | |
| `Chat` | questions, streamed answers, deletion, the connection pool | `LanguageModels` |
| `RepositoryWalk` | which files of a checkout are imported | |
| `RepositoryImport` | requests, syncs, the import job, deletion, crash | `RepositoryWalk` |
| `RankFusion` | what a place in a ranking is worth | |
| `Retrieval` | a search, while documents are indexed and deleted | `RankFusion` |
| `Analytics` | the dashboard, beside all that | `Retrieval` |
| `Parsing` | what each format's parser makes of a file | |
| `Chunking` | from a file to its chunks | `Parsing` |
| `MC...` | instances for TLC | |
| `IngestionProofs` | theorems for every overlap, then for clients that wait, the refinement | `Ingestion` |
| `AuthTokensProofs`, `BrowserSessionProofs`, `ChatProofs`, `RepositoryImportProofs`, `ChunkingProofs` | theorems | the module each is named after |
| `RetrievalProofs` | theorems about rank fusion, searches and the dashboard | `Analytics` |
| `Maxima` | lemmas about the greatest element of a set of numbers, and about folds over sequences | |

### State of a document

* `live` holds the documents whose row is committed, `locked` those that a
  transaction has deleted and not committed yet, `document` the columns that
  control depends on: status, whether an error message is set, `chunk_count`.
* `objects` and `blocks` are the original and the extracted text in storage;
  `undeleted` are the originals an unlink failed to remove, which only the log
  knows (`object_delete_failed`).
  Extracted text is reduced to what decides control: no text, text the chunker
  makes nothing of, or a number of chunks (`ChunkCount`).
* `rows`, `marked`, `vectors` are sets of chunk ids. An id is a fresh uuid in
  the code; here it is the run that made it and its place in that run.
* `upload` and `removal` are program counters of the requests; `job`, with
  `target`, `text` and `upserted`, that of a background job and its locals;
  `open`, `loaded` and `seen` are its current transaction and what that
  transaction has read.

An upload, its storage key and the row it creates are one identity, since the
code makes key and id afresh for each upload.

### Transactions

The database is modelled as PostgreSQL at READ COMMITTED, which
`core/config.py:180-181` demands in production. (Development uses SQLite by
default, which serialises writers: its behaviours are among those checked.)

* A transaction of a job is a read (`ReadRow`, `OpenForIndexing`,
  `ReadChunks`) and a write at the commit (`WritesRow`, `MarkEmbedded`), with
  anything in between.
* The session writes the columns that changed against what it loaded and leaves
  the others alone (`Column`, `UpdateRow`). An assignment of the value already
  loaded writes nothing and waits for nobody (`Dirty`).
* An update waits for a deletion that holds the row, and raises when that
  deletion commits; an insert of chunk rows then violates the foreign key. Two
  replacements of the same chunk rows can collide on `(document_id, ordinal)`;
  a replacement that has deleted chunk rows and a deletion that holds the
  document's row wait for each other, which PostgreSQL ends by raising in one
  of them. These outcomes are `CommitRaises`; `TransactionRaises` sends the job
  to the handler the code has at that place, or ends it.
* The unique index makes an insert wait for an uncommitted insert or delete of
  the same pair (`InsertBlocked`).

### Actions and code

`UploadService`: `StartUpload`, `RefuseUpload`, `FinishPut`, `FindDuplicate`,
`FindNoDuplicate`, `InsertRow`, `InsertFails` and `DiscardBytes` are the
awaits of `UploadService.upload`; `CommitUpload` is the explicit commit in
`upload_document`. `DropVectors` is the first step of `delete_document`;
`FindOwned`/`FindMissing`, `DeleteRow` and `DeleteFiles` are
`UploadService.delete`; `CommitRemoval` and `RemovalFails` are the teardown of
`get_session`. Whatever deletes a file does it with `UnlinkBytes` and
`UnlinkText`: the file goes, or it stays and nobody is told, since
`_unlink_quietly` (`local.py:143-152`) catches the error. Of storage only the
listing of a directory can make a deletion fail (`local.py:108-111` catches two
of its errors), before any file is touched. Background tasks start before that teardown
(`tests/integration/test_framework_assumptions.py:45-63`), which is why the
upload route commits for itself, and why `AcceptUpload` commits and schedules
in one step.

`IndexingPipeline`: `ParseBegins` to `ParseFails` are `parse_document`, with
`PutBlocks` the write of the artifact and `ParsedMissing` its clean-up when the
document went meanwhile. `SkipIndexing` to `IndexFails` are `index_document`:
the claim, `EmbedCommits` (status and chunk rows in one transaction),
`DropOldVectors`, one `UpsertBatch` per batch, `MarkEmbedded`, `Finalise`.
`VectorStoreRaises` and `StorageRaises` are those calls giving up (a batch whose
answer was lost may have been applied); `ChunkingRaises` is what `chunk_recursion`
shows, seen from the job.

`Ingestion`: `Crash` ends requests and jobs where they stand, rolls open
transactions back and keeps the stores.

`AuthTokens`: `Login` stands for register and login, `Refresh` and what follows
it (`Reject`, `DetectReplay`, `AcceptToken`, `Rotate`, `CommitIssue`) for
`AuthService.refresh`, `Logout`, `LogoutEverywhere` and the revocation steps for
the two logouts and for `_revoke_family_durably`. A token is named by the request
that issued it and a family by its first token. A revocation is two steps: its
UPDATE starts from the rows committed by then (`BeginRevocation`), and writes
those still active once nobody else holds them (`UpdateFamily`), so a token that
is inserted meanwhile escapes it. A request that succeeds is answered
(`answered`, `ended`) before it commits, and the commit may still fail (`lost`);
only the revocation after a replay commits first. One user is modelled: every
statement selects by family or by user. Expiry is a choice made whenever a token
is decoded.

`BrowserSession`: `JoinRefresh` is `refreshOnce`, `RefreshAnswers` and
`RefreshFails` the two ways `refreshAccessToken` settles, each of which resumes
every call that waits (`Resumed`) in the same turn of the event loop. An error of
the server (`RefreshErrs`: before it has rotated anything, or in place of its
answer) leaves the cookie alone, and `client.ts:98-101` treats it as a refusal. `OpenTab`
and `ProbeAnswers` are the effect of `AuthProvider`; `AnswerCall` is `apiFetch`
after its response. A `file` request is an upload, an opened document or a
question whose answer streams: it looks for a token first and is not repeated.
The cookie is read when a request leaves and changed when an answer arrives.
Requests of the server are one step each.

`Chat`: `ResolveConversation`, `ReadHistory`, `ChooseOrdinal`, `FlushQuestion`
and `CommitQuestion` are the statements of `ask`; `Retrieve` to `SaveAnswer` are
`event_stream` with `ChatService.answer` and `persist_answer`; `ReceiveLine`
takes a line as the vendor's adapter does (`LanguageModels`). A conversation is
known by the question that started it. `pool` counts connections, of which a
stream holds one from retrieval on and saving takes another.

`RepositoryImport`: `RequestImport`, `RequestSync`, `AcceptRequest` and
`DeleteRepository` are the routes; `BeginClone` to `FinishImport` are
`import_repository`, with `PutFile`, `SkipDuplicate` and `AddDocument` the body
of the walk's loop in one transaction (`flushed`) and `CommitDocuments` its end.
`NoCheckout` is `mkdtemp` raising before there is a handler; `RecordStepRaises`
and `WalkFails` are the failures the handler takes. A duplicate's bytes that
cannot be unlinked stay, and the walk goes on.
`UploadElsewhere` is the user's own upload of a file's content. `Walk` is a fold over
the entries of the checkout, one `Visit` for each.

`Retrieval`: `DenseSearch`, `MatchKeywords`, `RankKeywords`, `Hydrate` and
`Record` are a search's statements; `ReplaceRows`, `ClearVectors`,
`UpsertVectors`, `DropVectors` and `DeleteDocument` are what indexing and
deletion do meanwhile, one step for each change a search can see. A passage is
known by the terms it holds and those it only looks like. `Analytics` adds the
dashboard's counts, one statement each; `IsLeading` is what `ORDER BY` and
`LIMIT` leave of the extensions, of which equally common ones are cut at will.

`Parsing` and `Chunking`: a file is a sequence of units (paragraph, heading, row,
line, definition), each with a page and a text of symbols: a letter, a line
break, a space, the end of a cell. A symbol is known by its unit and position, so
that it can be followed from file to chunk. Each operator named after a parser is
that parser: `Cells` are the cells of a row, `Columned` makes a line of a header
and `Paired` one of a row under it, which repeats the names of the columns and
leaves out what has none. A unit is `unread` when it is in no tag, frame or
paragraph its parser looks at.
`SkipBlank`, `TakeBlock`, `SplitText`, `EmitPieces` and `Finish` are
`RecursiveChunker`, its recursion a stack of texts with their depth. Blocks are
stripped when they are measured and joined, pieces when they are emitted.
`UploadedAssumption` says what a file can be: pages count from one, a page of HTML
is made of headings, paragraphs, loose text and what is never read, an image is
one page.

### The life of a document

`DocumentLifecycle` says what a user may rely on. A document is absent, waiting,
being read, being built, searchable, failed or gone; what a search can find of it
changes only while it is being built, and a document in phase `searchable` has
something to find. `Ingestion!Lifecycle` maps `phase` to the row and its status
and `found` to the chunks with both row and vector; `ImplementsLifecycle` is
checked for clients that wait and texts that yield something. Without either,
the code does not implement it, as "Known to fail" says.

## Runs

`Faults` names the failures an instance admits. `CHECK_DEADLOCK FALSE`
everywhere: clients may stop sending requests.

| run | question | bounds |
| --- | --- | --- |
| `uploads` | do concurrent uploads and deletions keep rows and bytes together? | 3 uploads, 2 deletions, 2 users, 2 contents, all failures |
| `ingestion_overlap` | what still holds when jobs overlap with each other and with a deletion, and does the document settle? | 1 document, 2 jobs, 1 deletion, parse failures |
| `ingestion_faults` | types, and the order of writes, under every failure | the same, all failures and crashes |
| `ingestion_serial` | what holds for clients that wait for one operation to end, and do documents live the abstract life? | 2 documents, 3 jobs, 2 deletions, parse failures, texts with something to index |
| `tokens` | is a session one good token, and does it stay ended? | 5 requests, commits that fail |
| `browser` | does the client keep its session, and hide that tokens expire? | 2 tabs, 3 sign-ins or requests, failures of network and server |
| `chat` | do places, counts, events, rows and sources agree, and does every question end? | 2 questions of 1 or 2 users, 2 vendors, pools of 2 and 3, all failures |
| `repository_import` | do contents, files, statuses and collections agree, and does an import end? | 2 imports of one repository, a checkout of 6 entries, all failures |
| `retrieval` | are answers real, complete and ranked, and do figures add up? | 1 search of 7 kinds, 1 dashboard of 1 extension, 3 documents of 2 users, one in 2 editions, failures of both stores |
| `chunking` | what becomes of every text on its way to the index? | every text of 10 symbols, one with a gap longer than a block, files of 3 units in 12 more formats |
| `chunk_recursion`, `sign_out` | statements of the code's comments that the code does not keep | the smallest instance that shows it |

Why the bounds suffice. One document: jobs and deletions of different documents
touch disjoint rows, files and vectors, and only uploads compare documents, for
which `uploads` has three. Two jobs give every overlap of two runs; a third
matters only for a sequence of runs, which `ingestion_serial` has. A text of
three chunks with batches of two has a full batch and a short last one, a text
of one chunk has only a short one; together they let a re-index produce fewer or
more chunks than before.

`SerialSpec` restricts who acts, not what the code does: on one document at most
one job is at work or at most one deletion, and never both (`OneAtATime`). It is what one user in one
browser tab does. The properties checked under it are those that overlap
breaks. `MCSearchableTexts` in that run leaves out texts with nothing to index,
because of what an empty reparse does.

Five token requests are a login, two rotations, a replay of any link of the
chain and a logout, or two sessions side by side. `OrderlySpec` is the same kind
of restriction as `SerialSpec`: a request arrives when no other is at work on its
family, where work lasts until the transaction has ended. Clients that only wait
for the answer (`PatientSpec`) are not enough.

`MaxRequests` in `browser` bounds sign-ins and page requests together: one
session with two requests that find their token expired at once, or two sessions
with one request in between. A tab is opened once, so two tabs are also one tab
that is reloaded, with a refresh in flight or without.

Two questions are in one conversation or in two, one after the other or
overlapping. A pool of two cannot serve two streams that both want to save; a
pool of three can. The two vendors are Gemini, which renames the roles and may put
text and its end on one line, and Anthropic, whose errors are events; Ollama and
OpenAI differ from Gemini only in taking the prompt as it is.

The checkout of `repository_import` holds a content twice, one beyond the limit
of two files, and entries the walk skips; overlapping and consecutive imports
are both among the behaviours of two. Longer walks are left to the theorems, which
hold for every checkout. `retrieval` has a document in two editions, so that a
re-index falls between any two reads of a search. Its dashboard shows one
extension where the code shows ten, so that the limit bites with two. The reads of
a search and those of the dashboard change nothing, so they need not be mixed, and
the instance lets them take turns (`ReadsTakeTurns`); what a search writes still
falls between any two figures. Neither bound is part of the theorems: the limit
is a constant (`MaxGroups`), and any reads may be mixed.

In `chunking` a chunk aims at 6 symbols, repeats 2, and is dropped below 2; a
block is cut at 9. Ten symbols hold every arrangement of parts around those
limits: a part one below, at and above each of them, with separators of either
kind between, at the end, and none. The text with a gap is cut into three blocks
of which the middle one is blank, and the chunker skips it. Rows have two cells,
one, one under a column without a name, or none, in any order, so a header is
shorter than a row, nameless in a column, or blank.

### Fairness

Weak fairness of each started upload, each removal after its first step and each
job: the server keeps running what it has started, and no step waits for ever
except on a lock whose holder is itself fair. No fairness of clients, which owe
the server nothing: an upload need not arrive, and no reparse or deletion need
ever be asked for. `EventuallySettled` is therefore about the jobs alone.

`QuestionsEnd` needs strong fairness of an answer's steps: a row lock that comes
and goes with deletions that fail disables them again and again, and locks and
connections are served in turn. A model that falls silent runs into the read
timeout, a wait for a connection into the pool's (`PoolTimesOut`). `ImportEnds` needs weak fairness of each
job.

### What the passing runs show

* `UniqueContent`, `BytesAreReferenced`, `RowsHaveBytes`: two uploads of the
  same bytes that both find no duplicate end with one document and one copy,
  also when a deletion of the first is in flight. With everything failing, the
  last two leave out what a database that failed is known to leave behind, and
  `BytesAreReferenced` the bytes that could not be unlinked.
* `VectorsHaveRows`, `WriteOrder`: however runs, deletions, failures and crashes
  interleave, a vector lacks its row only when its document is gone or another
  run has replaced the rows.
* `OutcomeRecorded`, `EventuallySettled`: without storage or database failures
  every job records `indexed` or `failed`, overlap included, and each accepted
  document reaches one of them or is deleted.
* `NoOrphanVectors`, `IndexedIsSearchable`, `MarkedIsLive`,
  `TextDiesWithDocument`: for clients that wait, rows, vectors, marks and counts
  agree whenever nothing is at work, over any three runs.
* `ImplementsLifecycle`, `ErrorExplainsFailure`: the indexing half never hides a
  failed parse, and a later success leaves no old message.
* `OneActivePerFamily`, `EndedFamilyStaysEnded`, `ReplayEndsFamily`,
  `ChainIsKept`: for orderly clients, and with commits failing after the answer,
  a rotation leaves one good token, a replay ends the session although its
  request raises, nothing revives an ended session, and the audit trail names
  committed successors only.
* `SessionIsKept`, `ExpiryIsInvisible`: a session ends by sign-out, or because two
  tabs presented one refresh token at once, or because an answer was lost and
  the token presented again (a reload during a refresh is such a case); a
  request that may be repeated is refused only when its session was over, its
  cookie replaced, or the refresh it waited for met an error of the server.
* `PlacesAreDistinct`, `HistoryComesFirst`, `CountMatches`, `MessagesBelong`:
  what two questions that overlap may confuse is their places and the count;
  nothing else, and nothing survives the conversation.
* `LastEventIsTrue`, `AnswersAreGrounded`, `QuestionsEnd`: `done` is said of a
  saved answer and `error` of none, an answer cites passages it was given and
  its model was told the rules once, and nobody waits for ever for a connection.
* `ContentIsUnique`, `FilesHaveDocuments`, `OneCollection`, `ReadyIsComplete`,
  `UnsettledHasReason`, `ImportEnds`: imports, syncs and uploads of the same
  files agree on one document each; READY is written before the files are
  indexed, and is made true unless the job breaks off. A file has a document
  unless its import broke off or the file could not be unlinked; an import ends
  unless it is killed, the database fails it, or it gets no directory.
* `HitsAreReal`, `PresentIsFound`, `AgreementWins`, `FiguresAgree`: orphans of the
  vector collection never reach an answer, a passage that was there throughout
  is found unless the answer or the candidates are full, and figures that are read
  one by one add up. What the extensions shown leave out are the documents of
  those beyond the limit, each no more common than any that is shown.
* `TextSurvives`, `CitationsAreTrue`, `ChunksFitInOrder`: every letter is indexed
  or left out for a stated reason, under the page and title it stands under. The
  reasons are `LeftOut`: a text longer than a block where the format cuts; a
  damaged page or an image that was warned of; a part that is not read (pictures
  in RTF, loose text in HTML beside tagged text, faint words, text in EPUB outside
  the tags `zipped.py:78` lists, shapes without a text frame in slides, text boxes
  in Word); rows beyond the limit; and cells beyond the header, or, in
  spreadsheets, under a column without a name. Each of them is needed: the run
  fails without it. Of these only the damaged pages, the images and the rows
  beyond the limit are warned of. A chunk's length is that of the text that is
  embedded, with its title.

Each property is matched with a mutation of a mapped definition that breaks it
(`PROJECT.json`, "mutants").

### Where code and comments disagree

* `chunk_recursion`: a sentence or line longer than the window that ends in its
  own separator is split into itself until Python's recursion limit. The call is
  outside the handler of `index_document` (`indexing.py:102`), so the document
  stays at `chunking`.
* `sign_out`: when the network fails, `logout()` rejects and `endSession` never
  reaches `setUser(null)`; the user stays on screen and the next request renews
  the token, although `lib/api/auth.ts:26-27` says otherwise.

### Known to fail

Found with the same modules, by naming the property in a configuration with the
faults or the overlap described. They have no run of their own.

* `RejectedDeleteChangesNothing`: `delete_document` drops vectors before anything
  looks at the row, so a request answered 404 has changed the index of a document
  that is not its sender's. `indexing.py:114` assumes the ownership check came
  first.
* `NoOrphanVectors` with overlap: a job past its commit upserts after the
  deletion, and the vectors stay for good. So they do when Qdrant fails after
  the rows were replaced.
* `IndexedIsSearchable` with an empty text: the early returns skip the clean-up
  of the previous run, which stays searchable under a document of no chunks.
* `OutcomeRecorded` with storage failures: `put_derived` and `load_blocks` raise
  outside any handler, although `documents.py:63-64` says neither step raises.
* `EventuallyReconciled` with crashes: the reconciliation worker that
  `models/document.py:133-135` mentions does not exist.
* `OneActivePerFamily` for `PatientSpec`: `models/refresh_token.py:38-39` expects
  the unique `jti` to catch a token presented twice; each exchange inserts a
  `jti` of its own, and both succeed when the second reads the row before the
  first commits.
* `RowsHaveBytes` when the commit of a deletion fails, were it not left out: the
  files are gone, the rollback restores the row. `BytesAreReferenced` when the
  look-up or the commit of an upload fails: the clean-up covers the flush only.
* `BytesAreReferenced` and `FilesHaveDocuments` when an unlink fails, were it not
  left out: the bytes stay, which `uploads/service.py:141-144` accepts for
  deletions.
* `ExpiryIsInvisible` when a refresh meets an error of the server, were it not
  left out: the waiting request keeps its 401, and the tab drops its token,
  although session and cookie are good.
* `TextDiesWithDocument` when a deletion overlaps a parse between its check and
  its write; `MarkedIsLive` when two reparses overlap, as the marking step lists
  the rows anew.
* `ModelFailureIsReported` (`routes/chat.py` documents an `error` event "if the
  model fails mid-stream"): Anthropic's adapter takes an error event for the end
  of the message and the others pass an error object over, so the part of the
  answer that had arrived is saved and announced as `done`.
* `ChunksFitWindow`: the title is put in front of a text that has been measured
  without it (`chunking/__init__.py:138-139`), so a full chunk under a title is
  longer than window and overlap. `tests/unit/test_chunking.py:45` says "the ceiling
  is size + overlap", of a block without a section; the module's docstring calls
  what is longer "a chunk with an invisible hole in it". `ChunksFitInOrder` is
  what does hold.
* `RowsAreIndexed`: "Each row becomes one block prefixed with its column names"
  (`parsing/text.py:312-313`), but cells beyond the header are dropped. When the first
  line of the file is blank the header is empty, every row is beyond it, and
  nothing of the file is indexed; nobody is warned.
* `StuckHasReason` with storage failures: `mkdtemp` is called before the `try`
  (`services/repositories/service.py:59`), so when it fails the record stays at
  `pending` with no job, and the import route answers 409. The docstring above it
  (51-55) says why this must not be: the task would "leave the repository stuck
  [...] with nothing to explain it".
* Rank fusion for answers of 21 to 50: a chunk at the end of both rankings scores
  below one at the head of one.

Met while modelling, and left outside the properties:

* Import. A sync skips files it finds by content, so documents that a crash left
  pending stay so under a READY repository; a sync of an unchanged repository
  sets `file_count` to 0. A crash leaves `cloning` or `importing`, after which the
  import route answers 409 for ever and only a sync helps; so does a directory
  that cannot be made, with `pending`. `IGNORED_FILENAMES`
  holds capitalised names and is compared with lower-case ones.
* Retrieval. The keyword search takes twice its depth of candidates in no order and
  looks their texts up in a second statement. When a document goes in between, its
  candidates are lost and nobody fetches others, so a chunk that was there
  throughout may be missed although the answer has room. The second hypothesis of
  `PresentIsFound` is this; it was met by proving the property without it, and
  takes more chunks than the run has. `ILIKE` takes `_` in a term as a wildcard; the extension filter minds
  case; `collection_id` is accepted and not used.
* Parsing. Code, HTML, Word, OpenDocument, slides, EPUB and spreadsheets cut a block
  that is too long, where text, Markdown, RTF and PDF split it; rows of a Word table
  get the last heading. Where one tag that is looked at is inside another (a
  paragraph in a quotation, in HTML or EPUB), its text comes twice: a file of the
  model lists it twice. The header of a sheet begins with the sheet's name, which
  the model counts as its chunk's title. The code
  parser compares the length of its lines without their line breaks with the limit
  (`text.py:244`) and cuts the text joined with them (`text.py:229`), so code that is
  just below the limit loses its end and nothing is said. This was met in the proof of
  `TextSurvives`, which did not go through as long as the two were taken for one
  length; `LeftOut` now says what the code does, and a line of the instance makes it
  happen.
* Browser. An upload or a streamed question with a token that is held but expired
  fails ("refresh up front if needed" looks for a token, not for its age). A
  refresh that answers after a sign-out restores the token, and one that is
  refused after a sign-in clears the new cookie. Cancelling an upload has no
  effect before its request is sent.

## Proofs

Each theorem holds for every value of the constants: any number of documents,
users, contents, jobs, requests, questions, imports and tabs, any texts and batch
size, and every subset of the failures, unless a hypothesis says otherwise.

| module | theorem | states | for |
| --- | --- | --- | --- |
| `IngestionProofs` | `TypeCorrect` | `TypeOK` | every overlap, every failure |
| | `WritesAreOrdered`, `NoUnexplainedVector` | `WriteOrder`, `VectorsHaveRows` | the same |
| | `ContentIsUnique` | `UniqueContent` | the same |
| | `StoredBytesAreReferenced`, `RowsKeepBytes` | `BytesAreReferenced`, `RowsHaveBytes` | requests alone, every failure |
| | `BytesUnderJobs` | both | the whole system, without crashes |
| | `OutcomeAlwaysRecorded` | `OutcomeRecorded` | every overlap; parsers and vector store fail (`ServerStands`) |
| | `OneAtATimeIsConsistent` | `SerialInv` | clients that wait; parsers fail (`OnlyParsingFails`) |
| | `NoVectorIsOrphaned`, `TextNeverOutlives`, `ErrorsAreExplained` | `NoOrphanVectors`, `TextDiesWithDocument`, `ErrorExplainsFailure` | the same |
| | `MarkedMeansLive` | `MarkedIsLive` | and users delete what they own (`OwnDeletes`) |
| | `IndexedMeansSearchable` | `IndexedIsSearchable` | and texts yield something (`TextsYield`) |
| | `DocumentsLive` | `ImplementsLifecycle` | clients that wait, parsers fail, texts yield something |
| `AuthTokensProofs` | `ChainAlwaysKept` | `ChainIsKept` | every overlap |
| | `OneActiveAlways`, `ReplayAlwaysEnds`, `EndedNeverReturns` | the other three of `tokens` | `OrderlySpec` |
| `BrowserSessionProofs` | `TypeCorrect`, `SessionKept`, `ExpiryNeverShows` | `TypeOK`, `SessionIsKept`, `ExpiryIsInvisible` | all |
| `ChatProofs` | `TypeCorrect`, `MessagesStandApart`, `HistoryPrecedes`, `CountIsRight`, `MessagesHaveAHome`, `LastEventHolds`, `AnswersRestOnSources` | `TypeOK`, `PlacesAreDistinct`, `HistoryComesFirst`, `CountMatches`, `MessagesBelong`, `LastEventIsTrue`, `AnswersAreGrounded` | all |
| `RepositoryImportProofs` | `WalkIsBounded` | what a walk returns | every checkout |
| | `TypeCorrect`, `NoContentTwice`, `NoStrayFiles`, `NothingLeftUnindexed`, `CollectionIsOne`, `ReadyMeansComplete` | `TypeOK`, `ContentIsUnique`, `FilesHaveDocuments`, `UnsettledHasReason`, `OneCollection`, `ReadyIsComplete` | all |
| `RetrievalProofs` | `AgreementBeatsConfidence` | a chunk of both rankings scores above any of one | answers of up to twenty, any depth floor up to sixty |
| | `SearchesAreSound` | the invariant of a search | every library, every query, all failures |
| | `HitsAreAlwaysReal`, `PresentIsAlwaysFound`, `AgreementAlwaysWins` | `HitsAreReal`, `PresentIsFound`, `AgreementWins` | the same |
| | `FiguresAlwaysAgree` | `FiguresAgree` | the same, with the dashboard |
| | `DashboardOnlyReads` | `AllSpec` implements `Spec` | the same |
| `ChunkingProofs` | `ChunkingIsInductive` | `ChunkingInv` | every file of every format, every window, overlap and limit |
| | `TextIsNotLost`, `ChunksAreCitedTruly`, `ChunksAreFitAndOrdered` | `TextSurvives`, `CitationsAreTrue`, `ChunksFitInOrder` | the same |

The hypotheses are not for the prover's sake: "Known to fail" has a behaviour
against the theorem for each that is left out. A deletion of somebody else's
document breaks `IndexedIsSearchable` (`OwnDeletes`); so does a text of nothing
(`TextsYield`); storage failures break `OutcomeRecorded` (`ServerStands`), failures
of the vector store `NoOrphanVectors`. Each is met by an instance that a run
checks.

They rest further on the named assumptions of the modules: `NoText`, `NoDocument`
and `NoTarget` are outside the sets they stand apart from (so are `NoToken`,
`NoSession` and the like), `ChunkCount` maps texts to naturals, `BatchSize` is
positive, `Faults` names known kinds, `Overlap` is less than `ChunkSize` (the
chunker's own check), files are made of what their parser lists
(`UploadedAssumption`).

### The arguments

**Order of writes.** `VectorsHaveRows` is not inductive: to know that an upsert
adds only vectors with a row or a reason, one must know that the run's rows were
committed and what may have removed them since. `RunsAreCommitted` says that, and
needs `TargetsAccepted` and `LiveAccepted` (a deleted document does not come back:
its upload is over), `EmbedsSomething` (a run that replaces rows leaves at least
one of its own, which is the witness for the runs it displaces) and
`VectorsOfRuns` (a run that is about to replace rows has no vectors yet). Their
conjunction `WriteOrder` is inductive relative to `TypeOK`. Its proof takes the
steps that only move a program counter first, then the four that touch rows or
vectors. `UniqueContent` is made inductive by adding the rows flushed and not
yet committed (`ContentHeldOnce`): an insert waits for exactly those. Bytes need
`BytesInv`: where each upload and each deletion is, and that a row without bytes is
one whose deletion has removed the files (`MissingBytesAreRemoved`). A step that
unlinks leaves the bytes gone or in `undeleted`, which nothing leaves again.

**Outcomes.** That a document at rest is settled is not inductive either: with
several jobs at work, one may give up because another has changed the row. The
invariant (`OutcomeInv`) is that for each status a job that set it is still in
charge: it is at one of the places from which that status is changed
(`Pursuits`), and the status it has read is the status there is. Each write takes
the charge over; a job whose read is stale is not the one in charge.

**Clients that wait.** `SerialInv` says for each document which status goes with
which stage of its job (`StatusFits`), what the row, the text, the rows and the
vectors are at that stage (`DocumentInv`), that what a transaction has read is what
there is, and what the job has written so far is all there is (`JobInv`). Since a
job or a deletion is alone with its document, each step is one lemma for the
document it works on, and the rest of the documents are as they were
(`OtherDocumentsKeep`, `OtherJobsKeep`). `BatchesAddUp` is the arithmetic of
upserts. `SearchInv` adds that a document which nobody rebuilds or removes is
found in full.

The refinement follows the same steps: `LivesGoOn` says that a step which takes
one document along an arrow of `DocumentLifecycle` and leaves the others is a step
of it, and `WorkLives`, `DeletionLives` and `QuietLives` find the arrow, or none,
for each step of a job, a deletion and everything else.

**Tokens.** `ChainInv` adds to the audit trail where rows come from (requests
that have committed) and what a rotation holds. `SessionInv` adds, for orderly
clients, what each request knows at its place (`Sound`): a rotation's token is
still good, a revocation's rows are of families it concerns, a replay's revocation
has found all good tokens. The argument of each step that commits is the same:
had another request disturbed this one, both would be at work on one family
(`OneAtWork`).

**Browser.** `IInv` says where the good token of a running session without
excuse can be: in the cookie (`CookieIsGood`), in a refresh that the server has
not seen (`SentIsGood`), or in an answer, while the cookie is the token it
replaces and no other refresh of the session is in flight (`AnswerIsGood`,
`AnswerIsAwaited`). An error of the server in place of an answer is a lost answer,
and before it nothing at all. `FlightsDiffer` is where the single flight of a tab enters,
`NewIsUnheld` keeps a sign-in under way apart. There is one lemma for each shape
of step. `ExpiryIsInvisible` needs two small facts: a refresh is refused for a
reason that stays (`RefusalHasReason`), and a request is repeated with a token
that has time left (`ReplayIsGood`).

**Chat.** Places are chosen as one more than the greatest stored, so the invariant
says that a question under way stands after all messages its rivals did not write
(`NumberedLast`), where rivals are the questions that were under way with it
(`RivalsAreKnown`). The same holds for what it has read: the history
(`HistoryIsEarlier`) and the count (`CountIsRead`) are current unless a rival has
written since. `Held` is the row lock that keeps a conversation while a question
or an answer is written. `CountMatches` needs in addition that a question has two
messages at most and that the set of messages is finite. `AnswersAreGrounded` rests
on what an adapter makes of a prompt, which is a fold: `ThoseIsALoop` makes a loop of
it, `RulesGoAside` follows the loop to the end of the prompt.

**Import.** `InOrder`, `NothingYet` and `StoredByStage` say what an import at each
stage has stored, in its transaction or in the database, `undeleted` files apart; `RowsAreUnique` is the
unique index over rows committed and flushed; `WalkedAreHeld` is what makes READY
true: what the loop has passed is the user's, whoever brought it.
`CollectionIsShared` needs that imports which never met found what the last one
left (`RecordsAreUsed`). That a walk stays within its limit is a fact about a fold:
the fold's function is shown to exist (`FoldExists` of `Maxima`, for every fold over
a sequence), and a least prefix at which the result would be wrong to be impossible, which is how an induction is written
without the library's induction theorems.

**Retrieval.** `IInv` says of each ranking that it has a chunk once, in scope and to
its depth (`Ranking`), and of each retriever that it has found all there is to find
of the documents untouched since the search began, or as much as it takes
(`DenseIsComplete`, `CandidatesAreComplete`, `KeywordIsComplete`). A step of the
library disturbs one document, and every search under way knows which
(`LibraryTouchesOne`). A place in a ranking is the one place of its chunk
(`PlaceIsThere`), so that with `AgreementBeatsConfidence` the order by score puts
hits of both retrievers first (`AgreementComesFirst`); where the limit is not
reached, all that was found is among the best (`AllAreBest`, from `BeforeIsStrict`:
a strict order counts fewer before a chunk than there are).

**Figures.** `FiguresInv` holds each figure to the count it was read from for as long
as nothing has moved since. That grouped counts add up to the total
(`CountsAddUp`) is about a fold: its function is given explicitly, and a least set
at which the fold would differ from it is impossible. With a limit the extensions
that are shown and those that are not part the documents in two, whatever the
database's choice.

**Chunking.** A symbol knows its unit, so truth of a citation is a property of each
symbol: `True_` are those that may stand under a page and a section, and
`ChunkingInv` says that blocks, pending blocks, texts to split, pieces and chunks
hold only such symbols under the page and section they carry (`TrueBlock`,
`TrueChunk`). `PendingInv` adds that what is pending is of one place and that
`length` is what it adds up to; without it a flush could be too long or lie about
its second block. `SplitInv` bounds pieces, from which the overlap bounds chunks;
`ChunksInv` numbers chunks without gaps until the short ones are left out.
`LettersInv` is that every letter is in hand (`InHand`: a block, pending, work, a
piece, a chunk, a dropped chunk) or was left out.

The first half is about the parsers. `FileTold` is what parsing must deliver (true
blocks, and a letter in one of them for each that was not left out), proved for
each format by a lemma of its own and put together in `ParsedTells`. Most parsers
go through the units one at a time (`EachTells`). Of tables, `CellsStay` says that a
cell is made of symbols of its row, `SpacedKeeps` and `PairedKeeps` that a line has
every cell it was made of, and `LettersInColumns` that a letter with a column is in
such a cell; the names of columns are letters of the header, which are true of the
sheet and, in a delimited file, the exception `CitationsAreTrue` states. The code parser keeps a buffer
and is a fold, taken as a loop with `FoldExists` and a least prefix that goes wrong
(`CodeTells`), as are joining, packing and leaving short chunks out. The second
half has one lemma for each action (`TakeBlockKeeps`, `SplitTextKeeps`, ...) and
three about what it is built from: packing (`PackingKeeps`), splitting at a
separator (`SplittingKeeps`) and hard cuts (`SlicesKeep`) return the symbols they
were given, and pieces within the limit. That recursion ends is no part of it:
`chunk_recursion` shows that it may not.

Each inductive invariant was checked by TLC before it was proved, as an invariant
of the instance of its run, with further failures admitted where the theorem allows
them.

### Only model-checked

Liveness (`EventuallySettled`, `QuestionsEnd`, `ImportEnds`) is out of the
prover's reach. Every other property of a passing run is a theorem.

## Not modelled

Within the modelled parts: the contents of files and texts beyond what decides
control, sizes, progress and page counts, wording of errors; concurrent parses
within one process sharing a thread pool; the number of retry attempts (a call
succeeds or gives up); SQLite pragmas; user deletion and deactivation, which no
route offers. The collection of vectors is taken to exist. Snippets, the tokenizer,
top queries and medians; signing out of every device, the query cache and
redirects of the browser; the expiry of a refresh token there.

Not at all: the upload queue of the browser (a pool and a map of controllers; its
requests are the `file` requests of `BrowserSession`), ensuring and dropping the
vector collection, loading the embedding model, the table of file types,
wiring, configuration, logging, migrations, containers and pages.
`PROJECT.json` gives the reason for each.

## Plan

1. *Done*: ingestion, tokens, the abstract life of a document, browser session,
   chat, repository import, retrieval with analytics, parsing and chunking;
   first theorems. Then the invariants of ingestion, chat, repository import,
   retrieval and analytics, and the refinement, proved.
2. *Done*: the invariants of parsing and chunking, proved.
3. Modules left: the vector collection with the lazy load of the embedding model
   (two double-checked locks), and the upload queue.
