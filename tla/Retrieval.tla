----------------------------- MODULE Retrieval ------------------------------
(***************************************************************************)
(* Search while documents are indexed again and deleted.  A search reads   *)
(* the vector collection, the chunk rows twice, and the rows of its hits,  *)
(* each in a statement of its own; what happens in between shows.  A       *)
(* chunk is known by its document, the edition (one run of the indexing)   *)
(* and its place.                                                          *)
(***************************************************************************)
EXTENDS RankFusion, Sequences, FiniteSets, SequencesExt

CONSTANTS
    Library,        \* documents: their owner, extension and passages
    Searches,       \* requests
    Queries,        \* what may be asked: see Query
    MaxEditions,    \* runs of the indexing of each document
    Faults          \* "vectors", "database"

Documents == DOMAIN Library
Modes == {"hybrid", "semantic", "keyword"}
NoQuery == [owner |-> "nobody", blank |-> TRUE, terms |-> {}, documents |-> {},
            extensions |-> {}, mode |-> "hybrid", limit |-> 1]

ASSUME RetrievalAssumption ==
    /\ IsFiniteSet(Documents)
    /\ \A d \in Documents : IsFiniteSet(DOMAIN Library[d].passages)
    /\ MaxEditions \in [Documents -> Nat]
    /\ \A q \in Queries : q.mode \in Modes /\ q.limit \in 1..50
    /\ Faults \subseteq {"vectors", "database"}

VARIABLES
    live,           \* documents whose row is committed
    status,         \* their status column
    edition,        \* the last run of the indexing to write chunk rows
    rows,           \* committed chunk rows
    vectors,        \* points in the vector collection
    indexing,       \* how far the run of each document has come
    search,         \* how far each search has come
    query,          \* what it asks
    dense,          \* chunks by similarity
    candidates,     \* chunks with a term of the query, in no order
    keyword,        \* chunks by the number of terms they contain
    hits,           \* the answer
    touched,        \* documents written or removed since the search began
    events          \* the searches recorded, and their winning documents

libraryVars == <<live, status, edition, rows, vectors, indexing>>
searchVars == <<search, query, dense, candidates, keyword, hits>>
vars == <<libraryVars, searchVars, touched, events>>

Nothing == "no document"
ChunksOf(d, e) == {[doc |-> d, edition |-> e, place |-> p] : p \in DOMAIN Library[d].passages}
Passage(c) == Library[c.doc].passages[c.place]
Of(d, chunks) == {c \in chunks : c.doc = d}

Init ==
    /\ live = Documents
    /\ status = [d \in Documents |-> "indexed"]
    /\ edition = [d \in Documents |-> 1]
    /\ rows = UNION {ChunksOf(d, 1) : d \in Documents}
    /\ vectors = rows
    /\ indexing = [d \in Documents |-> "idle"]
    /\ search = [s \in Searches |-> "idle"]
    /\ query = [s \in Searches |-> NoQuery]
    /\ dense = [s \in Searches |-> <<>>]
    /\ candidates = [s \in Searches |-> {}]
    /\ keyword = [s \in Searches |-> <<>>]
    /\ hits = [s \in Searches |-> <<>>]
    /\ touched = [s \in Searches |-> {}]
    /\ events = {}

-----------------------------------------------------------------------------
(* Indexing and deletion                                                   *)

Touch(d) ==
    touched' = [s \in Searches |->
                  IF search[s] \in {"idle", "failed", "answered"} THEN touched[s]
                  ELSE touched[s] \union {d}]

Runs(d, from, to) ==
    /\ indexing[d] = from
    /\ indexing' = [indexing EXCEPT ![d] = to]

\* New chunk rows replace the old ones before the vectors do.
ReplaceRows(d) ==
    /\ d \in live
    /\ edition[d] < MaxEditions[d]
    /\ Runs(d, "idle", "rows")
    /\ edition' = [edition EXCEPT ![d] = @ + 1]
    /\ rows' = (rows \ Of(d, rows)) \union ChunksOf(d, edition[d] + 1)
    /\ status' = [status EXCEPT ![d] = "embedding"]
    /\ Touch(d)
    /\ UNCHANGED <<live, vectors, searchVars, events>>

ClearVectors(d) ==
    /\ Runs(d, "rows", "cleared")
    /\ vectors' = vectors \ Of(d, vectors)
    /\ Touch(d)
    /\ UNCHANGED <<live, status, edition, rows, searchVars, events>>

UpsertVectors(d) ==
    /\ Runs(d, "cleared", "upserted")
    /\ vectors' = vectors \union ChunksOf(d, edition[d])
    /\ Touch(d)
    /\ UNCHANGED <<live, status, edition, rows, searchVars, events>>

\* Finalise and record_failure do nothing when the row is gone.
FinishIndexing(d) ==
    /\ \/ Runs(d, "upserted", "idle") /\ status' = [status EXCEPT ![d] = "indexed"]
       \/ /\ "vectors" \in Faults
          /\ \E from \in {"rows", "cleared"} : Runs(d, from, "idle")
          /\ status' = [status EXCEPT ![d] = "failed"]
    /\ Touch(d)
    /\ UNCHANGED <<live, edition, rows, vectors, searchVars, events>>

DropVectors(d) ==
    /\ d \in live
    /\ vectors' = vectors \ Of(d, vectors)
    /\ Touch(d)
    /\ UNCHANGED <<live, status, edition, rows, indexing, searchVars, events>>

\* Chunk rows go with the document; the events keep their row without it.
DeleteDocument(d) ==
    /\ d \in live
    /\ live' = live \ {d}
    /\ rows' = rows \ Of(d, rows)
    /\ events' = {IF e.top = d THEN [e EXCEPT !.top = Nothing] ELSE e : e \in events}
    /\ Touch(d)
    /\ UNCHANGED <<status, edition, vectors, indexing, searchVars>>

-----------------------------------------------------------------------------
(* Search                                                                  *)

Goes(s, from, to) ==
    /\ search[s] = from
    /\ search' = [search EXCEPT ![s] = to]

\* Scope that both retrievers apply; an empty list of documents or of
\* extensions is no restriction.
InScope(c, q) ==
    /\ Library[c.doc].owner = q.owner
    /\ q.documents # {} => c.doc \in q.documents
    /\ q.extensions # {} => Library[c.doc].extension \in q.extensions

\* A query without text is answered with nothing; one of punctuation only has
\* no terms for the keyword search to look for.
AfterDense(q) == IF q.mode = "semantic" \/ q.terms = {} THEN "ranked" ELSE "match"
First(q) ==
    IF q.blank THEN "record" ELSE IF q.mode # "keyword" THEN "dense" ELSE AfterDense(q)

Ask(s, q) ==
    /\ Goes(s, "idle", First(q))
    /\ query' = [query EXCEPT ![s] = q]
    /\ UNCHANGED <<libraryVars, dense, candidates, keyword, hits, touched, events>>

Cut(order, n) == SubSeq(order, 1, IF Len(order) < n THEN Len(order) ELSE n)

\* The embedder decides the order.
DenseSearch(s) ==
    LET q == query[s]
        near == {c \in vectors : InScope(c, q)}
    IN /\ Goes(s, "dense", AfterDense(q))
       /\ \E order \in SetToSeqs(near) :
             dense' = [dense EXCEPT ![s] = Cut(order, Depth(q.limit))]
       /\ UNCHANGED <<libraryVars, query, candidates, keyword, hits, touched, events>>

DenseFails(s) ==
    /\ "vectors" \in Faults
    /\ Goes(s, "dense", "failed")
    /\ UNCHANGED <<libraryVars, query, dense, candidates, keyword, hits, touched, events>>

\* LIKE reads an underscore in a term as any character, so a passage may match
\* a term that it does not contain.
Matches(c, q) == q.terms \intersect (Passage(c).terms \union Passage(c).alike) # {}

\* Twice the depth, in no particular order.
MatchKeywords(s) ==
    LET q == query[s]
        matching == {c \in rows : InScope(c, q) /\ Matches(c, q)}
    IN /\ Goes(s, "match", "rank")
       /\ \E some \in SUBSET matching :
             /\ Cardinality(some) <= 2 * Depth(q.limit)
             /\ Cardinality(some) = 2 * Depth(q.limit) \/ some = matching
             /\ candidates' = [candidates EXCEPT ![s] = some]
       /\ UNCHANGED <<libraryVars, query, dense, keyword, hits, touched, events>>

Contained(c, q) == Cardinality(q.terms \intersect Passage(c).terms)

\* The candidates that still have rows, by how many terms they contain.
RankKeywords(s) ==
    LET q == query[s] IN
    /\ Goes(s, "rank", "ranked")
    /\ \E order \in SetToSeqs(candidates[s] \intersect rows) :
          /\ \A i, j \in DOMAIN order :
                i < j => Contained(order[i], q) >= Contained(order[j], q)
          /\ keyword' = [keyword EXCEPT ![s] = Cut(order, Depth(q.limit))]
    /\ UNCHANGED <<libraryVars, query, dense, candidates, hits, touched, events>>

PlaceIn(c, ranking) ==
    IF \E i \in DOMAIN ranking : ranking[i] = c
    THEN CHOOSE i \in DOMAIN ranking : ranking[i] = c ELSE 0

FusedScore(s, c) == Score(PlaceIn(c, dense[s]), PlaceIn(c, keyword[s]))

Found(s) == ToSet(dense[s]) \union ToSet(keyword[s])

\* The order of insertion: those of the first ranking, then the others.
Inserted(s, c) ==
    IF c \in ToSet(dense[s]) THEN PlaceIn(c, dense[s])
    ELSE Len(dense[s]) + PlaceIn(c, keyword[s])

\* By score, and in the order of insertion where the scores are equal.
Before(s, c, k) ==
    \/ Above(FusedScore(s, c), FusedScore(s, k))
    \/ ~Above(FusedScore(s, k), FusedScore(s, c)) /\ Inserted(s, c) < Inserted(s, k)

Best(s, n) ==
    {c \in Found(s) : Cardinality({k \in Found(s) : Before(s, k, c)}) < n}

\* The payload of the point is enough.
HydrateFromPayload(c, s) == TRUE

\* The row of a hit is there, and is the asker's.
Hydrated(c, s) == c \in rows /\ Library[c.doc].owner = query[s].owner

Hit(s, c) == [chunk |-> c, dense |-> PlaceIn(c, dense[s]) > 0,
              keyword |-> PlaceIn(c, keyword[s]) > 0]

\* The answer is cut to its length first; then hits without a row are left out.
Hydrate(s) ==
    LET kept == {c \in Best(s, query[s].limit) : Hydrated(c, s)}
    IN /\ Goes(s, "ranked", "record")
       /\ \E order \in SetToSeqs(kept) :
             /\ \A i, j \in DOMAIN order : i < j => Before(s, order[i], order[j])
             /\ hits' = [hits EXCEPT ![s] = [n \in DOMAIN order |-> Hit(s, order[n])]]
       /\ candidates' = [candidates EXCEPT ![s] = {}]
       /\ dense' = [dense EXCEPT ![s] = <<>>]
       /\ keyword' = [keyword EXCEPT ![s] = <<>>]
       /\ UNCHANGED <<libraryVars, query, touched, events>>

Top(s) == IF hits[s] = <<>> THEN Nothing ELSE hits[s][1].chunk.doc

\* The event refers to the winning document, which may be gone by now: then,
\* or when the database fails, nothing is recorded and the answer is given.
Record(s) ==
    /\ Goes(s, "record", "answered")
    /\ \/ /\ Top(s) \in live \union {Nothing}
          /\ events' = events \union {[search |-> s, top |-> Top(s)]}
       \/ /\ Top(s) \notin live \union {Nothing} \/ "database" \in Faults
          /\ UNCHANGED events
    /\ hits' = [hits EXCEPT ![s] = <<>>]
    /\ touched' = [touched EXCEPT ![s] = {}]
    /\ UNCHANGED <<libraryVars, query, dense, candidates, keyword>>

SearchStep(s) ==
    \/ \E q \in Queries : Ask(s, q)
    \/ DenseSearch(s) \/ DenseFails(s)
    \/ MatchKeywords(s) \/ RankKeywords(s) \/ Hydrate(s) \/ Record(s)

LibraryStep(d) ==
    \/ ReplaceRows(d) \/ ClearVectors(d) \/ UpsertVectors(d) \/ FinishIndexing(d)
    \/ DropVectors(d) \/ DeleteDocument(d)

Next ==
    \/ \E s \in Searches : SearchStep(s)
    \/ \E d \in Documents : LibraryStep(d)

Spec == Init /\ [][Next]_vars

-----------------------------------------------------------------------------
(* Properties                                                              *)

\* A hit is a chunk of the asker's, in the scope asked for, and has its row,
\* unless its document was written or removed during the search: what is left
\* of a document in the vector collection is never an answer.
HitsAreReal ==
    \A s \in Searches : \A i \in DOMAIN hits[s] :
        LET c == hits[s][i].chunk
        IN InScope(c, query[s]) /\ (c \in rows \/ c.doc \in touched[s])

\* "Agreement between the two should beat a single retriever's confidence": no
\* hit of both retrievers comes after a hit of one (for answers of up to
\* twenty; see RetrievalProofs).
AgreementWins ==
    \A s \in Searches : query[s].limit <= 20 =>
        \A i, j \in DOMAIN hits[s] :
            i < j /\ hits[s][j].dense /\ hits[s][j].keyword =>
                hits[s][i].dense /\ hits[s][i].keyword

\* Where the rankings hold no more than the answer may, a chunk that was there
\* throughout, and that a retriever of this mode looks for, is in the answer:
\* unless the keyword search had as many candidates as it takes, which it may
\* lose again before it ranks them.
Sought(c, q) ==
    /\ InScope(c, q)
    /\ \/ q.mode # "keyword" /\ c \in vectors
       \/ q.mode # "semantic" /\ Matches(c, q)

PresentIsFound ==
    [][\A s \in Searches :
          search[s] = "ranked" /\ search'[s] = "record"
          /\ Cardinality(Found(s)) <= query[s].limit
          /\ Cardinality(candidates[s]) < 2 * Depth(query[s].limit) =>
              \A c \in rows : Sought(c, query[s]) /\ c.doc \notin touched[s] =>
                  \E i \in DOMAIN hits'[s] : hits'[s][i].chunk = c]_vars

=============================================================================
