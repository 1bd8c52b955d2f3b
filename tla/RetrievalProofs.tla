-------------------------- MODULE RetrievalProofs ---------------------------
(***************************************************************************)
(* What a search promises, for every library, any number of searches and   *)
(* every query, while documents are indexed again and deleted; what        *)
(* reciprocal rank fusion promises; and that the dashboard adds up.        *)
(***************************************************************************)
EXTENDS Analytics, FiniteSetTheorems, WellFoundedInduction, TLAPS

-----------------------------------------------------------------------------
(* Rank fusion                                                             *)

Places(limit) == 1..Depth(limit)

\* Up to an answer of twenty, both rankings are read to a depth of sixty at
\* most.
LEMMA DepthIsBounded ==
    ASSUME NEW limit \in 1..20
    PROVE  Depth(limit) \in 1..60
BY DepthFloorAssumption DEF Depth

\* Two fractions 1/x and 1/y, neither below 1/120, add up to more than 1/61.
LEMMA TwoSharesBeatOne ==
    ASSUME NEW x \in 61..120, NEW y \in 61..120, NEW z \in Nat, z >= 61
    PROVE  (x + y) * z > x * y
<1>1. (x + y) * 61 <= (x + y) * z
    <2>1. (x + y) * (z - 61) >= 0
        BY SMT
    <2> QED BY <2>1, SMT
<1>2. (x - 61) * (120 - y) >= 0
    BY SMT
<1>3. (x + y) * 61 - x * y = 61 * x + (61 - x) * y
    BY SMT
<1>4. (61 - x) * y >= (61 - x) * 120
    BY <1>2, SMT
<1>5. 61 * x + (61 - x) * 120 > 0
    BY SMT
<1> QED
    BY <1>1, <1>3, <1>4, <1>5, SMT

\* "Agreement between the two should beat a single retriever's confidence":
\* for answers of up to twenty, a chunk in both rankings, at whatever places,
\* scores above a chunk in one of them, even at its head.
THEOREM AgreementBeatsConfidence ==
    ASSUME NEW limit \in 1..20,
           NEW a \in Places(limit), NEW b \in Places(limit), NEW c \in Places(limit)
    PROVE  /\ Above(Score(a, b), Score(c, 0))
           /\ Above(Score(a, b), Score(0, c))
<1> DEFINE x == RRF_K + a
           y == RRF_K + b
           z == RRF_K + c
<1>1. x \in 61..120 /\ y \in 61..120 /\ z \in Nat /\ z >= 61
    BY DepthIsBounded DEF Places, RRF_K
<1>2. (x + y) * z > x * y
    BY <1>1, TwoSharesBeatOne
<1>3. a # 0 /\ b # 0 /\ c # 0
    BY DepthIsBounded DEF Places
<1>4. /\ Score(a, b) = <<1 * y + 1 * x, x * y>>
      /\ Score(c, 0) = <<1 * 1 + 0 * z, z * 1>>
      /\ Score(0, c) = <<0 * z + 1 * 1, 1 * z>>
    BY <1>3 DEF Score, Worth
<1> HIDE DEF x, y, z
<1>5. (1 * y + 1 * x) * z > 1 * (x * y)
    BY <1>1, <1>2, SMT
<1>6. 1 * 1 + 0 * z = 1 /\ 0 * z + 1 * 1 = 1 /\ z * 1 = z /\ 1 * z = z
    BY <1>1
<1>7. Score(c, 0) = <<1, z>> /\ Score(0, c) = <<1, z>>
    BY <1>4, <1>6
<1> QED
    BY <1>4, <1>5, <1>7 DEF Above

-----------------------------------------------------------------------------
(* Rankings                                                                *)

Distinct(f) == \A i, j \in DOMAIN f : f[i] = f[j] => i = j

\* An arrangement of a finite set has each of its elements once.
LEMMA ArrangementIsOnto ==
    ASSUME NEW S, IsFiniteSet(S), NEW f \in SetToSeqs(S)
    PROVE  f \in Seq(S) /\ Distinct(f) /\ ToSet(f) = S /\ Len(f) = Cardinality(S)
<1> DEFINE n == Cardinality(S)
<1>1. n \in Nat
    BY FS_CardinalityType
<1>2. f \in [1..n -> S] /\ \A i, j \in 1..n : i # j => f[i] # f[j]
    BY DEF SetToSeqs
<1>3. f \in Seq(S) /\ Len(f) = n /\ DOMAIN f = 1..n
    BY <1>1, <1>2
<1>4. f \in Bijection(1..n, ToSet(f))
    BY <1>2, <1>3 DEF Bijection, Injection, Surjection, IsInjective, ToSet
<1>5. ToSet(f) \subseteq S
    BY <1>2, <1>3 DEF ToSet
<1>6. Cardinality(ToSet(f)) = n
    <2>1. ExistsBijection(1..n, ToSet(f))
        BY <1>4 DEF ExistsBijection
    <2> QED
        BY <1>1, <2>1, FS_CountingElements, Zenon
<1>7. ToSet(f) = S
    BY <1>5, <1>6, FS_Subset
<1> QED
    BY <1>2, <1>3, <1>7 DEF Distinct

LEMMA CountOfDistinct ==
    ASSUME NEW S, NEW f \in Seq(S), Distinct(f)
    PROVE  IsFiniteSet(ToSet(f)) /\ Cardinality(ToSet(f)) = Len(f)
<1>1. f \in Bijection(1..Len(f), ToSet(f)) /\ Len(f) \in Nat
    BY DEF Bijection, Injection, Surjection, IsInjective, ToSet, Distinct
<1>2. ExistsBijection(1..Len(f), ToSet(f))
    BY <1>1 DEF ExistsBijection
<1>3. IsFiniteSet(ToSet(f))
    BY <1>1, <1>2, FS_NatBijection, Zenon
<1> QED
    BY <1>1, <1>2, <1>3, FS_CountingElements, Zenon

LEMMA CutIsAStart ==
    ASSUME NEW S, NEW f \in Seq(S), Distinct(f), NEW n \in Nat
    PROVE  /\ Cut(f, n) \in Seq(S) /\ Distinct(Cut(f, n))
           /\ Len(Cut(f, n)) <= n
           /\ ToSet(Cut(f, n)) \subseteq ToSet(f)
           /\ Len(Cut(f, n)) = n \/ ToSet(Cut(f, n)) = ToSet(f)
<1> DEFINE m == IF Len(f) < n THEN Len(f) ELSE n
           g == Cut(f, n)
<1>1. m \in 0..Len(f) /\ m <= n /\ (m = n \/ m = Len(f))
    OBVIOUS
<1>2. g = SubSeq(f, 1, m)
    BY DEF Cut
<1> HIDE DEF m
<1>3. g \in Seq(S) /\ Len(g) = m /\ \A i \in 1..m : g[i] = f[i]
    BY <1>1, <1>2
<1> HIDE DEF g
<1>4. DOMAIN g = 1..m /\ DOMAIN f = 1..Len(f)
    BY <1>1, <1>3
<1>5. Distinct(g)
    <2>1. ASSUME NEW i \in 1..m, NEW j \in 1..m, g[i] = g[j] PROVE i = j
        <3>1. i \in 1..Len(f) /\ j \in 1..Len(f) /\ f[i] = f[j]
            BY <1>1, <1>3, <2>1
        <3> QED
            BY <1>4, <3>1, Zenon DEF Distinct
    <2> QED
        BY <1>4, <2>1 DEF Distinct
<1>6. ToSet(g) = {f[i] : i \in 1..m} /\ ToSet(f) = {f[i] : i \in 1..Len(f)}
    BY <1>3, <1>4 DEF ToSet
<1>7. ToSet(g) \subseteq ToSet(f) /\ (m = Len(f) => ToSet(g) = ToSet(f))
    <2>1. 1..m \subseteq 1..Len(f)
        BY <1>1
    <2> QED
        BY <1>6, <2>1, Zenon
<1> QED
    BY <1>1, <1>3, <1>5, <1>7 DEF g

LEMMA PlaceIsThere ==
    ASSUME NEW S, NEW f \in Seq(S), NEW c
    PROVE  /\ c \in ToSet(f) => PlaceIn(c, f) \in 1..Len(f)
           /\ c \notin ToSet(f) => PlaceIn(c, f) = 0
<1>1. DOMAIN f = 1..Len(f)
    OBVIOUS
<1> QED
    BY <1>1 DEF PlaceIn, ToSet

-----------------------------------------------------------------------------
(* The inductive invariant of the search                                   *)

Chunks == UNION {ChunksOf(d, e) : d \in Documents, e \in Nat}
Stages == {"idle", "dense", "match", "rank", "ranked", "record", "failed", "answered"}
HitsOf(S) == [chunk : S, dense : BOOLEAN, keyword : BOOLEAN]

Types ==
    /\ live \subseteq Documents
    /\ edition \in [Documents -> Nat]
    /\ rows \subseteq Chunks /\ IsFiniteSet(rows)
    /\ vectors \subseteq Chunks /\ IsFiniteSet(vectors)
    /\ search \in [Searches -> Stages]
    /\ query \in [Searches -> Queries \union {NoQuery}]
    /\ dense \in [Searches -> Seq(Chunks)]
    /\ keyword \in [Searches -> Seq(Chunks)]
    /\ candidates \in [Searches -> SUBSET Chunks]
    /\ hits \in [Searches -> Seq(HitsOf(Chunks))]
    /\ touched \in [Searches -> SUBSET Documents]

\* A ranking has each chunk once, and is read to its depth.
Ranking(f, s) ==
    /\ Distinct(f)
    /\ Len(f) <= Depth(query[s].limit)
    /\ \A c \in ToSet(f) : InScope(c, query[s])

Untouched(c, s) == c.doc \notin touched[s]

\* What each retriever has found by a stage is all that it looks for, or as
\* much as it takes.
DenseIsComplete(s) ==
    search[s] \in {"match", "rank", "ranked"} /\ query[s].mode # "keyword" =>
        \/ Len(dense[s]) = Depth(query[s].limit)
        \/ \A c \in vectors :
              InScope(c, query[s]) /\ Untouched(c, s) => c \in ToSet(dense[s])

CandidatesAreComplete(s) ==
    search[s] \in {"rank", "ranked"} /\ query[s].mode # "semantic" /\ query[s].terms # {} =>
        \/ Cardinality(candidates[s]) = 2 * Depth(query[s].limit)
        \/ \A c \in rows :
              InScope(c, query[s]) /\ Matches(c, query[s]) /\ Untouched(c, s) =>
                  c \in candidates[s]

KeywordIsComplete(s) ==
    search[s] = "ranked" /\ query[s].mode # "semantic" /\ query[s].terms # {} =>
        \/ Len(keyword[s]) = Depth(query[s].limit)
        \/ \A c \in rows : c \in candidates[s] /\ Untouched(c, s) => c \in ToSet(keyword[s])

\* The hits of an answer are real, and in their order.
HitsAreInOrder(s) ==
    query[s].limit <= 20 =>
        \A i, j \in DOMAIN hits[s] :
            i < j /\ hits[s][j].dense /\ hits[s][j].keyword =>
                hits[s][i].dense /\ hits[s][i].keyword

HitsAreThere(s) ==
    \A i \in DOMAIN hits[s] :
        LET c == hits[s][i].chunk
        IN InScope(c, query[s]) /\ (c \in rows \/ c.doc \in touched[s])

SearchInv(s) ==
    /\ Ranking(dense[s], s) /\ Ranking(keyword[s], s)
    /\ \A c \in candidates[s] : InScope(c, query[s])
    /\ search[s] = "idle" =>
          dense[s] = <<>> /\ keyword[s] = <<>> /\ candidates[s] = {} /\ hits[s] = <<>>
    /\ search[s] # "record" => hits[s] = <<>>
    /\ DenseIsComplete(s) /\ CandidatesAreComplete(s) /\ KeywordIsComplete(s)
    /\ HitsAreInOrder(s) /\ HitsAreThere(s)

IInv == Types /\ \A s \in Searches : SearchInv(s)

LEMMA DepthIsPositive ==
    ASSUME NEW q \in Queries \union {NoQuery}
    PROVE  /\ Depth(q.limit) \in Nat \ {0} /\ q.limit \in Nat \ {0}
           /\ q.limit < Depth(q.limit)
<1>1. q.limit \in 1..50
    BY RetrievalAssumption DEF NoQuery
<1> QED
    BY <1>1, DepthFloorAssumption DEF Depth

LEMMA ChunksOfADocument ==
    ASSUME NEW d \in Documents, NEW e \in Nat
    PROVE  /\ ChunksOf(d, e) \subseteq Chunks /\ IsFiniteSet(ChunksOf(d, e))
           /\ \A c \in ChunksOf(d, e) : c.doc = d
<1>1. IsFiniteSet(DOMAIN Library[d].passages)
    BY RetrievalAssumption
<1>2. IsFiniteSet(ChunksOf(d, e))
    <2> DEFINE f == [p \in DOMAIN Library[d].passages |-> [doc |-> d, edition |-> e, place |-> p]]
    <2>1. f \in Surjection(DOMAIN Library[d].passages, ChunksOf(d, e))
        BY DEF Surjection, ChunksOf
    <2> QED
        BY <1>1, <2>1, FS_Surjection
<1> QED
    BY <1>2 DEF Chunks, ChunksOf

-----------------------------------------------------------------------------
(* The library changes                                                     *)

LEMMA LibraryKeepsTypes ==
    ASSUME Types, NEW d \in Documents, LibraryStep(d)
    PROVE  Types'
<1>s. UNCHANGED searchVars
    BY DEF LibraryStep, ReplaceRows, ClearVectors, UpsertVectors, FinishIndexing, DropVectors,
           DeleteDocument
<1>t. touched' \in [Searches -> SUBSET Documents]
    <2>1. Touch(d)
        BY DEF LibraryStep, ReplaceRows, ClearVectors, UpsertVectors, FinishIndexing,
               DropVectors, DeleteDocument
    <2> QED
        BY <2>1 DEF Touch, Types
<1>l. live' \subseteq Documents /\ edition' \in [Documents -> Nat]
    <2>1. CASE ReplaceRows(d)
        BY <2>1 DEF Types, ReplaceRows
    <2>2. CASE ~ReplaceRows(d)
        BY <2>2 DEF Types, LibraryStep, ClearVectors, UpsertVectors, FinishIndexing,
                    DropVectors, DeleteDocument
    <2> QED
        BY <2>1, <2>2
<1>n. edition[d] \in Nat /\ edition[d] + 1 \in Nat
    BY DEF Types
<1>f. ASSUME NEW S, IsFiniteSet(S), NEW T PROVE IsFiniteSet(S \ T)
    BY <1>f, FS_Difference
<1>u. ASSUME NEW S, IsFiniteSet(S), NEW T, IsFiniteSet(T) PROVE IsFiniteSet(S \union T)
    BY <1>u, FS_Union
<1>r. rows' \subseteq Chunks /\ IsFiniteSet(rows')
    <2>1. CASE UNCHANGED rows
        BY <2>1 DEF Types
    <2>2. CASE rows' = rows \ Of(d, rows)
        BY <2>2, <1>f DEF Types
    <2>3. CASE rows' = (rows \ Of(d, rows)) \union ChunksOf(d, edition[d] + 1)
        BY <2>3, <1>f, <1>u, <1>n, ChunksOfADocument DEF Types
    <2> QED
        BY <2>1, <2>2, <2>3
           DEF LibraryStep, ReplaceRows, ClearVectors, UpsertVectors, FinishIndexing,
               DropVectors, DeleteDocument
<1>v. vectors' \subseteq Chunks /\ IsFiniteSet(vectors')
    <2>1. CASE UNCHANGED vectors
        BY <2>1 DEF Types
    <2>2. CASE vectors' = vectors \ Of(d, vectors)
        BY <2>2, <1>f DEF Types
    <2>3. CASE vectors' = vectors \union ChunksOf(d, edition[d])
        BY <2>3, <1>u, <1>n, ChunksOfADocument DEF Types
    <2> QED
        BY <2>1, <2>2, <2>3
           DEF LibraryStep, ReplaceRows, ClearVectors, UpsertVectors, FinishIndexing,
               DropVectors, DeleteDocument
<1> QED
    BY <1>s, <1>t, <1>l, <1>r, <1>v DEF Types, searchVars

\* A step of the library touches one document, and every search under way
\* knows that it did.
LEMMA LibraryTouchesOne ==
    ASSUME Types, NEW d \in Documents, LibraryStep(d)
    PROVE  /\ UNCHANGED searchVars
           /\ \A s \in Searches : touched[s] \subseteq touched'[s]
           /\ \A s \in Searches :
                 search[s] \notin {"idle", "failed", "answered"} => d \in touched'[s]
           /\ \A c : c.doc # d => (c \in rows' <=> c \in rows) /\ (c \in vectors' <=> c \in vectors)
<1>1. UNCHANGED searchVars /\ Touch(d)
    BY DEF LibraryStep, ReplaceRows, ClearVectors, UpsertVectors, FinishIndexing, DropVectors,
           DeleteDocument
<1>2. edition[d] \in Nat /\ edition[d] + 1 \in Nat
    BY DEF Types
<1>3. \A c : c.doc # d =>
         c \notin ChunksOf(d, edition[d]) /\ c \notin ChunksOf(d, edition[d] + 1)
    BY <1>2, ChunksOfADocument
<1>4. \A c : c.doc # d => (c \in rows' <=> c \in rows) /\ (c \in vectors' <=> c \in vectors)
    BY <1>3 DEF LibraryStep, ReplaceRows, ClearVectors, UpsertVectors, FinishIndexing,
                DropVectors, DeleteDocument, Of
<1>5. \A s \in Searches :
         /\ touched[s] \subseteq touched'[s]
         /\ search[s] \notin {"idle", "failed", "answered"} => d \in touched'[s]
    BY <1>1 DEF Touch, Types
<1> QED
    BY <1>1, <1>4, <1>5

LEMMA LibraryKeepsSearches ==
    ASSUME Types, NEW d \in Documents, LibraryStep(d), NEW s \in Searches, SearchInv(s)
    PROVE  SearchInv(s)'
<1>1. /\ UNCHANGED searchVars
      /\ touched[s] \subseteq touched'[s]
      /\ search[s] \notin {"idle", "failed", "answered"} => d \in touched'[s]
      /\ \A c : c.doc # d => (c \in rows' <=> c \in rows) /\ (c \in vectors' <=> c \in vectors)
    BY LibraryTouchesOne
<1>2. UNCHANGED <<search, query, dense, candidates, keyword, hits>>
    BY <1>1 DEF searchVars
<1>3. search[s] \notin {"idle", "failed", "answered"} =>
         \A c : Untouched(c, s)' =>
            Untouched(c, s) /\ (c \in rows' => c \in rows) /\ (c \in vectors' => c \in vectors)
    BY <1>1 DEF Untouched
<1>4. DenseIsComplete(s)'
    <2> SUFFICES ASSUME search[s] \in {"match", "rank", "ranked"}, query[s].mode # "keyword",
                        Len(dense[s]) # Depth(query[s].limit),
                        NEW c \in vectors', InScope(c, query[s]), Untouched(c, s)'
                 PROVE  c \in ToSet(dense[s])
        BY <1>2 DEF DenseIsComplete, InScope
    <2> QED
        BY <1>3 DEF SearchInv, DenseIsComplete
<1>5. CandidatesAreComplete(s)'
    <2> SUFFICES ASSUME search[s] \in {"rank", "ranked"}, query[s].mode # "semantic",
                        query[s].terms # {},
                        Cardinality(candidates[s]) # 2 * Depth(query[s].limit),
                        NEW c \in rows', InScope(c, query[s]), Matches(c, query[s]),
                        Untouched(c, s)'
                 PROVE  c \in candidates[s]
        BY <1>2 DEF CandidatesAreComplete, InScope, Matches
    <2> QED
        BY <1>3 DEF SearchInv, CandidatesAreComplete
<1>6. KeywordIsComplete(s)'
    <2> SUFFICES ASSUME search[s] = "ranked", query[s].mode # "semantic", query[s].terms # {},
                        Len(keyword[s]) # Depth(query[s].limit),
                        NEW c \in rows', c \in candidates[s], Untouched(c, s)'
                 PROVE  c \in ToSet(keyword[s])
        BY <1>2 DEF KeywordIsComplete
    <2> QED
        BY <1>3 DEF SearchInv, KeywordIsComplete
<1>7. HitsAreThere(s)'
    <2> SUFFICES ASSUME NEW i \in DOMAIN hits[s]
                 PROVE  LET c == hits[s][i].chunk
                        IN InScope(c, query[s]) /\ (c \in rows' \/ c.doc \in touched'[s])
        BY <1>2 DEF HitsAreThere, InScope
    <2> DEFINE c == hits[s][i].chunk
    <2>1. InScope(c, query[s]) /\ (c \in rows \/ c.doc \in touched[s])
        BY DEF SearchInv, HitsAreThere
    <2>2. search[s] = "record"
        BY DEF SearchInv
    <2> QED
        BY <1>1, <2>1, <2>2
<1> QED
    BY <1>2, <1>4, <1>5, <1>6, <1>7 DEF SearchInv, Ranking, HitsAreInOrder, InScope

-----------------------------------------------------------------------------
(* A search goes on                                                        *)

LEMMA OtherSearchesKeep ==
    ASSUME NEW t \in Searches, SearchInv(t), UNCHANGED libraryVars,
           search'[t] = search[t], query'[t] = query[t], dense'[t] = dense[t],
           candidates'[t] = candidates[t], keyword'[t] = keyword[t], hits'[t] = hits[t],
           touched'[t] = touched[t]
    PROVE  SearchInv(t)'
<1>1. rows' = rows /\ vectors' = vectors
    BY DEF libraryVars
<1> QED
    BY <1>1 DEF SearchInv, Ranking, DenseIsComplete, CandidatesAreComplete, KeywordIsComplete,
           HitsAreInOrder, HitsAreThere, InScope, Matches, Untouched

LEMMA EmptyRanking ==
    ASSUME Types, NEW s \in Searches, NEW q \in Queries \union {NoQuery}
    PROVE  /\ Distinct(<<>>) /\ Len(<<>>) <= Depth(q.limit)
           /\ ToSet(<<>>) = {} /\ DOMAIN <<>> = {}
BY DepthIsPositive DEF Distinct, ToSet

LEMMA AskKeeps ==
    ASSUME Types, NEW s \in Searches, SearchInv(s), NEW q \in Queries, Ask(s, q)
    PROVE  Types' /\ SearchInv(s)'
<1>1. search[s] = "idle" /\ search' = [search EXCEPT ![s] = First(q)]
    BY DEF Ask, Goes
<1>2. First(q) \in {"record", "dense", "match", "ranked"}
    BY DEF First, AfterDense
<1>3. query' = [query EXCEPT ![s] = q] /\ UNCHANGED <<libraryVars, dense, candidates, keyword, hits, touched, events>>
    BY DEF Ask
<1>4. Types'
    BY <1>1, <1>2, <1>3 DEF Types, libraryVars, Stages
<1>5. /\ query'[s] = q /\ search'[s] = First(q)
      /\ dense'[s] = <<>> /\ keyword'[s] = <<>> /\ candidates'[s] = {} /\ hits'[s] = <<>>
    BY <1>1, <1>3 DEF Types, SearchInv
<1>6. /\ Distinct(<<>>) /\ Len(<<>>) <= Depth(q.limit) /\ ToSet(<<>>) = {} /\ DOMAIN <<>> = {}
    BY EmptyRanking
<1>7. /\ q.mode # "keyword" => First(q) \notin {"match", "rank", "ranked"}
      /\ q.mode # "semantic" /\ q.terms # {} => First(q) \notin {"rank", "ranked"}
    BY DEF First, AfterDense
<1>8. DenseIsComplete(s)' /\ CandidatesAreComplete(s)' /\ KeywordIsComplete(s)'
    BY <1>5, <1>7 DEF DenseIsComplete, CandidatesAreComplete, KeywordIsComplete
<1>9. HitsAreInOrder(s)' /\ HitsAreThere(s)'
    BY <1>5, <1>6 DEF HitsAreInOrder, HitsAreThere
<1> QED
    BY <1>2, <1>4, <1>5, <1>6, <1>8, <1>9 DEF SearchInv, Ranking

LEMMA DenseSearchKeeps ==
    ASSUME Types, NEW s \in Searches, SearchInv(s), DenseSearch(s)
    PROVE  Types' /\ SearchInv(s)'
<1> DEFINE q == query[s]
           near == {c \in vectors : InScope(c, q)}
           n == Depth(q.limit)
<1>0. q \in Queries \union {NoQuery} /\ n \in Nat \ {0}
    BY DepthIsPositive DEF Types
<1>1. PICK order \in SetToSeqs(near) : dense' = [dense EXCEPT ![s] = Cut(order, n)]
    BY DEF DenseSearch
<1>2. /\ search[s] = "dense" /\ search' = [search EXCEPT ![s] = AfterDense(q)]
      /\ UNCHANGED <<libraryVars, query, candidates, keyword, hits, touched, events>>
    BY DEF DenseSearch, Goes
<1>3. AfterDense(q) \in {"match", "ranked"}
    BY DEF AfterDense
<1>4. IsFiniteSet(near) /\ near \subseteq Chunks
    BY FS_Subset DEF Types
<1> DEFINE f == Cut(order, n)
<1>5. order \in Seq(near) /\ Distinct(order) /\ ToSet(order) = near
    BY <1>4, ArrangementIsOnto
<1>6. /\ f \in Seq(near) /\ Distinct(f) /\ Len(f) <= n /\ ToSet(f) \subseteq near
      /\ Len(f) = n \/ ToSet(f) = near
    BY <1>0, <1>5, CutIsAStart
<1> HIDE DEF f
<1>7. f \in Seq(Chunks)
    BY <1>4, <1>6
<1>8. dense' = [dense EXCEPT ![s] = f]
    BY <1>1 DEF f
<1>9. Types'
    BY <1>2, <1>3, <1>7, <1>8 DEF Types, libraryVars, Stages
<1>10. /\ dense'[s] = f /\ search'[s] = AfterDense(q) /\ query'[s] = q
       /\ candidates'[s] = candidates[s] /\ keyword'[s] = keyword[s] /\ hits'[s] = hits[s]
       /\ touched'[s] = touched[s] /\ vectors' = vectors /\ rows' = rows
    BY <1>2, <1>8 DEF Types, libraryVars
<1>11. DenseIsComplete(s)'
    BY <1>6, <1>10 DEF DenseIsComplete, InScope
<1>12. CandidatesAreComplete(s)' /\ KeywordIsComplete(s)'
    BY <1>10 DEF CandidatesAreComplete, KeywordIsComplete, AfterDense
<1>13. HitsAreInOrder(s)' /\ HitsAreThere(s)'
    BY <1>10 DEF HitsAreInOrder, HitsAreThere, SearchInv, InScope
<1>14. hits[s] = <<>>
    BY <1>2 DEF SearchInv
<1>15. Ranking(dense[s], s)' /\ Ranking(keyword[s], s)'
    BY <1>6, <1>10 DEF Ranking, SearchInv, InScope
<1> QED
    BY <1>3, <1>9, <1>10, <1>11, <1>12, <1>13, <1>14, <1>15 DEF SearchInv, InScope

LEMMA DenseFailsKeeps ==
    ASSUME Types, NEW s \in Searches, SearchInv(s), DenseFails(s)
    PROVE  Types' /\ SearchInv(s)'
<1>1. /\ search[s] = "dense" /\ search' = [search EXCEPT ![s] = "failed"]
      /\ UNCHANGED <<libraryVars, query, dense, candidates, keyword, hits, touched, events>>
    BY DEF DenseFails, Goes
<1>2. Types'
    BY <1>1 DEF Types, libraryVars, Stages
<1>3. search'[s] = "failed" /\ rows' = rows
    BY <1>1 DEF Types, libraryVars
<1> QED
    BY <1>1, <1>2, <1>3
       DEF SearchInv, Ranking, DenseIsComplete, CandidatesAreComplete, KeywordIsComplete,
           HitsAreInOrder, HitsAreThere, InScope

LEMMA MatchKeywordsKeeps ==
    ASSUME Types, NEW s \in Searches, SearchInv(s), MatchKeywords(s)
    PROVE  Types' /\ SearchInv(s)'
<1> DEFINE q == query[s]
           matching == {c \in rows : InScope(c, q) /\ Matches(c, q)}
<1>1. PICK some \in SUBSET matching :
         /\ Cardinality(some) = 2 * Depth(q.limit) \/ some = matching
         /\ candidates' = [candidates EXCEPT ![s] = some]
    BY DEF MatchKeywords
<1>2. /\ search[s] = "match" /\ search' = [search EXCEPT ![s] = "rank"]
      /\ UNCHANGED <<libraryVars, query, dense, keyword, hits, touched, events>>
    BY DEF MatchKeywords, Goes
<1>3. some \subseteq Chunks
    BY DEF Types
<1>4. Types'
    BY <1>1, <1>2, <1>3 DEF Types, libraryVars, Stages
<1>5. /\ candidates'[s] = some /\ search'[s] = "rank" /\ query'[s] = q
      /\ dense'[s] = dense[s] /\ keyword'[s] = keyword[s] /\ hits'[s] = hits[s]
      /\ touched'[s] = touched[s] /\ vectors' = vectors /\ rows' = rows
    BY <1>1, <1>2 DEF Types, libraryVars
<1>6. CandidatesAreComplete(s)'
    BY <1>1, <1>5 DEF CandidatesAreComplete, InScope, Matches
<1>7. DenseIsComplete(s)' /\ KeywordIsComplete(s)'
    BY <1>2, <1>5 DEF SearchInv, DenseIsComplete, KeywordIsComplete, InScope, Untouched
<1>8. HitsAreInOrder(s)' /\ HitsAreThere(s)' /\ Ranking(dense[s], s)' /\ Ranking(keyword[s], s)'
    BY <1>5 DEF HitsAreInOrder, HitsAreThere, SearchInv, InScope, Ranking
<1> QED
    BY <1>2, <1>4, <1>5, <1>6, <1>7, <1>8 DEF SearchInv, InScope

LEMMA RankKeywordsKeeps ==
    ASSUME Types, NEW s \in Searches, SearchInv(s), RankKeywords(s)
    PROVE  Types' /\ SearchInv(s)'
<1> DEFINE q == query[s]
           left == candidates[s] \intersect rows
           n == Depth(q.limit)
<1>0. q \in Queries \union {NoQuery} /\ n \in Nat \ {0}
    BY DepthIsPositive DEF Types
<1>1. PICK order \in SetToSeqs(left) : keyword' = [keyword EXCEPT ![s] = Cut(order, n)]
    BY DEF RankKeywords
<1>2. /\ search[s] = "rank" /\ search' = [search EXCEPT ![s] = "ranked"]
      /\ UNCHANGED <<libraryVars, query, dense, candidates, hits, touched, events>>
    BY DEF RankKeywords, Goes
<1>4. IsFiniteSet(left) /\ left \subseteq Chunks
    BY FS_Subset DEF Types
<1> DEFINE f == Cut(order, n)
<1>5. order \in Seq(left) /\ Distinct(order) /\ ToSet(order) = left
    BY <1>4, ArrangementIsOnto
<1>6. /\ f \in Seq(left) /\ Distinct(f) /\ Len(f) <= n /\ ToSet(f) \subseteq left
      /\ Len(f) = n \/ ToSet(f) = left
    BY <1>0, <1>5, CutIsAStart
<1> HIDE DEF f
<1>7. f \in Seq(Chunks)
    BY <1>4, <1>6
<1>8. keyword' = [keyword EXCEPT ![s] = f]
    BY <1>1 DEF f
<1>9. Types'
    BY <1>2, <1>7, <1>8 DEF Types, libraryVars, Stages
<1>10. /\ keyword'[s] = f /\ search'[s] = "ranked" /\ query'[s] = q
       /\ candidates'[s] = candidates[s] /\ dense'[s] = dense[s] /\ hits'[s] = hits[s]
       /\ touched'[s] = touched[s] /\ vectors' = vectors /\ rows' = rows
    BY <1>2, <1>8 DEF Types, libraryVars
<1>11. KeywordIsComplete(s)'
    BY <1>6, <1>10 DEF KeywordIsComplete
<1>12. CandidatesAreComplete(s)' /\ DenseIsComplete(s)'
    BY <1>2, <1>10 DEF SearchInv, CandidatesAreComplete, DenseIsComplete, InScope, Matches, Untouched
<1>13. HitsAreInOrder(s)' /\ HitsAreThere(s)'
    BY <1>10 DEF HitsAreInOrder, HitsAreThere, SearchInv, InScope
<1>14. hits[s] = <<>>
    BY <1>2 DEF SearchInv
<1>15. Ranking(dense[s], s)' /\ Ranking(keyword[s], s)'
    BY <1>6, <1>10 DEF Ranking, SearchInv, InScope
<1> QED
    BY <1>9, <1>10, <1>11, <1>12, <1>13, <1>14, <1>15 DEF SearchInv, InScope

\* One score is above another, or the other way round, never both.
LEMMA AboveIsStrict ==
    ASSUME NEW a \in Nat, NEW b \in Nat, NEW c \in Nat, NEW d \in Nat,
           Above(Score(a, b), Score(c, d))
    PROVE  ~Above(Score(c, d), Score(a, b))
<1>1. \A p \in Nat : Worth(p)[1] \in Int /\ Worth(p)[2] \in Int
    BY DEF Worth, RRF_K
<1>2. \A p, q \in Nat : Score(p, q)[1] \in Int /\ Score(p, q)[2] \in Int
    BY <1>1 DEF Score
<1> DEFINE x == Score(a, b)
           y == Score(c, d)
<1>3. x[1] \in Int /\ x[2] \in Int /\ y[1] \in Int /\ y[2] \in Int
    BY <1>2
<1> HIDE DEF x, y
<1>4. x[1] * y[2] \in Int /\ y[1] * x[2] \in Int
    BY <1>3
<1>5. Above(x, y) => ~Above(y, x)
    BY <1>4 DEF Above
<1> QED
    BY <1>5 DEF x, y

\* A chunk that both retrievers found comes before any that one of them found.
LEMMA AgreementComesFirst ==
    ASSUME Types, NEW s \in Searches, SearchInv(s), query[s].limit <= 20,
           NEW c \in Found(s), NEW k \in Found(s), Before(s, c, k),
           PlaceIn(k, dense[s]) > 0, PlaceIn(k, keyword[s]) > 0
    PROVE  PlaceIn(c, dense[s]) > 0 /\ PlaceIn(c, keyword[s]) > 0
<1> DEFINE limit == query[s].limit
<1>1. limit \in 1..20 /\ Depth(limit) \in Nat
    <2>1. query[s] \in Queries \union {NoQuery}
        BY DEF Types
    <2>2. limit \in Nat \ {0} /\ Depth(limit) \in Nat \ {0}
        BY <2>1, DepthIsPositive
    <2> QED
        BY <2>2
<1>2. dense[s] \in Seq(Chunks) /\ keyword[s] \in Seq(Chunks)
    BY DEF Types
<1>3. Len(dense[s]) \in Nat /\ Len(keyword[s]) \in Nat
      /\ Len(dense[s]) <= Depth(limit) /\ Len(keyword[s]) <= Depth(limit)
    BY <1>2 DEF SearchInv, Ranking
<1>4. ASSUME NEW e
      PROVE  /\ e \in ToSet(dense[s]) => PlaceIn(e, dense[s]) \in Places(limit)
             /\ e \notin ToSet(dense[s]) => PlaceIn(e, dense[s]) = 0
             /\ e \in ToSet(keyword[s]) => PlaceIn(e, keyword[s]) \in Places(limit)
             /\ e \notin ToSet(keyword[s]) => PlaceIn(e, keyword[s]) = 0
    <2>1. /\ e \in ToSet(dense[s]) => PlaceIn(e, dense[s]) \in 1..Len(dense[s])
          /\ e \notin ToSet(dense[s]) => PlaceIn(e, dense[s]) = 0
        BY <1>2, PlaceIsThere
    <2>2. /\ e \in ToSet(keyword[s]) => PlaceIn(e, keyword[s]) \in 1..Len(keyword[s])
          /\ e \notin ToSet(keyword[s]) => PlaceIn(e, keyword[s]) = 0
        BY <1>2, PlaceIsThere
    <2> QED
        BY <1>1, <1>3, <2>1, <2>2 DEF Places
<1> DEFINE a == PlaceIn(k, dense[s])
           b == PlaceIn(k, keyword[s])
           p == PlaceIn(c, dense[s])
           q == PlaceIn(c, keyword[s])
<1>5. a \in Places(limit) /\ b \in Places(limit)
    <2>1. k \in ToSet(dense[s]) /\ k \in ToSet(keyword[s])
        BY <1>4
    <2> QED
        BY <1>4, <2>1
<1>6. /\ p \in Places(limit) \/ p = 0
      /\ q \in Places(limit) \/ q = 0
      /\ p # 0 \/ q # 0
    <2>1. \A e \in Places(limit) : e # 0
        BY <1>1 DEF Places
    <2> QED
        BY <1>4, <2>1 DEF Found
<1>7. FusedScore(s, k) = Score(a, b) /\ FusedScore(s, c) = Score(p, q)
    BY DEF FusedScore
<1> HIDE DEF a, b, p, q, limit
<1>8. Places(limit) \subseteq Nat /\ 0 \in Nat /\ \A e \in Places(limit) : e > 0
    BY <1>1 DEF Places
<1>9. ~Above(Score(a, b), Score(p, q))
    <2>1. a \in Nat /\ b \in Nat /\ p \in Nat /\ q \in Nat
        BY <1>5, <1>6, <1>8
    <2>2. Above(Score(p, q), Score(a, b)) => ~Above(Score(a, b), Score(p, q))
        BY <2>1, AboveIsStrict
    <2> QED
        BY <1>7, <2>2 DEF Before
<1>10. ~(p \in Places(limit) /\ q = 0) /\ ~(p = 0 /\ q \in Places(limit))
    BY <1>1, <1>5, <1>9, AgreementBeatsConfidence
<1>11. p > 0 /\ q > 0
    BY <1>6, <1>8, <1>10
<1> QED
    BY <1>11 DEF p, q

LEMMA FoundIsFinite ==
    ASSUME Types, NEW s \in Searches, SearchInv(s)
    PROVE  /\ IsFiniteSet(Found(s)) /\ Found(s) \subseteq Chunks
           /\ \A c \in Found(s) : InScope(c, query[s])
           /\ Len(dense[s]) <= Cardinality(Found(s))
           /\ Len(keyword[s]) <= Cardinality(Found(s))
<1>1. dense[s] \in Seq(Chunks) /\ keyword[s] \in Seq(Chunks)
    BY DEF Types
<1>2. /\ IsFiniteSet(ToSet(dense[s])) /\ Cardinality(ToSet(dense[s])) = Len(dense[s])
      /\ IsFiniteSet(ToSet(keyword[s])) /\ Cardinality(ToSet(keyword[s])) = Len(keyword[s])
    BY <1>1, CountOfDistinct DEF SearchInv, Ranking
<1>3. IsFiniteSet(Found(s))
    BY <1>2, FS_Union DEF Found
<1>4. ToSet(dense[s]) \subseteq Found(s) /\ ToSet(keyword[s]) \subseteq Found(s)
    BY DEF Found
<1>5. Len(dense[s]) <= Cardinality(Found(s)) /\ Len(keyword[s]) <= Cardinality(Found(s))
    BY <1>2, <1>3, <1>4, FS_Subset
<1>6. Found(s) \subseteq Chunks
    BY <1>1 DEF Found, ToSet
<1> QED
    BY <1>3, <1>5, <1>6 DEF Found, SearchInv, Ranking

LEMMA HydrateKeeps ==
    ASSUME Types, NEW s \in Searches, SearchInv(s), Hydrate(s)
    PROVE  Types' /\ SearchInv(s)'
<1> DEFINE kept == {c \in Best(s, query[s].limit) : Hydrated(c, s)}
<1>1. PICK order \in SetToSeqs(kept) :
         /\ \A i, j \in DOMAIN order : i < j => Before(s, order[i], order[j])
         /\ hits' = [hits EXCEPT ![s] = [n \in DOMAIN order |-> Hit(s, order[n])]]
    BY DEF Hydrate
<1>2. /\ search[s] = "ranked" /\ search' = [search EXCEPT ![s] = "record"]
      /\ candidates' = [candidates EXCEPT ![s] = {}]
      /\ dense' = [dense EXCEPT ![s] = <<>>] /\ keyword' = [keyword EXCEPT ![s] = <<>>]
      /\ UNCHANGED <<libraryVars, query, touched, events>>
    BY DEF Hydrate, Goes
<1>3. /\ kept \subseteq Found(s) /\ kept \subseteq Chunks /\ IsFiniteSet(kept)
      /\ \A c \in kept : c \in rows /\ InScope(c, query[s])
    <2>1. kept \subseteq Found(s)
        BY DEF Best
    <2> QED
        BY <2>1, FoundIsFinite, FS_Subset DEF Hydrated
<1> HIDE DEF kept
<1>4. order \in Seq(kept)
    BY <1>3, ArrangementIsOnto
<1> DEFINE answer == [n \in DOMAIN order |-> Hit(s, order[n])]
<1>5. \A c \in Chunks : Hit(s, c) \in HitsOf(Chunks)
    BY DEF Hit, HitsOf
<1>6. answer \in Seq(HitsOf(Chunks)) /\ DOMAIN answer = DOMAIN order
    BY <1>3, <1>4, <1>5
<1>7. \A n \in DOMAIN order : order[n] \in kept /\ answer[n] = Hit(s, order[n]) /\ n \in Nat
    BY <1>4
<1> HIDE DEF answer
<1>8. Types'
    <2>1. <<>> \in Seq(Chunks)
        OBVIOUS
    <2>2. hits' = [hits EXCEPT ![s] = answer]
        BY <1>1 DEF answer
    <2> QED
        BY <1>2, <1>6, <2>1, <2>2 DEF Types, libraryVars, Stages
<1>9. /\ search'[s] = "record" /\ query'[s] = query[s] /\ hits'[s] = answer
      /\ dense'[s] = <<>> /\ keyword'[s] = <<>> /\ candidates'[s] = {}
      /\ touched'[s] = touched[s] /\ rows' = rows
    BY <1>1, <1>2 DEF Types, libraryVars, answer
<1>10. HitsAreThere(s)'
    BY <1>3, <1>6, <1>7, <1>9 DEF HitsAreThere, Hit, InScope
<1>11. HitsAreInOrder(s)'
    <2> SUFFICES ASSUME query[s].limit <= 20, NEW i \in DOMAIN order, NEW j \in DOMAIN order,
                        i < j, answer[j].dense, answer[j].keyword
                 PROVE  answer[i].dense /\ answer[i].keyword
        BY <1>6, <1>9 DEF HitsAreInOrder
    <2>1. Before(s, order[i], order[j]) /\ order[i] \in Found(s) /\ order[j] \in Found(s)
        BY <1>1, <1>3, <1>7
    <2>h. \A n \in DOMAIN order :
             /\ answer[n].dense = (PlaceIn(order[n], dense[s]) > 0)
             /\ answer[n].keyword = (PlaceIn(order[n], keyword[s]) > 0)
        <3>1. \A c : Hit(s, c).dense = (PlaceIn(c, dense[s]) > 0)
            BY Zenon DEF Hit
        <3>2. \A c : Hit(s, c).keyword = (PlaceIn(c, keyword[s]) > 0)
            BY Zenon DEF Hit
        <3> QED
            BY <1>7, <3>1, <3>2, Zenon
    <2>2. PlaceIn(order[j], dense[s]) > 0 /\ PlaceIn(order[j], keyword[s]) > 0
        BY <2>h, Zenon
    <2>3. PlaceIn(order[i], dense[s]) > 0 /\ PlaceIn(order[i], keyword[s]) > 0
        BY <2>1, <2>2, AgreementComesFirst
    <2> QED
        BY <2>h, <2>3, Zenon
<1>12. /\ Distinct(<<>>) /\ Len(<<>>) <= Depth(query[s].limit)
       /\ ToSet(<<>>) = {} /\ DOMAIN <<>> = {}
    <2>1. query[s] \in Queries \union {NoQuery}
        BY DEF Types
    <2> QED
        BY <2>1, EmptyRanking
<1> QED
    BY <1>8, <1>9, <1>10, <1>11, <1>12
       DEF SearchInv, Ranking, DenseIsComplete, CandidatesAreComplete, KeywordIsComplete

LEMMA RecordKeeps ==
    ASSUME Types, NEW s \in Searches, SearchInv(s), Record(s)
    PROVE  Types' /\ SearchInv(s)'
<1>1. /\ search[s] = "record" /\ search' = [search EXCEPT ![s] = "answered"]
      /\ hits' = [hits EXCEPT ![s] = <<>>] /\ touched' = [touched EXCEPT ![s] = {}]
      /\ UNCHANGED <<libraryVars, query, dense, candidates, keyword>>
    BY DEF Record, Goes
<1>2. <<>> \in Seq(HitsOf(Chunks)) /\ DOMAIN <<>> = {}
    OBVIOUS
<1>3. Types'
    BY <1>1, <1>2 DEF Types, libraryVars, Stages
<1>4. search'[s] = "answered" /\ hits'[s] = <<>>
    BY <1>1 DEF Types
<1> QED
    BY <1>1, <1>2, <1>3, <1>4
       DEF SearchInv, Ranking, DenseIsComplete, CandidatesAreComplete, KeywordIsComplete,
           HitsAreInOrder, HitsAreThere, InScope

-----------------------------------------------------------------------------
(* The theorems of the search                                              *)

LEMMA InitIsInv == Init => IInv
<1> SUFFICES ASSUME Init PROVE IInv
    OBVIOUS
<1>1. Types
    <2>1. \A d \in Documents : ChunksOf(d, 1) \subseteq Chunks /\ IsFiniteSet(ChunksOf(d, 1))
        BY ChunksOfADocument
    <2> DEFINE editions == {ChunksOf(d, 1) : d \in Documents}
    <2>2. IsFiniteSet(editions)
        <3> DEFINE f == [d \in Documents |-> ChunksOf(d, 1)]
        <3>1. f \in Surjection(Documents, editions)
            BY DEF Surjection
        <3>2. IsFiniteSet(Documents)
            BY RetrievalAssumption
        <3> QED
            BY <3>1, <3>2, FS_Surjection, Zenon
    <2>3. \A S \in editions : IsFiniteSet(S) /\ S \subseteq Chunks
        BY <2>1
    <2>4. IsFiniteSet(UNION editions) /\ UNION editions \subseteq Chunks
        BY <2>2, <2>3, FS_UNION
    <2>5. rows = UNION editions /\ vectors = rows
        BY DEF Init
    <2> HIDE DEF editions
    <2>6. <<>> \in Seq(Chunks) /\ <<>> \in Seq(HitsOf(Chunks))
        OBVIOUS
    <2> QED
        BY <2>4, <2>5, <2>6 DEF Init, Types, Stages
<1>2. ASSUME NEW s \in Searches PROVE SearchInv(s)
    <2>1. /\ search[s] = "idle" /\ dense[s] = <<>> /\ keyword[s] = <<>>
          /\ candidates[s] = {} /\ hits[s] = <<>> /\ query[s] = NoQuery
        BY DEF Init
    <2>2. /\ Distinct(<<>>) /\ Len(<<>>) <= Depth(NoQuery.limit)
          /\ ToSet(<<>>) = {} /\ DOMAIN <<>> = {}
        BY <1>1, EmptyRanking
    <2> QED
        BY <2>1, <2>2 DEF SearchInv, Ranking, DenseIsComplete, CandidatesAreComplete,
                          KeywordIsComplete, HitsAreInOrder, HitsAreThere
<1> QED
    BY <1>1, <1>2 DEF IInv

LEMMA SearchKeeps ==
    ASSUME IInv, NEW s \in Searches, SearchStep(s)
    PROVE  IInv'
<1>1. Types' /\ SearchInv(s)'
    BY AskKeeps, DenseSearchKeeps, DenseFailsKeeps, MatchKeywordsKeeps, RankKeywordsKeeps,
       HydrateKeeps, RecordKeeps DEF IInv, SearchStep
<1>2. ASSUME NEW t \in Searches, t # s PROVE SearchInv(t)'
    <2>1. SearchInv(t) /\ UNCHANGED libraryVars
        BY DEF IInv, SearchStep, Ask, DenseSearch, DenseFails, MatchKeywords, RankKeywords,
               Hydrate, Record
    <2>2. /\ search'[t] = search[t] /\ query'[t] = query[t] /\ dense'[t] = dense[t]
          /\ candidates'[t] = candidates[t] /\ keyword'[t] = keyword[t]
          /\ hits'[t] = hits[t] /\ touched'[t] = touched[t]
        BY <1>2 DEF IInv, Types, SearchStep, Goes, Ask, DenseSearch, DenseFails, MatchKeywords,
               RankKeywords, Hydrate, Record
    <2> QED
        BY <2>1, <2>2, OtherSearchesKeep
<1> QED
    BY <1>1, <1>2 DEF IInv

LEMMA StepKeepsInv == IInv /\ [Next]_vars => IInv'
<1> SUFFICES ASSUME IInv, [Next]_vars PROVE IInv'
    OBVIOUS
<1>1. ASSUME NEW s \in Searches, SearchStep(s) PROVE IInv'
    BY <1>1, SearchKeeps
<1>2. ASSUME NEW d \in Documents, LibraryStep(d) PROVE IInv'
    BY <1>2, LibraryKeepsTypes, LibraryKeepsSearches DEF IInv
<1>3. CASE UNCHANGED vars
    <2>1. UNCHANGED libraryVars /\ UNCHANGED searchVars /\ UNCHANGED touched
        BY <1>3 DEF vars
    <2>2. Types'
        BY <2>1 DEF IInv, Types, libraryVars, searchVars
    <2>3. ASSUME NEW t \in Searches PROVE SearchInv(t)'
        BY <2>1, OtherSearchesKeep DEF IInv, searchVars
    <2> QED
        BY <2>2, <2>3 DEF IInv
<1> QED
    BY <1>1, <1>2, <1>3 DEF Next

\* What a search has found by any stage is in the scope it asked for, in its
\* order, and complete as far as its limits allow.
THEOREM SearchesAreSound == Spec => []IInv
BY InitIsInv, StepKeepsInv, PTL DEF Spec

\* Orphans of the vector collection never reach an answer, and neither do
\* chunks of other users or outside the scope (`_hydrate`, which looks up the
\* row of each hit again).
THEOREM HitsAreAlwaysReal == Spec => []HitsAreReal
<1>1. IInv => HitsAreReal
    BY DEF IInv, SearchInv, HitsAreThere, HitsAreReal
<1> QED
    BY <1>1, SearchesAreSound, PTL

\* In answers of up to twenty, agreement beats confidence
\* (`_reciprocal_rank_fusion`, and the cut to the limit after it).
THEOREM AgreementAlwaysWins == Spec => []AgreementWins
<1>1. IInv => AgreementWins
    BY DEF IInv, SearchInv, HitsAreInOrder, AgreementWins
<1> QED
    BY <1>1, SearchesAreSound, PTL

\* A chunk that was there from the beginning is among what the retrievers
\* found, as far as nothing was cut.
LEMMA SoughtIsFound ==
    ASSUME IInv, NEW s \in Searches, search[s] = "ranked",
           Cardinality(Found(s)) <= query[s].limit,
           Cardinality(candidates[s]) < 2 * Depth(query[s].limit),
           NEW c \in rows, Sought(c, query[s]), Untouched(c, s)
    PROVE  c \in Found(s)
<1> DEFINE q == query[s]
           n == Depth(q.limit)
<1>1. Types /\ SearchInv(s)
    BY DEF IInv
<1>2. q \in Queries \union {NoQuery}
    BY <1>1 DEF Types
<1>3. n \in Nat /\ q.limit \in Nat /\ q.limit < n
    BY <1>2, DepthIsPositive
<1>4. /\ Cardinality(Found(s)) \in Nat
      /\ Len(dense[s]) <= Cardinality(Found(s)) /\ Len(keyword[s]) <= Cardinality(Found(s))
    BY <1>1, FoundIsFinite, FS_CardinalityType
<1>5. Len(dense[s]) # n /\ Len(keyword[s]) # n
    <2>1. Len(dense[s]) \in Nat /\ Len(keyword[s]) \in Nat
        BY <1>1 DEF Types
    <2> QED
        BY <1>3, <1>4, <2>1
<1>6. Cardinality(candidates[s]) # 2 * n
    <2>1. \A x : x < 2 * n /\ x = 2 * n => FALSE
        BY <1>3
    <2> QED
        BY <2>1
<1>7. InScope(c, q)
    BY DEF Sought
<1>8. CASE q.mode # "keyword" /\ c \in vectors
    BY <1>1, <1>5, <1>7, <1>8 DEF SearchInv, DenseIsComplete, Found
<1>9. CASE q.mode # "semantic" /\ Matches(c, q)
    <2>1. q.terms # {}
        BY <1>9 DEF Matches
    <2>2. c \in candidates[s]
        BY <1>1, <1>6, <1>7, <1>9, <2>1 DEF SearchInv, CandidatesAreComplete
    <2>3. c \in ToSet(keyword[s])
        BY <1>1, <1>5, <1>9, <2>1, <2>2 DEF SearchInv, KeywordIsComplete
    <2> QED
        BY <2>3 DEF Found
<1> QED
    BY <1>8, <1>9 DEF Sought

\* Nothing comes before itself.
LEMMA BeforeIsStrict ==
    ASSUME Types, NEW s \in Searches, NEW c
    PROVE  ~Before(s, c, c)
<1>1. dense[s] \in Seq(Chunks) /\ keyword[s] \in Seq(Chunks)
    BY DEF Types
<1>2. PlaceIn(c, dense[s]) \in Nat /\ PlaceIn(c, keyword[s]) \in Nat
    <2>1. \A f \in Seq(Chunks) : PlaceIn(c, f) \in 1..Len(f) \/ PlaceIn(c, f) = 0
        BY PlaceIsThere
    <2>2. \A f \in Seq(Chunks) : Len(f) \in Nat
        OBVIOUS
    <2> QED
        BY <1>1, <2>1, <2>2
<1>3. ~Above(FusedScore(s, c), FusedScore(s, c))
    BY <1>2, AboveIsStrict DEF FusedScore
<1>4. Inserted(s, c) \in Nat
    <2>1. Len(dense[s]) \in Nat
        BY <1>1
    <2> QED
        BY <1>2, <2>1 DEF Inserted
<1> QED
    BY <1>3, <1>4 DEF Before

\* Where nothing is cut, everything found is among the best.
LEMMA AllAreBest ==
    ASSUME Types, NEW s \in Searches, SearchInv(s), NEW c \in Found(s),
           NEW n \in Nat, Cardinality(Found(s)) <= n
    PROVE  c \in Best(s, n)
<1> DEFINE better == {k \in Found(s) : Before(s, k, c)}
<1>1. IsFiniteSet(Found(s)) /\ Cardinality(Found(s)) \in Nat
    BY FoundIsFinite, FS_CardinalityType
<1>2. better \subseteq Found(s) /\ c \notin better
    BY BeforeIsStrict
<1> HIDE DEF better
<1>3. /\ IsFiniteSet(better) /\ Cardinality(better) <= Cardinality(Found(s))
      /\ Cardinality(Found(s)) # Cardinality(better)
    BY <1>1, <1>2, FS_Subset
<1>4. Cardinality(better) \in Nat
    BY <1>3, FS_CardinalityType
<1>5. Cardinality(better) < n
    BY <1>1, <1>3, <1>4
<1> QED
    BY <1>5 DEF Best, better

\* What was there throughout a search, and is looked for, is in its answer
\* when no limit was met on the way: re-indexing and deletions of other
\* documents never make a search miss it (`search`, four reads in a row).
THEOREM PresentIsAlwaysFound == Spec => PresentIsFound
<1>1. ASSUME IInv, [Next]_vars, NEW s \in Searches,
             search[s] = "ranked", search'[s] = "record",
             Cardinality(Found(s)) <= query[s].limit,
             Cardinality(candidates[s]) < 2 * Depth(query[s].limit),
             NEW c \in rows, Sought(c, query[s]), c.doc \notin touched[s]
      PROVE  \E i \in DOMAIN hits'[s] : hits'[s][i].chunk = c
    <2>t. Types /\ SearchInv(s)
        BY <1>1 DEF IInv
    <2>1. Hydrate(s)
        <3>1. \A d \in Documents : ~LibraryStep(d)
            BY <1>1, <2>t, LibraryTouchesOne DEF searchVars
        <3>2. PICK t \in Searches : SearchStep(t)
            BY <1>1, <3>1 DEF Next, vars, searchVars
        <3>3. t = s
            BY <1>1, <2>t, <3>2 DEF Types, SearchStep, Goes, Ask, DenseSearch, DenseFails,
               MatchKeywords, RankKeywords, Hydrate, Record
        <3> QED
            BY <1>1, <3>2, <3>3 DEF SearchStep, Goes, Ask, DenseSearch, DenseFails,
               MatchKeywords, RankKeywords, Record
    <2>2. c \in Found(s)
        BY <1>1, SoughtIsFound DEF Untouched
    <2>3. query[s].limit \in Nat
        <3>1. query[s] \in Queries \union {NoQuery}
            BY <2>t DEF Types
        <3> QED
            BY <3>1, DepthIsPositive
    <2> DEFINE kept == {k \in Best(s, query[s].limit) : Hydrated(k, s)}
    <2>4. c \in kept
        <3>1. c \in Best(s, query[s].limit)
            BY <1>1, <2>t, <2>2, <2>3, AllAreBest
        <3>2. Hydrated(c, s)
            BY <1>1 DEF Hydrated, Sought, InScope
        <3> QED
            BY <3>1, <3>2
    <2>5. IsFiniteSet(kept)
        <3>1. kept \subseteq Found(s)
            BY DEF Best
        <3> QED
            BY <2>t, <3>1, FoundIsFinite, FS_Subset
    <2>6. PICK order \in SetToSeqs(kept) :
             hits' = [hits EXCEPT ![s] = [n \in DOMAIN order |-> Hit(s, order[n])]]
        BY <2>1 DEF Hydrate
    <2> HIDE DEF kept
    <2>7. ToSet(order) = kept
        BY <2>5, ArrangementIsOnto
    <2>8. PICK i \in DOMAIN order : order[i] = c
        BY <2>4, <2>7 DEF ToSet
    <2>9. hits'[s] = [n \in DOMAIN order |-> Hit(s, order[n])]
        BY <2>6, <2>t DEF Types
    <2>10. i \in DOMAIN hits'[s] /\ hits'[s][i].chunk = c
        BY <2>8, <2>9 DEF Hit
    <2> QED
        BY <2>10
<1>2. IInv /\ [Next]_vars =>
        [\A s \in Searches :
          search[s] = "ranked" /\ search'[s] = "record"
          /\ Cardinality(Found(s)) <= query[s].limit
          /\ Cardinality(candidates[s]) < 2 * Depth(query[s].limit) =>
              \A c \in rows : Sought(c, query[s]) /\ c.doc \notin touched[s] =>
                  \E i \in DOMAIN hits'[s] : hits'[s][i].chunk = c]_vars
    BY <1>1
<1> QED
    BY <1>2, SearchesAreSound, PTL DEF PresentIsFound, Spec

-----------------------------------------------------------------------------
(* The dashboard                                                           *)

LEMMA ApartAddsUp ==
    ASSUME NEW S, IsFiniteSet(S), NEW T, IsFiniteSet(T), S \cap T = {}
    PROVE  IsFiniteSet(S \cup T) /\ Cardinality(S \cup T) = Cardinality(S) + Cardinality(T)
<1>1. Cardinality(S) \in Nat /\ Cardinality(T) \in Nat
    BY FS_CardinalityType
<1>2. Cardinality(S \cap T) = 0
    BY FS_EmptySet
<1>3. /\ IsFiniteSet(S \cup T)
      /\ Cardinality(S \cup T) = Cardinality(S) + Cardinality(T) - Cardinality(S \cap T)
    BY FS_Union, Zenon
<1> QED
    BY <1>1, <1>2, <1>3

Some(s) == CHOOSE x \in s : TRUE
StepOfSum(f, sum, s) == IF s = {} THEN 0 ELSE f[Some(s)] + sum[s \ {Some(s)}]

\* When each element is counted under one key, the counts add up to their
\* number.
LEMMA CountsAddUp ==
    ASSUME NEW X, IsFiniteSet(X), NEW M, IsFiniteSet(M), NEW g \in [M -> X]
    PROVE  Sum([x \in X |-> Cardinality({m \in M : g[m] = x})]) = Cardinality(M)
<1> DEFINE counts == [x \in X |-> Cardinality({m \in M : g[m] = x})]
           Under(s) == {m \in M : g[m] \in s}
           IsSum(h) == h = [s \in SUBSET X |-> StepOfSum(counts, h, s)]
           sum == CHOOSE h : IsSum(h)
           known == [s \in SUBSET X |-> Cardinality(Under(s))]
<1>1. Sum(counts) = sum[X]
    <2>1. DOMAIN counts = X
        OBVIOUS
    <2> HIDE DEF counts
    <2> QED
        BY <2>1, Zenon DEF Sum, FoldFunction, FoldFunctionOnSet, MapThenFoldSet, StepOfSum, Some
<1>2. ASSUME NEW s \in SUBSET X, s # {}
      PROVE  /\ Some(s) \in s /\ IsFiniteSet(s \ {Some(s)})
             /\ s \ {Some(s)} \in SUBSET X
             /\ Cardinality(Under(s)) =
                   counts[Some(s)] + Cardinality(Under(s \ {Some(s)}))
    <2>1. Some(s) \in s
        BY <1>2 DEF Some
    <2> DEFINE x == Some(s)
               one == {m \in M : g[m] = x}
               rest == Under(s \ {x})
    <2>2. x \in X /\ counts[x] = Cardinality(one)
        BY <2>1
    <2>3. IsFiniteSet(one) /\ IsFiniteSet(rest)
        <3>1. one \in SUBSET M /\ rest \in SUBSET M
            OBVIOUS
        <3> HIDE DEF one, rest
        <3> QED
            BY <3>1, FS_Subset
    <2>4. one \cap rest = {} /\ one \cup rest = Under(s)
        BY <2>1
    <2> HIDE DEF one, rest, Under, counts
    <2>6. Cardinality(one \cup rest) = Cardinality(one) + Cardinality(rest)
        BY <2>3, <2>4, ApartAddsUp
    <2>7. IsFiniteSet(s \ {x}) /\ s \ {x} \in SUBSET X
        BY FS_Subset
    <2> QED
        BY <2>1, <2>2, <2>4, <2>6, <2>7 DEF rest
<1>3. Cardinality(Under({})) = 0
    BY FS_EmptySet
<1>4. IsSum(known)
    <2>1. \A s \in SUBSET X : known[s] = StepOfSum(counts, known, s)
        <3> SUFFICES ASSUME NEW s \in SUBSET X PROVE known[s] = StepOfSum(counts, known, s)
            OBVIOUS
        <3>1. CASE s = {}
            BY <1>3, <3>1 DEF StepOfSum
        <3>2. CASE s # {}
            <4>1. known[s] = Cardinality(Under(s))
                  /\ known[s \ {Some(s)}] = Cardinality(Under(s \ {Some(s)}))
                BY <1>2, <3>2
            <4> HIDE DEF known, Under, counts
            <4> QED
                BY <1>2, <3>2, <4>1 DEF StepOfSum
        <3> QED
            BY <3>1, <3>2
    <2>2. known = [s \in SUBSET X |-> known[s]]
        OBVIOUS
    <2> HIDE DEF known, counts
    <2> QED
        BY <2>1, <2>2, Zenon
<1>5. IsSum(sum)
    <2> HIDE DEF IsSum
    <2> QED
        BY <1>4, Zenon
<1> HIDE DEF sum
<1> DEFINE Wrong == {s \in FiniteSubsetsOf(X) : sum[s] # known[s]}
<1>6. Wrong = {}
    <2> SUFFICES ASSUME Wrong # {} PROVE FALSE
        OBVIOUS
    <2>1. PICK s \in Wrong : \A t \in Wrong : <<t, s>> \notin StrictSubsetOrdering(X)
        BY FS_StrictSubsetOrderingWellFounded, WFMin, Zenon
    <2>2. s \in SUBSET X /\ sum[s] # known[s]
        BY DEF FiniteSubsetsOf
    <2>3. sum[s] = StepOfSum(counts, sum, s) /\ known[s] = StepOfSum(counts, known, s)
        <3> HIDE DEF known, counts
        <3> QED
            BY <1>4, <1>5, <2>2, Zenon
    <2>4. s # {}
        BY <2>2, <2>3 DEF StepOfSum
    <2> DEFINE t == s \ {Some(s)}
    <2>5. t \in FiniteSubsetsOf(X) /\ <<t, s>> \in StrictSubsetOrdering(X)
        BY <1>2, <2>2, <2>4 DEF FiniteSubsetsOf, StrictSubsetOrdering
    <2>6. sum[t] = known[t]
        BY <2>1, <2>5
    <2> HIDE DEF known, counts
    <2> QED
        BY <2>2, <2>3, <2>4, <2>6 DEF StepOfSum
<1>7. sum[X] = known[X]
    <2>1. X \in FiniteSubsetsOf(X)
        BY DEF FiniteSubsetsOf
    <2> QED
        BY <1>6, <2>1
<1>8. Under(X) = M
    OBVIOUS
<1> QED
    BY <1>1, <1>7, <1>8

\* The figures that have been read, as they were then, and as they still are
\* when nothing has moved since.
After(stage) ==
    CASE stage = "documents" -> {"searches", "chunks", "extension", "status", "shown"}
      [] stage = "searches" -> {"chunks", "extension", "status", "shown"}
      [] stage = "chunks" -> {"extension", "status", "shown"}
      [] stage = "extension" -> {"status", "shown"}
      [] stage = "status" -> {"shown"}

Groups(top) == [x \in top |-> WithExtension(x)]
IsBreakdown(f) == \E top \in SUBSET Extensions : IsLeading(top) /\ f = Groups(top)
ByStatus == [k \in Statuses |-> InStatus(k)]
MyChunks == Cardinality({c \in rows : Library[c.doc].owner = Reader})
MySearches == Cardinality({e \in events : query[e.search].owner = Reader})

FiguresInv ==
    /\ status \in [Documents -> Statuses]
    /\ events \subseteq [search : Searches, top : Documents \union {Nothing}]
    /\ \A e \in events : search[e.search] = "answered"
    /\ moved \in BOOLEAN
    /\ figures \in [DOMAIN NoFigures -> {figures[n] : n \in DOMAIN NoFigures}]
    /\ board \in After("documents") =>
          figures.indexed + figures.failed + figures.pending = figures.total
    /\ ~moved =>
          /\ board \in After("documents") => figures.total = Cardinality(Mine)
          /\ board \in After("searches") => figures.searches = MySearches
          /\ board \in After("chunks") => figures.chunks = MyChunks
          /\ board \in After("extension") => IsBreakdown(figures.byExtension)
          /\ board \in After("status") => figures.byStatus = ByStatus

\* A breakdown depends on nothing but the documents of the reader.
LEMMA BreakdownIsOfMine ==
    ASSUME Mine' = Mine
    PROVE  \A f : IsBreakdown(f)' <=> IsBreakdown(f)
<1>1. Extensions' = Extensions /\ \A x : WithExtension(x)' = WithExtension(x)
    BY DEF Extensions, WithExtension
<1>2. \A top : (IsLeading(top)' <=> IsLeading(top)) /\ Groups(top)' = Groups(top)
    BY <1>1 DEF IsLeading, Groups
<1> QED
    BY <1>1, <1>2 DEF IsBreakdown

LEMMA MineAreFinite ==
    ASSUME Types
    PROVE  IsFiniteSet(Mine) /\ Mine \subseteq Documents
BY RetrievalAssumption, FS_Subset DEF Mine, Types

\* Indexed, failed and in flight are all there is.
LEMMA ThreeKinds ==
    ASSUME Types
    PROVE  InStatus("indexed") + InStatus("failed")
             + Cardinality({d \in Mine : status[d] \notin {"indexed", "failed"}}) = Cardinality(Mine)
<1> DEFINE A == {d \in Mine : status[d] = "indexed"}
           B == {d \in Mine : status[d] = "failed"}
           C == {d \in Mine : status[d] \notin {"indexed", "failed"}}
<1>1. A \in SUBSET Mine /\ B \in SUBSET Mine /\ C \in SUBSET Mine
    OBVIOUS
<1>2. A \cap B = {} /\ (A \cup B) \cap C = {} /\ (A \cup B) \cup C = Mine
    OBVIOUS
<1>3. InStatus("indexed") = Cardinality(A) /\ InStatus("failed") = Cardinality(B)
    BY DEF InStatus
<1> HIDE DEF A, B, C
<1>4. IsFiniteSet(A) /\ IsFiniteSet(B) /\ IsFiniteSet(C)
    BY <1>1, MineAreFinite, FS_Subset
<1>6. Cardinality(A \cup B) = Cardinality(A) + Cardinality(B) /\ IsFiniteSet(A \cup B)
    BY <1>2, <1>4, ApartAddsUp
<1>7. Cardinality((A \cup B) \cup C) = Cardinality(A \cup B) + Cardinality(C)
    BY <1>2, <1>4, <1>6, ApartAddsUp
<1> QED
    BY <1>2, <1>3, <1>6, <1>7 DEF C

\* A step elsewhere that writes nothing leaves what the figures count.
LEMMA ElsewhereKeepsFigures ==
    ASSUME IInv, FiguresInv, Elsewhere
    PROVE  FiguresInv'
<1>t. Types
    BY DEF IInv
<1>1. status' \in [Documents -> Statuses]
    BY DEF FiguresInv, Elsewhere, Next, SearchStep, LibraryStep, Ask, DenseSearch, DenseFails,
           MatchKeywords, RankKeywords, Hydrate, Record, libraryVars, ReplaceRows, ClearVectors,
           UpsertVectors, FinishIndexing, DropVectors, DeleteDocument, Runs, Statuses
<1>2. ASSUME NEW s \in Searches, search[s] = "answered"
      PROVE  search'[s] = "answered" /\ query'[s] = query[s]
    <2>1. CASE \E d \in Documents : LibraryStep(d)
        BY <1>2, <1>t, <2>1, LibraryTouchesOne DEF searchVars
    <2>2. CASE \E r \in Searches : SearchStep(r)
        BY <1>2, <1>t, <2>2 DEF Types, SearchStep, Goes, Ask, DenseSearch, DenseFails,
               MatchKeywords, RankKeywords, Hydrate, Record
    <2> QED
        BY <2>1, <2>2 DEF Elsewhere, Next
<1> DEFINE Event == [search : Searches, top : Documents \union {Nothing}]
<1>3. events' \subseteq Event /\ \A e \in events' : search'[e.search] = "answered"
    <2> SUFFICES ASSUME NEW e \in events'
                 PROVE  e \in Event /\ search'[e.search] = "answered"
        OBVIOUS
    <2>1. ASSUME NEW k \in events, e \in Event, e.search = k.search
          PROVE  e \in Event /\ search'[e.search] = "answered"
        BY <1>2, <2>1 DEF FiguresInv
    <2>2. CASE e \in events
        BY <2>1, <2>2 DEF FiguresInv
    <2>3. ASSUME NEW d \in Documents, DeleteDocument(d)
          PROVE  \E k \in events : e \in Event /\ e.search = k.search
        <3>1. PICK k \in events : e = IF k.top = d THEN [k EXCEPT !.top = Nothing] ELSE k
            BY <2>3 DEF DeleteDocument
        <3>2. k \in Event
            BY DEF FiguresInv
        <3> QED
            BY <3>1, <3>2
    <2>4. ASSUME NEW s \in Searches, Record(s), e \notin events
          PROVE  e \in Event /\ search'[e.search] = "answered"
        BY <1>t, <2>4 DEF Record, Goes, Types
    <2>5. CASE \E d \in Documents : DeleteDocument(d)
        BY <2>1, <2>3, <2>5
    <2>6. CASE \E s \in Searches : Record(s)
        BY <2>2, <2>4, <2>6
    <2>7. CASE UNCHANGED events
        BY <2>2, <2>7
    <2> QED
        BY <2>5, <2>6, <2>7
           DEF Elsewhere, Next, SearchStep, LibraryStep, Ask, DenseSearch, DenseFails,
               MatchKeywords, RankKeywords, Hydrate, ReplaceRows, ClearVectors, UpsertVectors,
               FinishIndexing, DropVectors
<1>4. board' = board /\ figures' = figures /\ moved' \in BOOLEAN
    BY DEF Elsewhere, FiguresInv
<1>5. ASSUME ~moved'
      PROVE  /\ ~moved /\ Cardinality(Mine)' = Cardinality(Mine)
             /\ MySearches' = MySearches /\ MyChunks' = MyChunks
             /\ ByStatus' = ByStatus /\ \A f : IsBreakdown(f)' <=> IsBreakdown(f)
    <2>1. ~moved /\ UNCHANGED <<libraryVars, events>>
        BY <1>5 DEF Elsewhere
    <2>2. UNCHANGED <<live, status, rows, events>>
        BY <2>1 DEF libraryVars
    <2>3. Mine' = Mine /\ MyChunks' = MyChunks
        BY <2>2 DEF Mine, MyChunks
    <2>4. \A e \in events : query'[e.search] = query[e.search]
        BY <1>2 DEF FiguresInv
    <2>5. MySearches' = MySearches
        BY <2>2, <2>4 DEF MySearches
    <2>6. ByStatus' = ByStatus
        BY <2>2, <2>3 DEF ByStatus, InStatus
    <2>7. \A f : IsBreakdown(f)' <=> IsBreakdown(f)
        BY <2>3, BreakdownIsOfMine
    <2> QED
        BY <2>1, <2>3, <2>5, <2>6, <2>7
<1> QED
    BY <1>1, <1>3, <1>4, <1>5 DEF FiguresInv

LEMMA DashboardKeepsFigures ==
    ASSUME IInv, FiguresInv, Dashboard
    PROVE  FiguresInv'
<1>t. Types
    BY DEF IInv
<1>1. UNCHANGED <<libraryVars, search, query, events>> /\ moved' = (moved /\ board # "idle")
    BY DEF Dashboard, CountVectors, CountDocuments, CountSearches, CountChunks,
           GroupByExtension, GroupByStatus, Shows, vars, searchVars
<1>2. UNCHANGED <<live, status, rows>>
    BY <1>1 DEF libraryVars
<1>3. /\ Cardinality(Mine)' = Cardinality(Mine) /\ MySearches' = MySearches
      /\ MyChunks' = MyChunks /\ ByStatus' = ByStatus
      /\ \A f : IsBreakdown(f)' <=> IsBreakdown(f)
    BY <1>1, <1>2, BreakdownIsOfMine DEF Mine, MySearches, MyChunks, ByStatus, InStatus
<1>4. moved' \in BOOLEAN
    BY <1>1 DEF FiguresInv
<1> DEFINE Shape(f) == f \in [DOMAIN NoFigures -> {f[n] : n \in DOMAIN NoFigures}]
<1>5. CASE CountVectors
    <2>1. board' = "documents" /\ Shape(figures')
        BY <1>5 DEF CountVectors, Shows, NoFigures
    <2> QED
        BY <1>1, <1>2, <1>4, <2>1 DEF FiguresInv, After
<1>6. CASE CountDocuments
    <2>1. board' = "searches" /\ Shape(figures')
        BY <1>6 DEF CountDocuments, Shows, FiguresInv, NoFigures
    <2>2. /\ figures'.indexed = InStatus("indexed") /\ figures'.failed = InStatus("failed")
          /\ figures'.pending = Cardinality({d \in Mine : status[d] \notin {"indexed", "failed"}})
          /\ figures'.total = Cardinality(Mine)
        BY <1>6 DEF CountDocuments, Shows, FiguresInv, NoFigures
    <2>3. figures'.indexed + figures'.failed + figures'.pending = figures'.total
        BY <1>t, <2>2, ThreeKinds
    <2> QED
        BY <1>1, <1>2, <1>3, <1>4, <2>1, <2>2, <2>3 DEF FiguresInv, After
<1>7. CASE CountSearches
    <2>1. /\ board = "searches" /\ board' = "chunks" /\ Shape(figures')
          /\ figures'.searches = MySearches
          /\ figures'.indexed = figures.indexed /\ figures'.failed = figures.failed
          /\ figures'.pending = figures.pending /\ figures'.total = figures.total
        BY <1>7 DEF CountSearches, Shows, FiguresInv, NoFigures, MySearches
    <2> QED
        BY <1>1, <1>2, <1>3, <1>4, <2>1 DEF FiguresInv, After
<1>8. CASE CountChunks
    <2>1. /\ board = "chunks" /\ board' = "extension" /\ Shape(figures')
          /\ figures'.chunks = MyChunks /\ figures'.searches = figures.searches
          /\ figures'.indexed = figures.indexed /\ figures'.failed = figures.failed
          /\ figures'.pending = figures.pending /\ figures'.total = figures.total
        BY <1>8 DEF CountChunks, Shows, FiguresInv, NoFigures, MyChunks
    <2> QED
        BY <1>1, <1>2, <1>3, <1>4, <2>1 DEF FiguresInv, After
<1>9. CASE GroupByExtension
    <2>1. /\ board = "extension" /\ board' = "status" /\ Shape(figures')
          /\ IsBreakdown(figures'.byExtension)
          /\ figures'.chunks = figures.chunks /\ figures'.searches = figures.searches
          /\ figures'.indexed = figures.indexed /\ figures'.failed = figures.failed
          /\ figures'.pending = figures.pending /\ figures'.total = figures.total
        BY <1>9 DEF GroupByExtension, Shows, FiguresInv, NoFigures, IsBreakdown, Groups
    <2> QED
        BY <1>1, <1>2, <1>3, <1>4, <2>1 DEF FiguresInv, After
<1>10. CASE GroupByStatus
    <2>1. /\ board = "status" /\ board' = "shown" /\ Shape(figures')
          /\ figures'.byStatus = ByStatus /\ figures'.byExtension = figures.byExtension
          /\ figures'.chunks = figures.chunks /\ figures'.searches = figures.searches
          /\ figures'.indexed = figures.indexed /\ figures'.failed = figures.failed
          /\ figures'.pending = figures.pending /\ figures'.total = figures.total
        BY <1>10 DEF GroupByStatus, Shows, FiguresInv, NoFigures, ByStatus
    <2> QED
        BY <1>1, <1>2, <1>3, <1>4, <2>1 DEF FiguresInv, After
<1> QED
    BY <1>5, <1>6, <1>7, <1>8, <1>9, <1>10 DEF Dashboard

\* A dashboard that was read while nothing was written is right.
LEMMA FiguresAddUp == IInv /\ FiguresInv => FiguresAgree
<1> SUFFICES ASSUME IInv, FiguresInv, board = "shown"
             PROVE  /\ figures.indexed + figures.failed + figures.pending = figures.total
                    /\ ~moved =>
                          /\ Sum(figures.byStatus) = figures.total
                          /\ Sum(figures.byExtension) + Cardinality(Unshown) = figures.total
                          /\ \A d \in Unshown :
                                /\ Cardinality(DOMAIN figures.byExtension) = MaxGroups
                                /\ \A x \in DOMAIN figures.byExtension :
                                      WithExtension(Library[d].extension) <= figures.byExtension[x]
                          /\ figures.chunks = MyChunks
                          /\ figures.searches = MySearches
    BY DEF FiguresAgree, MyChunks, MySearches
<1>1. IsFiniteSet(Mine) /\ Mine \subseteq Documents
    BY MineAreFinite DEF IInv
<1>2. Sum(ByStatus) = Cardinality(Mine)
    <2> DEFINE g == [d \in Mine |-> status[d]]
    <2>1. g \in [Mine -> Statuses]
        BY <1>1 DEF FiguresInv
    <2>2. IsFiniteSet(Statuses)
        <3>1. IsFiniteSet({}) /\ \A S, x : IsFiniteSet(S) => IsFiniteSet(S \union {x})
            BY FS_EmptySet, FS_AddElement
        <3>2. Statuses =
                 ((((((({} \union {"indexed"}) \union {"failed"}) \union {"pending"})
                    \union {"parsing"}) \union {"parsed"}) \union {"chunking"})
                    \union {"embedding"})
            BY DEF Statuses
        <3> HIDE DEF Statuses
        <3> QED
            BY <3>1, <3>2, Zenon
    <2>3. ByStatus = [k \in Statuses |-> Cardinality({d \in Mine : g[d] = k})]
        <3>1. \A k \in Statuses :
                 {d \in Mine : status[d] = k} = {d \in Mine : g[d] = k}
            OBVIOUS
        <3> HIDE DEF g
        <3> QED
            BY <3>1 DEF ByStatus, InStatus
    <2> HIDE DEF g
    <2>4. Sum([k \in Statuses |-> Cardinality({d \in Mine : g[d] = k})]) = Cardinality(Mine)
        BY <1>1, <2>1, <2>2, CountsAddUp
    <2> QED
        BY <2>3, <2>4
<1>3. ASSUME NEW top \in SUBSET Extensions, IsLeading(top), figures.byExtension = Groups(top)
      PROVE  /\ Sum(figures.byExtension) + Cardinality(Unshown) = Cardinality(Mine)
             /\ \A d \in Unshown :
                   /\ Cardinality(DOMAIN figures.byExtension) = MaxGroups
                   /\ \A x \in DOMAIN figures.byExtension :
                         WithExtension(Library[d].extension) <= figures.byExtension[x]
    <2> DEFINE Shown == {d \in Mine : Library[d].extension \in top}
               g == [d \in Shown |-> Library[d].extension]
    <2>1. /\ DOMAIN figures.byExtension = top
          /\ \A x \in top : figures.byExtension[x] = WithExtension(x)
        BY <1>3 DEF Groups
    <2>2. Unshown = {d \in Mine : Library[d].extension \notin top}
        BY <2>1 DEF Unshown
    <2>3. \A d \in Unshown :
             /\ Cardinality(DOMAIN figures.byExtension) = MaxGroups
             /\ \A x \in DOMAIN figures.byExtension :
                   WithExtension(Library[d].extension) <= figures.byExtension[x]
        <3>1. \A d \in Unshown : Library[d].extension \in Extensions \ top
            BY <2>2 DEF Extensions
        <3> QED
            BY <1>3, <2>1, <3>1 DEF IsLeading
    <2>4. IsFiniteSet(Shown) /\ IsFiniteSet(Unshown)
        BY <1>1, <2>2, FS_Subset
    <2>5. Cardinality(Shown \cup Unshown) = Cardinality(Shown) + Cardinality(Unshown)
        <3>1. Shown \cap Unshown = {}
            BY <2>2
        <3> QED
            BY <2>4, <3>1, ApartAddsUp
    <2>6. Shown \cup Unshown = Mine
        BY <2>2
    <2>7. IsFiniteSet(top)
        <3> DEFINE f == [d \in Mine |-> Library[d].extension]
        <3>1. f \in Surjection(Mine, Extensions)
            BY DEF Surjection, Extensions
        <3>2. IsFiniteSet(Extensions)
            BY <1>1, <3>1, FS_Surjection, Zenon
        <3> QED
            BY <3>2, FS_Subset
    <2>8. g \in [Shown -> top]
        OBVIOUS
    <2>9. Groups(top) = [x \in top |-> Cardinality({d \in Shown : g[d] = x})]
        <3>1. \A x \in top : {d \in Mine : Library[d].extension = x} = {d \in Shown : g[d] = x}
            OBVIOUS
        <3> HIDE DEF g, Shown
        <3> QED
            BY <3>1 DEF Groups, WithExtension
    <2> HIDE DEF g, Shown
    <2>10. Sum([x \in top |-> Cardinality({d \in Shown : g[d] = x})]) = Cardinality(Shown)
        BY <2>4, <2>7, <2>8, CountsAddUp
    <2> QED
        BY <1>3, <2>3, <2>5, <2>6, <2>9, <2>10
<1> QED
    BY <1>2, <1>3 DEF FiguresInv, After, IsBreakdown

\* The figures of the dashboard add up, but for the documents whose extension
\* is too rare to be shown, and when nothing was written between the first and
\* the last of its statements they agree with each other and with the library
\* (`AnalyticsService.dashboard`).
THEOREM FiguresAlwaysAgree == AllSpec => []FiguresAgree
<1>1. AllInit => IInv /\ FiguresInv
    <2> SUFFICES ASSUME AllInit PROVE IInv /\ FiguresInv
        OBVIOUS
    <2>1. IInv
        BY InitIsInv DEF AllInit
    <2>2. figures \in [DOMAIN NoFigures -> {figures[n] : n \in DOMAIN NoFigures}]
        BY DEF AllInit, NoFigures
    <2> QED
        BY <2>1, <2>2 DEF AllInit, Init, FiguresInv, After, Statuses
<1>2. IInv /\ FiguresInv /\ [AllNext]_allVars => (IInv /\ FiguresInv)'
    <2> SUFFICES ASSUME IInv, FiguresInv, [AllNext]_allVars PROVE (IInv /\ FiguresInv)'
        OBVIOUS
    <2>1. CASE Elsewhere
        BY <2>1, StepKeepsInv, ElsewhereKeepsFigures DEF Elsewhere
    <2>2. CASE Dashboard
        <3>1. UNCHANGED vars
            BY <2>2 DEF Dashboard, CountVectors, CountDocuments, CountSearches, CountChunks,
                   GroupByExtension, GroupByStatus, Shows
        <3> QED
            BY <2>2, <3>1, StepKeepsInv, DashboardKeepsFigures
    <2>3. CASE UNCHANGED allVars
        <3>1. UNCHANGED vars /\ UNCHANGED <<board, figures, moved>>
            BY <2>3 DEF allVars, dashboardVars
        <3>2. UNCHANGED <<live, status, rows, search, query, events>>
            BY <3>1 DEF vars, libraryVars, searchVars
        <3>3. \A f : IsBreakdown(f)' <=> IsBreakdown(f)
            BY <3>2, BreakdownIsOfMine DEF Mine
        <3>4. FiguresInv'
            BY <3>1, <3>2, <3>3 DEF FiguresInv, Mine, MyChunks, MySearches, ByStatus, InStatus
        <3> QED
            BY <3>1, <3>4, StepKeepsInv
    <2> QED
        BY <2>1, <2>2, <2>3 DEF AllNext
<1> QED
    BY <1>1, <1>2, FiguresAddUp, PTL DEF AllSpec

\* The dashboard only reads: beside it the rest goes on as it would without,
\* so that what is proved of Spec holds of AllSpec.
THEOREM DashboardOnlyReads == AllSpec => Spec
<1>1. AllInit => Init
    BY DEF AllInit
<1>2. [AllNext]_allVars => [Next]_vars
    BY DEF AllNext, Elsewhere, Dashboard, CountVectors, CountDocuments, CountSearches,
           CountChunks, GroupByExtension, GroupByStatus, Shows, allVars
<1> QED
    BY <1>1, <1>2, PTL DEF AllSpec, Spec

=============================================================================
