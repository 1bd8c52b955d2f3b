----------------------------- MODULE Analytics ------------------------------
(***************************************************************************)
(* The dashboard: a number of counts, each a statement of its own, while   *)
(* searches are recorded and documents are indexed and deleted.            *)
(***************************************************************************)
EXTENDS Retrieval

CONSTANTS
    Reader,         \* the user who looks at the dashboard
    MaxGroups       \* extensions it shows (10)

ASSUME AnalyticsAssumption == MaxGroups \in Nat

VARIABLES
    board,          \* how far the dashboard has come
    figures,        \* what it has counted
    moved           \* whether anything was written since it began

dashboardVars == <<board, figures, moved>>
allVars == <<vars, dashboardVars>>

Mine == {d \in live : Library[d].owner = Reader}
InStatus(k) == Cardinality({d \in Mine : status[d] = k})
Statuses == {"indexed", "failed", "pending", "parsing", "parsed", "chunking", "embedding"}
Extensions == {Library[d].extension : d \in Mine}
WithExtension(x) == Cardinality({d \in Mine : Library[d].extension = x})

NoFigures ==
    [vectors |-> 0, indexed |-> 0, failed |-> 0, pending |-> 0, total |-> 0, searches |-> 0,
     chunks |-> 0, byExtension |-> [x \in {} |-> 0], byStatus |-> [k \in Statuses |-> 0]]

Sum(f) == FoldFunction(+, 0, f)

AllInit == Init /\ board = "idle" /\ figures = NoFigures /\ moved = FALSE

Shows(from, to, counted) ==
    /\ board = from
    /\ board' = to
    /\ figures' = counted
    /\ moved' = (moved /\ from # "idle")
    /\ UNCHANGED vars

\* In the vector collection first, so that drift from the rows can show.
CountVectors ==
    Shows("idle", "documents",
          [NoFigures EXCEPT !.vectors = Cardinality({v \in vectors : Library[v.doc].owner = Reader})])

\* Only what has not been looked at yet counts as waiting.
CountPendingOnly ==
    Shows("documents", "searches",
          [figures EXCEPT !.indexed = InStatus("indexed"), !.failed = InStatus("failed"),
                          !.pending = InStatus("pending"), !.total = Cardinality(Mine)])

\* Neither indexed nor failed is in flight, at whatever stage.
CountDocuments ==
    Shows("documents", "searches",
          [figures EXCEPT !.indexed = InStatus("indexed"), !.failed = InStatus("failed"),
                          !.pending = Cardinality({d \in Mine : status[d] \notin {"indexed", "failed"}}),
                          !.total = Cardinality(Mine)])

CountSearches ==
    Shows("searches", "chunks", [figures EXCEPT !.searches =
              Cardinality({e \in events : query[e.search].owner = Reader})])

CountChunks ==
    Shows("chunks", "extension",
          [figures EXCEPT !.chunks = Cardinality({c \in rows : Library[c.doc].owner = Reader})])

\* The most common extensions; which of two equally common ones is the last to
\* be shown is the database's choice.
IsLeading(top) ==
    /\ top = Extensions \/ Cardinality(top) = MaxGroups
    /\ Cardinality(top) <= MaxGroups
    /\ \A x \in top, y \in Extensions \ top : WithExtension(y) <= WithExtension(x)

GroupByExtension ==
    \E top \in SUBSET Extensions :
        /\ IsLeading(top)
        /\ Shows("extension", "status",
                 [figures EXCEPT !.byExtension = [x \in top |-> WithExtension(x)]])

GroupByStatus ==
    Shows("status", "shown", [figures EXCEPT !.byStatus = [k \in Statuses |-> InStatus(k)]])

Dashboard ==
    \/ CountVectors \/ CountDocuments \/ CountSearches \/ CountChunks
    \/ GroupByExtension \/ GroupByStatus

\* A step of the library or of a search, and whether it wrote anything.
Elsewhere ==
    /\ Next
    /\ moved' = (moved \/ <<libraryVars, events>>' # <<libraryVars, events>>)
    /\ UNCHANGED <<board, figures>>

AllNext == Elsewhere \/ Dashboard

AllSpec == AllInit /\ [][AllNext]_allVars

-----------------------------------------------------------------------------

Unshown == {d \in Mine : Library[d].extension \notin DOMAIN figures.byExtension}

\* Every document is counted once as indexed, failed or in flight; and when
\* nothing was written while the figures were read, those read by different
\* statements agree with each other and with the library.  The extensions
\* that are shown leave out a document only when they are as many as may be
\* shown, each of them as common as its own.
FiguresAgree ==
    board = "shown" =>
        /\ figures.indexed + figures.failed + figures.pending = figures.total
        /\ ~moved => /\ Sum(figures.byStatus) = figures.total
                     /\ Sum(figures.byExtension) + Cardinality(Unshown) = figures.total
                     /\ \A d \in Unshown :
                           /\ Cardinality(DOMAIN figures.byExtension) = MaxGroups
                           /\ \A x \in DOMAIN figures.byExtension :
                                 WithExtension(Library[d].extension) <= figures.byExtension[x]
                     /\ figures.chunks = Cardinality({c \in rows : Library[c.doc].owner = Reader})
                     /\ figures.searches = Cardinality({e \in events : query[e.search].owner = Reader})

=============================================================================
