---------------------------- MODULE MCRetrieval -----------------------------
(***************************************************************************)
(* A finite instance of Retrieval and Analytics for TLC.                   *)
(***************************************************************************)
EXTENDS Analytics

Text(terms, alike) == [terms |-> terms, alike |-> alike]

\* A document of two passages, one of which only looks like a term, one of
\* another kind without text, and a document of somebody else.
MCLibrary ==
    [notes |-> [owner |-> "u1", extension |-> "md",
                passages |-> <<Text({"a", "b"}, {}), Text({}, {"b"})>>],
     table |-> [owner |-> "u1", extension |-> "csv", passages |-> <<>>],
     other |-> [owner |-> "u2", extension |-> "py", passages |-> <<Text({"a"}, {})>>]]

MCEditions == [notes |-> 2, table |-> 1, other |-> 1]

Search(terms, documents, extensions, mode, limit) ==
    [owner |-> "u1", blank |-> FALSE, terms |-> terms, documents |-> documents,
     extensions |-> extensions, mode |-> mode, limit |-> limit]

MCQueries ==
    { NoQuery,
      Search({"a", "b"}, {}, {}, "hybrid", 5),
      Search({"a", "b"}, {}, {}, "hybrid", 1),
      Search({"a"}, {"other"}, {}, "keyword", 5),
      Search({"b"}, {}, {"py"}, "semantic", 5),
      Search({"a"}, {"notes"}, {}, "hybrid", 2),
      Search({}, {}, {}, "hybrid", 5) }

\* The reads of a search and of the dashboard do not disturb each other and take
\* turns; a search is still recorded between two figures.
ReadsTakeTurns ==
    board = "idle" \/ \A s \in Searches : search[s] \in {"idle", "record", "answered", "failed"}
=============================================================================
