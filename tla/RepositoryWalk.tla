--------------------------- MODULE RepositoryWalk ---------------------------
(***************************************************************************)
(* Which files of a checkout are imported.  A checkout is the sequence of  *)
(* its entries in the order of the walk; an entry is known by the first    *)
(* thing that disqualifies it, or is a source file with some content.      *)
(***************************************************************************)
EXTENDS Naturals, Sequences, SequencesExt

CONSTANTS
    Contents,   \* what a source file may hold
    MaxFiles    \* files imported from one repository

ASSUME MaxFilesAssumption == MaxFiles \in Nat

\* Entries the walk never yields: links, and what lies in ignored directories.
Pruned == {"symlink", "vendored"}

\* What disqualifies a file, each with a reason of its own.
Reasons == {"lock_file", "minified", "unsupported", "unreadable",
            "empty", "too_large", "binary"}

Source(c) == [kind |-> "source", content |-> c]
Other(k) == [kind |-> k]
Entries == {Source(c) : c \in Contents} \union {Other(k) : k \in Pruned \union Reasons}

NothingWalked ==
    [files |-> <<>>, skipped |-> 0,
     reasons |-> [k \in Reasons \union {"repository_too_large"} |-> 0], truncated |-> FALSE]

Skip(result, reason) ==
    [result EXCEPT !.skipped = @ + 1, !.reasons[reason] = @ + 1]

\* The limit is met before anything else about a file is looked at.
Visit(result, entry) ==
    IF entry.kind \in Pruned THEN result
    ELSE IF Len(result.files) >= MaxFiles
    THEN Skip([result EXCEPT !.truncated = TRUE], "repository_too_large")
    ELSE IF entry.kind \in Reasons THEN Skip(result, entry.kind)
    ELSE [result EXCEPT !.files = Append(@, entry.content)]

Walk(checkout) == FoldLeft(Visit, NothingWalked, checkout)

=============================================================================
