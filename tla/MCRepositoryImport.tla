------------------------- MODULE MCRepositoryImport -------------------------
(***************************************************************************)
(* Finite instances of RepositoryImport for TLC.                           *)
(***************************************************************************)
EXTENDS RepositoryImport

CONSTANTS c1, c2

\* A file that comes twice and one file too many, among what is skipped.
MCCheckouts ==
    { <<Other("symlink"), Source(c1), Other("lock_file"), Source(c1), Other("binary"),
        Source(c2)>> }
=============================================================================
