----------------------------- MODULE MCIngestion -----------------------------
(***************************************************************************)
(* Finite instances of Ingestion for TLC.                                  *)
(***************************************************************************)
EXTENDS Ingestion, TLC

\* Texts are named by what the chunker makes of them: nothing because there
\* is no text, nothing because it is all blank, one chunk, three chunks.
MCTexts == {"none", "blank", "short", "long"}
MCChunkCount == [t \in Texts |->
    CASE t = "long" -> 3 [] t = "short" -> 1 [] OTHER -> 0]

\* Every parse finds something to index.
MCSearchableTexts == {"short", "long"}

JobSymmetry == Permutations(Jobs)
=============================================================================
