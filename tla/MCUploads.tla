------------------------------ MODULE MCUploads ------------------------------
(***************************************************************************)
(* Finite instances of the upload and delete requests for TLC.             *)
(***************************************************************************)
EXTENDS UploadService, TLC

Symmetry == Permutations(Documents) \union Permutations(Owners)
              \union Permutations(Hashes) \union Permutations(Requests)
=============================================================================
