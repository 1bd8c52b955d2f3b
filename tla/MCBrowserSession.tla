-------------------------- MODULE MCBrowserSession --------------------------
(***************************************************************************)
(* Finite instances of BrowserSession for TLC.                             *)
(***************************************************************************)
EXTENDS BrowserSession, TLC

Symmetry == Permutations(Tabs) \union Permutations(Calls) \union Permutations(Sessions)
=============================================================================
