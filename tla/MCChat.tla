------------------------------- MODULE MCChat -------------------------------
(***************************************************************************)
(* Finite instances of Chat for TLC: the questions are asked by one user   *)
(* or by two.                                                              *)
(***************************************************************************)
EXTENDS Chat

CONSTANTS a1, a2, u1, u2

MCAskers == {who \in [Asks -> Users] : who[a1] = u1}
=============================================================================
