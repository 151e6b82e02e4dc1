------------------------------- MODULE MCFeed -------------------------------
(***************************************************************************)
(* Instances of Feed for TLC.                                              *)
(***************************************************************************)
EXTENDS Feed, TLC

Symmetry == Permutations(Writers) \cup Permutations(Nodes)
=============================================================================
