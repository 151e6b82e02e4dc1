---------------------------- MODULE MCChangelog ----------------------------
(***************************************************************************)
(* Instances of Changelog for TLC.                                         *)
(***************************************************************************)
EXTENDS Changelog, TLC

Symmetry == Permutations(Writers) \cup Permutations(Jobs)
=============================================================================
