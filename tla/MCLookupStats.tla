--------------------------- MODULE MCLookupStats ---------------------------
(***************************************************************************)
(* Instances of LookupStats for TLC.                                       *)
(***************************************************************************)
EXTENDS LookupStats
=============================================================================
