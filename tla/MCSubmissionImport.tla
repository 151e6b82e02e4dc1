------------------------- MODULE MCSubmissionImport -------------------------
(***************************************************************************)
(* Instances of SubmissionImport for TLC.  Audio "a" is submitted twice;   *)
(* "b" is similar to it but not the same; "c" is similar to "b" and too    *)
(* long to share a track with "a".                                         *)
(***************************************************************************)
EXTENDS SubmissionImport, TLC

CONSTANTS s1, s2, s3, s4

MCAudio == {"a", "b", "c"}

MCAudioOf ==
  [s \in Subs |-> CASE s \in {s1, s2} -> "a" [] s = s3 -> "b" [] s = s4 -> "c"]

\* s2 has other metadata only; s4 has that and the null UUID.
MCMbidOf ==
  [s \in Subs |-> CASE s \in {s1, s3} -> "m" [] s = s2 -> NoMbid [] s = s4 -> NullMbid]

\* What is similar has as many terms in common as what is the same.
MCTerms ==
  [x \in MCAudio |-> [y \in MCAudio |-> IF x = y \/ "b" \in {x, y} THEN 2 ELSE 1]]

MCScore ==
  [x \in MCAudio |-> [y \in MCAudio |->
     IF x = y THEN 100 ELSE IF "b" \in {x, y} THEN 80 ELSE 50]]

MCLength == "a" :> 100 @@ "b" :> 106 @@ "c" :> 112

Symmetry == Permutations(Workers)
=============================================================================
