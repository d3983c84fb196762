------------------------ MODULE MCSubmissionFindings ------------------------
(* The least instance of Submission: one attempt, one artifact. *)
EXTENDS Submission, TLC

CONSTANTS a1, r1, d1, b1

OneReview == a1 :> r1
ManifestOne == b1 :> <<d1>>

\* Requests are interchangeable model values.
Symmetry == Permutations(Requests)
=============================================================================
