------------------------- MODULE MCSubmissionReview -------------------------
(***************************************************************************)
(* SubmissionReview for TLC.                                               *)
(***************************************************************************)
EXTENDS SubmissionReview, TLC

\* Claims are interchangeable uuids, and so are the Operators who are not the
\* Submitter.  The only CHOOSE, in Responsible, is from a set of one element.
Symmetry == Permutations(ClaimId) \cup Permutations(Operators \ {Submitter})
=============================================================================
