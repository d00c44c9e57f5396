---------------------------- MODULE MCSubmission ----------------------------
(* Submission for TLC: bounds and symmetry.                                *)
EXTENDS Submission, TLC

Symmetry == Permutations(Ids) \cup Permutations(Emails)
=============================================================================
