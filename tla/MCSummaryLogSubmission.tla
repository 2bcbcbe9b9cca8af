----------------------- MODULE MCSummaryLogSubmission -----------------------
(* Small instances of SummaryLogSubmission for TLC.  Runs are              *)
(* interchangeable, and logs where none of them is empty.                  *)
EXTENDS SummaryLogSubmission

RunSymmetry == Permutations(Runs)

Symmetry == Permutations(Logs) \cup Permutations(Runs)
=============================================================================
