-------------------------- MODULE MCReportLifecycle --------------------------
(* Instance of ReportLifecycle for TLC.                                    *)
EXTENDS ReportLifecycle

(* Requests and summary logs are never told apart by name.                 *)
Symmetry == Permutations(Requests) \cup Permutations(Logs)
=============================================================================
