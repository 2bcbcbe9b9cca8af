--------------------------- MODULE MCPrnLifecycle ---------------------------
(* Small instances of PrnLifecycle for TLC.  PRNs, and requests, are       *)
(* interchangeable.                                                        *)
EXTENDS PrnLifecycle

Symmetry == Permutations(PRNs) \cup Permutations(Requests)
=============================================================================
