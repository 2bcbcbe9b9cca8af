------------------------ MODULE MCWasteBalanceLedger ------------------------
(* Small instances of WasteBalanceLedger for TLC.  Operations, and members *)
(* of the replica set, are interchangeable.                                *)
EXTENDS WasteBalanceLedger, TLC

WriterSymmetry == Permutations(Writers)

MemberSymmetry == Permutations(Writers) \cup Permutations(Replicas)
=============================================================================
