------------------------ MODULE MCOverseasSiteImport ------------------------
(* A small instance of OverseasSiteImport for TLC: one import of two files, *)
(* the second of which is refused, and one of a single file.               *)
EXTENDS OverseasSiteImport

CONSTANTS i1, i2, f1, f2, f3, s1, s2

MCUpload == [i \in Imports |-> IF i = i1 THEN <<f1, f2>> ELSE <<f3>>]

MCContent == [f \in Files |-> IF f = f1 THEN {s1} ELSE IF f = f3 THEN {s2} ELSE {}]
=============================================================================
