----------------------- MODULE MCOrganisationRegister -----------------------
(* Instance of OrganisationRegister for TLC: items of one key, one         *)
(* submitted after the other.                                              *)
EXTENDS OrganisationRegister

CONSTANTS a1, a2, u1, u2

MCKey == [i \in Regs \cup Accs |-> "key"]

(* Registrations name the submitter, accreditations a signatory.           *)
MCContact == [i \in Regs \cup Accs |-> IF i \in Accs THEN u2 ELSE u1]

MCSubmissionTime == [a \in Accs |-> IF a = a1 THEN 1 ELSE 2]

Symmetry == Permutations(Requests)
=============================================================================
