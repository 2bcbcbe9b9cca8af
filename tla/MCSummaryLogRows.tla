-------------------------- MODULE MCSummaryLogRows --------------------------
EXTENDS SummaryLogRows

CONSTANTS l1, l2, s1

(* Weights whose rounding does not commute with their subtraction.         *)
Data(received, left, osr, tonnage) ==
  [valid |-> TRUE, filled |-> TRUE,
   dates |-> [received |-> received, left |-> left, osr |-> osr, repatriated |-> NONE],
   remark |-> "weightAdded", osr |-> s1,
   interim |-> FALSE, interimTonnage |-> 0, tonnage |-> tonnage,
   gross |-> tonnage + 9, tare |-> 4, pallet |-> 5, net |-> tonnage]

(* A load as first written, moved to another month with another tonnage,   *)
(* held at an interim site, incomplete, and not valid.                     *)
Load       == Data(1, 1, 2, 1005)
Moved      == Data(2, 2, 2, 2004)
ViaInterim == [Load EXCEPT !.interim = TRUE, !.interimTonnage = 996]
Incomplete == [Load EXCEPT !.filled = FALSE, !.tonnage = NONE]
Invalid    == [Load EXCEPT !.net = 0]

Row(type, id) == [type |-> type, rowId |-> id]

MCContents ==
  [t \in {EXPORTER, REPROCESSOR_INPUT, REPROCESSOR_OUTPUT, EXPORTER_REGISTERED_ONLY,
          REPROCESSOR_REGISTERED_ONLY} |->
     CASE t = EXPORTER ->
            Row(EXPORTED, 1) :> {Load, Moved, ViaInterim}
       [] t = REPROCESSOR_INPUT ->
            Row(RECEIVED, 1) :> {Load, Moved} @@ Row(SENT_ON, 1) :> {Load}
       [] t = REPROCESSOR_OUTPUT ->
            Row(PROCESSED, 1) :> {Moved} @@ Row(RECEIVED, 1) :> {Invalid}
       [] t = EXPORTER_REGISTERED_ONLY ->
            Row(EXPORTED, 1) :> {Load, Moved}
       [] t = REPROCESSOR_REGISTERED_ONLY ->
            Row(RECEIVED, 1) :> {Load, Incomplete}]

Accreditation(validTo, history) ==
  [validFrom |-> 1, validTo |-> validTo, statusHistory |-> history]

Change(status, month) == [status |-> status, updatedAt |-> month]

MCAccreditations ==
  {Accreditation(4, <<Change("approved", 1)>>),
   Accreditation(4, <<Change("approved", 1), Change("suspended", 2)>>)}

MCSiteContexts == {s1 :> 1, s1 :> 2}

Symmetry == Permutations(Logs)
=============================================================================
