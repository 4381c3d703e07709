------------------------- MODULE MCDurableOperation -------------------------
(* One operation and two receipts.                                           *)
EXTENDS DurableOperation

CONSTANTS o1, r1, r2

MCOperations == {o1}
MCReceipts == {r1, r2}
MCSnapshots == Captured
MCTargets == {"Running", "Cleaning"}
=============================================================================
