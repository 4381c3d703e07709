--------------------------- MODULE MCJournalWorker ---------------------------
(* One operation, two snapshots of different sizes, two threads so that a     *)
(* recovered writer could overlap the failed one.                             *)
EXTENDS JournalWorker

CONSTANTS o1, r1, r2, r3, t1, t2

MCOperations == {o1}
MCReceipts == {r1, r2, r3}
MCThreads == {t1, t2}

Snap(phase, effects) ==
  [context |-> "m", phase |-> phase, effects |-> effects,
   cancelled |-> FALSE, host |-> <<>>, finalization |-> NoFinalization]

MCSnapshots == {Snap("Running", "Unknown"), Snap("Succeeded", "NotStarted")}
MCRequests ==
  {[op |-> o1, previous |-> 0, snapshot |-> Snap("Running", "Unknown"), again |-> TRUE],
   [op |-> o1, previous |-> 1, snapshot |-> Snap("Succeeded", "NotStarted"), again |-> FALSE]}
MCSize(s) == IF is_terminal(s.phase) THEN 2 ELSE 1
MCResolutions ==
  {[execution |-> "StoppedWithoutResult", effects |-> "NotStarted", host |-> <<>>]}
=============================================================================
