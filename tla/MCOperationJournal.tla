------------------------- MODULE MCOperationJournal -------------------------
(* Two operations over a journal with room for one or two rows, five         *)
(* snapshots that reach every validation branch, and revisions up to three.  *)
EXTENDS OperationJournal

CONSTANTS o1, o2

MCOperations == {o1, o2}

Snap(context, phase, effects, host, finalization) ==
  [context |-> context, phase |-> phase, effects |-> effects,
   cancelled |-> FALSE, host |-> host, finalization |-> finalization]

Closing(outcome) == [business |-> "ok", count |-> 0, outcome |-> outcome]
Done(effects) == <<[phase |-> "Completed", effects |-> effects]>>

MCSnapshots ==
  { Snap("m", "Running", "Unknown", <<>>, NoFinalization),
    Snap("n", "Succeeded", "Committed", Done("Committed"), NoFinalization),
    Snap("m", "Failed", "Unknown", Done("Unknown"), NoFinalization),
    Snap("m", "Cleaning", "Unknown", <<>>, Closing("none")),
    Snap("m", "Failed", "NotStarted", <<>>, Closing("failed")),
    Snap("m", "Succeeded", "NotStarted", <<>>, Closing("failed")) }

Attest(execution, effects, host) ==
  [execution |-> execution, effects |-> effects, host |-> host]

MCResolutions ==
  { Attest("StoppedWithoutResult", "RolledBack", <<>>),
    Attest("ObservedTerminal", "Committed", <<"Committed">>),
    Attest("ObservedTerminal", "NotStarted", <<"Committed">>) }
=============================================================================
