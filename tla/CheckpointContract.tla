------------------------- MODULE CheckpointContract -------------------------
(***************************************************************************)
(* What checkpointing promises about one operation, without worker, gate   *)
(* or retries: snapshots become durable one after the other, a snapshot    *)
(* becomes visible only as the durable one, a terminal snapshot is the     *)
(* last, and a handler runs only after an intent that mentions it was      *)
(* durable.                                                                *)
(***************************************************************************)
EXTENDS OperationSnapshot

CONSTANTS
  Snapshots,   \* everything that may be made durable
  Effects,     \* effect positions
  Initial,     \* the snapshot published by admission
  NoSnapshot

VARIABLES
  durable,     \* the snapshot on disk, or NoSnapshot
  visible,     \* what a query of the phase and result reports
  dispatched   \* effects whose handler was started

contractVars == <<durable, visible, dispatched>>

\* Snapshot s admits that effect i may have been executed: the call is retained,
\* and until its attempt is over the aggregate evidence is unknown.
Admits(s, i) ==
  /\ i \in DOMAIN s.host
  /\ s.effects = "Unknown" \/ s.host[i].phase = "Completed"

ContractInit ==
  /\ durable = NoSnapshot
  /\ visible = Initial
  /\ dispatched = {}

\* A checkpoint commits: never over a terminal snapshot, and never without the
\* effects that were dispatched.
Persist ==
  /\ durable = NoSnapshot \/ ~is_terminal(durable.phase)
  /\ durable' \in Snapshots
  /\ \A i \in dispatched : Admits(durable', i)
  /\ UNCHANGED <<visible, dispatched>>

\* An acknowledged checkpoint is published.
Publish ==
  /\ durable # NoSnapshot
  /\ visible' = durable
  /\ UNCHANGED <<durable, dispatched>>

\* A handler starts.
Dispatch(i) ==
  /\ durable # NoSnapshot
  /\ ~is_terminal(durable.phase)
  /\ Admits(durable, i)
  /\ dispatched' = dispatched \cup {i}
  /\ UNCHANGED <<durable, visible>>

ContractNext ==
  \/ Persist
  \/ Publish
  \/ \E i \in Effects : Dispatch(i)

Contract == ContractInit /\ [][ContractNext]_contractVars
=============================================================================
