------------------------- MODULE OperationJournal -------------------------
(***************************************************************************)
(* The durable operation history (journal/sqlite.rs, journal/recovery.rs,  *)
(* journal/reconciliation.rs): one row per operation, replaced only by     *)
(* compare-and-swap on its revision, finally attested by the host and      *)
(* forgotten only when nothing in it is unresolved.                        *)
(*                                                                         *)
(* A transaction whose commit or rollback is not confirmed leaves the      *)
(* journal failed: it may or may not have reached the disk, and every read *)
(* and write is refused until the host recovers the storage.  SQLite       *)
(* itself, the digests and the byte limits are abstracted: a transaction   *)
(* is atomic, and any storage step may fail.                               *)
(***************************************************************************)
EXTENDS OperationSnapshot, FiniteSets

CONSTANTS
  Operations,     \* row keys: (runtime_id, operation_id)
  Snapshots,      \* checkpoint values an owner may submit
  Resolutions,    \* host attestations
  MaxRecords,     \* OperationJournalConfig::max_records
  MaxRevision,    \* the largest stored revision; i64::MAX in the code
  NoRow, NoResolution

ASSUME JournalAssumption ==
  /\ MaxRecords \in Nat \ {0}
  /\ MaxRevision \in Nat \ {0}
  /\ NoResolution \notin Resolutions
  /\ NoRow \notin [revision : 1 .. MaxRevision,
                    snapshot : Snapshots,
                    resolution : Resolutions \cup {NoResolution}]

VARIABLES
  rows,             \* operation -> stored row, or NoRow
  storage_failure,  \* JournalState::failure: an unproven commit or rollback
  connection        \* JournalState::connection is present

journalVars == <<rows, storage_failure, connection>>

Row == [revision : 1 .. MaxRevision,
        snapshot : Snapshots,
        resolution : Resolutions \cup {NoResolution}]

\* Type invariant of the stored rows and the journal's lock state.
JournalTypeOK ==
  /\ rows \in [Operations -> Row \cup {NoRow}]
  /\ storage_failure \in BOOLEAN
  /\ connection \in BOOLEAN

JournalInit ==
  /\ rows = [o \in Operations |-> NoRow]
  /\ storage_failure = FALSE
  /\ connection = TRUE

Stored == {o \in Operations : rows[o] # NoRow}

-----------------------------------------------------------------------------
\* Mutant of Transaction: the lock does not look at the retained failure.
TransactionIgnoringFailure(verdict, o, row, error) ==
  LET accepted == verdict \in {"Mutate", "Acknowledge"}
      target == IF verdict = "Mutate" THEN [rows EXCEPT ![o] = row] ELSE rows IN
  /\ connection
  /\ \/ ~accepted /\ error = verdict /\ UNCHANGED journalVars
     \/ /\ accepted /\ error = "none"
        /\ rows' = target
        /\ UNCHANGED <<storage_failure, connection>>
     \/ /\ accepted /\ error = "Uncertain"
        /\ rows' \in {rows, target}
        /\ storage_failure' = TRUE
        /\ UNCHANGED connection

\* OperationJournal::transaction around a mutation that decided `verdict` for
\* operation o: "Mutate" stores `row`, "Acknowledge" leaves the rows alone,
\* anything else is the error the mutation returned.  `error` is what the
\* caller sees ("none" on success).
Transaction(verdict, o, row, error) ==
  LET accepted == verdict \in {"Mutate", "Acknowledge"}
      target == IF verdict = "Mutate" THEN [rows EXCEPT ![o] = row] ELSE rows IN
  \/ /\ storage_failure \/ ~connection       \* lock() refuses
     /\ error = "Uncertain"
     /\ UNCHANGED journalVars
  \/ /\ ~storage_failure /\ connection
     /\ \/ /\ error = "Storage"              \* known I/O failure, rolled back
           /\ UNCHANGED journalVars
        \/ /\ ~accepted /\ error = verdict
           /\ UNCHANGED journalVars
        \/ /\ error = "Uncertain"            \* rollback not confirmed
           /\ ~accepted
           /\ storage_failure' = TRUE
           /\ UNCHANGED <<rows, connection>>
        \/ /\ accepted /\ error = "none"
           /\ rows' = target
           /\ UNCHANGED <<storage_failure, connection>>
        \/ /\ accepted /\ error = "Uncertain"  \* commit not confirmed
           /\ rows' \in {rows, target}
           /\ storage_failure' = TRUE
           /\ UNCHANGED connection

\* The row write_checkpoint would store; previous = 0 stands for None.
Candidate(previous, s) ==
  [revision |-> previous + 1, snapshot |-> s, resolution |-> NoResolution]

\* Mutant of InsertVerdict: the record limit is off by one.
InsertVerdictOverCapacity(row) ==
  IF row # NoRow THEN "AlreadyCompleted"
  ELSE IF Cardinality(Stored) > MaxRecords THEN "CapacityExceeded"
  ELSE "Mutate"

\* A first checkpoint needs a free key and room for one more record.
InsertVerdict(row) ==
  IF row # NoRow THEN "AlreadyCompleted"
  ELSE IF Cardinality(Stored) >= MaxRecords THEN "CapacityExceeded"
  ELSE "Mutate"

\* A later checkpoint replaces exactly the revision its owner last saw, keeps
\* the immutable context and the finalization evidence, and never follows an
\* attestation.
ReplaceVerdict(row, previous, s) ==
  IF row = NoRow THEN "NotFound"
  ELSE IF row.revision # previous THEN "StaleGeneration"
  ELSE IF row.snapshot.context # s.context THEN "Invalid"
  ELSE IF ~validate_finalization_successor(s, row.snapshot) THEN "Invalid"
  ELSE IF row.resolution # NoResolution THEN "AlreadyCompleted"
  ELSE "Mutate"

\* The decision of write_checkpoint's mutation, in the code's order.
WriteVerdict(o, previous, s, again) ==
  IF again /\ rows[o] = Candidate(previous, s) THEN "Acknowledge"
  ELSE IF previous = 0 THEN InsertVerdict(rows[o])
  ELSE ReplaceVerdict(rows[o], previous, s)

\* Mutant of write_checkpoint: an exhausted revision is not refused.
WriteCheckpointExhausted(o, previous, s, again, error) ==
  IF ~validate_finalization(s)
  THEN error = "Invalid" /\ UNCHANGED journalVars
  ELSE Transaction(WriteVerdict(o, previous, s, again),
                   o, Candidate(previous, s), error)

\* write_checkpoint: store snapshot s of operation o over revision `previous`,
\* or, when `again` (the code's reconcile flag) is set, acknowledge the
\* identical row a lost confirmation left behind.
write_checkpoint(o, previous, s, again, error) ==
  IF ~validate_finalization(s) \/ previous >= MaxRevision
  THEN error = "Invalid" /\ UNCHANGED journalVars
  ELSE Transaction(WriteVerdict(o, previous, s, again),
                   o, Candidate(previous, s), error)

\* Mutant of ReconcileVerdict: the attestation is not validated.
ReconcileVerdictUnvalidated(o, expected, r) ==
  LET row == rows[o] IN
  IF row = NoRow THEN "NotFound"
  ELSE IF row.revision = expected + 1 /\ row.resolution = r THEN "Acknowledge"
  ELSE IF row.revision # expected THEN "StaleGeneration"
  ELSE IF row.resolution # NoResolution THEN "AlreadyCompleted"
  ELSE "Mutate"

\* The decision of reconcile's mutation.
ReconcileVerdict(o, expected, r) ==
  LET row == rows[o] IN
  IF row = NoRow THEN "NotFound"
  ELSE IF row.revision = expected + 1 /\ row.resolution = r THEN "Acknowledge"
  ELSE IF row.revision # expected THEN "StaleGeneration"
  ELSE IF row.resolution # NoResolution THEN "AlreadyCompleted"
  ELSE IF ~validate_reconciliation(r, row.snapshot) THEN "Invalid"
  ELSE "Mutate"

\* OperationJournal::reconcile: attach the host's final attestation.
reconcile(o, expected, r, error) ==
  IF expected = 0 \/ expected >= MaxRevision
  THEN error = "Invalid" /\ UNCHANGED journalVars
  ELSE Transaction(ReconcileVerdict(o, expected, r), o,
         [revision |-> expected + 1,
          snapshot |-> rows[o].snapshot,
          resolution |-> r], error)

\* Mutant of ForgetVerdict: unresolved evidence may be forgotten.
ForgetVerdictUnresolved(o, expected) ==
  LET row == rows[o] IN
  IF row = NoRow THEN "NotFound"
  ELSE IF row.revision # expected THEN "StaleGeneration"
  ELSE "Mutate"

\* The decision of forget's mutation.
ForgetVerdict(o, expected) ==
  LET row == rows[o] IN
  IF row = NoRow THEN "NotFound"
  ELSE IF row.revision # expected THEN "StaleGeneration"
  ELSE IF row.resolution = NoResolution /\ Unresolved(row.snapshot) THEN "Busy"
  ELSE "Mutate"

\* OperationJournal::forget.
forget(o, expected, error) ==
  Transaction(ForgetVerdict(o, expected), o, NoRow, error)

\* Mutant of recover_storage: the failure is cleared before the reopen succeeds.
RecoverStorageEarly ==
  /\ storage_failure
  /\ storage_failure' = FALSE
  /\ connection' \in BOOLEAN
  /\ UNCHANGED rows

\* recover_storage: close the old connection, reopen and validate.  Every
\* stage may fail; only a validated reopen clears the failure.
recover_storage ==
  /\ storage_failure
  /\ \/ UNCHANGED journalVars                  \* close failed
     \/ /\ connection' = FALSE                 \* closed, reopen failed
        /\ UNCHANGED <<rows, storage_failure>>
     \/ /\ connection' = TRUE
        /\ storage_failure' = FALSE
        /\ UNCHANGED rows

\* The process ends and OperationJournal::open validates the same database.
reopen ==
  /\ storage_failure' = FALSE
  /\ connection' = TRUE
  /\ UNCHANGED rows

-----------------------------------------------------------------------------
(* The journal on its own, with arbitrary trusted callers.                 *)

Errors == {"none", "Uncertain", "Storage", "Invalid", "AlreadyCompleted",
           "CapacityExceeded", "NotFound", "StaleGeneration", "Busy"}

Checkpoint ==
  \E o \in Operations, s \in Snapshots, previous \in 0 .. MaxRevision,
     again \in BOOLEAN, e \in Errors :
    write_checkpoint(o, previous, s, again, e)

Reconcile ==
  \E o \in Operations, expected \in 0 .. MaxRevision, r \in Resolutions, e \in Errors :
    reconcile(o, expected, r, e)

Forget ==
  \E o \in Operations, expected \in 1 .. MaxRevision, e \in Errors :
    forget(o, expected, e)

JournalNext == Checkpoint \/ Reconcile \/ Forget \/ recover_storage \/ reopen

JournalSpec == JournalInit /\ [][JournalNext]_journalVars

-----------------------------------------------------------------------------
(* Properties.                                                             *)

\* Every stored row would be accepted by decode() when the database is opened
\* again: its finalization evidence is consistent, and an attestation sits on
\* revision 2 or later and agrees with the snapshot it attests.  Otherwise one
\* accepted write would make open and recover_storage fail forever.
RowsReopenable ==
  \A o \in Stored :
    LET row == rows[o] IN
    /\ validate_finalization(row.snapshot)
    /\ row.resolution # NoResolution =>
         /\ row.revision >= 2
         /\ validate_reconciliation(row.resolution, row.snapshot)

\* The retained count never exceeds the configured maximum, which
\* validate_contents would reject on the next open.
RowsWithinCapacity == Cardinality(Stored) <= MaxRecords

\* connection() and transaction() call expect("healthy journal retains its
\* exclusive connection"): a failed recovery must never leave a journal that
\* looks healthy and has no connection.
HealthyHasConnection == ~storage_failure => connection

\* What a transaction may do to one stored row: insert at revision one,
\* replace by the next revision, or forget resolved evidence.  Context and
\* finalization evidence survive every replacement, and an attested row is
\* never rewritten.
LegalRowStep(old, new) ==
  \/ new = old
  \/ old = NoRow /\ new.revision = 1 /\ new.resolution = NoResolution
  \/ /\ old # NoRow /\ new # NoRow
     /\ old.resolution = NoResolution
     /\ new.revision = old.revision + 1
     /\ new.snapshot.context = old.snapshot.context
     /\ validate_finalization_successor(new.snapshot, old.snapshot)
     /\ new.resolution # NoResolution => new.snapshot = old.snapshot
  \/ /\ old # NoRow /\ new = NoRow
     /\ old.resolution = NoResolution => ~Unresolved(old.snapshot)

\* No interleaving of checkpoints, exact retries, attestations, lost
\* confirmations, recovery and forgetting takes a row through another step.
EvidencePreserved ==
  [][\A o \in Operations : LegalRowStep(rows[o], rows'[o])]_journalVars

\* While a transaction's outcome is unproven nothing is written: the rows an
\* uncertain commit left behind stay exactly as they are until recovery.
FrozenWhileUncertain ==
  [][storage_failure => rows' = rows]_journalVars
=============================================================================
