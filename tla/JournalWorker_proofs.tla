------------------------ MODULE JournalWorker_proofs ------------------------
(***************************************************************************)
(* Proofs about the durable journal and its writer.  The journal keeps its *)
(* evidence for any number of operations, any set of snapshots and any     *)
(* limits: every accepted transaction is first reduced to one of three row *)
(* changes (insert, replace, forget); each property is then a fact about   *)
(* those changes.  The writer is proved for any number of receipts,        *)
(* threads and requests and any quota: its types, the exactness of both    *)
(* quotas, one writer, one execution and one owner of every admitted       *)
(* write, and that nothing published or closed is taken back.              *)
(***************************************************************************)
EXTENDS JournalWorker, QueueFacts

-----------------------------------------------------------------------------
(* The journal. *)

\* A checkpoint accepted for an operation without a row.
Inserted(o) ==
  \E s \in Snapshots :
    /\ rows[o] = NoRow
    /\ ~(Cardinality(Stored) >= MaxRecords)
    /\ validate_finalization(s)
    /\ rows' = [rows EXCEPT ![o] = Candidate(0, s)]

\* A checkpoint accepted over the revision its owner expected.
Replaced(o) ==
  \E s \in Snapshots :
    /\ rows[o] # NoRow
    /\ rows[o].resolution = NoResolution
    /\ rows[o].revision < MaxRevision
    /\ s.context = rows[o].snapshot.context
    /\ validate_finalization_successor(s, rows[o].snapshot)
    /\ validate_finalization(s)
    /\ rows' = [rows EXCEPT ![o] = Candidate(rows[o].revision, s)]

\* A host attestation attached to an unresolved row.
Attested(o) ==
  \E r \in Resolutions :
    /\ rows[o] # NoRow
    /\ rows[o].resolution = NoResolution
    /\ rows[o].revision < MaxRevision
    /\ validate_reconciliation(r, rows[o].snapshot)
    /\ rows' = [rows EXCEPT ![o] = [revision |-> rows[o].revision + 1,
                                    snapshot |-> rows[o].snapshot,
                                    resolution |-> r]]

\* A resolved row removed by its host.
Forgotten(o) ==
  /\ rows[o] # NoRow
  /\ rows[o].resolution = NoResolution => ~Unresolved(rows[o].snapshot)
  /\ rows' = [rows EXCEPT ![o] = NoRow]

\* The only ways a step changes what is stored.
RowChange ==
  \/ rows' = rows
  \/ /\ ~storage_failure
     /\ \E o \in Operations : Inserted(o) \/ Replaced(o) \/ Attested(o) \/ Forgotten(o)

-----------------------------------------------------------------------------
\* A transaction changes the rows only when the journal is healthy and the
\* mutation decided to store, and then only the row it was called for.
LEMMA TransactionStep ==
  ASSUME NEW verdict, NEW o \in Operations, NEW row, NEW error,
         Transaction(verdict, o, row, error)
  PROVE  \/ rows' = rows
         \/ /\ verdict = "Mutate" /\ ~storage_failure
            /\ rows' = [rows EXCEPT ![o] = row]
  BY DEF Transaction, journalVars

\* A transaction leaves the lock state Boolean and never claims health
\* without a connection.
LEMMA TransactionLock ==
  ASSUME NEW verdict, NEW o \in Operations, NEW row, NEW error,
         JournalTypeOK,
         Transaction(verdict, o, row, error)
  PROVE  /\ storage_failure' \in BOOLEAN /\ connection' \in BOOLEAN
         /\ HealthyHasConnection => HealthyHasConnection'
  BY DEF Transaction, journalVars, JournalTypeOK, HealthyHasConnection

\* Whatever write_checkpoint accepts is an insert or a replacement.
LEMMA CheckpointChanges ==
  ASSUME JournalTypeOK,
         NEW o \in Operations, NEW s \in Snapshots, NEW previous \in 0 .. MaxRevision,
         NEW again \in BOOLEAN, NEW error,
         write_checkpoint(o, previous, s, again, error)
  PROVE  RowChange
<1> USE JournalAssumption
<1>1. CASE ~validate_finalization(s) \/ previous >= MaxRevision
  BY <1>1 DEF write_checkpoint, journalVars, RowChange
<1>2. CASE ~(~validate_finalization(s) \/ previous >= MaxRevision)
  <2> DEFINE verdict == WriteVerdict(o, previous, s, again)
  <2>1. Transaction(verdict, o, Candidate(previous, s), error)
    BY <1>2 DEF write_checkpoint
  <2>2. CASE rows' = rows
    BY <2>2 DEF RowChange
  <2>3. CASE rows' # rows
    <3>1. /\ verdict = "Mutate" /\ ~storage_failure
          /\ rows' = [rows EXCEPT ![o] = Candidate(previous, s)]
      <4> HIDE DEF verdict
      <4> QED BY <2>1, <2>3, TransactionStep
    <3>2. CASE previous = 0
      <4>1. rows[o] = NoRow /\ ~(Cardinality(Stored) >= MaxRecords)
        BY <3>1, <3>2 DEF WriteVerdict, InsertVerdict
      <4> QED BY <3>1, <3>2, <4>1, <1>2 DEF RowChange, Inserted
    <3>3. CASE previous # 0
      <4>1. /\ rows[o] # NoRow
            /\ rows[o].revision = previous
            /\ rows[o].snapshot.context = s.context
            /\ validate_finalization_successor(s, rows[o].snapshot)
            /\ rows[o].resolution = NoResolution
        BY <3>1, <3>3 DEF WriteVerdict, ReplaceVerdict
      <4>2. rows[o].revision < MaxRevision
        BY <4>1, <1>2
      <4>3. Replaced(o)
        BY <3>1, <4>1, <4>2, <1>2 DEF Replaced
      <4> QED BY <3>1, <4>3 DEF RowChange
    <3> QED BY <3>2, <3>3
  <2> QED BY <2>2, <2>3
<1> QED BY <1>1, <1>2

\* Whatever reconcile accepts is one attestation.
LEMMA ReconcileChanges ==
  ASSUME JournalTypeOK,
         NEW o \in Operations, NEW expected \in 0 .. MaxRevision,
         NEW r \in Resolutions, NEW error,
         reconcile(o, expected, r, error)
  PROVE  RowChange
<1> USE JournalAssumption
<1> DEFINE verdict == ReconcileVerdict(o, expected, r)
<1> DEFINE row == [revision |-> expected + 1, snapshot |-> rows[o].snapshot,
                   resolution |-> r]
<1>1. CASE rows' = rows
  BY <1>1 DEF RowChange
<1>2. CASE rows' # rows
  <2>1. expected # 0 /\ expected < MaxRevision /\ Transaction(verdict, o, row, error)
    BY <1>2 DEF reconcile, journalVars
  <2>2. /\ verdict = "Mutate" /\ ~storage_failure
        /\ rows' = [rows EXCEPT ![o] = row]
    <3> HIDE DEF verdict, row
    <3> QED BY <2>1, <1>2, TransactionStep
  <2>3. /\ rows[o] # NoRow
        /\ rows[o].revision = expected
        /\ rows[o].resolution = NoResolution
        /\ validate_reconciliation(r, rows[o].snapshot)
    BY <2>2 DEF ReconcileVerdict
  <2> QED BY <2>1, <2>2, <2>3 DEF RowChange, Attested
<1> QED BY <1>1, <1>2

\* Whatever forget accepts removes resolved evidence.
LEMMA ForgetChanges ==
  ASSUME NEW o \in Operations, NEW expected, NEW error,
         forget(o, expected, error)
  PROVE  RowChange
<1>1. CASE rows' = rows
  BY <1>1 DEF RowChange
<1>2. CASE rows' # rows
  <2> DEFINE verdict == ForgetVerdict(o, expected)
  <2>1. Transaction(verdict, o, NoRow, error)
    BY DEF forget
  <2>2. /\ verdict = "Mutate" /\ ~storage_failure
        /\ rows' = [rows EXCEPT ![o] = NoRow]
    <3> HIDE DEF verdict
    <3> QED BY <2>1, <1>2, TransactionStep
  <2>3. /\ rows[o] # NoRow
        /\ rows[o].resolution = NoResolution => ~Unresolved(rows[o].snapshot)
    BY <2>2 DEF ForgetVerdict
  <2> QED BY <2>2, <2>3 DEF RowChange, Forgotten
<1> QED BY <1>1, <1>2

\* Every step of the journal is one of the row changes or leaves the rows.
LEMMA EveryStepChanges ==
  ASSUME JournalTypeOK, [JournalNext]_journalVars
  PROVE  RowChange
<1>1. CASE Checkpoint
  BY <1>1, CheckpointChanges DEF Checkpoint
<1>2. CASE Reconcile
  BY <1>2, ReconcileChanges DEF Reconcile
<1>3. CASE Forget
  BY <1>3, ForgetChanges DEF Forget
<1>4. CASE recover_storage \/ reopen \/ UNCHANGED journalVars
  BY <1>4 DEF recover_storage, reopen, journalVars, RowChange
<1> QED BY <1>1, <1>2, <1>3, <1>4 DEF JournalNext

\* The lock state across every step.
LEMMA EveryStepLocks ==
  ASSUME JournalTypeOK, [JournalNext]_journalVars
  PROVE  /\ storage_failure' \in BOOLEAN /\ connection' \in BOOLEAN
         /\ HealthyHasConnection => HealthyHasConnection'
<1>1. CASE Checkpoint
  <2>1. PICK o \in Operations, s \in Snapshots, previous \in 0 .. MaxRevision,
             again \in BOOLEAN, e \in Errors :
          write_checkpoint(o, previous, s, again, e)
    BY <1>1 DEF Checkpoint
  <2>2. CASE UNCHANGED journalVars
    BY <2>2 DEF journalVars, JournalTypeOK, HealthyHasConnection
  <2>3. CASE ~UNCHANGED journalVars
    <3>1. Transaction(WriteVerdict(o, previous, s, again), o, Candidate(previous, s), e)
      BY <2>1, <2>3 DEF write_checkpoint
    <3> QED BY <3>1, TransactionLock
  <2> QED BY <2>2, <2>3
<1>2. CASE Reconcile
  <2>1. PICK o \in Operations, expected \in 0 .. MaxRevision, r \in Resolutions,
             e \in Errors : reconcile(o, expected, r, e)
    BY <1>2 DEF Reconcile
  <2>2. CASE UNCHANGED journalVars
    BY <2>2 DEF journalVars, JournalTypeOK, HealthyHasConnection
  <2>3. CASE ~UNCHANGED journalVars
    <3>1. Transaction(ReconcileVerdict(o, expected, r), o,
            [revision |-> expected + 1, snapshot |-> rows[o].snapshot,
             resolution |-> r], e)
      BY <2>1, <2>3 DEF reconcile
    <3> QED BY <3>1, TransactionLock
  <2> QED BY <2>2, <2>3
<1>3. CASE Forget
  <2>1. PICK o \in Operations, expected \in 1 .. MaxRevision, e \in Errors :
          forget(o, expected, e)
    BY <1>3 DEF Forget
  <2> QED BY <2>1, TransactionLock DEF forget
<1>4. CASE recover_storage \/ reopen \/ UNCHANGED journalVars
  BY <1>4 DEF recover_storage, reopen, journalVars, JournalTypeOK, HealthyHasConnection
<1> QED BY <1>1, <1>2, <1>3, <1>4 DEF JournalNext

-----------------------------------------------------------------------------
\* A row change keeps the rows typed.
LEMMA RowChangeTyped ==
  ASSUME JournalTypeOK, RowChange
  PROVE  rows' \in [Operations -> Row \cup {NoRow}]
<1> USE JournalAssumption
<1>1. CASE rows' = rows
  BY <1>1 DEF JournalTypeOK
<1>2. ASSUME NEW o \in Operations, Inserted(o)
      PROVE  rows' \in [Operations -> Row \cup {NoRow}]
  BY <1>2 DEF Inserted, Candidate, Row, JournalTypeOK
<1>3. ASSUME NEW o \in Operations, Replaced(o)
      PROVE  rows' \in [Operations -> Row \cup {NoRow}]
  BY <1>3 DEF Replaced, Candidate, Row, JournalTypeOK
<1>4. ASSUME NEW o \in Operations, Attested(o)
      PROVE  rows' \in [Operations -> Row \cup {NoRow}]
  BY <1>4 DEF Attested, Row, JournalTypeOK
<1>5. ASSUME NEW o \in Operations, Forgotten(o)
      PROVE  rows' \in [Operations -> Row \cup {NoRow}]
  BY <1>5 DEF Forgotten, JournalTypeOK
<1> QED BY <1>1, <1>2, <1>3, <1>4, <1>5 DEF RowChange

\* The rows stay typed and the journal never claims health without its
\* connection, whatever its callers, the storage and the recoveries do.
THEOREM JournalTyped == JournalSpec => [](JournalTypeOK /\ HealthyHasConnection)
<1>1. JournalInit => JournalTypeOK /\ HealthyHasConnection
  BY DEF JournalInit, JournalTypeOK, HealthyHasConnection
<1>2. JournalTypeOK /\ HealthyHasConnection /\ [JournalNext]_journalVars
        => JournalTypeOK' /\ HealthyHasConnection'
  <2> SUFFICES ASSUME JournalTypeOK, HealthyHasConnection, [JournalNext]_journalVars
               PROVE  JournalTypeOK' /\ HealthyHasConnection'
    OBVIOUS
  <2>1. rows' \in [Operations -> Row \cup {NoRow}]
    BY EveryStepChanges, RowChangeTyped
  <2>2. storage_failure' \in BOOLEAN /\ connection' \in BOOLEAN /\ HealthyHasConnection'
    BY EveryStepLocks
  <2> QED BY <2>1, <2>2 DEF JournalTypeOK
<1> QED BY <1>1, <1>2, PTL DEF JournalSpec

\* The host's view of the lock: a journal without a retained failure has its
\* exclusive connection.
THEOREM JournalHealthy == JournalSpec => []HealthyHasConnection
  BY JournalTyped, PTL

\* While an outcome is unproven no accepted call changes a row.
THEOREM JournalFrozen == JournalSpec => FrozenWhileUncertain
<1>1. JournalTypeOK /\ [JournalNext]_journalVars
        => [storage_failure => rows' = rows]_journalVars
  BY EveryStepChanges DEF RowChange
<1> QED BY <1>1, JournalTyped, PTL DEF JournalSpec, FrozenWhileUncertain

-----------------------------------------------------------------------------
\* One row change is a legal step of every row.
LEMMA RowChangeLegal ==
  ASSUME JournalTypeOK, RowChange
  PROVE  \A p \in Operations : LegalRowStep(rows[p], rows'[p])
<1> USE JournalAssumption
<1> SUFFICES ASSUME NEW p \in Operations
             PROVE  LegalRowStep(rows[p], rows'[p])
  OBVIOUS
<1>1. CASE rows' = rows
  BY <1>1 DEF LegalRowStep
<1>2. ASSUME NEW o \in Operations, Inserted(o)
      PROVE  LegalRowStep(rows[p], rows'[p])
  BY <1>2 DEF Inserted, Candidate, JournalTypeOK, LegalRowStep
<1>3. ASSUME NEW o \in Operations, Replaced(o)
      PROVE  LegalRowStep(rows[p], rows'[p])
  <2>1. PICK s \in Snapshots :
          /\ rows[o] # NoRow
          /\ rows[o].resolution = NoResolution
          /\ s.context = rows[o].snapshot.context
          /\ validate_finalization_successor(s, rows[o].snapshot)
          /\ rows[o].revision < MaxRevision
          /\ rows' = [rows EXCEPT ![o] = Candidate(rows[o].revision, s)]
    BY <1>3 DEF Replaced
  <2>2. rows[o] \in Row
    BY <2>1 DEF JournalTypeOK
  <2>3. Candidate(rows[o].revision, s) \in Row
    BY <2>1, <2>2 DEF Candidate, Row
  <2>4. Candidate(rows[o].revision, s) # NoRow
    BY <2>3 DEF Row
  <2>5. LegalRowStep(rows[o], Candidate(rows[o].revision, s))
    BY <2>1, <2>4 DEF Candidate, LegalRowStep
  <2> QED BY <2>1, <2>5 DEF JournalTypeOK, LegalRowStep
<1>4. ASSUME NEW o \in Operations, Attested(o)
      PROVE  LegalRowStep(rows[p], rows'[p])
  <2>1. PICK r \in Resolutions :
          /\ rows[o] # NoRow
          /\ rows[o].resolution = NoResolution
          /\ rows[o].revision < MaxRevision
          /\ rows' = [rows EXCEPT ![o] = [revision |-> rows[o].revision + 1,
                                          snapshot |-> rows[o].snapshot,
                                          resolution |-> r]]
    BY <1>4 DEF Attested
  <2> DEFINE row == [revision |-> rows[o].revision + 1, snapshot |-> rows[o].snapshot,
                     resolution |-> r]
  <2>2. rows[o] \in Row
    BY <2>1 DEF JournalTypeOK
  <2>3. row \in Row
    BY <2>1, <2>2 DEF Row
  <2>4. row # NoRow
    BY <2>3 DEF Row
  <2>5. validate_finalization_successor(rows[o].snapshot, rows[o].snapshot)
    BY DEF validate_finalization_successor
  <2>6. LegalRowStep(rows[o], row)
    BY <2>1, <2>4, <2>5 DEF LegalRowStep
  <2> QED BY <2>1, <2>6 DEF JournalTypeOK, LegalRowStep
<1>5. ASSUME NEW o \in Operations, Forgotten(o)
      PROVE  LegalRowStep(rows[p], rows'[p])
  BY <1>5 DEF Forgotten, JournalTypeOK, LegalRowStep
<1> QED BY <1>1, <1>2, <1>3, <1>4, <1>5 DEF RowChange

\* No sequence of checkpoints, exact retries, attestations, lost confirmations,
\* recoveries and forgets rewrites or loses unresolved evidence.
THEOREM JournalPreservesEvidence == JournalSpec => EvidencePreserved
<1>1. JournalTypeOK /\ [JournalNext]_journalVars
        => [\A o \in Operations : LegalRowStep(rows[o], rows'[o])]_journalVars
  BY EveryStepChanges, RowChangeLegal
<1> QED BY <1>1, JournalTyped, PTL DEF JournalSpec, EvidencePreserved

-----------------------------------------------------------------------------
\* A row change keeps every stored row acceptable to decode().
LEMMA RowChangeReopenable ==
  ASSUME JournalTypeOK, RowsReopenable, RowChange
  PROVE  RowsReopenable'
<1> USE JournalAssumption
<1> DEFINE Good(row) == /\ validate_finalization(row.snapshot)
                        /\ row.resolution # NoResolution =>
                             /\ row.revision >= 2
                             /\ validate_reconciliation(row.resolution, row.snapshot)
<1>1. \A o \in Operations : rows[o] # NoRow => Good(rows[o])
  BY DEF RowsReopenable, Stored
<1>2. ASSUME NEW o \in Operations, NEW row, row = NoRow \/ Good(row),
             rows' = [rows EXCEPT ![o] = row]
      PROVE  \A p \in Operations : rows'[p] # NoRow => Good(rows'[p])
  <2> HIDE DEF Good
  <2> QED BY <1>1, <1>2 DEF JournalTypeOK
<1>3. \A p \in Operations : rows'[p] # NoRow => Good(rows'[p])
  <2>1. CASE rows' = rows
    <3> HIDE DEF Good
    <3> QED BY <1>1, <2>1
  <2>2. ASSUME NEW o \in Operations, Inserted(o)
        PROVE  \A p \in Operations : rows'[p] # NoRow => Good(rows'[p])
    <3>1. PICK s \in Snapshots : /\ validate_finalization(s)
                                 /\ rows' = [rows EXCEPT ![o] = Candidate(0, s)]
      BY <2>2 DEF Inserted
    <3>2. Good(Candidate(0, s))
      BY <3>1 DEF Candidate
    <3> HIDE DEF Good
    <3> QED BY <3>1, <3>2, <1>2
  <2>3. ASSUME NEW o \in Operations, Replaced(o)
        PROVE  \A p \in Operations : rows'[p] # NoRow => Good(rows'[p])
    <3>1. PICK s \in Snapshots :
            /\ validate_finalization(s)
            /\ rows' = [rows EXCEPT ![o] = Candidate(rows[o].revision, s)]
      BY <2>3 DEF Replaced
    <3>2. Good(Candidate(rows[o].revision, s))
      BY <3>1 DEF Candidate
    <3> HIDE DEF Good
    <3> QED BY <3>1, <3>2, <1>2
  <2>4. ASSUME NEW o \in Operations, Attested(o)
        PROVE  \A p \in Operations : rows'[p] # NoRow => Good(rows'[p])
    <3>1. PICK r \in Resolutions :
            /\ rows[o] # NoRow
            /\ validate_reconciliation(r, rows[o].snapshot)
            /\ rows' = [rows EXCEPT ![o] = [revision |-> rows[o].revision + 1,
                                            snapshot |-> rows[o].snapshot,
                                            resolution |-> r]]
      BY <2>4 DEF Attested
    <3> DEFINE row == [revision |-> rows[o].revision + 1,
                       snapshot |-> rows[o].snapshot, resolution |-> r]
    <3>2. rows[o] \in Row
      BY <3>1 DEF JournalTypeOK
    <3>3. Good(row)
      BY <1>1, <3>1, <3>2 DEF Row
    <3> HIDE DEF Good, row
    <3>4. rows' = [rows EXCEPT ![o] = row]
      BY <3>1 DEF row
    <3> QED BY <3>3, <3>4, <1>2
  <2>5. ASSUME NEW o \in Operations, Forgotten(o)
        PROVE  \A p \in Operations : rows'[p] # NoRow => Good(rows'[p])
    <3> HIDE DEF Good
    <3> QED BY <2>5, <1>2 DEF Forgotten
  <2> HIDE DEF Good
  <2> QED BY <2>1, <2>2, <2>3, <2>4, <2>5 DEF RowChange
<1> QED BY <1>3 DEF RowsReopenable, Stored

\* A journal that accepts writes can always be opened again: no accepted
\* checkpoint or attestation leaves a row that decode() would reject.
THEOREM JournalReopens == JournalSpec => []RowsReopenable
<1>1. JournalInit => RowsReopenable
  BY DEF JournalInit, RowsReopenable, Stored
<1>2. JournalTypeOK /\ RowsReopenable /\ [JournalNext]_journalVars => RowsReopenable'
  BY EveryStepChanges, RowChangeReopenable
<1> QED BY <1>1, <1>2, JournalTyped, PTL DEF JournalSpec

-----------------------------------------------------------------------------
\* The inductive form of the capacity bound: the stored keys stay finite, so
\* that their number is defined whatever the set of operations is.
FiniteCapacity == IsFiniteSet(Stored) /\ RowsWithinCapacity

\* A row change keeps the number of rows within the configured maximum.
LEMMA RowChangeCapacity ==
  ASSUME JournalTypeOK, FiniteCapacity, RowChange
  PROVE  FiniteCapacity'
<1> USE JournalAssumption
<1>0. Cardinality(Stored) \in Nat
  BY FS_CardinalityType DEF FiniteCapacity
<1>1. CASE Stored' = Stored
  BY <1>1 DEF FiniteCapacity, RowsWithinCapacity
<1>2. ASSUME NEW o \in Operations, Inserted(o)
      PROVE  FiniteCapacity'
  <2>1. Stored' = Stored \cup {o} \/ Stored' = Stored
    BY <1>2 DEF Inserted, Stored, JournalTypeOK
  <2>2. Cardinality(Stored \cup {o}) <= Cardinality(Stored) + 1
        /\ IsFiniteSet(Stored \cup {o})
    BY <1>0, FS_AddElement DEF FiniteCapacity
  <2>3. Cardinality(Stored \cup {o}) \in Nat
    BY <2>2, FS_CardinalityType
  <2>4. Cardinality(Stored) < MaxRecords
    BY <1>0, <1>2 DEF Inserted
  <2>5. Cardinality(Stored \cup {o}) <= MaxRecords
    BY <1>0, <2>2, <2>3, <2>4
  <2>6. CASE Stored' = Stored \cup {o}
    BY <2>2, <2>5, <2>6 DEF FiniteCapacity, RowsWithinCapacity
  <2> QED BY <1>1, <2>1, <2>6
<1>3. ASSUME NEW o \in Operations, Replaced(o) \/ Attested(o)
      PROVE  FiniteCapacity'
  <2>1. Stored' \subseteq Stored
    BY <1>3 DEF Replaced, Attested, Stored, JournalTypeOK
  <2>2. IsFiniteSet(Stored') /\ Cardinality(Stored') <= Cardinality(Stored)
    BY <2>1, FS_Subset DEF FiniteCapacity
  <2>3. Cardinality(Stored') \in Nat
    BY <2>2, FS_CardinalityType
  <2> QED BY <1>0, <2>2, <2>3 DEF FiniteCapacity, RowsWithinCapacity
<1>4. ASSUME NEW o \in Operations, Forgotten(o)
      PROVE  FiniteCapacity'
  <2>1. Stored' \subseteq Stored
    BY <1>4 DEF Forgotten, Stored, JournalTypeOK
  <2>2. IsFiniteSet(Stored') /\ Cardinality(Stored') <= Cardinality(Stored)
    BY <2>1, FS_Subset DEF FiniteCapacity
  <2>3. Cardinality(Stored') \in Nat
    BY <2>2, FS_CardinalityType
  <2> QED BY <1>0, <2>2, <2>3 DEF FiniteCapacity, RowsWithinCapacity
<1>5. CASE rows' = rows
  BY <1>1, <1>5 DEF Stored
<1> QED BY <1>2, <1>3, <1>4, <1>5 DEF RowChange

\* The retained count never exceeds max_records, so validate_contents accepts
\* the database on the next open.
THEOREM JournalWithinCapacity == JournalSpec => []RowsWithinCapacity
<1>1. JournalInit => FiniteCapacity
  <2> SUFFICES ASSUME JournalInit PROVE FiniteCapacity
    OBVIOUS
  <2>1. Stored = {}
    BY DEF JournalInit, Stored
  <2> QED BY <2>1, FS_EmptySet, JournalAssumption DEF FiniteCapacity, RowsWithinCapacity
<1>2. JournalTypeOK /\ FiniteCapacity /\ [JournalNext]_journalVars => FiniteCapacity'
  BY EveryStepChanges, RowChangeCapacity
<1>3. FiniteCapacity => RowsWithinCapacity
  BY DEF FiniteCapacity
<1> QED BY <1>1, <1>2, <1>3, JournalTyped, PTL DEF JournalSpec

-----------------------------------------------------------------------------
(* The writer. *)

\* What a thread's stack says about the active slot and the queue.
ThreadShape(t) ==
  LET th == threads[t] IN
  /\ th.pc \in {"taken", "writing", "wrote", "published"}
       => th.receipt = active /\ active # NoReceipt
  /\ th.pc \notin {"taken", "writing", "wrote", "published"} => th.receipt = NoReceipt
  /\ th.pc # "settling" => th.settling = <<>>
  /\ th.pc = "idle" => active = NoReceipt
  /\ th.pc = "settling" => failure /\ active = NoReceipt /\ queued = <<>>

\* Without a live thread nothing is admitted and nothing is owned.
Drained == admission_closed /\ active = NoReceipt /\ queued = <<>>

Supervised ==
  /\ SingleWriter
  /\ \A t \in ThreadIds : ThreadShape(t)
  /\ (\A t \in ThreadIds : ~Alive(t)) => Drained
  /\ \A t \in ThreadIds : threads[t].pc = "panicked" /\ handle = t => failure

\* Nobody owns a receipt twice.
OwnedOnce ==
  /\ Injective(queued)
  /\ active \notin Owned(queued)
  /\ \A t \in ThreadIds : Injective(threads[t].settling)

\* Owned receipts exist, and what is not owned was published to its client.
Settled(r) == receipts[r].phase = "Completed" /\ receipts[r].held
OwnersKnown ==
  /\ Owned(queued) \subseteq Live
  /\ active # NoReceipt => active \in Live
  /\ \A t \in ThreadIds : Owned(threads[t].settling) \subseteq Live
  /\ \A r \in Live :
       \/ r = active \/ r \in Owned(queued)
       \/ \E t \in ThreadIds : r \in Owned(threads[t].settling)
       \/ Settled(r)

\* How far the attempt of each receipt went.
AttemptSound(x) ==
  /\ x.previous < MaxRevision
  /\ x.executions \in {0, 1}
  /\ x.phase = "Queued" => x.executions = 0
  /\ x.phase # "Completed" => x.revision = 0
  /\ x.revision # 0 => x.executions = 1
  /\ x.written.revision # 0 => x.executions = 1
AttemptAt(pc, x) ==
  /\ pc = "taken" => x.phase = "Queued"
  /\ pc = "writing" => x.phase = "Writing" /\ x.executions = 0
  /\ pc = "wrote" => x.phase = "Writing" /\ x.executions = 1
  /\ pc = "published" => x.phase = "Completed"
AttemptKnown ==
  /\ \A r \in Live : AttemptSound(receipts[r])
  /\ \A r \in Owned(queued) : receipts[r].phase = "Queued"
  /\ \A t \in ThreadIds : AttemptAt(threads[t].pc, receipts[active])

\* The partial sums of the charges, which grow.
Sums(n, charge, sum) ==
  /\ sum \in [0 .. n -> Nat]
  /\ sum[0] = 0
  /\ \A i \in 1 .. n : sum[i] = sum[i - 1] + charge[i]
  /\ \A i, j \in 0 .. n : i <= j => sum[i] <= sum[j]

Charges == [i \in 1 .. Cardinality(ReceiptIds) |-> Charge(ReceiptOrder[i])]
BytesSummed ==
  LET n == Cardinality(ReceiptIds) IN
  \E sum : Sums(n, Charges, sum) /\ pending_bytes = sum[n]

WorkerInv ==
  /\ WorkerTypeOK
  /\ Supervised /\ OwnedOnce /\ OwnersKnown /\ AttemptKnown
  /\ QuotaExact /\ BytesSummed

-----------------------------------------------------------------------------
\* One charge changes: every later partial sum changes with it.
LEMMA SumsReplaced ==
  ASSUME NEW n \in Nat, NEW charge \in [1 .. n -> Nat], NEW sum,
         Sums(n, charge, sum), NEW k \in 1 .. n, NEW v \in Nat
  PROVE  /\ charge[k] <= sum[n]
         /\ \E new : /\ Sums(n, [charge EXCEPT ![k] = v], new)
                     /\ new[n] = sum[n] - charge[k] + v
<1> DEFINE new == [i \in 0 .. n |-> IF i < k THEN sum[i] ELSE sum[i] - charge[k] + v]
<1>1. /\ sum \in [0 .. n -> Nat] /\ sum[k] = sum[k - 1] + charge[k]
      /\ \A i \in k .. n : sum[k] <= sum[i] /\ sum[i] \in Nat
      /\ \A i \in 0 .. k - 1 : sum[i] <= sum[k - 1] /\ sum[i] \in Nat
      /\ k - 1 \in 0 .. n /\ charge[k] \in Nat
  BY DEF Sums
<1>2. \A i \in k .. n : charge[k] <= sum[i]
  BY <1>1
<1>3. new \in [0 .. n -> Nat]
  <2>1. ASSUME NEW i \in 0 .. n PROVE (IF i < k THEN sum[i] ELSE sum[i] - charge[k] + v) \in Nat
    <3>1. CASE i < k
      BY <3>1, <1>1
    <3>2. CASE ~(i < k)
      <4>1. i \in k .. n /\ charge[k] <= sum[i] /\ sum[i] \in Nat
        BY <3>2, <1>1, <1>2
      <4> QED BY <3>2, <4>1, <1>1
    <3> QED BY <3>1, <3>2
  <2> QED BY <2>1
<1>4. new[0] = 0
  BY DEF Sums
<1>5. ASSUME NEW i \in 1 .. n PROVE new[i] = new[i - 1] + [charge EXCEPT ![k] = v][i]
  <2>1. sum[i] = sum[i - 1] + charge[i] /\ sum[i] \in Nat /\ sum[i - 1] \in Nat /\ charge[i] \in Nat
    BY DEF Sums
  <2>2. CASE i < k BY <2>1, <2>2
  <2>3. CASE i = k BY <2>1, <2>3
  <2>4. CASE i > k BY <2>1, <2>4, <1>1
  <2> QED BY <2>2, <2>3, <2>4
<1>6. ASSUME NEW i \in 0 .. n, NEW j \in 0 .. n, i <= j PROVE new[i] <= new[j]
  <2>1. sum[i] <= sum[j] /\ sum[i] \in Nat /\ sum[j] \in Nat
    BY <1>6 DEF Sums
  <2>2. CASE i < k /\ j >= k
    <3>1. sum[i] <= sum[k - 1] /\ sum[k] <= sum[j] /\ sum[k] \in Nat /\ sum[k - 1] \in Nat
      BY <2>2, <1>1
    <3>2. new[i] = sum[i] /\ new[j] = sum[j] - charge[k] + v
      BY <2>2
    <3>3. sum[k] = sum[k - 1] + charge[k] /\ charge[k] \in Nat
      BY <1>1
    <3> HIDE DEF new
    <3> QED BY <2>1, <3>1, <3>2, <3>3
  <2>3. CASE i < k /\ j < k
    BY <2>1, <2>3
  <2>4. CASE ~(i < k) /\ ~(j < k)
    BY <2>1, <2>4, <1>1
  <2> QED BY <1>6, <2>2, <2>3, <2>4
<1>7. charge[k] <= sum[n] /\ new[n] = sum[n] - charge[k] + v
  BY <1>2
<1>8. Sums(n, [charge EXCEPT ![k] = v], new)
  <2> HIDE DEF new
  <2> QED BY <1>3, <1>4, <1>5, <1>6 DEF Sums
<1> QED BY <1>7, <1>8

-----------------------------------------------------------------------------
\* The receipts can be numbered.
LEMMA ReceiptsNumbered ==
  /\ Cardinality(ReceiptIds) \in Nat
  /\ ReceiptOrder \in [1 .. Cardinality(ReceiptIds) -> ReceiptIds]
  /\ \A r \in ReceiptIds : \E i \in 1 .. Cardinality(ReceiptIds) :
       \A j \in 1 .. Cardinality(ReceiptIds) : ReceiptOrder[j] = r <=> j = i
<1> DEFINE n == Cardinality(ReceiptIds)
<1> DEFINE Numbers(f) == \A r \in ReceiptIds : \E i \in DOMAIN f :
                           \A j \in DOMAIN f : f[j] = r <=> j = i
<1>1. n \in Nat /\ ExistsBijection(1 .. n, ReceiptIds)
  BY WorkerAssumption, FS_CardinalityType
<1>2. PICK f \in [1 .. n -> ReceiptIds] :
        /\ \A a, b \in 1 .. n : f[a] = f[b] => a = b
        /\ \A r \in ReceiptIds : \E i \in 1 .. n : f[i] = r
  BY <1>1 DEF ExistsBijection, Bijection, Injection, IsInjective, Surjection
<1>3. Numbers(f)
  BY <1>2
<1>4. ReceiptOrder \in [1 .. n -> ReceiptIds] /\ Numbers(ReceiptOrder)
  <2>1. ReceiptOrder = CHOOSE g \in [1 .. n -> ReceiptIds] : Numbers(g)
    BY DEF ReceiptOrder
  <2> HIDE DEF Numbers
  <2> QED BY <1>3, <2>1
<1> QED BY <1>1, <1>4

\* A receipt that changes moves both quotas by its own share.
LEMMA QuotaMoves ==
  ASSUME WorkerTypeOK, QuotaExact, BytesSummed,
         NEW r \in ReceiptIds, NEW x \in Receipt \cup {NoReceipt},
         receipts' = [receipts EXCEPT ![r] = x]
  PROVE  /\ IsFiniteSet(Live)
         /\ receipts[r] # NoReceipt => pending_writes >= 1
         /\ Charge(r) \in Nat /\ Charge(r)' \in Nat /\ Charge(r) <= pending_bytes
         /\ Live' = IF x = NoReceipt THEN Live \ {r} ELSE Live \cup {r}
         /\ pending_bytes' = pending_bytes - Charge(r) + Charge(r)' => BytesSummed'
         /\ (pending_writes' = pending_writes
               + (IF x = NoReceipt THEN 0 ELSE 1) - (IF receipts[r] = NoReceipt THEN 0 ELSE 1))
              => QuotaExact'
<1> DEFINE n == Cardinality(ReceiptIds)
<1>1. /\ receipts \in [ReceiptIds -> Receipt \cup {NoReceipt}]
      /\ receipts'[r] = x /\ \A q \in ReceiptIds \ {r} : receipts'[q] = receipts[q]
  BY DEF WorkerTypeOK
<1>2. \A q \in ReceiptIds : Charge(q) \in Nat
  BY <1>1 DEF Charge, Receipt
<1>3. /\ Charge(r)' \in Nat
      /\ \A q \in ReceiptIds \ {r} : Charge(q)' = Charge(q)
  BY <1>1 DEF Charge, Receipt
<1>4. IsFiniteSet(Live) /\ Cardinality(Live) \in Nat
  BY WorkerAssumption, FS_Subset, FS_CardinalityType DEF Live
<1>5. Live' = IF x = NoReceipt THEN Live \ {r} ELSE Live \cup {r}
  BY <1>1 DEF Live
<1>6. receipts[r] # NoReceipt => pending_writes >= 1
  <2>1. ASSUME receipts[r] # NoReceipt PROVE pending_writes >= 1
    BY <2>1, <1>4, FS_EmptySet DEF QuotaExact, Live
  <2> QED BY <2>1
<1>7. Charge(r) <= pending_bytes /\
      (pending_bytes' = pending_bytes - Charge(r) + Charge(r)' => BytesSummed')
  <2>1. n \in Nat /\ Charges \in [1 .. n -> Nat]
    BY <1>2, ReceiptsNumbered DEF Charges
  <2>2. PICK k \in 1 .. n : \A j \in 1 .. n : ReceiptOrder[j] = r <=> j = k
    BY ReceiptsNumbered
  <2>3. Charges[k] = Charge(r) /\ Charges' = [Charges EXCEPT ![k] = Charge(r)']
    BY <1>3, <2>1, <2>2, ReceiptsNumbered DEF Charges
  <2>4. PICK sum : Sums(n, Charges, sum) /\ pending_bytes = sum[n]
    BY DEF BytesSummed
  <2>5. /\ Charges[k] <= sum[n]
        /\ \E new : /\ Sums(n, [Charges EXCEPT ![k] = Charge(r)'], new)
                    /\ new[n] = sum[n] - Charges[k] + Charge(r)'
    <3> DEFINE charges == Charges
               v == Charge(r)'
    <3>1. n \in Nat /\ charges \in [1 .. n -> Nat] /\ Sums(n, charges, sum) /\ v \in Nat
      BY <1>3, <2>1, <2>4
    <3> HIDE DEF charges, v
    <3>2. /\ charges[k] <= sum[n]
          /\ \E new : /\ Sums(n, [charges EXCEPT ![k] = v], new)
                      /\ new[n] = sum[n] - charges[k] + v
      BY <3>1, SumsReplaced
    <3> QED BY <3>2 DEF charges, v
  <2>6. ASSUME pending_bytes' = pending_bytes - Charge(r) + Charge(r)' PROVE BytesSummed'
    <3>1. PICK new : /\ Sums(n, [Charges EXCEPT ![k] = Charge(r)'], new)
                     /\ new[n] = sum[n] - Charges[k] + Charge(r)'
      BY <2>5
    <3>2. Sums(n, Charges', new) /\ pending_bytes' = new[n]
      BY <2>3, <2>4, <2>6, <3>1
    <3> QED BY <3>2 DEF BytesSummed, Sums
  <2> QED BY <2>3, <2>4, <2>5, <2>6
<1>8. ASSUME pending_writes' = pending_writes
               + (IF x = NoReceipt THEN 0 ELSE 1) - (IF receipts[r] = NoReceipt THEN 0 ELSE 1)
      PROVE  QuotaExact'
  <2>1. pending_writes = Cardinality(Live) /\ (r \in Live <=> receipts[r] # NoReceipt)
    BY DEF QuotaExact, Live
  <2>2. CASE x = NoReceipt
    <3>1. Cardinality(Live \ {r}) = IF r \in Live THEN Cardinality(Live) - 1 ELSE Cardinality(Live)
      BY <1>4, FS_RemoveElement
    <3>2. Live' = Live \ {r}
      BY <1>5, <2>2
    <3>3. pending_writes' = Cardinality(Live \ {r})
      BY <1>8, <2>1, <2>2, <3>1, <1>4
    <3> QED BY <3>2, <3>3 DEF QuotaExact
  <2>3. CASE x # NoReceipt
    <3>1. Cardinality(Live \cup {r}) = IF r \in Live THEN Cardinality(Live) ELSE Cardinality(Live) + 1
      BY <1>4, FS_AddElement
    <3>2. Live' = Live \cup {r}
      BY <1>5, <2>3
    <3>3. pending_writes' = Cardinality(Live \cup {r})
      BY <1>8, <2>1, <2>3, <3>1, <1>4
    <3> QED BY <3>2, <3>3 DEF QuotaExact
  <2> QED BY <2>2, <2>3
<1> QED BY <1>2, <1>3, <1>4, <1>5, <1>6, <1>7, <1>8

-----------------------------------------------------------------------------
\* The quotas stay exact while no receipt changes.
LEMMA QuotaKept ==
  ASSUME QuotaExact, BytesSummed, UNCHANGED <<receipts, pending_writes, pending_bytes>>
  PROVE  QuotaExact' /\ BytesSummed'
  BY DEF QuotaExact, BytesSummed, Charges, Charge, Live

\* A popped write becomes the active one and stays owned.
LEMMA TakeWriteStep ==
  ASSUME WorkerInv, NEW t \in ThreadIds, TakeWrite(t)
  PROVE  WorkerInv'
<1> USE WorkerAssumption DEF WorkerInv, TakeWrite
<1>1. /\ Head(queued) \in ReceiptIds /\ Tail(queued) \in Seq(ReceiptIds)
      /\ Owned(queued) = Owned(Tail(queued)) \cup {Head(queued)}
      /\ Injective(Tail(queued)) /\ Head(queued) \notin Owned(Tail(queued))
  BY PopOwns DEF WorkerTypeOK, OwnedOnce
<1>2. Alive(t) /\ Alive(t)' /\ \A u \in ThreadIds : Alive(u)' <=> Alive(u)
  BY DEF Alive, WorkerTypeOK
<1>3. WorkerTypeOK'
  BY <1>1 DEF WorkerTypeOK, Thread, ThreadPc
<1>4. Supervised'
  BY <1>1, <1>2 DEF Supervised, SingleWriter, ThreadShape, WorkerTypeOK, Thread, Drained, Alive
<1>5. OwnedOnce' /\ OwnersKnown'
  <2>1. /\ \A u \in ThreadIds : threads'[u].settling = threads[u].settling
        /\ active = NoReceipt /\ active' = Head(queued) /\ queued' = Tail(queued)
        /\ UNCHANGED receipts
    BY DEF WorkerTypeOK, Thread, Supervised, ThreadShape
  <2>2. Live' = Live /\ \A r \in ReceiptIds : Settled(r)' = Settled(r)
    BY <2>1 DEF Live, Settled
  <2>3. OwnedOnce'
    BY <1>1, <2>1 DEF OwnedOnce
  <2>4. OwnersKnown'
    BY <1>1, <2>1, <2>2 DEF OwnersKnown, Live
  <2> QED BY <2>3, <2>4
<1>6. AttemptKnown'
  <2>1. /\ threads'[t].pc = "taken" /\ \A u \in ThreadIds \ {t} : threads'[u].pc = threads[u].pc /\ ~Alive(u)
        /\ UNCHANGED receipts
    BY <1>2 DEF WorkerTypeOK, Thread, Supervised, SingleWriter
  <2>2. \A u \in ThreadIds : AttemptAt(threads'[u].pc, receipts'[active'])
    BY <1>1, <2>1 DEF AttemptKnown, AttemptAt, Alive
  <2> QED BY <1>1, <2>1, <2>2 DEF AttemptKnown, Live
<1> QED BY <1>3, <1>4, <1>5, <1>6, QuotaKept

\* A thread that stops leaves a drained, closed worker.
LEMMA StopThreadStep ==
  ASSUME WorkerInv, NEW t \in ThreadIds, StopThread(t)
  PROVE  WorkerInv'
<1> USE WorkerAssumption DEF WorkerInv, StopThread
<1>1. Alive(t) /\ \A u \in ThreadIds : ~Alive(u)'
  BY DEF Alive, WorkerTypeOK, Supervised, SingleWriter
<1>2. WorkerTypeOK'
  BY DEF WorkerTypeOK, Thread, ThreadPc
<1>3. Supervised'
  BY <1>1 DEF Supervised, SingleWriter, ThreadShape, WorkerTypeOK, Thread, Drained, admission_closed
<1>4. OwnedOnce' /\ OwnersKnown' /\ AttemptKnown'
  <2>1. /\ \A u \in ThreadIds : threads'[u].settling = threads[u].settling
        /\ threads'[t].pc = "exited" /\ \A u \in ThreadIds \ {t} : threads'[u].pc = threads[u].pc
    BY DEF WorkerTypeOK, Thread
  <2>2. OwnedOnce' /\ OwnersKnown'
    BY <2>1 DEF OwnedOnce, OwnersKnown, Live, Settled
  <2>3. AttemptKnown'
    BY <2>1 DEF AttemptKnown, AttemptAt, Live
  <2> QED BY <2>2, <2>3
<1> QED BY <1>2, <1>3, <1>4, QuotaKept

\* The active receipt of a thread that owns a write.
LEMMA ActiveOwned ==
  ASSUME WorkerInv, NEW t \in ThreadIds,
         threads[t].pc \in {"taken", "writing", "wrote", "published"}
  PROVE  /\ threads[t].receipt = active /\ active \in ReceiptIds /\ active \in Live
         /\ receipts[active] \in Receipt
         /\ Alive(t) /\ \A u \in ThreadIds \ {t} : ~Alive(u)
         /\ active \notin Owned(queued)
         /\ \A u \in ThreadIds : Owned(threads[u].settling) = {}
<1> USE DEF WorkerInv
<1>1. /\ threads[t].receipt = active /\ active \in ReceiptIds /\ active \in Live
      /\ receipts[active] \in Receipt /\ active \notin Owned(queued)
  BY DEF Supervised, ThreadShape, OwnersKnown, OwnedOnce, WorkerTypeOK, Live
<1>2. Alive(t) /\ \A u \in ThreadIds \ {t} : ~Alive(u)
  BY DEF Alive, Supervised, SingleWriter
<1>3. ASSUME NEW u \in ThreadIds PROVE threads[u].settling = <<>>
  BY <1>1, WorkerAssumption DEF Supervised, ThreadShape
<1> QED BY <1>1, <1>2, <1>3, EmptyOwns

\* The thread changes the receipt of its active write and goes on.
LEMMA ActiveStep ==
  ASSUME WorkerInv, NEW t \in ThreadIds,
         threads[t].pc \in {"taken", "writing", "wrote", "published"},
         NEW x \in Receipt,
         x.bytes = receipts[active].bytes, x.held = receipts[active].held,
         AttemptSound(x),
         NEW pc \in {"writing", "wrote", "published"}, AttemptAt(pc, x),
         receipts' = [receipts EXCEPT ![active] = x],
         threads' = [threads EXCEPT ![t].pc = pc],
         UNCHANGED <<queued, active, close_requested, failure, pending_writes,
                     pending_bytes, handle, unproven_exit>>
  PROVE  WorkerInv'
<1> USE WorkerAssumption DEF WorkerInv
<1>1. /\ threads[t].receipt = active /\ active \in ReceiptIds /\ active \in Live
      /\ receipts[active] \in Receipt
      /\ Alive(t) /\ \A u \in ThreadIds \ {t} : ~Alive(u)
      /\ active \notin Owned(queued)
      /\ \A u \in ThreadIds : Owned(threads[u].settling) = {}
  BY ActiveOwned
<1>2. /\ receipts \in [ReceiptIds -> Receipt \cup {NoReceipt}]
      /\ threads \in [ThreadIds -> Thread]
      /\ receipts'[active] = x /\ \A r \in ReceiptIds \ {active} : receipts'[r] = receipts[r]
  BY <1>1 DEF WorkerTypeOK
<1>3. /\ threads' \in [ThreadIds -> Thread]
      /\ threads'[t].pc = pc
      /\ \A u \in ThreadIds : /\ threads'[u].receipt = threads[u].receipt
                              /\ threads'[u].settling = threads[u].settling
                              /\ u # t => threads'[u].pc = threads[u].pc
  BY <1>2 DEF Thread, ThreadPc
<1>4. QuotaExact' /\ BytesSummed' /\ Live' = Live
  <2>1. Charge(active)' = Charge(active) /\ Charge(active) \in Nat
    BY <1>1, <1>2 DEF Charge, Live, Receipt
  <2>2. pending_bytes' = pending_bytes - Charge(active) + Charge(active)'
    BY <2>1 DEF WorkerTypeOK
  <2>3. pending_writes' = pending_writes + 1 - 1 /\ x # NoReceipt /\ receipts[active] # NoReceipt
    BY <1>1 DEF WorkerTypeOK
  <2> QED BY <1>1, <2>2, <2>3, QuotaMoves DEF Live
<1>5. WorkerTypeOK'
  BY <1>2, <1>3 DEF WorkerTypeOK
<1>6. Supervised'
  BY <1>1, <1>2, <1>3 DEF Supervised, SingleWriter, ThreadShape, Drained, Alive, admission_closed
<1>7. OwnedOnce' /\ OwnersKnown'
  BY <1>1, <1>2, <1>3, <1>4 DEF OwnedOnce, OwnersKnown, Settled
<1>8. AttemptKnown'
  <2>1. \A r \in Live' : AttemptSound(receipts'[r])
    BY <1>1, <1>2, <1>4 DEF AttemptKnown
  <2>2. \A r \in Owned(queued) : receipts'[r].phase = "Queued"
    BY <1>1, <1>2 DEF AttemptKnown, OwnersKnown, Live
  <2>3. \A u \in ThreadIds : AttemptAt(threads'[u].pc, receipts'[active])
    BY <1>1, <1>2, <1>3 DEF AttemptAt, Alive
  <2> QED BY <2>1, <2>2, <2>3 DEF AttemptKnown
<1> QED BY <1>4, <1>5, <1>6, <1>7, <1>8

\* The receipt becomes Writing.
LEMMA MarkWritingStep ==
  ASSUME WorkerInv, NEW t \in ThreadIds, MarkWriting(t)
  PROVE  WorkerInv'
<1> DEFINE x == [receipts[active] EXCEPT !.phase = "Writing"]
<1>1. active \in Live /\ threads[t].receipt = active /\ receipts[active] \in Receipt
  BY ActiveOwned DEF MarkWriting
<1>2. AttemptSound(receipts[active]) /\ AttemptAt("taken", receipts[active])
  BY <1>1 DEF WorkerInv, AttemptKnown, MarkWriting
<1>3. receipts' = [receipts EXCEPT ![active] = x]
  BY <1>1 DEF MarkWriting
<1>4. /\ x \in Receipt /\ x.bytes = receipts[active].bytes /\ x.held = receipts[active].held
      /\ AttemptSound(x) /\ AttemptAt("writing", x)
  BY <1>1, <1>2 DEF Receipt, WritePhase, AttemptSound, AttemptAt
<1> HIDE DEF x
<1> QED BY <1>3, <1>4, ActiveStep DEF MarkWriting

\* The transaction runs once for the active receipt.
LEMMA ExecuteWriteStep ==
  ASSUME WorkerInv, NEW t \in ThreadIds, ExecuteWrite(t)
  PROVE  WorkerInv'
<1>1. active \in Live /\ threads[t].receipt = active /\ receipts[active] \in Receipt
  BY ActiveOwned DEF ExecuteWrite
<1>2. AttemptSound(receipts[active]) /\ AttemptAt("writing", receipts[active])
  BY <1>1 DEF WorkerInv, AttemptKnown, ExecuteWrite
<1>3. PICK e \in Errors :
        receipts' = [receipts EXCEPT
            ![active].executions = @ + 1,
            ![active].written = [revision |-> IF e = "none" THEN receipts[active].previous + 1 ELSE 0,
                                 error |-> e]]
  BY <1>1 DEF ExecuteWrite
<1> DEFINE w == [revision |-> IF e = "none" THEN receipts[active].previous + 1 ELSE 0,
                 error |-> e]
<1> DEFINE x == [receipts[active] EXCEPT !.executions = 1, !.written = w]
<1>4. w \in [revision : 0 .. MaxRevision, error : Errors]
  BY <1>1, <1>2, JournalAssumption DEF Receipt, AttemptSound
<1>5. receipts[active].executions = 0
  BY <1>2 DEF AttemptAt
<1>6. receipts' = [receipts EXCEPT ![active] = x]
  <2>1. receipts' = [receipts EXCEPT ![active].executions = @ + 1, ![active].written = w]
    BY <1>3
  <2>2. /\ active \in ReceiptIds /\ receipts \in [ReceiptIds -> Receipt \cup {NoReceipt}]
        /\ receipts[active].executions + 1 = 1
    BY <1>1, <1>5 DEF WorkerInv, WorkerTypeOK, Live
  <2> HIDE DEF w
  <2>3. receipts'[active] = x
    BY <1>1, <2>1, <2>2 DEF Receipt
  <2>4. /\ DOMAIN receipts' = ReceiptIds /\ receipts' = [r \in ReceiptIds |-> receipts'[r]]
        /\ \A r \in ReceiptIds \ {active} : receipts'[r] = receipts[r]
    BY <2>1, <2>2
  <2> HIDE DEF x
  <2> QED BY <2>2, <2>3, <2>4
<1>7. /\ x \in Receipt /\ x.bytes = receipts[active].bytes /\ x.held = receipts[active].held
      /\ AttemptSound(x) /\ AttemptAt("wrote", x)
  <2> HIDE DEF w
  <2> QED BY <1>1, <1>2, <1>4 DEF Receipt, AttemptSound, AttemptAt
<1> HIDE DEF x
<1> QED BY <1>6, <1>7, ActiveStep DEF ExecuteWrite

\* The result of the transaction becomes the result of the receipt.
LEMMA PublishWriteStep ==
  ASSUME WorkerInv, NEW t \in ThreadIds, PublishWrite(t)
  PROVE  WorkerInv'
<1> DEFINE x == Completed(receipts[active], receipts[active].written.revision,
                          receipts[active].written.error)
<1>1. active \in Live /\ threads[t].receipt = active /\ receipts[active] \in Receipt
  BY ActiveOwned DEF PublishWrite
<1>2. AttemptSound(receipts[active]) /\ AttemptAt("wrote", receipts[active])
  BY <1>1 DEF WorkerInv, AttemptKnown, PublishWrite
<1>3. receipts' = [receipts EXCEPT ![active] = x]
  BY <1>1 DEF PublishWrite
<1>4. /\ x \in Receipt /\ x.bytes = receipts[active].bytes /\ x.held = receipts[active].held
      /\ AttemptSound(x) /\ AttemptAt("published", x)
  BY <1>1, <1>2, JournalAssumption
  DEF Receipt, WritePhase, WriteError, Completed, NotWritten, AttemptSound, AttemptAt, Errors
<1> HIDE DEF x
<1> QED BY <1>3, <1>4, ActiveStep DEF PublishWrite

\* Giving up one owner of a receipt moves the quotas by its share.
LEMMA ReleaseMoves ==
  ASSUME WorkerTypeOK, QuotaExact, BytesSummed,
         NEW r \in Live, NEW x \in Receipt, x.bytes = receipts[r].bytes,
         NEW last \in BOOLEAN, Release(r, x, last)
  PROVE  /\ receipts' = [receipts EXCEPT ![r] = IF last THEN NoReceipt ELSE x]
         /\ Live' = IF last THEN Live \ {r} ELSE Live
         /\ QuotaExact' /\ BytesSummed'
         /\ pending_writes' \in 0 .. MaxPendingWrites
         /\ pending_bytes' \in 0 .. MaxPendingBytes
<1> USE WorkerAssumption
<1> DEFINE y == IF last THEN NoReceipt ELSE x
<1>1. /\ r \in ReceiptIds /\ receipts[r] \in Receipt /\ receipts[r] # NoReceipt
      /\ pending_writes \in 0 .. MaxPendingWrites /\ pending_bytes \in 0 .. MaxPendingBytes
  BY DEF Live, WorkerTypeOK
<1>2. receipts' = [receipts EXCEPT ![r] = y] /\ y \in Receipt \cup {NoReceipt}
  BY DEF Release
<1>3. /\ receipts[r] # NoReceipt => pending_writes >= 1
      /\ Charge(r) \in Nat /\ Charge(r)' \in Nat /\ Charge(r) <= pending_bytes
      /\ Live' = IF y = NoReceipt THEN Live \ {r} ELSE Live \cup {r}
      /\ pending_bytes' = pending_bytes - Charge(r) + Charge(r)' => BytesSummed'
      /\ (pending_writes' = pending_writes
            + (IF y = NoReceipt THEN 0 ELSE 1) - (IF receipts[r] = NoReceipt THEN 0 ELSE 1))
           => QuotaExact'
  <2> HIDE DEF y
  <2> QED BY <1>1, <1>2, QuotaMoves
<1>4. Charge(r) = receipts[r].bytes /\ Charge(r)' = IF last THEN 0 ELSE receipts[r].bytes
  BY <1>1, <1>2 DEF Charge, WorkerTypeOK
<1>5. CASE last
  <2>1. pending_writes' = pending_writes - 1 /\ pending_bytes' = pending_bytes - x.bytes
    BY <1>5 DEF Release
  <2> QED BY <1>1, <1>2, <1>3, <1>4, <1>5, <2>1
<1>6. CASE ~last
  <2>1. pending_writes' = pending_writes /\ pending_bytes' = pending_bytes
    BY <1>6 DEF Release
  <2> QED BY <1>1, <1>2, <1>3, <1>4, <1>6, <2>1
<1> QED BY <1>5, <1>6

\* The active write is finished; a receipt nobody observes is freed.
LEMMA ReleaseWriteStep ==
  ASSUME WorkerInv, NEW t \in ThreadIds, ReleaseWrite(t)
  PROVE  WorkerInv'
<1> USE WorkerAssumption DEF WorkerInv
<1>1. /\ threads[t].receipt = active /\ active \in ReceiptIds /\ active \in Live
      /\ receipts[active] \in Receipt
      /\ Alive(t) /\ \A u \in ThreadIds \ {t} : ~Alive(u)
      /\ active \notin Owned(queued)
      /\ \A u \in ThreadIds : Owned(threads[u].settling) = {}
  BY ActiveOwned DEF ReleaseWrite
<1>2. /\ receipts' = [receipts EXCEPT ![active] = IF ~receipts[active].held THEN NoReceipt ELSE @]
      /\ Live' = IF ~receipts[active].held THEN Live \ {active} ELSE Live
      /\ QuotaExact' /\ BytesSummed'
      /\ pending_writes' \in 0 .. MaxPendingWrites
      /\ pending_bytes' \in 0 .. MaxPendingBytes
  <2>1. Release(active, receipts[active], ~receipts[active].held)
    BY <1>1 DEF ReleaseWrite
  <2>2. (~receipts[active].held) \in BOOLEAN
    BY Zenon
  <2> QED BY <1>1, <2>1, <2>2, ReleaseMoves
<1>3. /\ threads \in [ThreadIds -> Thread] /\ threads' \in [ThreadIds -> Thread]
      /\ threads'[t] = NewThread /\ \A u \in ThreadIds \ {t} : threads'[u] = threads[u]
      /\ active' = NoReceipt
      /\ UNCHANGED <<queued, close_requested, failure, handle, unproven_exit>>
  BY DEF ReleaseWrite, WorkerTypeOK, Thread, NewThread, ThreadPc
<1>4. \A r \in ReceiptIds \ {active} : receipts'[r] = receipts[r]
  BY <1>2 DEF WorkerTypeOK
<1>5. receipts[active].phase = "Completed" /\ (active \in Live' => receipts'[active] = receipts[active])
  BY <1>1, <1>2 DEF ReleaseWrite, AttemptKnown, AttemptAt, WorkerTypeOK, Live
<1>6. WorkerTypeOK'
  BY <1>1, <1>2, <1>3 DEF WorkerTypeOK
<1>7. Supervised'
  <2>1. SingleWriter' /\ Alive(t)'
    BY <1>1, <1>3 DEF Supervised, SingleWriter, Alive, NewThread
  <2>2. ThreadShape(t)'
    BY <1>3 DEF ThreadShape, NewThread
  <2>3. ASSUME NEW u \in ThreadIds \ {t} PROVE ThreadShape(u)'
    BY <1>1, <1>3 DEF Supervised, ThreadShape, Alive
  <2>4. \A u \in ThreadIds : threads'[u].pc = "panicked" /\ handle' = u => failure'
    BY <1>3 DEF Supervised, NewThread
  <2> QED BY <2>1, <2>2, <2>3, <2>4 DEF Supervised
<1>8. OwnedOnce' /\ OwnersKnown'
  <2>1. \A u \in ThreadIds : threads'[u].settling = <<>>
    BY <1>1, <1>3 DEF Supervised, ThreadShape, NewThread
  <2>2. Owned(queued) \subseteq ReceiptIds /\ Owned(queued)' = Owned(queued)
    BY <1>3 DEF OwnersKnown, Live, Owned
  <2>3. OwnedOnce'
    BY <1>3, <2>1, <2>2, EmptyOwns DEF OwnedOnce, Injective
  <2>4. Owned(queued) \subseteq Live'
    BY <1>1, <1>2 DEF OwnersKnown
  <2>5. ASSUME NEW r \in Live' PROVE r \in Owned(queued) \/ Settled(r)'
    <3>1. CASE r = active
      BY <1>1, <1>2, <1>5, <3>1 DEF Settled
    <3>2. CASE r # active
      BY <1>1, <1>2, <1>4, <3>2 DEF OwnersKnown, Settled, Live
    <3> QED BY <3>1, <3>2
  <2> QED BY <1>3, <2>1, <2>2, <2>3, <2>4, <2>5, EmptyOwns DEF OwnersKnown
<1>9. AttemptKnown'
  BY <1>1, <1>2, <1>3, <1>4, <1>5 DEF AttemptKnown, AttemptAt, NewThread, Live, Alive, OwnersKnown
<1> QED BY <1>2, <1>6, <1>7, <1>8, <1>9

\* A panic leaves the active write to the supervisor.
LEMMA PanicWriteStep ==
  ASSUME WorkerInv, NEW t \in ThreadIds, PanicWrite(t)
  PROVE  WorkerInv'
<1> USE WorkerAssumption DEF WorkerInv
<1>1. /\ Alive(t) /\ \A u \in ThreadIds \ {t} : ~Alive(u)
      /\ active # NoReceipt
  BY ActiveOwned DEF PanicWrite
<1>2. /\ threads \in [ThreadIds -> Thread] /\ threads' \in [ThreadIds -> Thread]
      /\ threads'[t] = [NewThread EXCEPT !.pc = "failing"]
      /\ \A u \in ThreadIds \ {t} : threads'[u] = threads[u]
      /\ threads[t].settling = <<>>
      /\ UNCHANGED <<receipts, queued, active, close_requested, failure,
                     pending_writes, pending_bytes, handle, unproven_exit>>
  BY DEF PanicWrite, WorkerTypeOK, Thread, NewThread, ThreadPc, Supervised, ThreadShape
<1>3. WorkerTypeOK'
  BY <1>2 DEF WorkerTypeOK
<1>4. Supervised'
  BY <1>1, <1>2 DEF Supervised, SingleWriter, ThreadShape, Drained, Alive, NewThread, admission_closed
<1>5. OwnedOnce' /\ OwnersKnown' /\ AttemptKnown'
  BY <1>1, <1>2 DEF OwnedOnce, OwnersKnown, Settled, NewThread, Live, AttemptKnown, AttemptAt
<1> QED BY <1>2, <1>3, <1>4, <1>5, QuotaKept

\* The supervisor takes over the active and the queued writes.
LEMMA FailWorkerStep ==
  ASSUME WorkerInv, NEW t \in ThreadIds, FailWorker(t)
  PROVE  WorkerInv'
<1> USE WorkerAssumption DEF WorkerInv
<1> DEFINE taken == (IF active = NoReceipt THEN <<>> ELSE <<active>>) \o queued
<1>1. Alive(t) /\ \A u \in ThreadIds \ {t} : ~Alive(u)
  BY DEF FailWorker, Alive, Supervised, SingleWriter
<1>2. /\ taken \in Seq(ReceiptIds) /\ Injective(taken)
      /\ Owned(taken) = {r \in ReceiptIds : r = active} \cup Owned(queued)
  <2>1. CASE active = NoReceipt
    <3>1. taken = queued
      BY <2>1 DEF WorkerTypeOK
    <3> QED BY <2>1, <3>1 DEF WorkerTypeOK, OwnedOnce
  <2>2. CASE active # NoReceipt
    <3>1. taken = <<active>> \o queued /\ active \in ReceiptIds
      BY <2>2 DEF WorkerTypeOK
    <3> HIDE DEF taken
    <3> QED BY <2>2, <3>1, TakeOverOwns DEF WorkerTypeOK, OwnedOnce
  <2> QED BY <2>1, <2>2
<1>3. threads' = [threads EXCEPT ![t].pc = "settling", ![t].settling = taken]
  BY DEF FailWorker
<1> HIDE DEF taken
<1>4. /\ threads \in [ThreadIds -> Thread] /\ threads' \in [ThreadIds -> Thread]
      /\ threads'[t].pc = "settling" /\ threads'[t].settling = taken
      /\ threads'[t].receipt = NoReceipt
      /\ \A u \in ThreadIds \ {t} : threads'[u] = threads[u]
      /\ active' = NoReceipt /\ queued' = <<>> /\ failure' = TRUE
      /\ UNCHANGED <<receipts, close_requested, pending_writes, pending_bytes,
                     handle, unproven_exit>>
  <2>1. threads \in [ThreadIds -> Thread] /\ threads[t].receipt = NoReceipt
    BY DEF FailWorker, WorkerTypeOK, Supervised, ThreadShape
  <2>2. /\ threads'[t] = [threads[t] EXCEPT !.pc = "settling", !.settling = taken]
        /\ threads' = [u \in ThreadIds |-> threads'[u]]
        /\ \A u \in ThreadIds \ {t} : threads'[u] = threads[u]
    BY <1>3, <2>1 DEF Thread
  <2>3. /\ threads'[t] \in Thread /\ threads'[t].pc = "settling"
        /\ threads'[t].settling = taken /\ threads'[t].receipt = NoReceipt
    <3>1. threads[t] \in Thread /\ "settling" \in ThreadPc
      BY <2>1 DEF ThreadPc
    <3> QED BY <1>2, <2>1, <2>2, <3>1 DEF Thread
  <2>4. threads' \in [ThreadIds -> Thread]
    BY <2>1, <2>2, <2>3
  <2> QED BY <2>1, <2>2, <2>3, <2>4 DEF FailWorker
<1>5. WorkerTypeOK'
  BY <1>4 DEF WorkerTypeOK
<1>6. Supervised'
  <2>1. SingleWriter' /\ Alive(t)'
    BY <1>1, <1>4 DEF Supervised, SingleWriter, Alive
  <2>2. ThreadShape(t)'
    BY <1>4 DEF ThreadShape
  <2>3. ASSUME NEW u \in ThreadIds \ {t} PROVE ThreadShape(u)'
    BY <1>1, <1>4 DEF Supervised, ThreadShape, Alive
  <2> QED BY <1>4, <2>1, <2>2, <2>3 DEF Supervised
<1>7. \A u \in ThreadIds : threads[u].settling = <<>>
  BY <1>1 DEF Supervised, ThreadShape, FailWorker, Alive
<1>8. OwnedOnce'
  BY <1>2, <1>4, <1>7, EmptyOwns DEF OwnedOnce
<1>9. OwnersKnown'
  <2>1. Live' = Live /\ \A r \in Live : Settled(r)' <=> Settled(r)
    BY <1>4 DEF Live, Settled
  <2>2. \A u \in ThreadIds : Owned(threads'[u].settling) \subseteq Live
    BY <1>2, <1>4, <1>7, EmptyOwns DEF OwnersKnown, Live
  <2>3. ASSUME NEW r \in Live PROVE r \in Owned(threads'[t].settling) \/ Settled(r)
    BY <1>2, <1>4, <1>7, EmptyOwns DEF OwnersKnown, Live
  <2> QED BY <1>4, <2>1, <2>2, <2>3, EmptyOwns DEF OwnersKnown
<1>10. AttemptKnown'
  BY <1>1, <1>4, EmptyOwns DEF AttemptKnown, AttemptAt, Alive, Live
<1> QED BY <1>4, <1>5, <1>6, <1>8, <1>9, <1>10, QuotaKept

\* The supervisor completes one write it took over and drops it.
LEMMA SettleWriteStep ==
  ASSUME WorkerInv, NEW t \in ThreadIds, SettleWrite(t)
  PROVE  WorkerInv'
<1> USE WorkerAssumption DEF WorkerInv
<1> DEFINE s == threads[t].settling
           r == Head(s)
           x == Completed(receipts[r], 0, "Supervisor")
<1>1. /\ Alive(t) /\ \A u \in ThreadIds \ {t} : ~Alive(u)
      /\ threads[t].pc = "settling" /\ threads[t].receipt = NoReceipt
      /\ failure /\ active = NoReceipt /\ queued = <<>>
      /\ s \in Seq(ReceiptIds) /\ s # <<>> /\ Injective(s)
  BY DEF SettleWrite, Alive, Supervised, SingleWriter, ThreadShape, WorkerTypeOK, Thread, OwnedOnce
<1>2. /\ r \in ReceiptIds /\ Tail(s) \in Seq(ReceiptIds)
      /\ Owned(s) = Owned(Tail(s)) \cup {r}
      /\ Injective(Tail(s)) /\ r \notin Owned(Tail(s))
  <2> HIDE DEF s
  <2> QED BY <1>1, PopOwns
<1>3. /\ \A u \in ThreadIds \ {t} : threads[u].settling = <<>>
      /\ \A u \in ThreadIds \ {t} : Owned(threads[u].settling) = {}
  BY <1>1, EmptyOwns DEF Supervised, ThreadShape, Alive
<1>4. r \in Live /\ receipts[r] \in Receipt /\ AttemptSound(receipts[r])
  BY <1>2 DEF OwnersKnown, Live, WorkerTypeOK, AttemptKnown
<1>5. /\ x \in Receipt /\ x.bytes = receipts[r].bytes /\ x.held = receipts[r].held
      /\ x.phase = "Completed" /\ AttemptSound(x)
  <2> HIDE DEF r
  <2>1. CASE receipts[r].phase = "Completed"
    BY <1>4, <2>1 DEF Completed
  <2>2. CASE receipts[r].phase # "Completed"
    <3>1. x = [receipts[r] EXCEPT !.phase = "Completed", !.revision = 0,
                                  !.error = "Supervisor", !.written = NotWritten]
      BY <2>2 DEF Completed
    <3>2. /\ NotWritten \in [revision : 0 .. MaxRevision, error : Errors]
          /\ "Supervisor" \in WriteError /\ "Completed" \in WritePhase /\ 0 \in 0 .. MaxRevision
      BY JournalAssumption DEF NotWritten, Errors, WriteError, WritePhase
    <3> HIDE DEF x
    <3>3. x \in Receipt /\ x.bytes = receipts[r].bytes /\ x.held = receipts[r].held
      BY <1>4, <3>1, <3>2 DEF Receipt
    <3>4. x.phase = "Completed" /\ AttemptSound(x)
      BY <1>4, <3>1 DEF Receipt, AttemptSound, NotWritten
    <3> QED BY <3>3, <3>4
  <2> QED BY <2>1, <2>2
<1>6. Release(r, x, ~receipts[r].held) /\ (~receipts[r].held) \in BOOLEAN
  <2>1. Release(r, x, ~receipts[r].held)
    BY DEF SettleWrite
  <2>2. (~receipts[r].held) \in BOOLEAN
    BY Zenon
  <2> QED BY <2>1, <2>2
<1>7. threads' = [threads EXCEPT ![t].settling = Tail(s)]
  BY DEF SettleWrite, WorkerTypeOK
<1>8. UNCHANGED <<queued, active, close_requested, failure, handle, unproven_exit>>
  BY DEF SettleWrite
<1> HIDE DEF x, r, s
<1>9. /\ receipts' = [receipts EXCEPT ![r] = IF ~receipts[r].held THEN NoReceipt ELSE x]
      /\ Live' = IF ~receipts[r].held THEN Live \ {r} ELSE Live
      /\ QuotaExact' /\ BytesSummed'
      /\ pending_writes' \in 0 .. MaxPendingWrites
      /\ pending_bytes' \in 0 .. MaxPendingBytes
  BY <1>4, <1>5, <1>6, ReleaseMoves
<1>10. /\ \A q \in ReceiptIds \ {r} : receipts'[q] = receipts[q]
       /\ r \in Live' => receipts'[r] = x /\ receipts[r].held
  BY <1>4, <1>9 DEF WorkerTypeOK, Live
<1>11. /\ threads \in [ThreadIds -> Thread] /\ threads' \in [ThreadIds -> Thread]
       /\ threads'[t].pc = "settling" /\ threads'[t].settling = Tail(s)
       /\ threads'[t].receipt = NoReceipt
       /\ \A u \in ThreadIds \ {t} : threads'[u] = threads[u]
       /\ \A u \in ThreadIds : threads'[u].pc = threads[u].pc
  BY <1>1, <1>2, <1>7 DEF WorkerTypeOK, Thread
<1>12. WorkerTypeOK'
  BY <1>4, <1>5, <1>8, <1>9, <1>11 DEF WorkerTypeOK
<1>13. Supervised'
  <2>1. SingleWriter' /\ Alive(t)'
    BY <1>1, <1>8, <1>11 DEF Supervised, SingleWriter, Alive
  <2>2. ThreadShape(t)'
    BY <1>1, <1>8, <1>11 DEF ThreadShape
  <2>3. ASSUME NEW u \in ThreadIds \ {t} PROVE ThreadShape(u)'
    BY <1>1, <1>8, <1>11 DEF Supervised, ThreadShape, Alive
  <2> QED BY <1>1, <1>8, <1>11, <2>1, <2>2, <2>3 DEF Supervised
<1>14. OwnedOnce'
  BY <1>1, <1>2, <1>3, <1>8, <1>11, EmptyOwns DEF OwnedOnce
<1>15. OwnersKnown'
  <2>1. \A u \in ThreadIds : Owned(threads'[u].settling) \subseteq Live'
    BY <1>2, <1>3, <1>9, <1>11 DEF OwnersKnown, s
  <2>2. ASSUME NEW q \in Live' PROVE q \in Owned(threads'[t].settling) \/ Settled(q)'
    <3>1. CASE q = r
      BY <1>5, <1>10, <3>1 DEF Settled
    <3>2. CASE q # r
      BY <1>1, <1>2, <1>3, <1>9, <1>10, <1>11, <3>2, EmptyOwns DEF OwnersKnown, Settled, Live, s
    <3> QED BY <3>1, <3>2
  <2> QED BY <1>1, <1>8, <2>1, <2>2, EmptyOwns DEF OwnersKnown
<1>16. AttemptKnown'
  <2>1. \A q \in Live' : AttemptSound(receipts'[q])
    BY <1>5, <1>9, <1>10 DEF AttemptKnown, Live
  <2>2. \A u \in ThreadIds : AttemptAt(threads'[u].pc, receipts'[active'])
    BY <1>1, <1>11 DEF AttemptAt, Alive
  <2> QED BY <1>1, <1>8, <2>1, <2>2, EmptyOwns DEF AttemptKnown
<1> QED BY <1>9, <1>12, <1>13, <1>14, <1>15, <1>16

\* The supervisor returns with nothing left to settle.
LEMMA EndThreadStep ==
  ASSUME WorkerInv, NEW t \in ThreadIds, EndThread(t)
  PROVE  WorkerInv'
<1> USE WorkerAssumption DEF WorkerInv
<1>1. /\ Alive(t) /\ \A u \in ThreadIds \ {t} : ~Alive(u)
      /\ failure /\ active = NoReceipt /\ queued = <<>>
      /\ threads[t].settling = <<>> /\ threads[t].receipt = NoReceipt
  BY DEF EndThread, Alive, Supervised, SingleWriter, ThreadShape
<1>2. PICK pc \in {"exited", "panicked"} : threads' = [threads EXCEPT ![t].pc = pc]
  BY DEF EndThread
<1>3. /\ threads \in [ThreadIds -> Thread] /\ threads' \in [ThreadIds -> Thread]
      /\ threads'[t].pc = pc /\ threads'[t].settling = <<>> /\ threads'[t].receipt = NoReceipt
      /\ \A u \in ThreadIds \ {t} : threads'[u] = threads[u]
      /\ UNCHANGED <<receipts, queued, active, close_requested, failure,
                     pending_writes, pending_bytes, handle, unproven_exit>>
  BY <1>1, <1>2 DEF EndThread, WorkerTypeOK, Thread, ThreadPc
<1>4. WorkerTypeOK'
  BY <1>3 DEF WorkerTypeOK
<1>5. Supervised'
  BY <1>1, <1>3 DEF Supervised, SingleWriter, ThreadShape, Drained, Alive, admission_closed
<1>6. \A u \in ThreadIds : threads'[u].settling = threads[u].settling
  BY <1>1, <1>3
<1>7. OwnedOnce' /\ OwnersKnown'
  BY <1>3, <1>6 DEF OwnedOnce, OwnersKnown, Settled, Live
<1>8. AttemptKnown'
  BY <1>3 DEF AttemptKnown, AttemptAt, Live
<1> QED BY <1>3, <1>4, <1>5, <1>7, <1>8, QuotaKept

-----------------------------------------------------------------------------
\* An admitted write is queued, charged and observed by its client.
LEMMA SubmitStep ==
  ASSUME WorkerInv, NEW r \in ReceiptIds, NEW q \in Requests,
         submit_request(r, q.op, q.previous, q.snapshot, q.again)
  PROVE  WorkerInv'
<1> USE WorkerAssumption DEF WorkerInv
<1> DEFINE bytes == Size(q.snapshot)
           x == [op |-> q.op, previous |-> q.previous, snapshot |-> q.snapshot,
                 again |-> q.again, bytes |-> bytes, phase |-> "Queued", revision |-> 0,
                 error |-> "none", held |-> TRUE, executions |-> 0, written |-> NotWritten]
<1>1. /\ receipts[r] = NoReceipt /\ queued' = Append(queued, r)
      /\ receipts' = [receipts EXCEPT ![r] = x]
      /\ pending_writes' = pending_writes + 1 /\ pending_bytes' = pending_bytes + bytes
      /\ UNCHANGED <<active, close_requested, failure, threads, handle, unproven_exit>>
  BY DEF submit_request
<1>2. /\ q.previous \in 0 .. MaxRevision /\ q.previous < MaxRevision /\ bytes \in Nat
      /\ ~admission_closed /\ HasCapacity(bytes)
  BY JournalAssumption DEF submit_request, SubmitError
<1>3. x \in Receipt /\ AttemptSound(x)
  <2>1. /\ q.op \in Operations /\ q.snapshot \in Snapshots /\ q.again \in BOOLEAN
        /\ "Queued" \in WritePhase /\ "none" \in WriteError /\ 0 \in 0 .. MaxRevision
        /\ NotWritten \in [revision : 0 .. MaxRevision, error : Errors]
    BY JournalAssumption DEF NotWritten, WriteError, WritePhase, Errors
  <2>2. x \in Receipt
    BY <1>2, <2>1 DEF Receipt
  <2>3. AttemptSound(x)
    BY <1>2 DEF AttemptSound, NotWritten
  <2> QED BY <2>2, <2>3
<1>4. x # NoReceipt /\ x.bytes = bytes /\ x.phase = "Queued"
  BY <1>3
<1> HIDE DEF x, bytes
<1>5. /\ receipts'[r] = x /\ \A u \in ReceiptIds \ {r} : receipts'[u] = receipts[u]
      /\ receipts' \in [ReceiptIds -> Receipt \cup {NoReceipt}]
  BY <1>1, <1>3 DEF WorkerTypeOK
<1>6. QuotaExact' /\ BytesSummed' /\ Live' = Live \cup {r}
  <2>1. Charge(r) = 0 /\ Charge(r)' = bytes
    BY <1>1, <1>4, <1>5 DEF Charge
  <2>2. pending_bytes' = pending_bytes - Charge(r) + Charge(r)' /\ pending_writes' = pending_writes + 1 - 0
    BY <1>1, <1>2, <2>1 DEF WorkerTypeOK
  <2> QED BY <1>1, <1>3, <1>4, <2>2, QuotaMoves
<1>7. /\ queued' \in Seq(ReceiptIds) /\ Owned(queued') = Owned(queued) \cup {r}
      /\ Injective(queued) /\ r \notin Owned(queued) => Injective(queued')
  BY <1>1, AppendOwns DEF WorkerTypeOK
<1>8. r \notin Live /\ r \notin Owned(queued) /\ r # active
      /\ \A t \in ThreadIds : r \notin Owned(threads[t].settling)
  BY <1>1 DEF Live, OwnersKnown
<1>9. WorkerTypeOK'
  <2>1. pending_writes' \in 0 .. MaxPendingWrites /\ pending_bytes' \in 0 .. MaxPendingBytes
    BY <1>1, <1>2 DEF WorkerTypeOK, HasCapacity
  <2> QED BY <1>1, <1>5, <1>7, <2>1 DEF WorkerTypeOK
<1>10. Supervised'
  <2>1. \A t \in ThreadIds : threads[t].pc # "settling"
    BY <1>2 DEF Supervised, ThreadShape, admission_closed
  <2> QED BY <1>1, <1>2, <2>1 DEF Supervised, SingleWriter, ThreadShape, Drained, Alive, admission_closed
<1>11. OwnedOnce' /\ OwnersKnown'
  BY <1>1, <1>4, <1>5, <1>6, <1>7, <1>8 DEF OwnedOnce, OwnersKnown, Settled, Live
<1>12. AttemptKnown'
  <2>1. \A u \in Live' : AttemptSound(receipts'[u])
    BY <1>3, <1>5, <1>6 DEF AttemptKnown, Live
  <2>2. \A u \in Owned(queued') : receipts'[u].phase = "Queued"
    BY <1>4, <1>5, <1>7 DEF AttemptKnown, OwnersKnown, Live
  <2>3. \A t \in ThreadIds : AttemptAt(threads'[t].pc, receipts'[active'])
    <3>1. CASE active = NoReceipt
      BY <1>1, <3>1 DEF Supervised, ThreadShape, AttemptAt
    <3>2. CASE active # NoReceipt
      BY <1>1, <1>5, <1>8, <3>2 DEF WorkerTypeOK, AttemptKnown
    <3> QED BY <3>1, <3>2
  <2> QED BY <2>1, <2>2, <2>3 DEF AttemptKnown
<1> QED BY <1>6, <1>9, <1>10, <1>11, <1>12

\* A client drops its receipt; only a receipt nobody owns any more is freed.
LEMMA DropReceiptStep ==
  ASSUME WorkerInv, NEW r \in ReceiptIds, DropReceipt(r)
  PROVE  WorkerInv'
<1> USE WorkerAssumption DEF WorkerInv
<1> DEFINE x == [receipts[r] EXCEPT !.held = FALSE]
           last == ~WorkerOwns(r)
<1>1. r \in Live /\ receipts[r] \in Receipt /\ AttemptSound(receipts[r])
  BY DEF DropReceipt, Live, WorkerTypeOK, AttemptKnown
<1>2. /\ x \in Receipt /\ x.bytes = receipts[r].bytes /\ x.phase = receipts[r].phase
      /\ x.executions = receipts[r].executions /\ AttemptSound(x)
  BY <1>1 DEF Receipt, AttemptSound
<1>3. WorkerOwns(r) <=> \/ active = r \/ r \in Owned(queued)
                        \/ \E t \in ThreadIds : r \in Owned(threads[t].settling)
  BY DEF WorkerOwns, Owned, Supervised, ThreadShape
<1>4. Release(r, x, last) /\ last \in BOOLEAN
  <2>1. Release(r, x, last)
    BY DEF DropReceipt
  <2>2. last \in BOOLEAN
    BY Zenon
  <2> QED BY <2>1, <2>2
<1>5. UNCHANGED <<queued, active, close_requested, failure, threads, handle, unproven_exit>>
  BY DEF DropReceipt
<1> HIDE DEF x
<1>6. /\ receipts' = [receipts EXCEPT ![r] = IF last THEN NoReceipt ELSE x]
      /\ Live' = IF last THEN Live \ {r} ELSE Live
      /\ QuotaExact' /\ BytesSummed'
      /\ pending_writes' \in 0 .. MaxPendingWrites
      /\ pending_bytes' \in 0 .. MaxPendingBytes
  <2> HIDE DEF last
  <2> QED BY <1>1, <1>2, <1>4, ReleaseMoves
<1>7. /\ \A q \in ReceiptIds \ {r} : receipts'[q] = receipts[q]
      /\ WorkerOwns(r) => receipts'[r] = x
  BY <1>6 DEF WorkerTypeOK
<1>8. WorkerTypeOK'
  BY <1>2, <1>5, <1>6 DEF WorkerTypeOK
<1>9. Supervised' /\ OwnedOnce'
  BY <1>5 DEF Supervised, SingleWriter, ThreadShape, Drained, Alive, admission_closed, OwnedOnce
<1>10. OwnersKnown'
  <2>1. /\ Owned(queued) \subseteq Live'
        /\ active # NoReceipt => active \in Live'
        /\ \A t \in ThreadIds : Owned(threads[t].settling) \subseteq Live'
    BY <1>3, <1>6 DEF OwnersKnown
  <2>2. ASSUME NEW q \in Live'
        PROVE  \/ q = active \/ q \in Owned(queued)
               \/ \E t \in ThreadIds : q \in Owned(threads[t].settling)
               \/ Settled(q)'
    <3>1. CASE q = r
      BY <1>1, <1>3, <1>6, <3>1
    <3>2. CASE q # r
      BY <1>6, <1>7, <3>2 DEF OwnersKnown, Settled, Live
    <3> QED BY <3>1, <3>2
  <2> QED BY <1>5, <2>1, <2>2 DEF OwnersKnown
<1>11. AttemptKnown'
  <2>1. \A q \in Live' : AttemptSound(receipts'[q])
    BY <1>2, <1>6, <1>7 DEF AttemptKnown, Live
  <2>2. \A q \in Owned(queued) : receipts'[q].phase = "Queued"
    BY <1>2, <1>3, <1>7 DEF AttemptKnown, OwnersKnown, Live
  <2>3. \A t \in ThreadIds : AttemptAt(threads[t].pc, receipts'[active])
    <3>1. CASE active = NoReceipt
      BY <3>1 DEF Supervised, ThreadShape, AttemptAt
    <3>2. CASE active = r
      BY <1>2, <1>3, <1>7, <3>2 DEF AttemptKnown, AttemptAt
    <3>3. CASE active # r /\ active # NoReceipt
      BY <1>7, <3>3 DEF WorkerTypeOK, AttemptKnown
    <3> QED BY <3>1, <3>2, <3>3
  <2> QED BY <1>5, <2>1, <2>2, <2>3 DEF AttemptKnown
<1> QED BY <1>6, <1>8, <1>9, <1>10, <1>11

\* Closing, polling and recovering touch no receipt; recovery starts a thread
\* only when none is alive.
LEMMA HostControlStep ==
  ASSUME WorkerInv, request_close \/ poll_closed \/ recover_worker
  PROVE  WorkerInv'
<1> USE WorkerAssumption DEF WorkerInv
<1>1. UNCHANGED <<receipts, queued, active, pending_writes, pending_bytes>>
  BY DEF request_close, poll_closed, recover_worker
<1>2. QuotaExact' /\ BytesSummed'
  BY <1>1, QuotaKept
<1>3. CASE request_close
  <2>1. UNCHANGED <<failure, threads, handle, unproven_exit>> /\ close_requested'
    BY <1>3 DEF request_close
  <2>2. WorkerTypeOK' /\ Supervised'
    BY <1>1, <1>3, <2>1 DEF request_close, WorkerTypeOK, Supervised, SingleWriter, ThreadShape, Drained, Alive, admission_closed
  <2>3. OwnedOnce' /\ OwnersKnown' /\ AttemptKnown'
    BY <1>1, <2>1 DEF OwnedOnce, OwnersKnown, AttemptKnown, Live, Settled
  <2> QED BY <1>2, <2>2, <2>3
<1>4. ASSUME HandleExited, UNCHANGED threads, UNCHANGED close_requested, handle' = NoThread,
             unproven_exit' = UnprovenAfterJoin, failure' = failure \/ failure' = (failure \/ UnprovenAfterJoin)
      PROVE  WorkerInv'
  <2>1. \A t \in ThreadIds : ~Alive(t)
    BY <1>4 DEF HandleExited, Supervised, SingleWriter
  <2>2. UnprovenAfterJoin \in BOOLEAN /\ (failure \/ UnprovenAfterJoin) \in BOOLEAN
    BY DEF UnprovenAfterJoin, WorkerTypeOK
  <2>3. failure => failure'
    BY <1>4
  <2>4. WorkerTypeOK'
    BY <1>1, <1>4, <2>2 DEF WorkerTypeOK
  <2>5. Supervised'
    BY <1>1, <1>4, <2>1, <2>3 DEF Supervised, SingleWriter, ThreadShape, Drained, Alive, admission_closed
  <2>6. OwnedOnce' /\ OwnersKnown' /\ AttemptKnown'
    BY <1>1, <1>4 DEF OwnedOnce, OwnersKnown, AttemptKnown, Live, Settled
  <2> QED BY <1>2, <2>4, <2>5, <2>6
<1>5. CASE poll_closed
  BY <1>4, <1>5 DEF poll_closed
<1>6. ASSUME recover_worker, NEW t \in ThreadIds, ~Alive(t), threads' = [threads EXCEPT ![t] = NewThread],
             handle' = t, failure' = FALSE, active = NoReceipt, queued = <<>>
      PROVE  WorkerInv'
  <2>1. \A u \in ThreadIds : ~Alive(u)
    BY <1>6 DEF recover_worker, HandleExited, Supervised, SingleWriter
  <2>2. UNCHANGED close_requested /\ unproven_exit' \in BOOLEAN
    BY <1>6 DEF recover_worker, UnprovenAfterJoin, WorkerTypeOK
  <2>3. /\ threads' \in [ThreadIds -> Thread] /\ threads'[t] = NewThread
        /\ \A u \in ThreadIds \ {t} : threads'[u] = threads[u]
        /\ threads[t].settling = <<>>
    BY <1>6, <2>1 DEF WorkerTypeOK, Thread, ThreadPc, NewThread, Supervised, ThreadShape, Alive
  <2>4. WorkerTypeOK'
    BY <1>1, <1>6, <2>2, <2>3 DEF WorkerTypeOK
  <2>5. Supervised'
    BY <1>1, <1>6, <2>1, <2>3 DEF Supervised, SingleWriter, ThreadShape, NewThread, Alive
  <2>6. \A u \in ThreadIds : threads'[u].settling = threads[u].settling
    BY <2>3 DEF NewThread
  <2>7. OwnedOnce' /\ OwnersKnown'
    BY <1>1, <2>6 DEF OwnedOnce, OwnersKnown, Live, Settled
  <2>8. AttemptKnown'
    BY <1>1, <2>3 DEF AttemptKnown, AttemptAt, NewThread, Live
  <2> QED BY <1>2, <2>4, <2>5, <2>7, <2>8
<1>7. CASE recover_worker
  <2>1. CASE handle' = NoThread /\ UNCHANGED <<threads, failure>>
    BY <1>4, <1>7, <2>1 DEF recover_worker
  <2>2. CASE ~(handle' = NoThread /\ UNCHANGED <<threads, failure>>)
    BY <1>6, <1>7, <2>2 DEF recover_worker
  <2> QED BY <2>1, <2>2
<1> QED BY <1>3, <1>5, <1>7

-----------------------------------------------------------------------------
\* A stuttering step, or a host that only uses the journal.
LEMMA WorkerIdle ==
  ASSUME WorkerInv, UNCHANGED workerVars
  PROVE  WorkerInv'
<1> USE DEF WorkerInv, workerVars
<1>1. WorkerTypeOK'
  BY DEF WorkerTypeOK
<1>2. Supervised' /\ OwnedOnce'
  BY DEF Supervised, SingleWriter, ThreadShape, Drained, Alive, admission_closed, OwnedOnce
<1>3. OwnersKnown' /\ AttemptKnown'
  BY DEF OwnersKnown, AttemptKnown, Live, Settled
<1> QED BY <1>1, <1>2, <1>3, QuotaKept

\* A fresh worker owns nothing and charges nothing.
LEMMA WorkerInitInv == WorkerInit => WorkerInv
<1> SUFFICES ASSUME WorkerInit PROVE WorkerInv
  OBVIOUS
<1> USE WorkerAssumption DEF WorkerInit
<1>1. WorkerTypeOK
  <2>1. NewThread \in Thread /\ NotRunning \in Thread
    <3>1. <<>> \in Seq(ReceiptIds) /\ "idle" \in ThreadPc /\ "none" \in ThreadPc
      BY DEF ThreadPc
    <3>2. NewThread \in Thread
      BY <3>1 DEF Thread, NewThread
    <3>3. NotRunning = [pc |-> "none", receipt |-> NoReceipt, settling |-> <<>>]
      BY DEF NotRunning, NewThread
    <3> QED BY <3>1, <3>2, <3>3 DEF Thread
  <2>2. threads \in [ThreadIds -> Thread]
    BY <2>1
  <2>3. queued \in Seq(ReceiptIds) /\ 0 \in 0 .. MaxPendingWrites /\ 0 \in 0 .. MaxPendingBytes
    OBVIOUS
  <2> QED BY <2>2, <2>3 DEF WorkerTypeOK
<1>2. Live = {}
  BY DEF Live
<1>3. Supervised
  BY DEF Supervised, SingleWriter, ThreadShape, Drained, Alive, NewThread, NotRunning
<1>4. \A t \in ThreadIds : threads[t].settling = <<>> /\ threads[t].pc \in {"idle", "none"}
  BY DEF NewThread, NotRunning
<1>5. OwnedOnce /\ OwnersKnown /\ AttemptKnown
  BY <1>2, <1>4, EmptyOwns DEF OwnedOnce, OwnersKnown, AttemptKnown, AttemptAt
<1>6. QuotaExact
  BY <1>2, FS_EmptySet DEF QuotaExact
<1>7. BytesSummed
  <2> DEFINE n == Cardinality(ReceiptIds)
             sum == [i \in 0 .. n |-> 0]
  <2>1. n \in Nat /\ \A i \in 1 .. n : Charges[i] = 0
    BY ReceiptsNumbered DEF Charges, Charge
  <2>2. Sums(n, Charges, sum) /\ pending_bytes = sum[n]
    BY <2>1 DEF Sums
  <2> QED BY <2>2 DEF BytesSummed
<1> QED BY <1>1, <1>3, <1>5, <1>6, <1>7 DEF WorkerInv

\* Every step of the worker, of its clients and of its host.
LEMMA WorkerStep ==
  ASSUME WorkerInv, [WorkerNext]_vars
  PROVE  WorkerInv'
<1>1. ASSUME NEW t \in ThreadIds, WriterStep(t) PROVE WorkerInv'
  BY <1>1, TakeWriteStep, StopThreadStep, MarkWritingStep, PublishWriteStep, ReleaseWriteStep,
     FailWorkerStep, SettleWriteStep, EndThreadStep, ExecuteWriteStep DEF WriterStep
<1>2. CASE Panic
  BY <1>2, PanicWriteStep DEF Panic
<1>3. CASE Submit
  <2> DEFINE r == CHOOSE u \in ReceiptIds : receipts[u] = NoReceipt
  <2>1. r \in ReceiptIds
    BY <1>3 DEF Submit
  <2>2. PICK q \in Requests : submit_request(r, q.op, q.previous, q.snapshot, q.again)
    BY <1>3 DEF Submit
  <2> HIDE DEF r
  <2> QED BY <2>1, <2>2, SubmitStep
<1>4. CASE Drop
  BY <1>4, DropReceiptStep DEF Drop
<1>5. CASE HostControl
  BY <1>5, HostControlStep DEF HostControl
<1>6. CASE HostJournal
  BY <1>6, WorkerIdle DEF HostJournal
<1>7. CASE UNCHANGED vars
  BY <1>7, WorkerIdle DEF vars
<1> QED BY <1>1, <1>2, <1>3, <1>4, <1>5, <1>6, <1>7 DEF WorkerNext

\* The inductive invariant of the worker.
THEOREM WorkerInductive == Spec => []WorkerInv
<1>1. Init => WorkerInv
  BY WorkerInitInv DEF Init
<1>2. WorkerInv /\ [WorkerNext]_vars => WorkerInv'
  BY WorkerStep
<1> QED BY <1>1, <1>2, PTL DEF Spec

\* Type correctness of the queue, the receipts and the threads.
THEOREM WorkerTyped == Spec => []WorkerTypeOK
<1>1. WorkerInv => WorkerTypeOK
  BY DEF WorkerInv
<1> QED BY <1>1, WorkerInductive, PTL

\* Both quotas are exact, and every admitted write has one live owner and at
\* most one execution, whatever the threads, clients and host do.
THEOREM WorkerAlwaysSound == Spec => []WorkerSound
<1>1. ASSUME WorkerInv PROVE WorkerSound
  <2> USE WorkerAssumption, <1>1 DEF WorkerInv
  <2>1. BytesExact
    <3> DEFINE n == Cardinality(ReceiptIds)
    <3>1. n \in Nat /\ \A i \in 1 .. n : Charges[i] = Charge(ReceiptOrder[i])
      BY ReceiptsNumbered DEF Charges
    <3>2. PICK sum : Sums(n, Charges, sum) /\ pending_bytes = sum[n]
      BY DEF BytesSummed
    <3>3. pending_bytes \in 0 .. MaxPendingBytes
      BY DEF WorkerTypeOK
    <3>4. \A i \in 0 .. n : sum[i] \in Nat /\ sum[i] <= MaxPendingBytes
      BY <3>1, <3>2, <3>3 DEF Sums
    <3>5. sum \in [0 .. n -> 0 .. MaxPendingBytes]
      BY <3>2, <3>4 DEF Sums
    <3> QED BY <3>1, <3>2, <3>5 DEF BytesExact, Sums
  <2>2. NoStrandedWrite
    <3>1. ASSUME NEW r \in Unfinished
          PROVE  \/ \E i \in DOMAIN queued : queued[i] = r
                 \/ active = r
                 \/ \E t \in ThreadIds : Alive(t) /\
                      \E i \in DOMAIN threads[t].settling : threads[t].settling[i] = r
      <4>1. \/ r = active \/ r \in Owned(queued)
            \/ \E t \in ThreadIds : r \in Owned(threads[t].settling)
        BY DEF Unfinished, OwnersKnown, Settled
      <4>2. ASSUME NEW t \in ThreadIds, r \in Owned(threads[t].settling) PROVE Alive(t)
        BY <4>2, EmptyOwns DEF Supervised, ThreadShape, Alive
      <4> QED BY <4>1, <4>2 DEF Owned
    <3>2. (queued # <<>> \/ active # NoReceipt) => \E t \in ThreadIds : Alive(t)
      BY DEF Supervised, Drained
    <3> QED BY <3>1, <3>2 DEF NoStrandedWrite
  <2>3. SingleWriter
    BY DEF Supervised
  <2>4. NeverReplayed
    BY DEF NeverReplayed, AttemptKnown, AttemptSound
  <2>5. SupervisorDrained
    BY DEF SupervisorDrained, Supervised, SingleWriter, Drained, Alive
  <2> QED BY <2>1, <2>2, <2>3, <2>4, <2>5 DEF WorkerSound, WritesOwned
<1> QED BY <1>1, WorkerInductive, PTL

-----------------------------------------------------------------------------
\* No thread of a closed and joined worker runs, and no receipt is left.
LEMMA ClosedIsQuiet ==
  ASSUME WorkerInv, ClosedVerdict
  PROVE  Live = {} /\ \A t \in ThreadIds : ~Alive(t)
<1>1. IsFiniteSet(Live)
  BY WorkerAssumption, FS_Subset DEF Live
<1>2. Live = {}
  BY <1>1, FS_EmptySet DEF WorkerInv, QuotaExact, ClosedVerdict
<1> QED BY <1>2, WorkerAssumption DEF WorkerInv, ClosedVerdict, HandleExited, Supervised, SingleWriter

\* Published results and a completed close are final.
THEOREM WorkerNeverReopens == Spec => NothingReopened
<1> DEFINE Kept(r) ==
      r \in Live /\ receipts[r].phase = "Completed" /\ receipts'[r] # NoReceipt
        => /\ receipts'[r].phase = "Completed"
           /\ receipts'[r].revision = receipts[r].revision
           /\ receipts'[r].error = receipts[r].error
<1>1. ASSUME WorkerInv, [WorkerNext]_vars, NEW r \in ReceiptIds PROVE Kept(r)
  <2> USE <1>1, WorkerAssumption
  <2>1. receipts \in [ReceiptIds -> Receipt \cup {NoReceipt}]
    BY DEF WorkerInv, WorkerTypeOK
  <2>2. CASE UNCHANGED receipts
    BY <2>2
  <2>3. ASSUME NEW t \in ThreadIds, MarkWriting(t) \/ ExecuteWrite(t) \/ PublishWrite(t)
        PROVE  Kept(r)
    <3>1. threads[t].receipt = active /\ active \in ReceiptIds
      BY <2>3, ActiveOwned DEF MarkWriting, ExecuteWrite, PublishWrite
    <3>2. receipts[active].phase # "Completed"
      BY <2>3, <3>1 DEF WorkerInv, AttemptKnown, AttemptAt, MarkWriting, ExecuteWrite, PublishWrite
    <3>3. \A q \in ReceiptIds \ {active} : receipts'[q] = receipts[q]
      BY <2>1, <2>3, <3>1 DEF MarkWriting, ExecuteWrite, PublishWrite
    <3> QED BY <3>1, <3>2, <3>3
  <2>4. ASSUME NEW t \in ThreadIds, ReleaseWrite(t) PROVE Kept(r)
    BY <2>1, <2>4 DEF ReleaseWrite, Release
  <2>5. ASSUME NEW t \in ThreadIds, SettleWrite(t) PROVE Kept(r)
    BY <2>1, <2>5 DEF SettleWrite, Release, Completed
  <2>6. ASSUME NEW q \in ReceiptIds, DropReceipt(q) PROVE Kept(r)
    <3>1. CASE r = q /\ receipts'[r] # NoReceipt
      BY <2>1, <2>6, <3>1 DEF DropReceipt, Release, Receipt
    <3>2. CASE r # q
      BY <2>1, <2>6, <3>2 DEF DropReceipt, Release
    <3> QED BY <3>1, <3>2
  <2>7. CASE Submit
    <3>1. PICK q \in ReceiptIds : receipts[q] = NoReceipt /\ \A u \in ReceiptIds \ {q} : receipts'[u] = receipts[u]
      BY <2>1, <2>7 DEF Submit, submit_request
    <3> QED BY <3>1 DEF Live
  <2> HIDE DEF Kept
  <2> QED BY <2>2, <2>3, <2>4, <2>5, <2>6, <2>7
          DEF WorkerNext, WriterStep, TakeWrite, StopThread, FailWorker, EndThread, Panic, PanicWrite, Drop, HostControl,
              request_close, poll_closed, recover_worker, HostJournal, workerVars, vars
<1>2. ASSUME WorkerInv, [WorkerNext]_vars, close_requested, ClosedVerdict
      PROVE  close_requested' /\ ClosedVerdict'
  <2> USE <1>2
  <2>1. Live = {} /\ \A t \in ThreadIds : ~Alive(t)
    BY ClosedIsQuiet
  <2>2. \A t \in ThreadIds : ~WriterStep(t) /\ ~PanicWrite(t)
    BY <2>1 DEF WriterStep, PanicWrite, TakeWrite, StopThread, MarkWriting, ExecuteWrite, PublishWrite,
                ReleaseWrite, FailWorker, SettleWrite, EndThread, Alive
  <2>3. ~Submit /\ ~Drop
    BY <2>1 DEF Submit, submit_request, SubmitError, admission_closed, Drop, DropReceipt, Live
  <2>4. \/ UNCHANGED workerVars \/ request_close \/ poll_closed
    BY <2>2, <2>3 DEF WorkerNext, Panic, HostControl, HostJournal, vars, recover_worker
  <2> QED BY <2>4 DEF workerVars, request_close, poll_closed, ClosedVerdict, HandleExited, admission_closed, Alive
<1> HIDE DEF Kept
<1>3. WorkerInv /\ [WorkerNext]_vars =>
        [/\ \A r \in ReceiptIds : Kept(r)
         /\ close_requested /\ ClosedVerdict => close_requested' /\ ClosedVerdict']_vars
  BY <1>1, <1>2
<1> QED BY <1>3, WorkerInductive, PTL DEF Spec, NothingReopened, Kept

-----------------------------------------------------------------------------
(* The worker implements the writer that its clients rely on.              *)

\* The writer's journal is the worker's journal.
LEMMA SameJournal ==
  /\ Writer!journalVars = journalVars /\ Writer!Errors = Errors
  /\ Writer!JournalInit <=> JournalInit
  /\ \A o, previous, s, again, e :
       write_checkpoint(o, previous, s, again, e) => Writer!write_checkpoint(o, previous, s, again, e)
  /\ Reconcile => Writer!Reconcile
  /\ Forget => Writer!Forget
  /\ recover_storage => Writer!recover_storage
<1> USE DEF Writer!journalVars, journalVars, Writer!Errors, Errors,
       Writer!Transaction, Transaction, Writer!Candidate, Candidate, Writer!Stored, Stored
<1>1. Writer!JournalInit <=> JournalInit
  BY DEF Writer!JournalInit, JournalInit
<1>2. ASSUME NEW o, NEW previous, NEW s, NEW again, NEW e,
             write_checkpoint(o, previous, s, again, e)
      PROVE  Writer!write_checkpoint(o, previous, s, again, e)
  <2>1. Writer!validate_finalization(s) = validate_finalization(s)
    BY Zenon DEF Writer!validate_finalization, validate_finalization,
         Writer!is_terminal, is_terminal, Writer!TerminalPhases, TerminalPhases,
         Writer!FinalResult, FinalResult, Writer!TerminalPhase, TerminalPhase,
         Writer!NoFinalization, NoFinalization
  <2>2. Writer!validate_finalization_successor(s, rows[o].snapshot)
          = validate_finalization_successor(s, rows[o].snapshot)
    BY Zenon DEF Writer!validate_finalization_successor, validate_finalization_successor,
         Writer!NoFinalization, NoFinalization
  <2>3. Writer!WriteVerdict(o, previous, s, again) = WriteVerdict(o, previous, s, again)
    BY <2>2, Zenon DEF Writer!WriteVerdict, WriteVerdict, Writer!InsertVerdict, InsertVerdict,
         Writer!ReplaceVerdict, ReplaceVerdict, Writer!Cardinality, Cardinality
  <2> QED BY <1>2, <2>1, <2>3 DEF Writer!write_checkpoint, write_checkpoint
<1>3. ASSUME Reconcile PROVE Writer!Reconcile
  BY <1>3, Zenon DEF Writer!Reconcile, Reconcile, Writer!reconcile, reconcile,
         Writer!ReconcileVerdict, ReconcileVerdict, Writer!validate_reconciliation, validate_reconciliation,
         Writer!is_terminal, is_terminal, Writer!TerminalPhases, TerminalPhases,
         Writer!merge_effects, merge_effects, Writer!EvidenceOrder, EvidenceOrder,
         Writer!AnyEffectOpen, AnyEffectOpen
<1>4. ASSUME Forget PROVE Writer!Forget
  BY <1>4, Zenon DEF Writer!Forget, Forget, Writer!forget, forget, Writer!ForgetVerdict, ForgetVerdict,
         Writer!Unresolved, Unresolved, Writer!is_terminal, is_terminal, Writer!TerminalPhases, TerminalPhases
<1>5. ASSUME recover_storage PROVE Writer!recover_storage
  BY <1>5 DEF Writer!recover_storage, recover_storage
<1> QED BY <1>1, <1>2, <1>3, <1>4, <1>5

\* The view of a receipt as a function of the receipt alone.
Stage(x) == IF x.phase = "Completed" THEN "settled"
            ELSE IF x.executions = 0 THEN "queued" ELSE "executed"
ViewRecord(op, previous, snapshot, again, stage, revision, error, held) ==
  [op |-> op, previous |-> previous, snapshot |-> snapshot, again |-> again,
   stage |-> stage, revision |-> revision, error |-> error, held |-> held]
ViewOf(x) ==
  IF x = NoReceipt \/ (x.phase = "Completed" /\ ~x.held) THEN NoReceipt
  ELSE ViewRecord(x.op, x.previous, x.snapshot, x.again, Stage(x),
         IF x.phase = "Completed" THEN x.revision ELSE x.written.revision,
         IF x.phase = "Completed" THEN x.error ELSE x.written.error, x.held)
Views == [r \in ReceiptIds |-> ClientView(r)]

\* The refinement mapping in terms of ViewOf.
LEMMA ViewsMapped ==
  /\ Views = [r \in ReceiptIds |-> ViewOf(receipts[r])]
  /\ Views' = [r \in ReceiptIds |-> ViewOf(receipts'[r])]
<1>1. ASSUME NEW r PROVE ClientView(r) = ViewOf(receipts[r])
  BY DEF ClientView, ViewOf, ViewRecord, Stage
<1>2. ASSUME NEW r PROVE ClientView(r)' = ViewOf(receipts'[r])
  BY DEF ClientView, ViewOf, ViewRecord, Stage
<1> QED BY <1>1, <1>2 DEF Views

Advanced(view, stage, revision, error) ==
  [view EXCEPT !.stage = stage, !.revision = revision, !.error = error]

\* What a transaction or a completion changes in a view.
LEMMA ViewUpdated ==
  ASSUME NEW op, NEW previous, NEW snapshot, NEW again, NEW stage, NEW revision, NEW error,
         NEW held, NEW stage2, NEW revision2, NEW error2
  PROVE  Advanced(ViewRecord(op, previous, snapshot, again, stage, revision, error, held),
                  stage2, revision2, error2)
         = ViewRecord(op, previous, snapshot, again, stage2, revision2, error2, held)
<1>1. [ViewRecord(op, previous, snapshot, again, stage, revision, error, held) EXCEPT !.stage = stage2]
      = ViewRecord(op, previous, snapshot, again, stage2, revision, error, held)
  BY DEF ViewRecord
<1>2. [ViewRecord(op, previous, snapshot, again, stage2, revision, error, held) EXCEPT !.revision = revision2]
      = ViewRecord(op, previous, snapshot, again, stage2, revision2, error, held)
  BY DEF ViewRecord
<1>3. [ViewRecord(op, previous, snapshot, again, stage2, revision2, error, held) EXCEPT !.error = error2]
      = ViewRecord(op, previous, snapshot, again, stage2, revision2, error2, held)
  BY DEF ViewRecord
<1> QED BY <1>1, <1>2, <1>3, Zenon DEF Advanced

Dropped(view) == [view EXCEPT !.held = FALSE]

\* What a dropped observer changes in a view.
LEMMA ViewDropped ==
  ASSUME NEW op, NEW previous, NEW snapshot, NEW again, NEW stage, NEW revision, NEW error, NEW held
  PROVE  Dropped(ViewRecord(op, previous, snapshot, again, stage, revision, error, held))
         = ViewRecord(op, previous, snapshot, again, stage, revision, error, FALSE)
<1>1. ASSUME NEW b
      PROVE  [ViewRecord(op, previous, snapshot, again, stage, revision, error, held) EXCEPT !.held = b]
             = ViewRecord(op, previous, snapshot, again, stage, revision, error, b)
  BY DEF ViewRecord
<1> QED BY <1>1, Zenon DEF Dropped

\* A visible view is a view, and so is not the null receipt.
LEMMA ViewTyped ==
  ASSUME NEW x \in Receipt, ~(x.phase = "Completed" /\ ~x.held)
  PROVE  /\ ViewOf(x) \in View /\ ViewOf(x) # NoReceipt
         /\ ViewOf(x).op = x.op /\ ViewOf(x).previous = x.previous
         /\ ViewOf(x).snapshot = x.snapshot /\ ViewOf(x).again = x.again
         /\ ViewOf(x).stage = Stage(x) /\ ViewOf(x).held = x.held
         /\ ViewOf(x).revision = IF x.phase = "Completed" THEN x.revision ELSE x.written.revision
         /\ ViewOf(x).error = IF x.phase = "Completed" THEN x.error ELSE x.written.error
         /\ ViewOf(x) = ViewRecord(x.op, x.previous, x.snapshot, x.again, Stage(x),
              ViewOf(x).revision, ViewOf(x).error, x.held)
<1>1. /\ x # NoReceipt /\ NoReceipt \notin View
      /\ x.op \in Operations /\ x.previous \in 0 .. MaxRevision /\ x.snapshot \in Snapshots
      /\ x.again \in BOOLEAN /\ x.held \in BOOLEAN
      /\ Stage(x) \in {"queued", "executed", "settled"}
      /\ (IF x.phase = "Completed" THEN x.revision ELSE x.written.revision) \in 0 .. MaxRevision
      /\ (IF x.phase = "Completed" THEN x.error ELSE x.written.error) \in WriteError
  BY WorkerAssumption DEF Receipt, Stage, WriteError
<1> DEFINE revision == IF x.phase = "Completed" THEN x.revision ELSE x.written.revision
           error == IF x.phase = "Completed" THEN x.error ELSE x.written.error
<1>2. ViewOf(x) = ViewRecord(x.op, x.previous, x.snapshot, x.again, Stage(x), revision, error, x.held)
  BY <1>1 DEF ViewOf
<1>3. revision \in 0 .. MaxRevision /\ error \in WriteError
  BY <1>1
<1> HIDE DEF revision, error
<1>4. ViewOf(x) \in View
  BY <1>1, <1>2, <1>3 DEF View, ViewRecord
<1>5. /\ ViewOf(x).op = x.op /\ ViewOf(x).previous = x.previous
      /\ ViewOf(x).snapshot = x.snapshot /\ ViewOf(x).again = x.again
      /\ ViewOf(x).stage = Stage(x) /\ ViewOf(x).held = x.held
      /\ ViewOf(x).revision = revision /\ ViewOf(x).error = error
  BY <1>2 DEF ViewRecord
<1> QED BY <1>1, <1>2, <1>4, <1>5, Zenon DEF revision, error

\* One receipt changes, so one view changes.
LEMMA OneViewChanges ==
  ASSUME NEW r \in ReceiptIds, \A q \in ReceiptIds \ {r} : receipts'[q] = receipts[q]
  PROVE  Views' = [Views EXCEPT ![r] = ViewOf(receipts'[r])]
  BY ViewsMapped

\* A step that no client can tell from a stutter.
LEMMA HiddenStep ==
  ASSUME NEW r \in ReceiptIds, \A q \in ReceiptIds \ {r} : receipts'[q] = receipts[q],
         ViewOf(receipts'[r]) = ViewOf(receipts[r])
  PROVE  Views' = Views
  BY ViewsMapped

\* The transaction is the writer's transaction of the same attempt.
LEMMA ExecuteRefines ==
  ASSUME WorkerInv, NEW t \in ThreadIds, ExecuteWrite(t)
  PROVE  \E r \in ReceiptIds : Writer!ExecuteAttempt(r)
<1> DEFINE x == receipts[active]
<1>1. active \in ReceiptIds /\ threads[t].receipt = active /\ x \in Receipt
  BY ActiveOwned DEF ExecuteWrite
<1>2. AttemptSound(x) /\ x.phase = "Writing" /\ x.executions = 0
  BY <1>1, ActiveOwned DEF WorkerInv, AttemptKnown, AttemptAt, ExecuteWrite
<1>3. PICK e \in Errors :
        /\ write_checkpoint(x.op, x.previous, x.snapshot, x.again, e)
        /\ receipts' = [receipts EXCEPT
            ![active].executions = @ + 1,
            ![active].written = [revision |-> IF e = "none" THEN x.previous + 1 ELSE 0, error |-> e]]
  BY <1>1 DEF ExecuteWrite
<1> DEFINE w == [revision |-> IF e = "none" THEN x.previous + 1 ELSE 0, error |-> e]
           y == [x EXCEPT !.executions = 1, !.written = w]
<1>4. receipts'[active] = y /\ \A q \in ReceiptIds \ {active} : receipts'[q] = receipts[q]
  <2>1. receipts \in [ReceiptIds -> Receipt \cup {NoReceipt}]
    BY DEF WorkerInv, WorkerTypeOK
  <2>2. receipts' = [receipts EXCEPT ![active].executions = @ + 1, ![active].written = w]
    BY <1>3
  <2> HIDE DEF w
  <2> QED BY <1>1, <1>2, <2>1, <2>2 DEF Receipt
<1>5. /\ y \in Receipt /\ y.phase = "Writing" /\ y.executions = 1 /\ y.written = w
      /\ y.op = x.op /\ y.previous = x.previous /\ y.snapshot = x.snapshot
      /\ y.again = x.again /\ y.held = x.held
  <2>1. w \in [revision : 0 .. MaxRevision, error : Errors]
    BY <1>1, <1>2, JournalAssumption DEF Receipt, AttemptSound
  <2> HIDE DEF w
  <2> QED BY <1>1, <1>2, <2>1 DEF Receipt
<1>6. /\ ViewOf(x) # NoReceipt /\ ViewOf(x).stage = "queued"
      /\ ViewOf(x).op = x.op /\ ViewOf(x).previous = x.previous
      /\ ViewOf(x).snapshot = x.snapshot /\ ViewOf(x).again = x.again
      /\ ViewOf(x) = ViewRecord(x.op, x.previous, x.snapshot, x.again, "queued",
              ViewOf(x).revision, ViewOf(x).error, x.held)
  <2>1. Stage(x) = "queued"
    BY <1>2 DEF Stage
  <2> QED BY <1>1, <1>2, <2>1, ViewTyped
<1>7. ViewOf(y) = ViewRecord(x.op, x.previous, x.snapshot, x.again, "executed", w.revision, e, x.held)
  <2>1. w.error = e
    OBVIOUS
  <2> HIDE DEF y, w, x
  <2>2. Stage(y) = "executed"
    BY <1>5 DEF Stage
  <2> QED BY <1>5, <2>1, <2>2, WorkerAssumption DEF ViewOf
<1>8. ViewOf(y) = [ViewOf(x) EXCEPT !.stage = "executed", !.revision = w.revision, !.error = e]
  <2> HIDE DEF x, y, w
  <2>1. PICK revision, error :
          ViewOf(x) = ViewRecord(x.op, x.previous, x.snapshot, x.again, "queued", revision, error, x.held)
    BY <1>6
  <2>2. Advanced(ViewRecord(x.op, x.previous, x.snapshot, x.again, "queued", revision, error, x.held),
                 "executed", w.revision, e)
        = ViewRecord(x.op, x.previous, x.snapshot, x.again, "executed", w.revision, e, x.held)
    BY ViewUpdated
  <2> QED BY <1>7, <2>1, <2>2, Zenon DEF Advanced
<1>9. /\ Views[active] = ViewOf(x) /\ Views' = [Views EXCEPT ![active] = ViewOf(y)]
      /\ w.revision = IF e = "none" THEN ViewOf(x).previous + 1 ELSE 0
  BY <1>1, <1>4, <1>6, OneViewChanges, ViewsMapped
<1>10. Writer!write_checkpoint(ViewOf(x).op, ViewOf(x).previous, ViewOf(x).snapshot, ViewOf(x).again, e)
  BY <1>3, <1>6, SameJournal
<1> HIDE DEF x, y, w
<1>11. /\ Views[active] # NoReceipt /\ Views[active].stage = "queued"
       /\ Writer!write_checkpoint(Views[active].op, Views[active].previous,
                                  Views[active].snapshot, Views[active].again, e)
       /\ Views' = [Views EXCEPT ![active] =
            [Views[active] EXCEPT !.stage = "executed",
                                  !.revision = IF e = "none" THEN Views[active].previous + 1 ELSE 0,
                                  !.error = e]]
  BY <1>6, <1>8, <1>9, <1>10, Zenon
<1>12. Writer!ExecuteAttempt(active)
  BY <1>11, SameJournal, Zenon DEF Writer!ExecuteAttempt, Views
<1> QED BY <1>1, <1>12

\* A completion is the writer's settlement of the same attempt.
LEMMA CompletedView ==
  ASSUME NEW x \in Receipt, x.phase # "Completed",
         NEW revision \in 0 .. MaxRevision, NEW error \in WriteError
  PROVE  /\ Completed(x, revision, error) \in Receipt
         /\ Completed(x, revision, error).held = x.held
         /\ Completed(x, revision, error).phase = "Completed"
         /\ ViewOf(x) # NoReceipt /\ ViewOf(x).held = x.held /\ ViewOf(x).stage = Stage(x)
         /\ ViewOf(Completed(x, revision, error)) =
              IF x.held THEN [ViewOf(x) EXCEPT !.stage = "settled", !.revision = revision, !.error = error]
              ELSE NoReceipt
<1> DEFINE y == Completed(x, revision, error)
<1>1. y = [x EXCEPT !.phase = "Completed", !.revision = revision, !.error = error, !.written = NotWritten]
  BY DEF Completed
<1>2. NotWritten \in [revision : 0 .. MaxRevision, error : Errors] /\ "Completed" \in WritePhase
  BY JournalAssumption DEF NotWritten, Errors, WritePhase
<1> HIDE DEF y
<1>3. /\ y \in Receipt /\ y.phase = "Completed" /\ y.revision = revision /\ y.error = error
      /\ y.op = x.op /\ y.previous = x.previous /\ y.snapshot = x.snapshot
      /\ y.again = x.again /\ y.held = x.held
  BY <1>1, <1>2 DEF Receipt
<1>4. /\ ViewOf(x) # NoReceipt /\ ViewOf(x).held = x.held /\ ViewOf(x).stage = Stage(x)
      /\ ViewOf(x) = ViewRecord(x.op, x.previous, x.snapshot, x.again, Stage(x),
              ViewOf(x).revision, ViewOf(x).error, x.held)
  BY ViewTyped
<1>5. CASE ~x.held
  BY <1>3, <1>4, <1>5 DEF ViewOf, y
<1>6. CASE x.held
  <2>1. Stage(y) = "settled"
    BY <1>3 DEF Stage
  <2>2. ViewOf(y) = ViewRecord(x.op, x.previous, x.snapshot, x.again, "settled", revision, error, x.held)
    BY <1>3, <1>6, <2>1, WorkerAssumption DEF ViewOf
  <2>3. ViewOf(y) = [ViewOf(x) EXCEPT !.stage = "settled", !.revision = revision, !.error = error]
    <3>1. PICK rev, err :
            ViewOf(x) = ViewRecord(x.op, x.previous, x.snapshot, x.again, Stage(x), rev, err, x.held)
      BY <1>4
    <3>2. Advanced(ViewRecord(x.op, x.previous, x.snapshot, x.again, Stage(x), rev, err, x.held),
                   "settled", revision, error)
          = ViewRecord(x.op, x.previous, x.snapshot, x.again, "settled", revision, error, x.held)
      BY ViewUpdated
    <3> QED BY <2>2, <3>1, <3>2, Zenon DEF Advanced
  <2> QED BY <1>3, <1>4, <1>6, <2>3 DEF y
<1> QED BY <1>5, <1>6

\* The published result is the writer's settlement with what storage returned.
LEMMA PublishRefines ==
  ASSUME WorkerInv, NEW t \in ThreadIds, PublishWrite(t), UNCHANGED journalVars
  PROVE  \E r \in ReceiptIds : Writer!SettleAttempt(r)
<1> DEFINE x == receipts[active]
           y == Completed(x, x.written.revision, x.written.error)
<1>1. active \in ReceiptIds /\ threads[t].receipt = active /\ x \in Receipt
  BY ActiveOwned DEF PublishWrite
<1>2. x.phase = "Writing" /\ x.executions = 1
  BY <1>1, ActiveOwned DEF WorkerInv, AttemptKnown, AttemptAt, PublishWrite
<1>3. receipts'[active] = y /\ \A q \in ReceiptIds \ {active} : receipts'[q] = receipts[q]
  BY <1>1 DEF PublishWrite, WorkerInv, WorkerTypeOK
<1>4. /\ x.written.revision \in 0 .. MaxRevision /\ x.written.error \in WriteError
      /\ ViewOf(x).revision = x.written.revision /\ ViewOf(x).error = x.written.error
      /\ Stage(x) = "executed"
  BY <1>1, <1>2, ViewTyped DEF Receipt, WriteError, Stage
<1>5. /\ ViewOf(x) # NoReceipt /\ ViewOf(x).held = x.held /\ ViewOf(x).stage = "executed"
      /\ ViewOf(y) = IF x.held THEN [ViewOf(x) EXCEPT !.stage = "settled",
                                       !.revision = x.written.revision, !.error = x.written.error]
                     ELSE NoReceipt
  <2> HIDE DEF x
  <2> QED BY <1>1, <1>2, <1>4, CompletedView
<1>6. /\ Views[active] = ViewOf(x)
      /\ Views' = [Views EXCEPT ![active] = ViewOf(y)]
  BY <1>1, <1>3, OneViewChanges, ViewsMapped
<1> HIDE DEF x, y
<1>7. /\ Views[active] # NoReceipt /\ Views[active].stage = "executed"
      /\ Views' = [Views EXCEPT ![active] =
            IF Views[active].held
            THEN [Views[active] EXCEPT !.stage = "settled", !.revision = Views[active].revision,
                                       !.error = Views[active].error]
            ELSE NoReceipt]
  BY <1>4, <1>5, <1>6, Zenon
<1>8. Writer!SettleAttempt(active)
  BY <1>7, Zenon DEF Writer!SettleAttempt, Views, Writer!journalVars, journalVars
<1> QED BY <1>1, <1>8

\* A supervisor's completion settles the attempt with its error, or changes
\* nothing that a client can see.
LEMMA SettleRefines ==
  ASSUME WorkerInv, NEW t \in ThreadIds, SettleWrite(t), UNCHANGED journalVars
  PROVE  Views' = Views \/ \E r \in ReceiptIds : Writer!SettleAttempt(r)
<1> DEFINE s == threads[t].settling
           r == Head(s)
           x == receipts[r]
           y == Completed(x, 0, "Supervisor")
<1>1. s \in Seq(ReceiptIds) /\ s # <<>> /\ Owned(s) \subseteq Live
  BY DEF SettleWrite, WorkerInv, WorkerTypeOK, Thread, OwnersKnown
<1>2. r \in Live /\ r \in ReceiptIds
  <2> HIDE DEF s
  <2> QED BY <1>1, PopOwns
<1>3. x \in Receipt
  BY <1>2 DEF Live, WorkerInv, WorkerTypeOK
<1>4. receipts'[r] = (IF ~x.held THEN NoReceipt ELSE y) /\ \A q \in ReceiptIds \ {r} : receipts'[q] = receipts[q]
  <2>1. Release(r, y, ~x.held)
    BY DEF SettleWrite
  <2> HIDE DEF x, y, r
  <2> QED BY <1>2, <2>1 DEF Release, WorkerInv, WorkerTypeOK
<1>5. CASE x.phase = "Completed"
  <2>1. ViewOf(receipts'[r]) = ViewOf(receipts[r])
    <3>1. y = x
      BY <1>5 DEF Completed
    <3> HIDE DEF y, r
    <3> QED BY <1>4, <1>5, <3>1 DEF ViewOf
  <2> HIDE DEF r
  <2> QED BY <1>2, <1>4, <2>1, HiddenStep
<1>6. CASE x.phase # "Completed"
  <2>1. /\ 0 \in 0 .. MaxRevision /\ "Supervisor" \in WriteError
        /\ Stage(x) \in {"queued", "executed"}
    BY <1>6, JournalAssumption DEF WriteError, Stage
  <2>2. /\ y \in Receipt /\ y.held = x.held /\ y.phase = "Completed"
        /\ ViewOf(x) # NoReceipt /\ ViewOf(x).held = x.held /\ ViewOf(x).stage = Stage(x)
        /\ ViewOf(y) = IF x.held THEN [ViewOf(x) EXCEPT !.stage = "settled",
                                         !.revision = 0, !.error = "Supervisor"]
                       ELSE NoReceipt
    <3> HIDE DEF x
    <3> QED BY <1>3, <1>6, <2>1, CompletedView
  <2> HIDE DEF x, y
  <2>3. ViewOf(receipts'[r]) = IF x.held THEN [ViewOf(x) EXCEPT !.stage = "settled",
                                         !.revision = 0, !.error = "Supervisor"]
                               ELSE NoReceipt
    <3>1. ViewOf(NoReceipt) = NoReceipt
      BY DEF ViewOf
    <3> HIDE DEF r
    <3> QED BY <1>4, <2>2, <3>1
  <2>4. Views[r] = ViewOf(x) /\ Views' = [Views EXCEPT ![r] = ViewOf(receipts'[r])]
    <3>1. Views' = [Views EXCEPT ![r] = ViewOf(receipts'[r])]
      <4> HIDE DEF r
      <4> QED BY <1>2, <1>4, OneViewChanges
    <3>2. Views[r] = ViewOf(x)
      <4>1. x = receipts[r]
        BY DEF x
      <4> HIDE DEF r
      <4> QED BY <1>2, <4>1, ViewsMapped
    <3> QED BY <3>1, <3>2
  <2> HIDE DEF r
  <2>5. /\ Views[r] # NoReceipt /\ Views[r].stage \in {"queued", "executed"}
        /\ Views' = [Views EXCEPT ![r] =
            IF Views[r].held
            THEN [Views[r] EXCEPT !.stage = "settled", !.revision = 0, !.error = "Supervisor"]
            ELSE NoReceipt]
    BY <2>1, <2>2, <2>3, <2>4, Zenon
  <2>6. Writer!SettleAttempt(r)
    BY <2>5, Zenon DEF Writer!SettleAttempt, Views, Writer!journalVars, journalVars
  <2> QED BY <1>2, <2>6
<1> QED BY <1>5, <1>6

\* An admitted write is a new attempt.
LEMMA SubmitRefines ==
  ASSUME WorkerInv, NEW r \in ReceiptIds, NEW q \in Requests,
         submit_request(r, q.op, q.previous, q.snapshot, q.again), UNCHANGED journalVars
  PROVE  Writer!SubmitAttempt(r, q.op, q.previous, q.snapshot, q.again)
<1> DEFINE x == [op |-> q.op, previous |-> q.previous, snapshot |-> q.snapshot,
                 again |-> q.again, bytes |-> Size(q.snapshot), phase |-> "Queued", revision |-> 0,
                 error |-> "none", held |-> TRUE, executions |-> 0, written |-> NotWritten]
<1>1. receipts[r] = NoReceipt /\ receipts' = [receipts EXCEPT ![r] = x]
  BY DEF submit_request
<1>2. receipts'[r] = x /\ \A u \in ReceiptIds \ {r} : receipts'[u] = receipts[u]
  <2> HIDE DEF x
  <2> QED BY <1>1 DEF WorkerInv, WorkerTypeOK
<1>3. /\ x \in Receipt /\ x.op = q.op /\ x.previous = q.previous /\ x.snapshot = q.snapshot
      /\ x.again = q.again /\ x.held = TRUE /\ Stage(x) = "queued"
      /\ x.phase # "Completed" /\ x.written.revision = 0 /\ x.written.error = "none"
  <2>1. /\ q.op \in Operations /\ q.snapshot \in Snapshots /\ q.again \in BOOLEAN
        /\ q.previous \in 0 .. MaxRevision /\ Size(q.snapshot) \in Nat
        /\ "Queued" \in WritePhase /\ "none" \in WriteError /\ 0 \in 0 .. MaxRevision
        /\ NotWritten \in [revision : 0 .. MaxRevision, error : Errors]
    BY WorkerAssumption, JournalAssumption DEF NotWritten, WriteError, WritePhase, Errors
  <2>2. x \in Receipt
    BY <2>1 DEF Receipt
  <2> QED BY <2>2 DEF NotWritten, Stage
<1> HIDE DEF x
<1>4. ViewOf(x) = ViewRecord(q.op, q.previous, q.snapshot, q.again, "queued", 0, "none", TRUE)
  BY <1>3, WorkerAssumption DEF ViewOf
<1>5. Views[r] = NoReceipt /\ Views' = [Views EXCEPT ![r] = ViewOf(x)]
  BY <1>1, <1>2, OneViewChanges, ViewsMapped DEF ViewOf
<1>6. /\ Views[r] = NoReceipt
      /\ Views' = [Views EXCEPT ![r] = Writer!NewAttempt(q.op, q.previous, q.snapshot, q.again)]
  BY <1>4, <1>5, Zenon DEF Writer!NewAttempt, ViewRecord
<1> QED BY <1>6, Zenon DEF Writer!SubmitAttempt, Views, Writer!journalVars, journalVars

\* A dropped receipt is a dropped attempt.
LEMMA DropRefines ==
  ASSUME WorkerInv, NEW r \in ReceiptIds, DropReceipt(r), UNCHANGED journalVars
  PROVE  Writer!DropAttempt(r)
<1> DEFINE x == receipts[r]
           y == [x EXCEPT !.held = FALSE]
<1>1. r \in Live /\ x \in Receipt /\ x.held
  BY DEF DropReceipt, Live, WorkerInv, WorkerTypeOK
<1>2. receipts'[r] = (IF ~WorkerOwns(r) THEN NoReceipt ELSE y) /\ \A q \in ReceiptIds \ {r} : receipts'[q] = receipts[q]
  BY DEF DropReceipt, Release, WorkerInv, WorkerTypeOK
<1>3. x.phase # "Completed" => WorkerOwns(r)
  BY <1>1 DEF WorkerInv, OwnersKnown, Settled, WorkerOwns, Owned
<1>4. /\ ViewOf(x) # NoReceipt /\ ViewOf(x).held = x.held /\ ViewOf(x).stage = Stage(x)
      /\ ViewOf(x) = ViewRecord(x.op, x.previous, x.snapshot, x.again, Stage(x),
              ViewOf(x).revision, ViewOf(x).error, x.held)
      /\ x.phase # "Completed" => ViewOf(x).revision = x.written.revision /\ ViewOf(x).error = x.written.error
  BY <1>1, ViewTyped
<1>5. /\ y \in Receipt /\ y.phase = x.phase /\ y.held = FALSE /\ y.written = x.written
      /\ y.op = x.op /\ y.previous = x.previous /\ y.snapshot = x.snapshot
      /\ y.again = x.again /\ y.executions = x.executions
  BY <1>1 DEF Receipt
<1>6. /\ Views[r] = ViewOf(x) /\ Views' = [Views EXCEPT ![r] = ViewOf(receipts'[r])]
  BY <1>1, <1>2, OneViewChanges, ViewsMapped
<1> HIDE DEF x, y
<1>7. ViewOf(receipts'[r]) = IF ViewOf(x).stage = "settled" THEN NoReceipt
                             ELSE [ViewOf(x) EXCEPT !.held = FALSE]
  <2>1. CASE x.phase = "Completed"
    BY <1>2, <1>4, <1>5, <2>1 DEF ViewOf, Stage
  <2>2. CASE x.phase # "Completed"
    <3>1. receipts'[r] = y /\ ViewOf(x).stage # "settled" /\ Stage(y) = Stage(x)
      BY <1>2, <1>3, <1>4, <1>5, <2>2 DEF Stage
    <3>2. ViewOf(y) = ViewRecord(x.op, x.previous, x.snapshot, x.again, Stage(x),
                                 x.written.revision, x.written.error, FALSE)
      BY <1>5, <2>2, <3>1, WorkerAssumption DEF ViewOf
    <3>3. Dropped(ViewRecord(x.op, x.previous, x.snapshot, x.again, Stage(x),
                             x.written.revision, x.written.error, x.held))
          = ViewRecord(x.op, x.previous, x.snapshot, x.again, Stage(x),
                       x.written.revision, x.written.error, FALSE)
      BY ViewDropped
    <3>4. ViewOf(x) = ViewRecord(x.op, x.previous, x.snapshot, x.again, Stage(x),
                                 x.written.revision, x.written.error, x.held)
      BY <1>4, <2>2
    <3> QED BY <3>1, <3>2, <3>3, <3>4, Zenon DEF Dropped
  <2> QED BY <2>1, <2>2
<1>8. /\ Views[r] # NoReceipt /\ Views[r].held
      /\ Views' = [Views EXCEPT ![r] = IF Views[r].stage = "settled" THEN NoReceipt
                                       ELSE [Views[r] EXCEPT !.held = FALSE]]
  BY <1>1, <1>4, <1>6, <1>7, Zenon
<1> QED BY <1>8, Zenon DEF Writer!DropAttempt, Views, Writer!journalVars, journalVars

\* Taking, marking, releasing and failing over are invisible to clients.
LEMMA HiddenWriterStep ==
  ASSUME WorkerInv, NEW t \in ThreadIds,
         \/ TakeWrite(t) \/ StopThread(t) \/ FailWorker(t) \/ EndThread(t) \/ PanicWrite(t)
         \/ MarkWriting(t) \/ ReleaseWrite(t)
  PROVE  Views' = Views
<1>1. CASE UNCHANGED receipts
  BY <1>1, ViewsMapped
<1>2. ASSUME MarkWriting(t) PROVE Views' = Views
  <2> DEFINE x == receipts[active]
             y == [x EXCEPT !.phase = "Writing"]
  <2>1. active \in ReceiptIds /\ threads[t].receipt = active /\ x \in Receipt
    BY <1>2, ActiveOwned DEF MarkWriting
  <2>2. x.phase = "Queued"
    BY <1>2, <2>1 DEF WorkerInv, AttemptKnown, AttemptAt, MarkWriting
  <2>3. receipts'[active] = y /\ \A q \in ReceiptIds \ {active} : receipts'[q] = receipts[q]
    BY <1>2, <2>1 DEF MarkWriting, WorkerInv, WorkerTypeOK
  <2>4. /\ y \in Receipt /\ y.phase = "Writing" /\ y.held = x.held /\ y.written = x.written
        /\ y.op = x.op /\ y.previous = x.previous /\ y.snapshot = x.snapshot
        /\ y.again = x.again /\ y.executions = x.executions
    BY <2>1 DEF Receipt, WritePhase
  <2> HIDE DEF y
  <2>5. ViewOf(y) = ViewOf(x)
    BY <2>1, <2>2, <2>4, WorkerAssumption DEF ViewOf, Stage
  <2> QED BY <2>1, <2>3, <2>5, HiddenStep
<1>3. ASSUME ReleaseWrite(t) PROVE Views' = Views
  <2> DEFINE x == receipts[active]
  <2>1. active \in ReceiptIds /\ threads[t].receipt = active /\ x \in Receipt
    BY <1>3, ActiveOwned DEF ReleaseWrite
  <2>2. x.phase = "Completed"
    BY <1>3, <2>1 DEF WorkerInv, AttemptKnown, AttemptAt, ReleaseWrite
  <2>3. receipts'[active] = (IF ~x.held THEN NoReceipt ELSE x) /\ \A q \in ReceiptIds \ {active} : receipts'[q] = receipts[q]
    BY <1>3, <2>1 DEF ReleaseWrite, Release, WorkerInv, WorkerTypeOK
  <2>4. ViewOf(receipts'[active]) = ViewOf(x)
    BY <2>2, <2>3 DEF ViewOf
  <2> QED BY <2>1, <2>3, <2>4, HiddenStep
<1> QED BY <1>1, <1>2, <1>3 DEF TakeWrite, StopThread, FailWorker, EndThread, PanicWrite

\* Every step of the worker is a step of the writer or a stutter.
LEMMA WorkerRefines ==
  ASSUME WorkerInv, [WorkerNext]_vars
  PROVE  Writer!WriterNext \/ (UNCHANGED journalVars /\ Views' = Views)
<1>1. ASSUME NEW t \in ThreadIds, WriterStep(t)
      PROVE  Writer!WriterNext \/ (UNCHANGED journalVars /\ Views' = Views)
  <2>1. CASE ExecuteWrite(t)
    BY <2>1, ExecuteRefines DEF Writer!WriterNext
  <2>2. CASE PublishWrite(t) /\ UNCHANGED journalVars
    BY <2>2, PublishRefines DEF Writer!WriterNext
  <2>3. CASE SettleWrite(t) /\ UNCHANGED journalVars
    BY <2>3, SettleRefines DEF Writer!WriterNext
  <2> QED BY <1>1, <2>1, <2>2, <2>3, HiddenWriterStep DEF WriterStep
<1>2. CASE Panic
  BY <1>2, HiddenWriterStep DEF Panic
<1>3. CASE Submit
  <2> DEFINE r == CHOOSE u \in ReceiptIds : receipts[u] = NoReceipt
  <2>1. r \in ReceiptIds /\ UNCHANGED journalVars
    BY <1>3 DEF Submit
  <2>2. PICK q \in Requests : submit_request(r, q.op, q.previous, q.snapshot, q.again)
    BY <1>3 DEF Submit
  <2> HIDE DEF r
  <2>3. Writer!SubmitAttempt(r, q.op, q.previous, q.snapshot, q.again)
    BY <2>1, <2>2, SubmitRefines
  <2> QED BY <2>1, <2>3 DEF Writer!WriterNext
<1>4. CASE Drop
  BY <1>4, DropRefines DEF Drop, Writer!WriterNext
<1>5. CASE HostControl
  <2>1. UNCHANGED receipts /\ UNCHANGED journalVars
    BY <1>5 DEF HostControl, request_close, poll_closed, recover_worker
  <2> QED BY <2>1, ViewsMapped
<1>6. CASE HostJournal
  <2>1. UNCHANGED receipts
    BY <1>6 DEF HostJournal, workerVars
  <2>2. Views' = Views
    BY <2>1, ViewsMapped
  <2>3. Writer!Reconcile \/ Writer!Forget \/ Writer!recover_storage
    BY <1>6, SameJournal DEF HostJournal
  <2> QED BY <2>2, <2>3, Zenon DEF Writer!WriterNext, Views
<1>7. CASE UNCHANGED vars
  <2>1. UNCHANGED receipts /\ UNCHANGED journalVars
    BY <1>7 DEF vars, workerVars
  <2> QED BY <2>1, ViewsMapped
<1> QED BY <1>1, <1>2, <1>3, <1>4, <1>5, <1>6, <1>7 DEF WorkerNext

\* The worker implements the writer: no queueing, panic, supervision or
\* recovery runs a transaction twice, publishes a result that storage did not
\* return, or loses an attempt.
THEOREM WorkerImplementsWriter == Spec => ImplementsWriter
<1>1. Init => Writer!JournalInit /\ Writer!WriterInit
  <2>1. ASSUME Init PROVE Views = [r \in ReceiptIds |-> NoReceipt]
    BY <2>1, ViewsMapped DEF Init, WorkerInit, ViewOf
  <2> QED BY <2>1, SameJournal DEF Init, Writer!WriterInit, Views
<1>2. WorkerInv /\ [WorkerNext]_vars
        => [Writer!WriterNext]_<<Writer!journalVars, [r \in ReceiptIds |-> ClientView(r)]>>
  <2>1. ASSUME WorkerInv, [WorkerNext]_vars
        PROVE  Writer!WriterNext \/ UNCHANGED <<Writer!journalVars, Views>>
    BY <2>1, WorkerRefines DEF Writer!journalVars, journalVars
  <2> QED BY <2>1 DEF Views
<1> QED BY <1>1, <1>2, WorkerInductive, PTL DEF Spec, ImplementsWriter, Writer!WriterSpec

\* Through the worker the journal takes no step it does not take on its own,
\* so everything proved of the journal alone holds under the worker.
THEOREM WorkerKeepsJournal == Spec => JournalSpec
<1>1. Init => JournalInit
  BY DEF Init
<1>2. ASSUME WorkerInv, [WorkerNext]_vars PROVE [JournalNext]_journalVars
  <2>1. ASSUME NEW t \in ThreadIds, ExecuteWrite(t) PROVE Checkpoint
    <3>1. receipts[active] \in Receipt /\ threads[t].receipt = active
      BY <1>2, <2>1, ActiveOwned DEF ExecuteWrite
    <3>2. PICK e \in Errors : write_checkpoint(receipts[active].op, receipts[active].previous,
                                receipts[active].snapshot, receipts[active].again, e)
      BY <2>1, <3>1 DEF ExecuteWrite
    <3>3. /\ receipts[active].op \in Operations /\ receipts[active].previous \in 0 .. MaxRevision
          /\ receipts[active].snapshot \in Snapshots /\ receipts[active].again \in BOOLEAN
      BY <3>1 DEF Receipt
    <3> QED BY <3>2, <3>3 DEF Checkpoint
  <2> QED BY <1>2, <2>1 DEF WorkerNext, WriterStep, Panic, Submit, Drop, HostControl, HostJournal, vars, JournalNext
<1> QED BY <1>1, <1>2, WorkerInductive, PTL DEF Spec, JournalSpec
=============================================================================
