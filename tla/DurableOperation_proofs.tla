---------------------- MODULE DurableOperation_proofs ----------------------
(***************************************************************************)
(* Proofs about one durable operation with any number of effects and       *)
(* revisions.                                                              *)
(***************************************************************************)
EXTENDS DurableOperation, FiniteSetTheorems, TLAPS

(* The writer's side.                                                      *)

\* What a write of the only owner of the revision may end with.
Soft == {"none", "Uncertain", "Storage", "CapacityExceeded", "Supervisor"}

\* A row of the operation, or none: nobody attests it before the owners stop.
RowShape(row, rev) ==
  IF row = NoRow THEN rev = 0
  ELSE /\ row.revision \in 1 .. MaxRevision /\ row.snapshot \in Captured
       /\ row.resolution = NoResolution

\* No checkpoint is retained: nothing is in flight and the row is the
\* acknowledged one.
IdleShape(row, rev, att) ==
  /\ RowShape(row, rev)
  /\ row # NoRow => row.revision = rev
  /\ \A r \in ReceiptIds : att[r] = NoReceipt

\* The admitted attempt a of checkpoint cp.
AttemptShape(a, cp, row, rev) ==
  /\ a.op = op /\ a.previous = rev /\ rev < MaxRevision /\ a.snapshot = cp.snapshot
  /\ a.again /\ a.held
  /\ a.error \in Soft
  /\ a.stage = "queued" => a.error = "none"
  /\ a.stage # "queued" /\ a.error = "none" =>
       /\ row # NoRow /\ row.revision = rev + 1 /\ row.snapshot = cp.snapshot
       /\ a.revision = rev + 1

\* Checkpoint cp is retained: the row is the acknowledged one or the
\* unconfirmed candidate, which the next attempt acknowledges.
CheckpointShape(cp, row, rev, att) ==
  /\ RowShape(row, rev)
  /\ cp.snapshot \in Captured /\ validate_finalization(cp.snapshot)
  /\ row # NoRow =>
       \/ row.revision = rev /\ validate_finalization_successor(cp.snapshot, row.snapshot)
       \/ row.revision = rev + 1 /\ row.snapshot = cp.snapshot /\ cp.attempt # "Acknowledged"
  /\ cp.attempt = "Acknowledged" =>
       row # NoRow /\ row.revision = rev /\ row.snapshot = cp.snapshot
  /\ \A r \in ReceiptIds : att[r] # NoReceipt => cp.attempt = "Submitted" /\ cp.receipt = r
  /\ IF cp.attempt = "Submitted"
     THEN /\ cp.receipt \in ReceiptIds /\ att[cp.receipt] # NoReceipt
          /\ AttemptShape(att[cp.receipt], cp, row, rev)
     ELSE cp.receipt = NoReceipt
  /\ cp.failure \in Soft \cup {"Refused"}
  /\ cp.attempt = "Failed" => cp.failure # "none"

WriterShape(cp, row, rev, att) ==
  IF cp = NoCheckpoint THEN IdleShape(row, rev, att)
  ELSE CheckpointShape(cp, row, rev, att)

Retained == IF transition # NoCheckpoint THEN transition ELSE completion_checkpoint

WriterPart == WriterShape(Retained, Disk, revision, attempts)

-----------------------------------------------------------------------------
(* The operation's side.                                                   *)

OpenPcs == {"prepared", "permitted", "running", "returned", "confirmed"}
GrantedPcs == {"permitted", "running", "returned", "confirmed", "done"}

\* The record of an effect follows its caller.
RecordOf(k, recs, i) ==
  /\ k.pc = "absent" <=> i \notin DOMAIN recs
  /\ k.pc \in {"prepared", "permitted"} => recs[i].phase = "Prepared"
  /\ k.pc \in {"running", "returned", "confirmed"} => recs[i].phase = "Running"
  /\ k.pc \in {"done", "abandoned"} => recs[i].phase = "Completed"

LedgerPart ==
  /\ \A i \in Effects : RecordOf(handler[i], ledger.records, i)
  /\ ledger.sealed => ~AnyEffectOpen(ledger.records)

\* Open host records leave the aggregate evidence unknown.
Merged(s) == AnyEffectOpen(s.host) => s.effects = "Unknown"

\* The business prefix that finalization evidence f froze is over.
PrefixOver(f) ==
  \A i \in 1 .. f.count : i \in DOMAIN ledger.records /\ ledger.records[i].phase = "Completed"

\* What is granted, or known, of the effects is in snapshot s.
Carries(s) ==
  \A i \in Effects :
    /\ handler[i].pc \in GrantedPcs => i \in DOMAIN s.host
    /\ handler[i].pc = "confirmed" => s.host[i].effects = ledger.records[i].effects

\* The published snapshot and the finalization ownership.
PublicPart ==
  /\ snapshot \in Captured /\ validate_finalization(snapshot)
  /\ PrefixOver(snapshot.finalization)
  /\ snapshot.finalization.outcome # "none" => ledger.sealed /\ finalization.outcome_prepared
  /\ finalization.control_issued => snapshot.finalization # NoFinalization
  /\ IF Disk = NoRow
     THEN snapshot.finalization = NoFinalization
     ELSE Disk.revision = revision => Disk.snapshot.finalization = snapshot.finalization
  /\ is_terminal(snapshot.phase) =>
       /\ ledger.sealed /\ transition = NoCheckpoint
       /\ pending_completion = NoSnapshot
       /\ Disk # NoRow /\ Disk.snapshot = snapshot

\* A checkpoint of the transition gate.
TransitionShape(cp) ==
  /\ cp.snapshot \in Captured /\ ~is_terminal(cp.snapshot.phase)
  /\ Merged(cp.snapshot) /\ Carries(cp.snapshot)
  /\ PrefixOver(cp.snapshot.finalization)
  /\ cp.snapshot.finalization.outcome # "none" =>
       ledger.sealed /\ finalization.outcome_prepared
  /\ validate_finalization_successor(cp.snapshot, snapshot)
  /\ cp.purpose # "lifecycle" => cp.snapshot.finalization = snapshot.finalization
  /\ cp.purpose = "lifecycle" => cp.attempt # "Acknowledged"
  /\ cp.purpose = "start" => cp.effect \in Effects /\ cp.effect \in DOMAIN cp.snapshot.host
  /\ cp.purpose = "outcome" =>
       /\ cp.effect \in Effects /\ handler[cp.effect].pc = "returned"
       /\ cp.effect \in DOMAIN cp.snapshot.host
       /\ cp.snapshot.host[cp.effect].effects = ledger.records[cp.effect].effects

TransitionPart ==
  /\ transition # NoCheckpoint => TransitionShape(transition)
  /\ gate = Owner => transition # NoCheckpoint

\* The frozen terminal snapshot and its checkpoint.
CompletionPart ==
  /\ pending_completion # NoSnapshot =>
       /\ pending_completion \in Captured /\ validate_finalization(pending_completion)
       /\ is_terminal(pending_completion.phase)
       /\ pending_completion.finalization = snapshot.finalization
       /\ pending_completion.host = ledger.records
       /\ ledger.sealed /\ transition = NoCheckpoint /\ gate = Free
       /\ snapshot.phase = "Cleaning"
  /\ completion_checkpoint # NoCheckpoint =>
       /\ pending_completion # NoSnapshot
       /\ completion_checkpoint.snapshot = pending_completion

\* The row: what it says of the effects, and that a terminal one is the last.
DiskPart ==
  /\ Disk # NoRow => Merged(Disk.snapshot) /\ Carries(Disk.snapshot)
  /\ \A i \in Effects : handler[i].pc \in GrantedPcs => Disk # NoRow
  /\ Disk # NoRow /\ is_terminal(Disk.snapshot.phase) =>
       \/ is_terminal(snapshot.phase)
       \/ /\ completion_checkpoint # NoCheckpoint
          /\ Disk.snapshot = completion_checkpoint.snapshot
          /\ Disk.revision = revision + 1 \/ completion_checkpoint.attempt = "Acknowledged"

TypePart ==
  /\ OperationTypeOK
  /\ JournalTypeOK
  /\ attempts \in [ReceiptIds -> Attempt \cup {NoReceipt}]

OperationInv ==
  /\ TypePart /\ WriterPart /\ LedgerPart /\ PublicPart
  /\ TransitionPart /\ CompletionPart /\ DiskPart

-----------------------------------------------------------------------------
(* One handler at a time, and an owner that waits for it.                  *)

\* Snapshot s shows that effect i may have run, and no other evidence than its
\* handler gave.
Shows(s, i) ==
  /\ i \in DOMAIN s.host
  /\ s.host[i].phase # "Prepared"
  /\ s.host[i].effects \in {"Unknown", ledger.records[i].effects}

\* What disk says once a handler may start.
Intent == [phase |-> "Running", effects |-> "Unknown"]

OneOpen(recs) ==
  \A i, j \in DOMAIN recs : recs[i].phase # "Completed" /\ recs[j].phase # "Completed" => i = j

\* A retained checkpoint beside the handler: a started one that has not reported
\* leaves no room for it, and it shows every dispatched effect.
SerialShape(cp) ==
  /\ \A i \in Effects : handler[i].pc \notin {"permitted", "running", "confirmed"}
  /\ \A i \in Effects : handler[i].pc = "returned" => cp.purpose = "outcome"
  /\ \A i \in Dispatched : Shows(cp.snapshot, i)
  /\ cp.purpose = "start" => cp.snapshot.host[cp.effect] = Intent

SerialPart ==
  /\ OneOpen(ledger.records)
  /\ \A i \in Effects : handler[i].pc = "running" => ledger.records[i].effects = "Unknown"
  /\ transition # NoCheckpoint => SerialShape(transition)
  /\ \A i \in Effects : handler[i].pc = "permitted" => Disk.snapshot.host[i] = Intent
  /\ \A i \in Dispatched : Disk # NoRow /\ Shows(Disk.snapshot, i)

-----------------------------------------------------------------------------
(* Host records and merged evidence.                                       *)

LEMMA HostsFacts ==
  ASSUME NEW h \in Hosts
  PROVE  /\ h \in Seq(HostEffectRecord)
         /\ Len(h) \in 0 .. MaxEffects
         /\ DOMAIN h = 1 .. Len(h)
         /\ DOMAIN h \subseteq Effects
         /\ \A i \in DOMAIN h : h[i] \in HostEffectRecord
<1>1. PICK n \in 0 .. MaxEffects : h \in [1 .. n -> HostEffectRecord]
  BY DEF Hosts
<1>2. n \in Nat
  BY <1>1, OperationAssumption
<1>3. h \in Seq(HostEffectRecord) /\ Len(h) = n
  BY <1>1, <1>2
<1> QED BY <1>1, <1>2, <1>3, OperationAssumption DEF Effects

LEMMA HostsExcept ==
  ASSUME NEW h \in Hosts, NEW i \in DOMAIN h, NEW x \in HostEffectRecord
  PROVE  /\ [h EXCEPT ![i] = x] \in Hosts
         /\ DOMAIN [h EXCEPT ![i] = x] = DOMAIN h
         /\ [h EXCEPT ![i] = x][i] = x
         /\ \A j \in DOMAIN h : j # i => [h EXCEPT ![i] = x][j] = h[j]
<1>1. PICK n \in 0 .. MaxEffects : h \in [1 .. n -> HostEffectRecord]
  BY DEF Hosts
<1>2. [h EXCEPT ![i] = x] \in [1 .. n -> HostEffectRecord]
  BY <1>1
<1> QED BY <1>1, <1>2 DEF Hosts

LEMMA HostsAppend ==
  ASSUME NEW h \in Hosts, NEW x \in HostEffectRecord, Len(h) < MaxEffects
  PROVE  /\ Append(h, x) \in Hosts
         /\ DOMAIN Append(h, x) = DOMAIN h \cup {Len(h) + 1}
         /\ Len(h) + 1 \notin DOMAIN h
         /\ Append(h, x)[Len(h) + 1] = x
         /\ \A j \in DOMAIN h : Append(h, x)[j] = h[j]
<1>1. PICK n \in 0 .. MaxEffects : h \in [1 .. n -> HostEffectRecord]
  BY DEF Hosts
<1>2. n \in Nat /\ h \in Seq(HostEffectRecord) /\ Len(h) = n
  BY <1>1, OperationAssumption
<1>3. n + 1 \in 0 .. MaxEffects
  BY <1>2, OperationAssumption
<1>4. Append(h, x) \in [1 .. (n + 1) -> HostEffectRecord]
  <2>1. Append(h, x) \in Seq(HostEffectRecord) /\ Len(Append(h, x)) = n + 1
    BY <1>2
  <2> DEFINE g == Append(h, x)
  <2>2. g \in Seq(HostEffectRecord) /\ Len(g) = n + 1
    BY <2>1
  <2> HIDE DEF g
  <2>3. g \in [1 .. (n + 1) -> HostEffectRecord]
    BY <2>2
  <2> QED BY <2>3 DEF g
<1> QED BY <1>1, <1>2, <1>3, <1>4 DEF Hosts

LEMMA MergeFacts ==
  ASSUME NEW base \in EffectState, NEW h \in Hosts
  PROVE  /\ merge_effects(base, h) \in EffectState
         /\ AnyEffectOpen(h) => merge_effects(base, h) = "Unknown"
<1> DEFINE seen == {base} \cup {h[i].effects : i \in DOMAIN h}
<1> DEFINE First(k) == EvidenceOrder[k] \in seen /\ \A j \in 1 .. (k - 1) : EvidenceOrder[j] \notin seen
<1>1. seen \subseteq EffectState
  BY HostsFacts DEF HostEffectRecord
<1>2. CASE AnyEffectOpen(h) \/ "Unknown" \in seen
  BY <1>2 DEF merge_effects, EffectState
<1>3. CASE ~(AnyEffectOpen(h) \/ "Unknown" \in seen)
  <2>1. base \in ResolvedEffectState /\ base \in seen
    BY <1>3 DEF EffectState
  <2>2. \E k \in 1 .. 4 : EvidenceOrder[k] \in seen
    BY <2>1 DEF ResolvedEffectState, EvidenceOrder
  <2>3. \E k \in 1 .. 4 : First(k)
    <3>1. CASE EvidenceOrder[1] \in seen
      <4>1. First(1)
        BY <3>1
      <4> QED BY <4>1
    <3>2. CASE EvidenceOrder[1] \notin seen /\ EvidenceOrder[2] \in seen
      <4>1. \A j \in 1 .. (2 - 1) : j = 1
        OBVIOUS
      <4>2. First(2)
        BY <3>2, <4>1
      <4> QED BY <4>2
    <3>3. CASE EvidenceOrder[1] \notin seen /\ EvidenceOrder[2] \notin seen /\ EvidenceOrder[3] \in seen
      <4>1. \A j \in 1 .. (3 - 1) : j = 1 \/ j = 2
        OBVIOUS
      <4>2. First(3)
        BY <3>3, <4>1
      <4> QED BY <4>2
    <3>4. CASE EvidenceOrder[1] \notin seen /\ EvidenceOrder[2] \notin seen /\ EvidenceOrder[3] \notin seen
      <4>1. EvidenceOrder[4] \in seen
        <5>1. PICK k \in 1 .. 4 : EvidenceOrder[k] \in seen
          BY <2>2
        <5>2. k = 1 \/ k = 2 \/ k = 3 \/ k = 4
          OBVIOUS
        <5> QED BY <5>1, <5>2, <3>4
      <4>2. \A j \in 1 .. (4 - 1) : j = 1 \/ j = 2 \/ j = 3
        OBVIOUS
      <4>3. First(4)
        BY <3>4, <4>1, <4>2
      <4> QED BY <4>3
    <3> QED BY <3>1, <3>2, <3>3, <3>4
  <2> DEFINE c == CHOOSE k \in 1 .. 4 : First(k)
  <2>4. c \in 1 .. 4 /\ First(c)
    BY <2>3
  <2>5. merge_effects(base, h) = EvidenceOrder[c]
    BY <1>3 DEF merge_effects
  <2> QED BY <2>4, <2>5, <1>1, <1>3
<1> QED BY <1>2, <1>3

-----------------------------------------------------------------------------
(* Captures.                                                               *)

LEMMA CapturedFacts ==
  ASSUME NEW s \in Captured
  PROVE  /\ s \in Snapshots /\ s # NoSnapshot
         /\ s.context = "module" /\ s.phase \in OperationPhase /\ s.effects \in EffectState
         /\ s.cancelled \in BOOLEAN /\ s.host \in Hosts
         /\ s.finalization # NoFinalization => s.finalization.business \in Outcome
         /\ s.finalization.count \in 0 .. MaxEffects
         /\ s.finalization.outcome \in Outcome \cup {"none"}
         /\ s.finalization.outcome # "none" => s.finalization # NoFinalization
<1>1. s.finalization \in {NoFinalization} \cup
        [business : Outcome, count : 0 .. MaxEffects, outcome : Outcome \cup {"none"}]
  BY DEF Captured
<1>2. s.finalization # NoFinalization => s.finalization.business \in Outcome
  BY <1>1
<1>3. /\ s.finalization.count \in 0 .. MaxEffects
      /\ s.finalization.outcome \in Outcome \cup {"none"}
      /\ s.finalization.outcome # "none" => s.finalization # NoFinalization
  BY <1>1, OperationAssumption DEF NoFinalization
<1>4. s \in Snapshots /\ s # NoSnapshot
  BY OperationAssumption
<1> QED BY <1>2, <1>3, <1>4 DEF Captured

\* A snapshot with the ledger's records, as every capture but an intent is.
LEMMA WithRecords ==
  ASSUME NEW s \in Captured, NEW base \in EffectState, NEW h \in Hosts, NEW p \in OperationPhase,
         NEW c \in BOOLEAN
  PROVE  [s EXCEPT !.phase = p, !.host = h, !.effects = merge_effects(base, h), !.cancelled = c]
           \in Captured
<1>1. merge_effects(base, h) \in EffectState
  BY MergeFacts
<1> DEFINE m == merge_effects(base, h)
<1>2. m \in EffectState
  BY <1>1
<1> HIDE DEF m
<1>3. [s EXCEPT !.phase = p, !.host = h, !.effects = m, !.cancelled = c] \in Captured
  BY <1>2 DEF Captured
<1> QED BY <1>3 DEF m

LEMMA ProjectFacts ==
  ASSUME OperationTypeOK, NEW s \in Captured
  PROVE  /\ project(s) \in Captured
         /\ project(s).phase = s.phase /\ project(s).host = ledger.records
         /\ project(s).finalization = s.finalization
         /\ Merged(project(s))
<1> DEFINE m == merge_effects(s.effects, ledger.records)
<1>1. ledger.records \in Hosts /\ cancelled \in BOOLEAN
  BY DEF OperationTypeOK
<1>2. m \in EffectState /\ (AnyEffectOpen(ledger.records) => m = "Unknown")
  BY <1>1, MergeFacts, CapturedFacts
<1>3. project(s) = [s EXCEPT !.cancelled = cancelled, !.host = ledger.records, !.effects = m]
  BY DEF project, Captured
<1> HIDE DEF m
<1>4. project(s) \in Captured
  BY <1>1, <1>2, <1>3 DEF Captured
<1>5. /\ project(s).phase = s.phase /\ project(s).host = ledger.records
      /\ project(s).finalization = s.finalization /\ project(s).effects = m
  BY <1>3 DEF Captured
<1> QED BY <1>2, <1>4, <1>5 DEF Merged

LEMMA AdvanceFacts ==
  ASSUME NEW s \in Captured, NEW phase \in OperationPhase
  PROVE  /\ advance_snapshot(s, phase) \in Captured
         /\ advance_snapshot(s, phase).phase = phase
         /\ advance_snapshot(s, phase).finalization = s.finalization
<1> DEFINE m == IF phase \in {"Initializing", "Running", "WaitingForHost"} THEN "Unknown" ELSE s.effects
<1>1. m \in EffectState
  BY CapturedFacts DEF EffectState
<1>2. advance_snapshot(s, phase) = [s EXCEPT !.phase = phase, !.effects = m]
  BY DEF advance_snapshot, Captured
<1> HIDE DEF m
<1> QED BY <1>1, <1>2 DEF Captured

LEMMA StartFacts ==
  ASSUME OperationTypeOK, snapshot \in Captured, NEW i \in DOMAIN ledger.records
  PROVE  LET s == StartCandidate(i) IN
         /\ s \in Captured
         /\ s.phase = snapshot.phase /\ s.finalization = snapshot.finalization
         /\ DOMAIN s.host = DOMAIN ledger.records
         /\ s.host[i] = [phase |-> "Running", effects |-> "Unknown"]
         /\ \A j \in DOMAIN ledger.records : j # i => s.host[j] = ledger.records[j]
         /\ Merged(s)
<1> DEFINE x == [phase |-> "Running", effects |-> "Unknown"]
<1> DEFINE host == [ledger.records EXCEPT ![i] = x]
<1> DEFINE m == merge_effects(snapshot.effects, host)
<1>1. ledger.records \in Hosts /\ cancelled \in BOOLEAN
  BY DEF OperationTypeOK
<1>2. x \in HostEffectRecord
  BY DEF HostEffectRecord, HostEffectPhase, EffectState
<1>3. /\ host \in Hosts /\ DOMAIN host = DOMAIN ledger.records /\ host[i] = x
      /\ \A j \in DOMAIN ledger.records : j # i => host[j] = ledger.records[j]
  BY <1>1, <1>2, HostsExcept
<1>4. m \in EffectState /\ (AnyEffectOpen(host) => m = "Unknown")
  BY <1>3, MergeFacts, CapturedFacts
<1>5. StartCandidate(i) = [snapshot EXCEPT !.cancelled = cancelled, !.host = host, !.effects = m]
  BY DEF StartCandidate, Captured
<1> HIDE DEF m, host
<1>6. StartCandidate(i) \in Captured
  BY <1>1, <1>3, <1>4, <1>5 DEF Captured
<1>7. /\ StartCandidate(i).phase = snapshot.phase /\ StartCandidate(i).host = host
      /\ StartCandidate(i).finalization = snapshot.finalization /\ StartCandidate(i).effects = m
  BY <1>5 DEF Captured
<1> QED BY <1>3, <1>4, <1>6, <1>7 DEF Merged

-----------------------------------------------------------------------------
(* One drive of a checkpoint.                                              *)

WriterTyped ==
  /\ JournalTypeOK
  /\ attempts \in [ReceiptIds -> Attempt \cup {NoReceipt}]
  /\ revision \in 0 .. MaxRevision

\* The checkpoint a drive starts from: a retry forgets the failed attempt.
Base(cp, retry) ==
  LET again == retry \/ cp.retry = "Requested" IN
  [cp EXCEPT !.retry = IF again THEN "Retrying" ELSE cp.retry,
             !.attempt = IF again /\ cp.attempt = "Failed" THEN "New" ELSE cp.attempt]

LEMMA BaseFacts ==
  ASSUME NEW cp \in PendingCheckpoint, NEW retry \in BOOLEAN
  PROVE  LET b == Base(cp, retry) IN
         /\ b \in PendingCheckpoint
         /\ b.snapshot = cp.snapshot /\ b.purpose = cp.purpose /\ b.effect = cp.effect
         /\ b.failure = cp.failure /\ b.receipt = cp.receipt
         /\ b.attempt = cp.attempt \/ (cp.attempt = "Failed" /\ b.attempt = "New")
  BY DEF Base, PendingCheckpoint

\* The outcomes of a drive over b = Base(cp, retry).
Outcomes(b, admitted, d) ==
  \/ /\ b.attempt = "New" /\ admitted
     /\ d.cp = [b EXCEPT !.attempt = "Submitted", !.receipt = FreshReceipt]
     /\ d.result = "pending" /\ d.call = "submit" /\ d.revision = revision
  \/ /\ b.attempt = "New" /\ ~admitted
     /\ d.cp = [b EXCEPT !.attempt = "Failed", !.failure = "Refused", !.retry = "Waiting"]
     /\ d.result = "Refused" /\ d.call = "none" /\ d.revision = revision
  \/ /\ b.attempt = "Acknowledged"
     /\ d.cp = [b EXCEPT !.failure = "none"]
     /\ d.result = "done" /\ d.call = "none" /\ d.revision = revision
  \/ /\ b.attempt = "Failed"
     /\ d.cp = [b EXCEPT !.failure = b.failure, !.retry = "Waiting"]
     /\ d.result = b.failure /\ d.call = "none" /\ d.revision = revision
  \/ /\ b.attempt = "Submitted" /\ attempts[b.receipt].stage # "settled"
     /\ d.cp = b /\ d.result = "pending" /\ d.call = "none" /\ d.revision = revision
  \/ /\ b.attempt = "Submitted" /\ attempts[b.receipt].stage = "settled"
     /\ attempts[b.receipt].error # "none"
     /\ d.cp = [b EXCEPT !.attempt = "Failed", !.receipt = NoReceipt, !.failure = attempts[b.receipt].error, !.retry = "Waiting"]
     /\ d.result = attempts[b.receipt].error /\ d.call = "release" /\ d.revision = revision
  \/ /\ b.attempt = "Submitted" /\ attempts[b.receipt].stage = "settled"
     /\ attempts[b.receipt].error = "none" /\ attempts[b.receipt].previous = revision
     /\ d.cp = [b EXCEPT !.attempt = "Acknowledged", !.receipt = NoReceipt, !.failure = "none"]
     /\ d.result = "done" /\ d.call = "release" /\ d.revision = attempts[b.receipt].revision

LEMMA DrivenCases ==
  ASSUME NEW cp \in PendingCheckpoint, NEW retry \in BOOLEAN, NEW admitted \in BOOLEAN,
         cp.attempt = "Submitted" => attempts[cp.receipt].previous = revision
  PROVE  Outcomes(Base(cp, retry), admitted, Driven(cp, retry, admitted))
<1> DEFINE again == retry \/ cp.retry = "Requested"
<1> DEFINE b == Base(cp, retry)
<1> DEFINE old == [cp EXCEPT !.retry = IF again THEN "Retrying" ELSE @,
                             !.attempt = IF again /\ @ = "Failed" THEN "New" ELSE @]
<1>1. b = old
  BY DEF Base, PendingCheckpoint
<1>2. /\ b \in PendingCheckpoint /\ b.receipt = cp.receipt
      /\ b.attempt = "Submitted" => cp.attempt = "Submitted"
  BY BaseFacts
<1>3. b.attempt \in {"New", "Submitted", "Failed", "Acknowledged"}
  BY <1>2 DEF PendingCheckpoint
<1>4. CASE b.attempt = "New" /\ admitted
  BY <1>1, <1>2, <1>4 DEF Outcomes, Driven, PendingCheckpoint
<1>5. CASE b.attempt = "New" /\ ~admitted
  BY <1>1, <1>2, <1>5 DEF Outcomes, Driven, PendingCheckpoint
<1>6. CASE b.attempt = "Acknowledged"
  BY <1>1, <1>2, <1>6 DEF Outcomes, Driven, PendingCheckpoint
<1>7. CASE b.attempt = "Failed"
  BY <1>1, <1>2, <1>7 DEF Outcomes, Driven, PendingCheckpoint
<1>8. CASE b.attempt = "Submitted"
  <2> DEFINE w == attempts[b.receipt]
  <2>1. w.previous = revision
    BY <1>2, <1>8
  <2>2. CASE w.stage # "settled"
    <3>1. Driven(cp, retry, admitted) = [cp |-> b, result |-> "pending", call |-> "none", revision |-> revision]
      BY <1>1, <1>2, <1>8, <2>2 DEF Driven
    <3> QED BY <1>8, <2>2, <3>1 DEF Outcomes
  <2>3. CASE w.stage = "settled" /\ w.error # "none"
    <3> DEFINE n == [b EXCEPT !.attempt = "Failed", !.receipt = NoReceipt, !.failure = w.error, !.retry = "Waiting"]
    <3>1. Driven(cp, retry, admitted)
            = [cp |-> n, result |-> w.error, call |-> "release", revision |-> revision]
      BY <1>1, <1>2, <1>8, <2>3 DEF Driven, PendingCheckpoint
    <3> QED BY <1>8, <2>3, <3>1 DEF Outcomes
  <2>4. CASE w.stage = "settled" /\ w.error = "none"
    <3> DEFINE n == [b EXCEPT !.attempt = "Acknowledged", !.receipt = NoReceipt, !.failure = "none"]
    <3>1. Driven(cp, retry, admitted)
            = [cp |-> n, result |-> "done", call |-> "release", revision |-> w.revision]
      BY <1>1, <1>2, <1>8, <2>1, <2>4 DEF Driven, PendingCheckpoint
    <3> QED BY <1>8, <2>1, <2>4, <3>1 DEF Outcomes
  <2> QED BY <2>2, <2>3, <2>4
<1> QED BY <1>3, <1>4, <1>5, <1>6, <1>7, <1>8

\* What every drive leaves: the row alone, the checkpoint's identity, and either
\* an acknowledged checkpoint over an idle writer or the same revision.
DriveResult(cp, d) ==
  /\ UNCHANGED journalVars
  /\ attempts' \in [ReceiptIds -> Attempt \cup {NoReceipt}] /\ revision' \in 0 .. MaxRevision
  /\ d.cp \in PendingCheckpoint
  /\ d.cp.snapshot = cp.snapshot /\ d.cp.purpose = cp.purpose /\ d.cp.effect = cp.effect
  /\ CheckpointShape(d.cp, Disk, revision', attempts')
  /\ d.result = "done" <=> d.cp.attempt = "Acknowledged"
  /\ d.result = "done" =>
       IdleShape(Disk, revision', attempts') /\ Disk # NoRow /\ Disk.snapshot = cp.snapshot
  /\ d.result # "done" => revision' = revision
  /\ d.result \in (Soft \cup {"Refused", "pending", "done"}) \ {"none"}

LEMMA DriveSound ==
  ASSUME WriterTyped, NEW cp \in PendingCheckpoint, CheckpointShape(cp, Disk, revision, attempts),
         NEW retry \in BOOLEAN, NEW admitted \in Admission,
         NEW d, d = Driven(cp, retry, admitted), DriveEffect(cp, d)
  PROVE  DriveResult(cp, d)
<1> DEFINE b == Base(cp, retry)
<1>1. admitted \in BOOLEAN /\ (admitted => revision < MaxRevision)
  BY DEF Admission
<1>2. Outcomes(b, admitted, d)
  BY <1>1, DrivenCases DEF CheckpointShape, AttemptShape
<1>3. /\ b \in PendingCheckpoint
      /\ b.snapshot = cp.snapshot /\ b.purpose = cp.purpose /\ b.effect = cp.effect
      /\ b.failure = cp.failure /\ b.receipt = cp.receipt
      /\ b.attempt = cp.attempt \/ (cp.attempt = "Failed" /\ b.attempt = "New")
  BY BaseFacts
<1> HIDE DEF b
<1>4. CheckpointShape(b, Disk, revision, attempts)
  BY <1>3 DEF CheckpointShape, AttemptShape
<1>5. Disk # NoRow => Disk.revision \in Nat
  BY <1>4 DEF CheckpointShape, RowShape
<1>6. revision \in Nat /\ MaxRevision \in Nat
  BY JournalAssumption DEF WriterTyped
<1>7. CASE /\ b.attempt = "New" /\ admitted
           /\ d.cp = [b EXCEPT !.attempt = "Submitted", !.receipt = FreshReceipt]
           /\ d.result = "pending" /\ d.call = "submit" /\ d.revision = revision
  <2> DEFINE f == FreshReceipt
  <2> DEFINE n == NewAttempt(op, revision, cp.snapshot, TRUE)
  <2>1. \A r \in ReceiptIds : attempts[r] = NoReceipt
    BY <1>4, <1>7 DEF CheckpointShape
  <2>2. f \in ReceiptIds
    BY <2>1, OperationAssumption DEF FreshReceipt
  <2>a. d.cp.receipt = f
    BY <1>3, <1>7 DEF PendingCheckpoint
  <2>b. SubmitAttempt(d.cp.receipt, op, revision, cp.snapshot, TRUE) /\ revision' = revision
    BY <1>7 DEF DriveEffect
  <2>3. /\ attempts' = [attempts EXCEPT ![f] = n] /\ UNCHANGED journalVars /\ revision' = revision
    BY <2>a, <2>b, Zenon DEF SubmitAttempt
  <2>c. cp.snapshot \in Snapshots /\ revision \in 0 .. MaxRevision /\ 0 \in 0 .. MaxRevision
    BY <1>3, <1>4, <1>6, CapturedFacts DEF CheckpointShape, WriterTyped
  <2>4. n \in Attempt
    BY <2>c, OperationAssumption DEF NewAttempt, Attempt, WriteError, Errors
  <2>5. n # NoReceipt
    BY <2>4, OperationAssumption
  <2>6. /\ attempts' \in [ReceiptIds -> Attempt \cup {NoReceipt}]
        /\ attempts'[f] = n /\ \A r \in ReceiptIds : r # f => attempts'[r] = NoReceipt
    BY <2>1, <2>2, <2>3, <2>4 DEF WriterTyped
  <2>7. AttemptShape(n, b, Disk, revision)
    BY <1>1, <1>3, <1>7 DEF AttemptShape, NewAttempt, Soft
  <2> HIDE DEF f, n
  <2>8. d.cp = [b EXCEPT !.attempt = "Submitted", !.receipt = f] /\ d.result = "pending"
    BY <1>7, Zenon DEF f
  <2>9. /\ d.cp \in PendingCheckpoint /\ d.cp.attempt = "Submitted" /\ d.cp.receipt = f
        /\ d.cp.snapshot = b.snapshot /\ d.cp.purpose = b.purpose /\ d.cp.effect = b.effect
        /\ d.cp.failure = b.failure
    BY <2>8, <2>2, <1>3 DEF PendingCheckpoint
  <2>10. AttemptShape(n, d.cp, Disk, revision)
    BY <2>7, <2>9 DEF AttemptShape
  <2>11. CheckpointShape(d.cp, Disk, revision', attempts')
    BY <2>2, <2>3, <2>5, <2>6, <2>9, <2>10, <1>4, <1>7 DEF CheckpointShape
  <2> QED BY <2>3, <2>6, <2>8, <2>9, <2>11, <1>3 DEF DriveResult, WriterTyped
<1>8. CASE /\ b.attempt = "New" /\ ~admitted
           /\ d.cp = [b EXCEPT !.attempt = "Failed", !.failure = "Refused", !.retry = "Waiting"]
           /\ d.result = "Refused" /\ d.call = "none" /\ d.revision = revision
  <2>1. UNCHANGED <<journalVars, attempts, revision>>
    BY <1>8 DEF DriveEffect, writerVars
  <2>2. /\ d.cp \in PendingCheckpoint /\ d.cp.attempt = "Failed" /\ d.cp.receipt = b.receipt
        /\ d.cp.snapshot = b.snapshot /\ d.cp.purpose = b.purpose /\ d.cp.effect = b.effect
        /\ d.cp.failure = "Refused" /\ d.result = "Refused"
    BY <1>8, <1>3 DEF PendingCheckpoint
  <2>3. CheckpointShape(d.cp, Disk, revision', attempts')
    BY <2>1, <2>2, <1>4, <1>8 DEF CheckpointShape
  <2> QED BY <2>1, <2>2, <2>3, <1>3 DEF DriveResult, WriterTyped
<1>9. CASE /\ b.attempt = "Acknowledged"
           /\ d.cp = [b EXCEPT !.failure = "none"]
           /\ d.result = "done" /\ d.call = "none" /\ d.revision = revision
  <2>1. UNCHANGED <<journalVars, attempts, revision>>
    BY <1>9 DEF DriveEffect, writerVars
  <2>2. /\ d.cp \in PendingCheckpoint /\ d.cp.attempt = "Acknowledged" /\ d.cp.receipt = b.receipt
        /\ d.cp.snapshot = b.snapshot /\ d.cp.purpose = b.purpose /\ d.cp.effect = b.effect
        /\ d.cp.failure = "none" /\ d.result = "done"
    BY <1>9, <1>3 DEF PendingCheckpoint, WriteError, Errors
  <2>3. CheckpointShape(d.cp, Disk, revision', attempts')
    BY <2>1, <2>2, <1>4, <1>9 DEF CheckpointShape, Soft
  <2>4. IdleShape(Disk, revision', attempts') /\ Disk # NoRow /\ Disk.snapshot = b.snapshot
    BY <2>1, <1>4, <1>9 DEF CheckpointShape, IdleShape
  <2> QED BY <2>1, <2>2, <2>3, <2>4, <1>3 DEF DriveResult, WriterTyped
<1>10. CASE /\ b.attempt = "Failed"
            /\ d.cp = [b EXCEPT !.failure = b.failure, !.retry = "Waiting"]
            /\ d.result = b.failure /\ d.call = "none" /\ d.revision = revision
  <2>1. UNCHANGED <<journalVars, attempts, revision>>
    BY <1>10 DEF DriveEffect, writerVars
  <2>2. /\ d.cp \in PendingCheckpoint /\ d.cp.attempt = "Failed" /\ d.cp.receipt = b.receipt
        /\ d.cp.snapshot = b.snapshot /\ d.cp.purpose = b.purpose /\ d.cp.effect = b.effect
        /\ d.cp.failure = b.failure /\ d.result = b.failure
    BY <1>10, <1>3 DEF PendingCheckpoint
  <2>3. CheckpointShape(d.cp, Disk, revision', attempts')
    BY <2>1, <2>2, <1>4, <1>10 DEF CheckpointShape
  <2>4. b.failure \in (Soft \cup {"Refused"}) \ {"none"}
    BY <1>4, <1>10 DEF CheckpointShape
  <2>5. d.result # "done"
    BY <2>2, <2>4 DEF Soft
  <2> QED BY <2>1, <2>2, <2>3, <2>4, <2>5, <1>3 DEF DriveResult, WriterTyped
<1>11. CASE /\ b.attempt = "Submitted" /\ attempts[b.receipt].stage # "settled"
            /\ d.cp = b /\ d.result = "pending" /\ d.call = "none" /\ d.revision = revision
  <2>1. UNCHANGED <<journalVars, attempts, revision>> /\ d.cp = b /\ d.result = "pending"
    BY <1>11 DEF DriveEffect, writerVars
  <2> QED BY <2>1, <1>3, <1>4, <1>11 DEF DriveResult, WriterTyped
<1>12. CASE /\ b.attempt = "Submitted" /\ attempts[b.receipt].stage = "settled"
            /\ attempts[b.receipt].error # "none"
            /\ d.cp = [b EXCEPT !.attempt = "Failed", !.receipt = NoReceipt, !.failure = attempts[b.receipt].error, !.retry = "Waiting"]
            /\ d.result = attempts[b.receipt].error /\ d.call = "release" /\ d.revision = revision
  <2> DEFINE e == attempts[b.receipt].error
  <2>1. /\ b.receipt \in ReceiptIds /\ attempts[b.receipt] # NoReceipt /\ e \in Soft \ {"none"}
        /\ \A r \in ReceiptIds : r # b.receipt => attempts[r] = NoReceipt
    BY <1>4, <1>12 DEF CheckpointShape, AttemptShape
  <2>2. /\ UNCHANGED journalVars /\ revision' = revision
        /\ attempts' = [attempts EXCEPT ![b.receipt] = NoReceipt]
    BY <1>3, <1>12 DEF DriveEffect, DropAttempt
  <2>3. /\ attempts' \in [ReceiptIds -> Attempt \cup {NoReceipt}]
        /\ \A r \in ReceiptIds : attempts'[r] = NoReceipt
    BY <2>1, <2>2 DEF WriterTyped
  <2>4. e \in WriteError
    BY <2>1 DEF Soft, WriteError, Errors
  <2> HIDE DEF e
  <2>5. /\ d.cp = [b EXCEPT !.attempt = "Failed", !.receipt = NoReceipt, !.failure = e, !.retry = "Waiting"]
        /\ d.result = e
    BY <1>12 DEF e
  <2>6. /\ d.cp \in PendingCheckpoint /\ d.cp.attempt = "Failed" /\ d.cp.receipt = NoReceipt
        /\ d.cp.snapshot = b.snapshot /\ d.cp.purpose = b.purpose /\ d.cp.effect = b.effect
        /\ d.cp.failure = e
    BY <2>5, <2>4, <1>3 DEF PendingCheckpoint
  <2>7. CheckpointShape(d.cp, Disk, revision', attempts')
    BY <2>1, <2>2, <2>3, <2>6, <1>4, <1>12 DEF CheckpointShape
  <2>8. d.result # "done"
    BY <2>5, <2>1 DEF Soft
  <2> QED BY <2>1, <2>2, <2>3, <2>5, <2>6, <2>7, <2>8, <1>3 DEF DriveResult, WriterTyped
<1>13. CASE /\ b.attempt = "Submitted" /\ attempts[b.receipt].stage = "settled"
            /\ attempts[b.receipt].error = "none" /\ attempts[b.receipt].previous = revision
            /\ d.cp = [b EXCEPT !.attempt = "Acknowledged", !.receipt = NoReceipt, !.failure = "none"]
            /\ d.result = "done" /\ d.call = "release" /\ d.revision = attempts[b.receipt].revision
  <2>1. /\ b.receipt \in ReceiptIds /\ attempts[b.receipt] # NoReceipt
        /\ \A r \in ReceiptIds : r # b.receipt => attempts[r] = NoReceipt
        /\ attempts[b.receipt].revision = revision + 1 /\ revision < MaxRevision
        /\ Disk # NoRow /\ Disk.revision = revision + 1 /\ Disk.snapshot = b.snapshot
    BY <1>4, <1>13 DEF CheckpointShape, AttemptShape
  <2>2. /\ UNCHANGED journalVars /\ revision' = revision + 1
        /\ attempts' = [attempts EXCEPT ![b.receipt] = NoReceipt]
    BY <2>1, <1>3, <1>13 DEF DriveEffect, DropAttempt
  <2>3. /\ attempts' \in [ReceiptIds -> Attempt \cup {NoReceipt}]
        /\ \A r \in ReceiptIds : attempts'[r] = NoReceipt
    BY <2>1, <2>2 DEF WriterTyped
  <2>4. /\ d.cp \in PendingCheckpoint /\ d.cp.attempt = "Acknowledged" /\ d.cp.receipt = NoReceipt
        /\ d.cp.snapshot = b.snapshot /\ d.cp.purpose = b.purpose /\ d.cp.effect = b.effect
        /\ d.cp.failure = "none" /\ d.result = "done"
    BY <1>13, <1>3 DEF PendingCheckpoint, WriteError, Errors
  <2>5. validate_finalization_successor(b.snapshot, b.snapshot)
    BY DEF validate_finalization_successor
  <2>6. RowShape(Disk, revision')
    BY <2>1, <1>4 DEF CheckpointShape, RowShape
  <2>7. CheckpointShape(d.cp, Disk, revision', attempts')
    BY <2>1, <2>2, <2>3, <2>4, <2>5, <2>6, <1>4 DEF CheckpointShape, Soft
  <2>8. IdleShape(Disk, revision', attempts')
    BY <2>1, <2>2, <2>3, <2>6 DEF IdleShape
  <2>9. revision' \in 0 .. MaxRevision
    BY <2>1, <2>2, <1>6
  <2> QED BY <2>1, <2>2, <2>3, <2>4, <2>7, <2>8, <2>9, <1>3 DEF DriveResult
<1> QED BY <1>2, <1>7, <1>8, <1>9, <1>10, <1>11, <1>12, <1>13 DEF Outcomes

-----------------------------------------------------------------------------
(* Capturing, executing and settling.                                      *)

LEMMA NewShape ==
  ASSUME NEW row, NEW rev, NEW att, IdleShape(row, rev, att),
         NEW s \in Captured, validate_finalization(s),
         row # NoRow => validate_finalization_successor(s, row.snapshot),
         NEW purpose \in {"lifecycle", "start", "outcome"}, NEW i \in 0 .. MaxEffects
  PROVE  LET cp == NewCheckpoint(purpose, i, s) IN
         /\ cp \in PendingCheckpoint
         /\ cp.purpose = purpose /\ cp.effect = i /\ cp.snapshot = s /\ cp.attempt = "New"
         /\ cp # NoCheckpoint
         /\ CheckpointShape(cp, row, rev, att)
<1> DEFINE cp == NewCheckpoint(purpose, i, s)
<1>1. /\ cp.purpose = purpose /\ cp.effect = i /\ cp.snapshot = s /\ cp.attempt = "New"
      /\ cp.receipt = NoReceipt /\ cp.failure = "none"
  BY DEF NewCheckpoint
<1>2. cp \in PendingCheckpoint
  BY CapturedFacts DEF NewCheckpoint, PendingCheckpoint, WriteError, Errors
<1> HIDE DEF cp
<1>3. CheckpointShape(cp, row, rev, att)
  BY <1>1 DEF CheckpointShape, IdleShape, RowShape, Soft
<1> QED BY <1>1, <1>2, <1>3, CheckpointAssumption DEF cp

LEMMA ExecuteSound ==
  ASSUME WriterTyped, NEW cp \in PendingCheckpoint, CheckpointShape(cp, Disk, revision, attempts),
         NEW r \in ReceiptIds, ExecuteAttempt(r)
  PROVE  /\ JournalTypeOK'
         /\ attempts' \in [ReceiptIds -> Attempt \cup {NoReceipt}]
         /\ cp.attempt = "Submitted"
         /\ CheckpointShape(cp, Disk', revision, attempts')
         /\ \/ Disk' = Disk
            \/ Disk' = Candidate(revision, cp.snapshot) /\ (Disk # NoRow => Disk.revision = revision)
<1> DEFINE a == attempts[r]
<1> DEFINE V == WriteVerdict(op, revision, cp.snapshot, TRUE)
<1> DEFINE C == Candidate(revision, cp.snapshot)
<1>1. /\ a # NoReceipt /\ a \in Attempt /\ a.stage = "queued"
      /\ cp.attempt = "Submitted" /\ cp.receipt = r /\ AttemptShape(a, cp, Disk, revision)
      /\ \A q \in ReceiptIds : q # r => attempts[q] = NoReceipt
  BY DEF ExecuteAttempt, CheckpointShape, WriterTyped
<1>2. /\ a.op = op /\ a.previous = revision /\ revision < MaxRevision /\ a.snapshot = cp.snapshot
      /\ a.again = TRUE /\ a.held
  BY <1>1 DEF AttemptShape, Attempt
<1>3. revision \in Nat /\ MaxRevision \in Nat /\ revision + 1 \in 1 .. MaxRevision
  BY <1>2, JournalAssumption DEF WriterTyped
<1>4. Disk \in Row \cup {NoRow} /\ op \in Operations /\ rows \in [Operations -> Row \cup {NoRow}]
  BY OperationAssumption DEF WriterTyped, JournalTypeOK, Disk
<1>5. cp.snapshot \in Captured /\ cp.snapshot \in Snapshots /\ validate_finalization(cp.snapshot)
  BY CapturedFacts DEF CheckpointShape
<1>6. C \in Row /\ C.revision = revision + 1 /\ C.snapshot = cp.snapshot /\ C.resolution = NoResolution
  BY <1>3, <1>5 DEF Candidate, Row
<1>7. C # NoRow
  BY <1>6, JournalAssumption DEF Row
<1>8. PICK e \in Errors :
        /\ write_checkpoint(a.op, a.previous, a.snapshot, a.again, e)
        /\ attempts' = [attempts EXCEPT ![r] =
             [a EXCEPT !.stage = "executed",
                       !.revision = IF e = "none" THEN a.previous + 1 ELSE 0,
                       !.error = e]]
  BY DEF ExecuteAttempt
<1>9. Transaction(V, op, C, e)
  <2>1. write_checkpoint(a.op, a.previous, a.snapshot, a.again, e)
    BY <1>8
  <2>2. write_checkpoint(op, revision, cp.snapshot, TRUE, e)
    BY <2>1, <1>2, Zenon
  <2>3. validate_finalization(cp.snapshot) /\ ~(revision >= MaxRevision)
    BY <1>2, <1>3, <1>5
  <2> QED BY <2>2, <2>3, Zenon DEF write_checkpoint
<1>10. /\ V \in {"Mutate", "Acknowledge", "CapacityExceeded"}
       /\ V = "Acknowledge" => Disk = C
       /\ V = "Mutate" => (Disk # NoRow => Disk.revision = revision)
  <2>1. CASE Disk = NoRow
    <3>1. revision = 0
      BY <2>1 DEF CheckpointShape, RowShape
    <3>2. V = InsertVerdict(Disk)
      BY <2>1, <3>1, <1>7 DEF WriteVerdict, Disk
    <3> QED BY <2>1, <3>2 DEF InsertVerdict
  <2>2. CASE Disk # NoRow /\ Disk.revision = revision + 1 /\ Disk.snapshot = cp.snapshot
    <3>1. Disk \in Row /\ Disk.resolution = NoResolution
      BY <1>4, <2>2 DEF CheckpointShape, RowShape
    <3>2. Disk = C
      BY <2>2, <3>1 DEF Row, Candidate
    <3> QED BY <3>2 DEF WriteVerdict, Disk
  <2>3. CASE /\ Disk # NoRow /\ Disk.revision = revision
             /\ validate_finalization_successor(cp.snapshot, Disk.snapshot)
    <3>1. Disk.snapshot \in Captured /\ Disk.resolution = NoResolution /\ Disk.revision \in 1 .. MaxRevision
      BY <2>3 DEF CheckpointShape, RowShape
    <3>2. Disk.snapshot.context = cp.snapshot.context
      BY <3>1, <1>5, CapturedFacts
    <3>3. revision # 0 /\ Disk # C
      BY <2>3, <3>1, <1>6, <1>3
    <3>4. V = ReplaceVerdict(Disk, revision, cp.snapshot)
      BY <3>3 DEF WriteVerdict, Disk
    <3>5. V = "Mutate"
      BY <2>3, <3>1, <3>2, <3>4 DEF ReplaceVerdict
    <3> QED BY <3>5, <2>3
  <2> QED BY <2>1, <2>2, <2>3 DEF CheckpointShape
<1> HIDE DEF V, C
<1>11. /\ e \in {"none", "Uncertain", "Storage", "CapacityExceeded"}
       /\ rows' = rows \/ (V = "Mutate" /\ rows' = [rows EXCEPT ![op] = C])
       /\ e = "none" => \/ V = "Mutate" /\ rows' = [rows EXCEPT ![op] = C]
                        \/ V = "Acknowledge" /\ rows' = rows
       /\ storage_failure' \in BOOLEAN /\ connection' \in BOOLEAN
  BY <1>9, <1>10 DEF Transaction, journalVars, WriterTyped, JournalTypeOK
<1>12. /\ Disk' = Disk \/ (V = "Mutate" /\ Disk' = C)
       /\ e = "none" => Disk' = C
       /\ JournalTypeOK'
  BY <1>4, <1>6, <1>10, <1>11 DEF JournalTypeOK, Disk
<1> DEFINE n == [a EXCEPT !.stage = "executed", !.revision = IF e = "none" THEN a.previous + 1 ELSE 0,
                          !.error = e]
<1>13. /\ n \in Attempt /\ n.op = op /\ n.previous = revision /\ n.snapshot = cp.snapshot
       /\ n.again /\ n.held /\ n.stage = "executed" /\ n.error = e
       /\ e = "none" => n.revision = revision + 1
  <2>1. (IF e = "none" THEN a.previous + 1 ELSE 0) \in 0 .. MaxRevision
    BY <1>2, <1>3
  <2>2. e \in WriteError
    BY <1>11 DEF WriteError, Errors
  <2> QED BY <2>1, <2>2, <1>1, <1>2 DEF Attempt
<1>14. attempts' = [attempts EXCEPT ![r] = n]
  BY <1>8
<1> HIDE DEF n, a
<1>15. /\ attempts' \in [ReceiptIds -> Attempt \cup {NoReceipt}] /\ attempts'[r] = n
       /\ \A q \in ReceiptIds : q # r => attempts'[q] = NoReceipt
  BY <1>1, <1>13, <1>14 DEF WriterTyped
<1>16. n # NoReceipt
  BY <1>13, OperationAssumption
<1>17. AttemptShape(n, cp, Disk', revision)
  BY <1>2, <1>6, <1>7, <1>11, <1>12, <1>13 DEF AttemptShape, Soft
<1>18. RowShape(Disk', revision)
  BY <1>5, <1>6, <1>7, <1>12, <1>3 DEF RowShape, CheckpointShape
<1>19. Disk' # NoRow =>
         \/ Disk'.revision = revision /\ validate_finalization_successor(cp.snapshot, Disk'.snapshot)
         \/ Disk'.revision = revision + 1 /\ Disk'.snapshot = cp.snapshot /\ cp.attempt # "Acknowledged"
  BY <1>1, <1>6, <1>12 DEF CheckpointShape
<1>20. CheckpointShape(cp, Disk', revision, attempts')
  BY <1>1, <1>15, <1>16, <1>17, <1>18, <1>19 DEF CheckpointShape
<1> QED BY <1>1, <1>10, <1>12, <1>15, <1>20 DEF C

LEMMA SettleSound ==
  ASSUME WriterTyped, NEW cp \in PendingCheckpoint, CheckpointShape(cp, Disk, revision, attempts),
         NEW r \in ReceiptIds, SettleAttempt(r)
  PROVE  /\ UNCHANGED journalVars
         /\ attempts' \in [ReceiptIds -> Attempt \cup {NoReceipt}]
         /\ CheckpointShape(cp, Disk, revision, attempts')
<1> DEFINE a == attempts[r]
<1>1. /\ a # NoReceipt /\ a \in Attempt
      /\ cp.attempt = "Submitted" /\ cp.receipt = r /\ AttemptShape(a, cp, Disk, revision)
      /\ \A q \in ReceiptIds : q # r => attempts[q] = NoReceipt
  BY DEF SettleAttempt, CheckpointShape, WriterTyped
<1>2. a.held
  BY <1>1 DEF AttemptShape
<1>3. UNCHANGED journalVars
  BY DEF SettleAttempt
<1>4. PICK rev \in 0 .. MaxRevision, e \in WriteError :
        /\ attempts' = [attempts EXCEPT ![r] = [a EXCEPT !.stage = "settled", !.revision = rev, !.error = e]]
        /\ e = "Supervisor" \/ (a.stage = "executed" /\ rev = a.revision /\ e = a.error)
  <2>1. a.revision \in 0 .. MaxRevision /\ a.error \in WriteError /\ 0 \in 0 .. MaxRevision
    BY <1>1, JournalAssumption DEF Attempt
  <2>2. CASE /\ a.stage = "executed"
             /\ attempts' = [attempts EXCEPT ![r] = [a EXCEPT !.stage = "settled", !.revision = a.revision,
                                                              !.error = a.error]]
    BY <2>1, <2>2
  <2>3. CASE attempts' = [attempts EXCEPT ![r] = [a EXCEPT !.stage = "settled", !.revision = 0,
                                                           !.error = "Supervisor"]]
    BY <2>1, <2>3 DEF WriteError
  <2> QED BY <1>2, <2>2, <2>3 DEF SettleAttempt
<1> DEFINE n == [a EXCEPT !.stage = "settled", !.revision = rev, !.error = e]
<1>5. /\ n \in Attempt /\ n.op = a.op /\ n.previous = a.previous /\ n.snapshot = a.snapshot
      /\ n.again = a.again /\ n.held = a.held /\ n.stage = "settled" /\ n.error = e /\ n.revision = rev
  BY <1>1, <1>4 DEF Attempt
<1>6. attempts' = [attempts EXCEPT ![r] = n]
  BY <1>4
<1> HIDE DEF n, a
<1>7. /\ attempts' \in [ReceiptIds -> Attempt \cup {NoReceipt}] /\ attempts'[r] = n
      /\ \A q \in ReceiptIds : q # r => attempts'[q] = NoReceipt
  BY <1>1, <1>5, <1>6 DEF WriterTyped
<1>8. n # NoReceipt
  BY <1>5, OperationAssumption
<1>9. AttemptShape(n, cp, Disk, revision)
  BY <1>1, <1>4, <1>5 DEF AttemptShape, Soft
<1>10. CheckpointShape(cp, Disk, revision, attempts')
  BY <1>1, <1>7, <1>8, <1>9 DEF CheckpointShape
<1> QED BY <1>3, <1>7, <1>10

-----------------------------------------------------------------------------
(* Steps of effects.                                                       *)

LedgerType == [stage : {"Business", "Finalization"}, sealed : BOOLEAN, records : Hosts]
HandlerType == [Effects -> [pc : HandlerPc, native : BOOLEAN]]

\* Only the open effect i, or one that is new, changes.
Moved(i) ==
  /\ ledger' \in LedgerType /\ handler' \in HandlerType
  /\ ~ledger.sealed /\ ~ledger'.sealed
  /\ \A j \in Effects : j # i =>
       /\ handler'[j] = handler[j]
       /\ j \in DOMAIN ledger'.records <=> j \in DOMAIN ledger.records
       /\ j \in DOMAIN ledger.records => ledger'.records[j] = ledger.records[j]
  /\ RecordOf(handler'[i], ledger'.records, i)
  /\ i \in DOMAIN ledger.records =>
       i \in DOMAIN ledger'.records /\ ledger.records[i].phase # "Completed"

EffectsKept ==
  /\ ledger' \in LedgerType /\ handler' \in HandlerType
  /\ LedgerPart'
  /\ ledger'.sealed <=> ledger.sealed
  /\ \A s \in Captured : PrefixOver(s.finalization) => PrefixOver(s.finalization)'

\* What is granted or confirmed stays in every snapshot that has it, and a
\* returned result waits.
EvidenceKept ==
  /\ \A s : Carries(s) => Carries(s)'
  /\ \A j \in Effects : handler'[j].pc \in GrantedPcs => handler[j].pc \in GrantedPcs
  /\ \A j \in Effects : handler[j].pc = "returned" =>
       handler'[j].pc = "returned" /\ ledger'.records[j] = ledger.records[j]

LEMMA LedgerTyped ==
  ASSUME OperationInv
  PROVE  /\ ledger \in LedgerType /\ handler \in HandlerType
         /\ ledger.records \in Hosts /\ DOMAIN ledger.records \subseteq Effects
         /\ \A j \in Effects : handler[j] \in [pc : HandlerPc, native : BOOLEAN]
         /\ \A j \in Effects : RecordOf(handler[j], ledger.records, j)
         /\ \A j \in Effects : handler[j].pc \in OpenPcs => j \in DOMAIN ledger.records /\ ~ledger.sealed
         /\ \A j \in Effects : handler[j].pc \in GrantedPcs => j \in DOMAIN ledger.records
<1>1. ledger \in LedgerType /\ handler \in HandlerType
  BY DEF OperationInv, TypePart, OperationTypeOK, LedgerType, HandlerType
<1>2. ledger.records \in Hosts /\ DOMAIN ledger.records \subseteq Effects
  BY <1>1, HostsFacts DEF LedgerType
<1>3. \A j \in Effects : RecordOf(handler[j], ledger.records, j)
  BY DEF OperationInv, LedgerPart
<1>4. \A j \in Effects : handler[j].pc \in OpenPcs => j \in DOMAIN ledger.records /\ ledger.records[j].phase # "Completed"
  BY <1>3 DEF RecordOf, OpenPcs
<1>5. ledger.sealed => ~AnyEffectOpen(ledger.records)
  BY DEF OperationInv, LedgerPart
<1>6. \A j \in Effects : handler[j].pc \in GrantedPcs => j \in DOMAIN ledger.records
  BY <1>3 DEF RecordOf, GrantedPcs
<1> QED BY <1>1, <1>2, <1>3, <1>4, <1>5, <1>6 DEF AnyEffectOpen, HandlerType

LEMMA StayKept ==
  ASSUME OperationInv, UNCHANGED <<ledger, handler>>
  PROVE  EffectsKept /\ EvidenceKept
<1>1. ledger' \in LedgerType /\ handler' \in HandlerType
  BY LedgerTyped
<1>2. LedgerPart'
  BY DEF OperationInv, LedgerPart
<1>3. \A s : PrefixOver(s.finalization) => PrefixOver(s.finalization)'
  BY DEF PrefixOver
<1>4. \A s : Carries(s) => Carries(s)'
  BY DEF Carries
<1> QED BY <1>1, <1>2, <1>3, <1>4 DEF EffectsKept, EvidenceKept

LEMMA MoveKept ==
  ASSUME OperationInv, NEW i \in Effects, Moved(i)
  PROVE  EffectsKept
<1>1. \A j \in Effects : RecordOf(handler'[j], ledger'.records, j)
  <2> SUFFICES ASSUME NEW j \in Effects PROVE RecordOf(handler'[j], ledger'.records, j)
    OBVIOUS
  <2>1. CASE j = i
    BY <2>1 DEF Moved
  <2>2. CASE j # i
    <3>1. RecordOf(handler[j], ledger.records, j) /\ handler[j].pc \in HandlerPc
      BY LedgerTyped
    <3> QED BY <2>2, <3>1 DEF Moved, RecordOf
  <2> QED BY <2>1, <2>2
<1>2. LedgerPart'
  BY <1>1 DEF LedgerPart, Moved
<1>3. ASSUME NEW s \in Captured, PrefixOver(s.finalization) PROVE PrefixOver(s.finalization)'
  <2> DEFINE n == s.finalization.count
  <2>1. n \in 0 .. MaxEffects
    BY CapturedFacts
  <2> HIDE DEF n
  <2>2. \A j \in 1 .. n : j \in Effects
    BY <2>1, OperationAssumption DEF Effects
  <2>3. \A j \in 1 .. n : j \in DOMAIN ledger.records /\ ledger.records[j].phase = "Completed"
    BY <1>3 DEF PrefixOver, n
  <2>4. \A j \in 1 .. n : j \in DOMAIN ledger'.records /\ ledger'.records[j].phase = "Completed"
    BY <2>2, <2>3 DEF Moved
  <2> QED BY <2>4 DEF PrefixOver, n
<1> QED BY <1>2, <1>3 DEF EffectsKept, Moved

\* Evidence is kept when effect i is neither granted nor confirmed nor waiting.
LEMMA MoveEvidence ==
  ASSUME OperationInv, NEW i \in Effects, Moved(i),
         handler'[i].pc \in GrantedPcs => handler[i].pc \in GrantedPcs,
         handler'[i].pc # "confirmed", handler[i].pc # "returned"
  PROVE  EvidenceKept
<1>1. ASSUME NEW s, Carries(s) PROVE Carries(s)'
  <2>1. ASSUME NEW j \in Effects
        PROVE  /\ handler'[j].pc \in GrantedPcs => j \in DOMAIN s.host
               /\ handler'[j].pc = "confirmed" => s.host[j].effects = ledger'.records[j].effects
    <3>1. /\ handler[j].pc \in GrantedPcs => j \in DOMAIN s.host
          /\ handler[j].pc = "confirmed" => s.host[j].effects = ledger.records[j].effects
      BY <1>1 DEF Carries
    <3>2. handler[j].pc = "confirmed" => j \in DOMAIN ledger.records
      BY LedgerTyped DEF OpenPcs
    <3> QED BY <3>1, <3>2 DEF Moved
  <2> QED BY <2>1 DEF Carries
<1>2. \A j \in Effects : handler'[j].pc \in GrantedPcs => handler[j].pc \in GrantedPcs
  BY DEF Moved
<1>3. \A j \in Effects : handler[j].pc = "returned" =>
        handler'[j].pc = "returned" /\ ledger'.records[j] = ledger.records[j]
  <2> SUFFICES ASSUME NEW j \in Effects, handler[j].pc = "returned"
               PROVE  handler'[j].pc = "returned" /\ ledger'.records[j] = ledger.records[j]
    OBVIOUS
  <2>1. j \in DOMAIN ledger.records /\ j # i
    BY LedgerTyped DEF OpenPcs
  <2> QED BY <2>1 DEF Moved
<1> QED BY <1>1, <1>2, <1>3 DEF EvidenceKept

\* The record and the position of effect i change.
LEMMA SetMove ==
  ASSUME OperationInv, NEW i \in Effects, handler[i].pc \in OpenPcs,
         NEW x \in HostEffectRecord, NEW pc \in HandlerPc,
         ledger' = [ledger EXCEPT !.records = [ledger.records EXCEPT ![i] = x]],
         handler' = [handler EXCEPT ![i] = [handler[i] EXCEPT !.pc = pc]],
         pc # "absent",
         pc \in {"prepared", "permitted"} => x.phase = "Prepared",
         pc \in {"running", "returned", "confirmed"} => x.phase = "Running",
         pc \in {"done", "abandoned"} => x.phase = "Completed"
  PROVE  Moved(i) /\ handler'[i].pc = pc /\ ledger'.records[i] = x
<1> DEFINE h == [ledger.records EXCEPT ![i] = x]
<1> DEFINE k == [handler[i] EXCEPT !.pc = pc]
<1>1. /\ ledger \in LedgerType /\ handler \in HandlerType /\ ledger.records \in Hosts
      /\ handler[i] \in [pc : HandlerPc, native : BOOLEAN]
      /\ i \in DOMAIN ledger.records /\ ~ledger.sealed
      /\ RecordOf(handler[i], ledger.records, i)
  BY LedgerTyped
<1>2. /\ h \in Hosts /\ DOMAIN h = DOMAIN ledger.records /\ h[i] = x
      /\ \A j \in DOMAIN ledger.records : j # i => h[j] = ledger.records[j]
  BY <1>1, HostsExcept
<1>3. k \in [pc : HandlerPc, native : BOOLEAN] /\ k.pc = pc
  BY <1>1
<1> HIDE DEF h, k
<1>4. ledger' = [ledger EXCEPT !.records = h] /\ handler' = [handler EXCEPT ![i] = k]
  BY DEF h, k
<1>5. ledger' \in LedgerType /\ ledger'.records = h /\ ledger'.sealed = ledger.sealed
  BY <1>1, <1>2, <1>4 DEF LedgerType
<1>6. /\ handler' \in HandlerType /\ handler'[i] = k
      /\ \A j \in Effects : j # i => handler'[j] = handler[j]
  BY <1>1, <1>3, <1>4 DEF HandlerType
<1>7. RecordOf(k, h, i)
  BY <1>1, <1>2, <1>3 DEF RecordOf
<1>8. ledger.records[i].phase # "Completed"
  BY <1>1 DEF RecordOf, OpenPcs
<1>9. ~ledger'.sealed
  BY <1>1, <1>5
<1>10. \A j \in Effects : j # i =>
       /\ handler'[j] = handler[j]
       /\ j \in DOMAIN ledger'.records <=> j \in DOMAIN ledger.records
       /\ j \in DOMAIN ledger.records => ledger'.records[j] = ledger.records[j]
  BY <1>2, <1>5, <1>6
<1> QED BY <1>1, <1>2, <1>3, <1>5, <1>6, <1>7, <1>8, <1>9, <1>10 DEF Moved

LEMMA DropMove ==
  ASSUME OperationInv, NEW i \in Effects, handler[i].pc \in {"prepared", "permitted", "confirmed"},
         Dropped(i)
  PROVE  EffectsKept /\ EvidenceKept
<1> DEFINE x == [ledger.records[i] EXCEPT !.phase = "Completed"]
<1>1. i \in DOMAIN ledger.records /\ ledger.records[i] \in HostEffectRecord
      /\ ledger \in LedgerType /\ handler \in HandlerType
  BY LedgerTyped, HostsFacts DEF OpenPcs
<1>2. x \in HostEffectRecord /\ x.phase = "Completed"
  BY <1>1 DEF HostEffectRecord, HostEffectPhase
<1>3. PICK pc \in {"done", "abandoned"} :
        /\ pc = "done" => handler[i].pc = "confirmed"
        /\ handler' = [handler EXCEPT ![i] = [handler[i] EXCEPT !.pc = pc]]
  BY DEF Dropped
<1>4. ledger' = [ledger EXCEPT !.records = [ledger.records EXCEPT ![i] = x]]
  BY DEF Dropped
<1> HIDE DEF x
<1>5. handler[i].pc \in OpenPcs /\ pc \in HandlerPc /\ pc # "absent" /\ pc \notin {"prepared", "permitted"}
      /\ pc \notin {"running", "returned", "confirmed"}
  BY <1>3 DEF OpenPcs, HandlerPc
<1>6. Moved(i) /\ handler'[i].pc = pc
  BY <1>2, <1>3, <1>4, <1>5, SetMove
<1>7. (pc \in GrantedPcs => handler[i].pc \in GrantedPcs) /\ pc # "confirmed" /\ handler[i].pc # "returned"
  BY <1>3, <1>5 DEF GrantedPcs
<1> QED BY <1>6, <1>7, MoveKept, MoveEvidence

LEMMA BeginMove ==
  ASSUME OperationInv, NEW i \in Effects, begin(i)
  PROVE  EffectsKept /\ EvidenceKept
<1> DEFINE x == [phase |-> "Running", effects |-> "Unknown"]
<1>1. x \in HostEffectRecord /\ x.phase = "Running"
  BY DEF HostEffectRecord, HostEffectPhase, EffectState
<1>2. handler[i].pc = "permitted" /\ handler[i].pc \in OpenPcs /\ "running" \in HandlerPc
  BY DEF begin, OpenPcs, HandlerPc
<1>3. /\ ledger' = [ledger EXCEPT !.records = [ledger.records EXCEPT ![i] = x]]
      /\ handler' = [handler EXCEPT ![i] = [handler[i] EXCEPT !.pc = "running"]]
  BY DEF begin
<1> HIDE DEF x
<1>4. Moved(i) /\ handler'[i].pc = "running"
  BY <1>1, <1>2, <1>3, SetMove
<1> QED BY <1>2, <1>4, MoveKept, MoveEvidence DEF GrantedPcs

LEMMA ObserveMove ==
  ASSUME OperationInv, NEW i \in Effects, NEW e \in Evidence, observe(i, e)
  PROVE  EffectsKept /\ EvidenceKept
<1> DEFINE x == [ledger.records[i] EXCEPT !.effects = e]
<1>1. handler[i].pc = "running" /\ handler[i].pc \in OpenPcs /\ "returned" \in HandlerPc
  BY DEF observe, OpenPcs, HandlerPc
<1>2. /\ i \in DOMAIN ledger.records /\ ledger.records[i] \in HostEffectRecord
      /\ ledger.records[i].phase = "Running"
  BY <1>1, LedgerTyped, HostsFacts DEF RecordOf
<1>3. x \in HostEffectRecord /\ x.phase = "Running"
  BY <1>2, OperationAssumption DEF HostEffectRecord
<1>4. /\ ledger' = [ledger EXCEPT !.records = [ledger.records EXCEPT ![i] = x]]
      /\ handler' = [handler EXCEPT ![i] = [handler[i] EXCEPT !.pc = "returned"]]
  BY DEF observe
<1> HIDE DEF x
<1>5. Moved(i) /\ handler'[i].pc = "returned"
  BY <1>1, <1>3, <1>4, SetMove
<1> QED BY <1>1, <1>5, MoveKept, MoveEvidence DEF GrantedPcs

LEMMA PrepareMove ==
  ASSUME OperationInv, NEW i \in Effects, NEW stage, NEW native \in BOOLEAN, prepare(i, stage, native)
  PROVE  EffectsKept /\ EvidenceKept
<1> DEFINE x == [phase |-> "Prepared", effects |-> "NotStarted"]
<1> DEFINE h == Append(ledger.records, x)
<1> DEFINE k == [pc |-> "prepared", native |-> native]
<1>1. ledger \in LedgerType /\ handler \in HandlerType /\ ledger.records \in Hosts
  BY LedgerTyped
<1>2. x \in HostEffectRecord /\ x.phase = "Prepared"
  BY DEF HostEffectRecord, HostEffectPhase, EffectState, ResolvedEffectState
<1>3. i = Len(ledger.records) + 1 /\ ~ledger.sealed
  BY DEF prepare
<1>4. Len(ledger.records) < MaxEffects
  BY <1>1, <1>3, HostsFacts, OperationAssumption DEF Effects
<1>5. /\ h \in Hosts /\ DOMAIN h = DOMAIN ledger.records \cup {i} /\ i \notin DOMAIN ledger.records
      /\ h[i] = x /\ \A j \in DOMAIN ledger.records : h[j] = ledger.records[j]
  BY <1>1, <1>2, <1>3, <1>4, HostsAppend
<1>6. ledger' = [ledger EXCEPT !.records = h] /\ handler' = [handler EXCEPT ![i] = k]
  BY DEF prepare
<1>7. k \in [pc : HandlerPc, native : BOOLEAN] /\ k.pc = "prepared"
  BY DEF HandlerPc
<1> HIDE DEF h, k, x
<1>8. ledger' \in LedgerType /\ ledger'.records = h /\ ledger'.sealed = ledger.sealed
  BY <1>1, <1>5, <1>6 DEF LedgerType
<1>9. /\ handler' \in HandlerType /\ handler'[i] = k
      /\ \A j \in Effects : j # i => handler'[j] = handler[j]
  BY <1>1, <1>6, <1>7 DEF HandlerType
<1>10. RecordOf(k, h, i)
  BY <1>2, <1>5, <1>7 DEF RecordOf
<1>11. Moved(i)
  BY <1>3, <1>5, <1>8, <1>9, <1>10 DEF Moved
<1>12. handler[i].pc = "absent"
  BY <1>5, LedgerTyped DEF RecordOf
<1> QED BY <1>7, <1>9, <1>11, <1>12, MoveKept, MoveEvidence DEF GrantedPcs

\* A durable intent or outcome of effect i moves its caller on.
LEMMA GrantMove ==
  ASSUME OperationInv, NEW i \in Effects, NEW from, NEW pc,
         (from = "prepared" /\ pc = "permitted") \/ (from = "returned" /\ pc = "confirmed"),
         handler[i].pc = from, UNCHANGED ledger,
         handler' = [handler EXCEPT ![i] = [handler[i] EXCEPT !.pc = pc]],
         NEW s, Carries(s), i \in DOMAIN s.host,
         pc = "confirmed" => s.host[i].effects = ledger.records[i].effects
  PROVE  EffectsKept /\ Carries(s)'
<1> DEFINE k == [handler[i] EXCEPT !.pc = pc]
<1>1. /\ ledger \in LedgerType /\ handler \in HandlerType
      /\ handler[i] \in [pc : HandlerPc, native : BOOLEAN] /\ handler[i].pc \in OpenPcs
      /\ RecordOf(handler[i], ledger.records, i)
      /\ i \in DOMAIN ledger.records /\ ~ledger.sealed
  BY LedgerTyped DEF OpenPcs
<1>2. k \in [pc : HandlerPc, native : BOOLEAN] /\ k.pc = pc
  BY <1>1 DEF HandlerPc
<1> HIDE DEF k
<1>3. handler' = [handler EXCEPT ![i] = k] /\ ledger' = ledger
  BY DEF k
<1>4. /\ handler' \in HandlerType /\ handler'[i] = k
      /\ \A j \in Effects : j # i => handler'[j] = handler[j]
  BY <1>1, <1>2, <1>3 DEF HandlerType
<1>5. RecordOf(k, ledger.records, i)
  BY <1>1, <1>2 DEF RecordOf
<1>6. ledger.records[i].phase # "Completed"
  BY <1>1 DEF RecordOf, OpenPcs
<1>7. Moved(i)
  BY <1>1, <1>3, <1>4, <1>5, <1>6 DEF Moved
<1>8. Carries(s)'
  BY <1>2, <1>3, <1>4 DEF Carries, GrantedPcs
<1> QED BY <1>7, <1>8, MoveKept

-----------------------------------------------------------------------------
(* The invariant after each kind of step.                                  *)

\* A step of an open effect that writes nothing.
LEMMA EffectOnly ==
  ASSUME OperationInv, EffectsKept, EvidenceKept, ~ledger.sealed,
         UNCHANGED <<writerVars, snapshot, cancelled, transition, gate, revision, finalization,
                     pending_completion, completion_checkpoint>>
  PROVE  OperationInv'
<1> USE DEF OperationInv
<1>0. /\ Disk' = Disk /\ UNCHANGED <<rows, storage_failure, connection, attempts>>
      /\ pending_completion = NoSnapshot /\ completion_checkpoint = NoCheckpoint
      /\ ~is_terminal(snapshot.phase)
  BY DEF writerVars, journalVars, Disk, CompletionPart, PublicPart
<1>1. TypePart'
  BY <1>0 DEF TypePart, OperationTypeOK, JournalTypeOK, EffectsKept, LedgerType, HandlerType
<1>2. WriterPart'
  BY <1>0 DEF WriterPart, Retained
<1>3. LedgerPart'
  BY DEF EffectsKept
<1>4. PublicPart'
  BY <1>0 DEF PublicPart, EffectsKept
<1>5. TransitionPart'
  <2>1. CASE transition = NoCheckpoint
    BY <2>1 DEF TransitionPart
  <2>2. CASE transition # NoCheckpoint
    <3>1. TransitionShape(transition)
      BY <2>2 DEF TransitionPart
    <3>2. PICK s \in Captured : s = transition.snapshot
      BY <3>1 DEF TransitionShape
    <3>3. PrefixOver(transition.snapshot.finalization)' /\ Carries(transition.snapshot)'
      BY <3>1, <3>2 DEF TransitionShape, EffectsKept, EvidenceKept
    <3>4. TransitionShape(transition)'
      BY <3>1, <3>3 DEF TransitionShape, EffectsKept, EvidenceKept, Merged
    <3> QED BY <2>2, <3>4 DEF TransitionPart
  <2> QED BY <2>1, <2>2
<1>6. CompletionPart'
  BY <1>0 DEF CompletionPart
<1>7. DiskPart'
  <2>1. PICK s : s = Disk.snapshot
    OBVIOUS
  <2>2. Disk # NoRow => Carries(Disk.snapshot)'
    BY <1>0, <2>1 DEF DiskPart, EvidenceKept
  <2> QED BY <1>0, <2>2 DEF DiskPart, Merged, EvidenceKept
<1> QED BY <1>1, <1>2, <1>3, <1>4, <1>5, <1>6, <1>7

\* The retained checkpoint of the gate: nothing terminal is prepared.
LEMMA RetainedFacts ==
  ASSUME OperationInv, transition # NoCheckpoint
  PROVE  /\ transition \in PendingCheckpoint /\ TransitionShape(transition)
         /\ CheckpointShape(transition, Disk, revision, attempts)
         /\ ~is_terminal(snapshot.phase)
         /\ pending_completion = NoSnapshot /\ completion_checkpoint = NoCheckpoint
<1>1. transition \in PendingCheckpoint /\ TransitionShape(transition)
  BY DEF OperationInv, TypePart, OperationTypeOK, TransitionPart
<1>2. CheckpointShape(transition, Disk, revision, attempts)
  BY DEF OperationInv, WriterPart, WriterShape, Retained
<1>3. /\ ~is_terminal(snapshot.phase)
      /\ pending_completion = NoSnapshot /\ completion_checkpoint = NoCheckpoint
  BY DEF OperationInv, PublicPart, CompletionPart
<1> QED BY <1>1, <1>2, <1>3

\* A new capture over an idle writer.
LEMMA CaptureFacts ==
  ASSUME OperationInv, transition = NoCheckpoint, completion_checkpoint = NoCheckpoint,
         NEW s \in Captured, validate_finalization(s), validate_finalization_successor(s, snapshot),
         NEW purpose \in {"lifecycle", "start", "outcome"}, NEW i \in 0 .. MaxEffects
  PROVE  LET cp == NewCheckpoint(purpose, i, s) IN
         /\ cp \in PendingCheckpoint
         /\ cp.purpose = purpose /\ cp.effect = i /\ cp.snapshot = s /\ cp.attempt = "New"
         /\ cp # NoCheckpoint
         /\ CheckpointShape(cp, Disk, revision, attempts)
<1>1. IdleShape(Disk, revision, attempts)
  BY DEF OperationInv, WriterPart, WriterShape, Retained
<1>2. Disk # NoRow => Disk.snapshot.finalization = snapshot.finalization
  BY <1>1 DEF IdleShape, OperationInv, PublicPart
<1>3. Disk # NoRow => validate_finalization_successor(s, Disk.snapshot)
  BY <1>2 DEF validate_finalization_successor
<1> QED BY <1>1, <1>3, NewShape

LEMMA InvTyped ==
  ASSUME OperationInv
  PROVE  WriterTyped /\ snapshot \in Captured /\ OperationTypeOK
  BY DEF OperationInv, TypePart, OperationTypeOK, WriterTyped, PublicPart

\* A drive under the gate, with whatever the caller's effect does.
LEMMA GateDrive ==
  ASSUME OperationInv, ~is_terminal(snapshot.phase),
         pending_completion = NoSnapshot, completion_checkpoint = NoCheckpoint,
         NEW cp \in PendingCheckpoint, TransitionShape(cp), NEW d, DriveResult(cp, d),
         UNCHANGED <<cancelled, finalization, pending_completion, completion_checkpoint>>,
         EffectsKept,
         \/ /\ d.result = "done" /\ transition' = NoCheckpoint
            /\ Carries(cp.snapshot)'
            /\ snapshot' = IF cp.purpose = "lifecycle" THEN cp.snapshot ELSE snapshot
         \/ /\ d.result = "done" => cp.purpose = "outcome"
            /\ transition' = d.cp /\ snapshot' = snapshot
            /\ EvidenceKept,
         gate' \in Effects \cup {Free, Owner}, gate' = Owner => transition' # NoCheckpoint
  PROVE  OperationInv'
<1> DEFINE s == cp.snapshot
<1>1. /\ UNCHANGED <<rows, storage_failure, connection>> /\ Disk' = Disk
      /\ d.cp \in PendingCheckpoint /\ d.cp # NoCheckpoint
      /\ d.cp.snapshot = s /\ d.cp.purpose = cp.purpose /\ d.cp.effect = cp.effect
      /\ CheckpointShape(d.cp, Disk, revision', attempts')
      /\ d.result = "done" <=> d.cp.attempt = "Acknowledged"
  BY CheckpointAssumption DEF DriveResult, journalVars, Disk
<1>2. d.result = "done" => IdleShape(Disk, revision', attempts') /\ Disk # NoRow /\ Disk.snapshot = s
  BY DEF DriveResult
<1>3. d.result # "done" => revision' = revision
  BY DEF DriveResult
<1>4. /\ s \in Captured /\ ~is_terminal(s.phase) /\ PrefixOver(s.finalization) /\ s \in Snapshots
      /\ s.finalization.outcome # "none" => ledger.sealed /\ finalization.outcome_prepared
  BY CapturedFacts DEF TransitionShape
<1>5. validate_finalization(s)
  BY <1>1 DEF CheckpointShape
<1>6. snapshot \in Captured /\ snapshot \in Snapshots /\ validate_finalization(snapshot)
  BY CapturedFacts DEF OperationInv, PublicPart
<1>7. transition' \in PendingCheckpoint \cup {NoCheckpoint} /\ (snapshot' = snapshot \/ snapshot' = s)
  BY <1>1
<1>8. TypePart'
  <2>1. attempts' \in [ReceiptIds -> Attempt \cup {NoReceipt}] /\ revision' \in 0 .. MaxRevision
    BY DEF DriveResult
  <2>2. snapshot' \in Snapshots
    BY <1>4, <1>6, <1>7
  <2>3. JournalTypeOK'
    BY <1>1 DEF JournalTypeOK, OperationInv, TypePart
  <2>4. OperationTypeOK'
    BY <1>7, <2>1, <2>2 DEF OperationInv, TypePart, OperationTypeOK, EffectsKept, LedgerType, HandlerType
  <2> QED BY <2>1, <2>3, <2>4 DEF TypePart
<1>9. WriterPart'
  <2>1. CASE transition' = d.cp
    <3>1. WriterShape(d.cp, Disk, revision', attempts')
      BY <1>1 DEF WriterShape
    <3>2. Retained' = d.cp
      BY <1>1, <2>1 DEF Retained
    <3> QED BY <1>1, <3>1, <3>2 DEF WriterPart
  <2>2. CASE transition' = NoCheckpoint /\ d.result = "done"
    <3>1. WriterShape(NoCheckpoint, Disk, revision', attempts')
      BY <1>2, <2>2 DEF WriterShape
    <3>2. Retained' = NoCheckpoint
      BY <2>2 DEF Retained
    <3> QED BY <1>1, <3>1, <3>2 DEF WriterPart
  <2> QED BY <2>1, <2>2
<1>10. LedgerPart'
  BY DEF EffectsKept
<1>11. PublicPart'
  <2>1. snapshot' \in Captured /\ validate_finalization(snapshot') /\ ~is_terminal(snapshot'.phase)
    BY <1>4, <1>5, <1>6, <1>7
  <2>2. /\ PrefixOver(s.finalization)' /\ PrefixOver(snapshot.finalization)
        /\ ledger'.sealed <=> ledger.sealed
    BY <1>4 DEF EffectsKept, OperationInv, PublicPart
  <2>3. PICK t \in Captured : t = snapshot
    BY <1>6
  <2>4. PrefixOver(t.finalization)'
    BY <2>2, <2>3 DEF EffectsKept
  <2>5. PICK u : u = s /\ PrefixOver(u.finalization)'
    BY <2>2
  <2>6. PrefixOver(snapshot.finalization)'
    BY <1>7, <2>3, <2>4, <2>5 DEF PrefixOver
  <2>7. snapshot'.finalization.outcome # "none" => ledger'.sealed /\ finalization'.outcome_prepared
    BY <1>4, <1>7, <2>2 DEF OperationInv, PublicPart
  <2>8. finalization'.control_issued => snapshot'.finalization # NoFinalization
    <3>1. finalization.control_issued => snapshot.finalization # NoFinalization
      BY DEF OperationInv, PublicPart
    <3>2. snapshot.finalization # NoFinalization => s.finalization # NoFinalization
      <4>1. snapshot.finalization # NoFinalization =>
              snapshot.finalization.business \in Outcome /\ s.finalization.business = snapshot.finalization.business
        BY <1>6, CapturedFacts DEF TransitionShape, validate_finalization_successor
      <4>2. NoFinalization.business \notin Outcome
        BY DEF NoFinalization, Outcome
      <4> QED BY <4>1, <4>2
    <3> QED BY <1>7, <3>1, <3>2
  <2>9. IF Disk = NoRow THEN snapshot'.finalization = NoFinalization
        ELSE Disk.revision = revision' => Disk.snapshot.finalization = snapshot'.finalization
    <3>1. CASE d.result = "done"
      BY <1>2, <3>1 DEF TransitionShape
    <3>2. CASE d.result # "done"
      <4>1. snapshot' = snapshot /\ revision' = revision
        BY <1>3, <3>2
      <4> QED BY <4>1 DEF OperationInv, PublicPart
    <3> QED BY <3>1, <3>2
  <2> QED BY <1>1, <2>1, <2>6, <2>7, <2>8, <2>9 DEF PublicPart
<1>12. TransitionPart'
  <2>1. CASE transition' = NoCheckpoint
    BY <2>1 DEF TransitionPart
  <2>2. CASE transition' = d.cp /\ snapshot' = snapshot /\ EvidenceKept /\ (d.result = "done" => cp.purpose = "outcome")
    <3>1. PICK t \in Captured : t = s
      BY <1>4
    <3>2. PrefixOver(t.finalization)' /\ Carries(t)'
      BY <1>4, <2>2, <3>1 DEF EffectsKept, EvidenceKept, TransitionShape
    <3>3. PICK c : c = d.cp
      OBVIOUS
    <3>4. /\ c.snapshot = t /\ c.purpose = cp.purpose /\ c.effect = cp.effect
          /\ c.purpose = "lifecycle" => c.attempt # "Acknowledged"
      BY <1>1, <2>2, <3>1, <3>3
    <3>5. PrefixOver(c.snapshot.finalization)' /\ Carries(c.snapshot)'
      BY <3>2, <3>4
    <3>6. Merged(t) /\ validate_finalization_successor(t, snapshot)
      BY <3>1 DEF TransitionShape
    <3>7. c.purpose = "outcome" =>
            /\ c.effect \in Effects /\ handler'[c.effect].pc = "returned"
            /\ c.effect \in DOMAIN t.host
            /\ t.host[c.effect].effects = ledger'.records[c.effect].effects
      BY <2>2, <3>1, <3>4 DEF TransitionShape, EvidenceKept
    <3>8. c.purpose = "start" => c.effect \in Effects /\ c.effect \in DOMAIN t.host
      BY <3>1, <3>4 DEF TransitionShape
    <3>9. /\ t.finalization.outcome # "none" => ledger'.sealed /\ finalization'.outcome_prepared
          /\ c.purpose # "lifecycle" => t.finalization = snapshot'.finalization
      BY <1>4, <2>2, <3>1, <3>4 DEF TransitionShape, EffectsKept
    <3>10. TransitionShape(c)'
      BY <1>4, <2>2, <3>1, <3>4, <3>5, <3>6, <3>7, <3>8, <3>9 DEF TransitionShape
    <3> QED BY <1>1, <2>2, <3>3, <3>10 DEF TransitionPart
  <2> QED BY <2>1, <2>2
<1>13. CompletionPart'
  BY DEF CompletionPart
<1>14. DiskPart'
  <2>1. ~(Disk # NoRow /\ is_terminal(Disk.snapshot.phase))
    BY DEF OperationInv, DiskPart
  <2>2. Disk # NoRow => Merged(Disk.snapshot)
    BY DEF OperationInv, DiskPart
  <2>3. PICK t : t = Disk.snapshot
    OBVIOUS
  <2>4. Disk # NoRow => Carries(t)'
    <3>1. CASE d.result = "done" /\ Carries(s)'
      <4>1. PICK u : u = s /\ Carries(u)'
        BY <3>1
      <4> QED BY <1>2, <2>3, <3>1, <4>1
    <3>2. CASE EvidenceKept
      BY <2>3, <3>2 DEF EvidenceKept, OperationInv, DiskPart
    <3> QED BY <3>1, <3>2
  <2>5. \A i \in Effects : handler'[i].pc \in GrantedPcs => Disk # NoRow
    BY <1>2 DEF OperationInv, DiskPart, EvidenceKept
  <2> QED BY <1>1, <2>1, <2>2, <2>3, <2>4, <2>5 DEF DiskPart, Merged
<1> QED BY <1>8, <1>9, <1>10, <1>11, <1>12, <1>13, <1>14 DEF OperationInv

-----------------------------------------------------------------------------
(* Captures of the gate.                                                   *)

\* A capture that repeats the finalization evidence of the public snapshot.
LEMMA SameFinalization ==
  ASSUME OperationInv, ~is_terminal(snapshot.phase), NEW s \in Captured,
         s.finalization = snapshot.finalization, ~is_terminal(s.phase),
         s.finalization # NoFinalization => s.phase = snapshot.phase,
         DOMAIN s.host = DOMAIN ledger.records,
         \A j \in DOMAIN s.host : s.host[j].phase # "Completed" => ledger.records[j].phase # "Completed"
  PROVE  /\ validate_finalization(s) /\ validate_finalization_successor(s, snapshot)
         /\ PrefixOver(s.finalization)
         /\ s.finalization.outcome # "none" => ledger.sealed /\ finalization.outcome_prepared
<1> DEFINE f == s.finalization
<1> DEFINE open == {i \in DOMAIN s.host : s.host[i].phase # "Completed"}
<1>1. /\ PrefixOver(f) /\ validate_finalization(snapshot)
      /\ f.outcome # "none" => ledger.sealed /\ finalization.outcome_prepared
  BY DEF OperationInv, PublicPart
<1>2. f.count \in 0 .. MaxEffects /\ s.host \in Hosts
  BY CapturedFacts
<1>3. Len(s.host) \in Nat /\ DOMAIN s.host = 1 .. Len(s.host)
  BY <1>2, HostsFacts
<1>4. f.count <= Len(s.host)
  <2>1. CASE f.count = 0
    BY <2>1, <1>3
  <2>2. CASE f.count # 0
    <3>1. f.count \in 1 .. f.count
      BY <1>2, <2>2, OperationAssumption
    <3>2. f.count \in DOMAIN s.host
      BY <1>1, <3>1 DEF PrefixOver
    <3> QED BY <1>2, <1>3, <3>2
  <2> QED BY <2>1, <2>2
<1>5. \A i \in open : i > f.count
  <2> SUFFICES ASSUME NEW i \in DOMAIN s.host, s.host[i].phase # "Completed" PROVE i > f.count
    OBVIOUS
  <2>1. i \notin 1 .. f.count
    BY <1>1 DEF PrefixOver
  <2> QED BY <1>2, <1>3, <2>1
<1>6. f.outcome # "none" => open = {}
  <2>1. ledger.sealed => ~AnyEffectOpen(ledger.records)
    BY DEF OperationInv, LedgerPart
  <2> QED BY <1>1, <2>1 DEF AnyEffectOpen
<1>7. f # NoFinalization => s.phase = "Cleaning"
  BY <1>1 DEF validate_finalization
<1>8. validate_finalization(s)
  BY <1>4, <1>5, <1>6, <1>7 DEF validate_finalization
<1>9. validate_finalization_successor(s, snapshot)
  BY DEF validate_finalization_successor
<1> QED BY <1>1, <1>8, <1>9

\* The ledger's own records carry everything that is granted.
LEMMA RecordsCarry ==
  ASSUME OperationInv, NEW s, DOMAIN s.host = DOMAIN ledger.records,
         \A j \in Effects : handler[j].pc = "confirmed" => s.host[j] = ledger.records[j]
  PROVE  Carries(s)
  BY LedgerTyped DEF Carries

\* The phases that a finalization intent excludes.
LEMMA AdvanceOpen ==
  ASSUME OperationInv, NEW phase, LegalAdvance(snapshot.phase, phase)
  PROVE  ~is_terminal(snapshot.phase) /\ snapshot.finalization = NoFinalization
<1>1. snapshot.phase \notin TerminalPhases \cup {"Cleaning"}
  BY DEF LegalAdvance, TerminalPhases
<1> QED BY <1>1 DEF OperationInv, PublicPart, validate_finalization, is_terminal

\* No terminal candidate exists when an effect is open or the phase may change.
LEMMA NothingPending ==
  ASSUME OperationInv, pending_completion = NoSnapshot \/ ~ledger.sealed
  PROVE  pending_completion = NoSnapshot /\ completion_checkpoint = NoCheckpoint
  BY DEF OperationInv, CompletionPart

LEMMA AdvanceCapture ==
  ASSUME OperationInv, pending_completion = NoSnapshot, transition = NoCheckpoint,
         NEW phase \in Targets, LegalAdvance(snapshot.phase, phase),
         NEW cp, cp = NewCheckpoint("lifecycle", 0, project(advance_snapshot(snapshot, phase)))
  PROVE  /\ cp \in PendingCheckpoint /\ cp # NoCheckpoint /\ TransitionShape(cp)
         /\ CheckpointShape(cp, Disk, revision, attempts)
         /\ ~is_terminal(snapshot.phase) /\ completion_checkpoint = NoCheckpoint
         /\ cp.purpose = "lifecycle" /\ cp.snapshot.host = ledger.records
<1> DEFINE a == advance_snapshot(snapshot, phase)
<1> DEFINE s == project(a)
<1>1. ~is_terminal(snapshot.phase) /\ snapshot.finalization = NoFinalization
  BY AdvanceOpen
<1>2. phase \in OperationPhase /\ ~is_terminal(phase)
  BY OperationAssumption DEF NonTerminalPhases, OperationPhase, TerminalPhases, is_terminal
<1>3. a \in Captured /\ a.phase = phase /\ a.finalization = snapshot.finalization
  BY <1>2, InvTyped, AdvanceFacts
<1>4. /\ s \in Captured /\ s.phase = phase /\ s.host = ledger.records
      /\ s.finalization = snapshot.finalization /\ Merged(s)
  BY <1>3, InvTyped, ProjectFacts
<1> HIDE DEF a, s
<1>5. /\ validate_finalization(s) /\ validate_finalization_successor(s, snapshot)
      /\ PrefixOver(s.finalization)
      /\ s.finalization.outcome # "none" => ledger.sealed /\ finalization.outcome_prepared
  BY <1>1, <1>2, <1>4, SameFinalization
<1>6. Carries(s)
  BY <1>4, RecordsCarry
<1>7. completion_checkpoint = NoCheckpoint
  BY NothingPending
<1>8. 0 \in 0 .. MaxEffects /\ "lifecycle" \in {"lifecycle", "start", "outcome"} /\ cp = NewCheckpoint("lifecycle", 0, s)
  BY OperationAssumption DEF a, s
<1>9. /\ cp \in PendingCheckpoint /\ cp.purpose = "lifecycle" /\ cp.snapshot = s /\ cp.attempt = "New"
      /\ cp # NoCheckpoint /\ CheckpointShape(cp, Disk, revision, attempts)
  BY <1>4, <1>5, <1>7, <1>8, CaptureFacts
<1>10. TransitionShape(cp)
  BY <1>2, <1>4, <1>5, <1>6, <1>9 DEF TransitionShape
<1> QED BY <1>1, <1>4, <1>7, <1>9, <1>10

LEMMA StartCapture ==
  ASSUME OperationInv, transition = NoCheckpoint, NEW i \in Effects, handler[i].pc = "prepared",
         ~is_terminal(snapshot.phase), NEW cp, cp = NewCheckpoint("start", i, StartCandidate(i))
  PROVE  /\ cp \in PendingCheckpoint /\ cp # NoCheckpoint /\ TransitionShape(cp)
         /\ CheckpointShape(cp, Disk, revision, attempts)
         /\ cp.purpose = "start" /\ cp.effect = i
         /\ pending_completion = NoSnapshot /\ completion_checkpoint = NoCheckpoint
<1> DEFINE s == StartCandidate(i)
<1>1. i \in DOMAIN ledger.records /\ ~ledger.sealed /\ ledger.records[i].phase # "Completed"
  BY LedgerTyped DEF OpenPcs, RecordOf
<1>2. /\ s \in Captured /\ s.phase = snapshot.phase /\ s.finalization = snapshot.finalization
      /\ DOMAIN s.host = DOMAIN ledger.records
      /\ s.host[i] = [phase |-> "Running", effects |-> "Unknown"]
      /\ \A j \in DOMAIN ledger.records : j # i => s.host[j] = ledger.records[j]
      /\ Merged(s)
  BY <1>1, InvTyped, StartFacts
<1> HIDE DEF s
<1>3. /\ validate_finalization(s) /\ validate_finalization_successor(s, snapshot)
      /\ PrefixOver(s.finalization)
      /\ s.finalization.outcome # "none" => ledger.sealed /\ finalization.outcome_prepared
  BY <1>1, <1>2, SameFinalization
<1>4. Carries(s)
  <2>1. \A j \in Effects : handler[j].pc = "confirmed" => j # i /\ j \in DOMAIN ledger.records
    BY LedgerTyped DEF OpenPcs
  <2> QED BY <1>2, <2>1, RecordsCarry
<1>5. pending_completion = NoSnapshot /\ completion_checkpoint = NoCheckpoint
  BY <1>1, NothingPending
<1>6. i \in 0 .. MaxEffects /\ "start" \in {"lifecycle", "start", "outcome"} /\ cp = NewCheckpoint("start", i, s)
  BY OperationAssumption DEF Effects, s
<1>7. /\ cp \in PendingCheckpoint /\ cp.purpose = "start" /\ cp.effect = i /\ cp.snapshot = s
      /\ cp.attempt = "New" /\ cp # NoCheckpoint /\ CheckpointShape(cp, Disk, revision, attempts)
  BY <1>2, <1>3, <1>5, <1>6, CaptureFacts
<1>8. TransitionShape(cp)
  BY <1>1, <1>2, <1>3, <1>4, <1>7 DEF TransitionShape
<1> QED BY <1>5, <1>7, <1>8

LEMMA OutcomeCapture ==
  ASSUME OperationInv, transition = NoCheckpoint, NEW i \in Effects, handler[i].pc = "returned",
         ~is_terminal(snapshot.phase), NEW cp, cp = NewCheckpoint("outcome", i, project(snapshot))
  PROVE  /\ cp \in PendingCheckpoint /\ cp # NoCheckpoint /\ TransitionShape(cp)
         /\ CheckpointShape(cp, Disk, revision, attempts)
         /\ cp.purpose = "outcome" /\ cp.effect = i
         /\ pending_completion = NoSnapshot /\ completion_checkpoint = NoCheckpoint
<1> DEFINE s == project(snapshot)
<1>1. i \in DOMAIN ledger.records /\ ~ledger.sealed
  BY LedgerTyped DEF OpenPcs
<1>2. /\ s \in Captured /\ s.phase = snapshot.phase /\ s.host = ledger.records
      /\ s.finalization = snapshot.finalization /\ Merged(s)
  BY InvTyped, ProjectFacts
<1> HIDE DEF s
<1>3. /\ validate_finalization(s) /\ validate_finalization_successor(s, snapshot)
      /\ PrefixOver(s.finalization)
      /\ s.finalization.outcome # "none" => ledger.sealed /\ finalization.outcome_prepared
  BY <1>2, SameFinalization
<1>4. Carries(s)
  BY <1>2, RecordsCarry
<1>5. pending_completion = NoSnapshot /\ completion_checkpoint = NoCheckpoint
  BY <1>1, NothingPending
<1>6. i \in 0 .. MaxEffects /\ "outcome" \in {"lifecycle", "start", "outcome"} /\ cp = NewCheckpoint("outcome", i, s)
  BY OperationAssumption DEF Effects, s
<1>7. /\ cp \in PendingCheckpoint /\ cp.purpose = "outcome" /\ cp.effect = i /\ cp.snapshot = s
      /\ cp.attempt = "New" /\ cp # NoCheckpoint /\ CheckpointShape(cp, Disk, revision, attempts)
  BY <1>2, <1>3, <1>5, <1>6, CaptureFacts
<1>8. TransitionShape(cp)
  BY <1>1, <1>2, <1>3, <1>4, <1>7 DEF TransitionShape
<1> QED BY <1>5, <1>7, <1>8

-----------------------------------------------------------------------------
(* The owner's steps.                                                      *)

\* The public snapshot stays, or becomes the durable one.
Published == snapshot' = snapshot \/ (Disk # NoRow /\ snapshot' = Disk.snapshot)

LEMMA DriveAdvanceSound ==
  ASSUME OperationInv, NEW cp \in PendingCheckpoint, TransitionShape(cp),
         CheckpointShape(cp, Disk, revision, attempts),
         ~is_terminal(snapshot.phase), pending_completion = NoSnapshot,
         completion_checkpoint = NoCheckpoint,
         NEW wait \in BOOLEAN, NEW retry \in BOOLEAN, drive_advance(cp, wait, retry)
  PROVE  OperationInv' /\ Published
<1>1. PICK admitted \in Admission :
        LET d == Driven(cp, retry, admitted) IN
        /\ DriveEffect(cp, d)
        /\ transition' = IF d.result = "done" /\ cp.purpose # "outcome" THEN NoCheckpoint ELSE d.cp
        /\ snapshot' = IF d.result = "done" /\ cp.purpose = "lifecycle" THEN cp.snapshot ELSE snapshot
        /\ gate' = IF d.result = "pending" /\ wait THEN Owner ELSE Free
  BY Zenon DEF drive_advance
<1>2. PICK d : d = Driven(cp, retry, admitted)
  OBVIOUS
<1>3. /\ DriveEffect(cp, d)
      /\ transition' = IF d.result = "done" /\ cp.purpose # "outcome" THEN NoCheckpoint ELSE d.cp
      /\ snapshot' = IF d.result = "done" /\ cp.purpose = "lifecycle" THEN cp.snapshot ELSE snapshot
      /\ gate' = IF d.result = "pending" /\ wait THEN Owner ELSE Free
  BY <1>1, <1>2, Zenon
<1>4. DriveResult(cp, d)
  BY <1>2, <1>3, DriveSound, InvTyped
<1>5. /\ UNCHANGED <<cancelled, finalization, pending_completion, completion_checkpoint>>
      /\ UNCHANGED <<ledger, handler>>
  BY DEF drive_advance
<1>6. EffectsKept /\ EvidenceKept
  BY <1>5, StayKept
<1>7. Carries(cp.snapshot)'
  BY <1>6 DEF TransitionShape, EvidenceKept
<1>8. d.cp # NoCheckpoint
  BY <1>4, CheckpointAssumption DEF DriveResult
<1>9. \/ /\ d.result = "done" /\ transition' = NoCheckpoint
         /\ Carries(cp.snapshot)'
         /\ snapshot' = IF cp.purpose = "lifecycle" THEN cp.snapshot ELSE snapshot
      \/ /\ d.result = "done" => cp.purpose = "outcome"
         /\ transition' = d.cp /\ snapshot' = snapshot
         /\ EvidenceKept
  BY <1>3, <1>6, <1>7
<1>10. gate' \in Effects \cup {Free, Owner} /\ (gate' = Owner => transition' # NoCheckpoint)
  <2>1. Free # Owner
    BY OperationAssumption DEF Free, Owner
  <2> QED BY <1>3, <1>8, <2>1
<1>11. OperationInv'
  BY <1>4, <1>5, <1>6, <1>9, <1>10, GateDrive
<1>12. Published
  BY <1>3, <1>4 DEF Published, DriveResult
<1> QED BY <1>11, <1>12

LEMMA AdvanceSound ==
  ASSUME OperationInv, NEW phase, NEW wait \in BOOLEAN, NEW retry \in BOOLEAN,
         MayAdvance(phase), drive_advance(AdvanceCheckpoint(phase), wait, retry)
  PROVE  OperationInv' /\ Published
<1>1. PICK cp : cp = AdvanceCheckpoint(phase)
  OBVIOUS
<1>2. drive_advance(cp, wait, retry)
  BY <1>1
<1>3. CASE transition # NoCheckpoint
  <2>1. cp = transition
    BY <1>1, <1>3 DEF AdvanceCheckpoint
  <2>2. /\ cp \in PendingCheckpoint /\ TransitionShape(cp)
        /\ CheckpointShape(cp, Disk, revision, attempts)
        /\ ~is_terminal(snapshot.phase)
        /\ pending_completion = NoSnapshot /\ completion_checkpoint = NoCheckpoint
    BY <1>3, <2>1, RetainedFacts
  <2> QED BY <1>2, <2>2, DriveAdvanceSound
<1>4. CASE transition = NoCheckpoint
  <2>1. cp = NewCheckpoint("lifecycle", 0, project(advance_snapshot(snapshot, phase)))
    BY <1>1, <1>4 DEF AdvanceCheckpoint
  <2>2. phase \in Targets /\ LegalAdvance(snapshot.phase, phase) /\ pending_completion = NoSnapshot
    BY <1>4 DEF MayAdvance
  <2>3. /\ cp \in PendingCheckpoint /\ TransitionShape(cp)
        /\ CheckpointShape(cp, Disk, revision, attempts)
        /\ ~is_terminal(snapshot.phase) /\ completion_checkpoint = NoCheckpoint
    BY <1>4, <2>1, <2>2, AdvanceCapture
  <2> QED BY <1>2, <2>2, <2>3, DriveAdvanceSound
<1> QED BY <1>3, <1>4

LEMMA RetainedDriveSound ==
  ASSUME OperationInv, transition # NoCheckpoint, NEW wait \in BOOLEAN, NEW retry \in BOOLEAN,
         drive_advance(transition, wait, retry)
  PROVE  OperationInv' /\ Published
<1>1. PICK cp : cp = transition
  OBVIOUS
<1>2. drive_advance(cp, wait, retry)
  BY <1>1
<1>3. /\ cp \in PendingCheckpoint /\ TransitionShape(cp)
      /\ CheckpointShape(cp, Disk, revision, attempts)
      /\ ~is_terminal(snapshot.phase)
      /\ pending_completion = NoSnapshot /\ completion_checkpoint = NoCheckpoint
  BY <1>1, RetainedFacts
<1> QED BY <1>2, <1>3, DriveAdvanceSound

\* A step that changes only the operation's own state, not what the writer or
\* the handlers see.
LEMMA RetrySound ==
  ASSUME OperationInv, request_checkpoint_retry
  PROVE  OperationInv'
<1>1. PICK n : n = [transition EXCEPT !.retry = "Requested"]
  OBVIOUS
<1>2. /\ transition' = n
      /\ UNCHANGED <<writerVars, snapshot, cancelled, ledger, gate, revision, finalization,
                     pending_completion, completion_checkpoint, handler>>
      /\ transition # NoCheckpoint
  BY <1>1 DEF request_checkpoint_retry
<1>3. /\ transition \in PendingCheckpoint /\ TransitionShape(transition)
      /\ CheckpointShape(transition, Disk, revision, attempts)
      /\ ~is_terminal(snapshot.phase)
      /\ pending_completion = NoSnapshot /\ completion_checkpoint = NoCheckpoint
  BY <1>2, RetainedFacts
<1>4. /\ n \in PendingCheckpoint /\ n.purpose = transition.purpose /\ n.effect = transition.effect
      /\ n.snapshot = transition.snapshot /\ n.attempt = transition.attempt
      /\ n.receipt = transition.receipt /\ n.failure = transition.failure
  BY <1>1, <1>3 DEF PendingCheckpoint
<1>5. n # NoCheckpoint
  BY <1>4, CheckpointAssumption
<1>6. /\ Disk' = Disk /\ UNCHANGED <<rows, storage_failure, connection, attempts>>
  BY <1>2 DEF writerVars, journalVars, Disk
<1>7. TypePart'
  BY <1>2, <1>4, <1>6 DEF OperationInv, TypePart, OperationTypeOK, JournalTypeOK
<1>8. WriterPart'
  <2>1. CheckpointShape(n, Disk, revision, attempts)
    BY <1>3, <1>4 DEF CheckpointShape, AttemptShape
  <2>2. WriterShape(n, Disk, revision, attempts) /\ Retained' = n
    BY <1>2, <1>5, <2>1 DEF WriterShape, Retained
  <2> QED BY <1>2, <1>6, <2>2 DEF WriterPart
<1>9. LedgerPart' /\ CompletionPart'
  BY <1>2, <1>3 DEF OperationInv, LedgerPart, CompletionPart
<1>10. PublicPart'
  BY <1>2, <1>3, <1>6 DEF OperationInv, PublicPart, PrefixOver
<1>11. TransitionPart'
  <2>1. TransitionShape(n)
    BY <1>3, <1>4 DEF TransitionShape
  <2>2. TransitionShape(n)'
    BY <1>2, <2>1 DEF TransitionShape, Carries, PrefixOver, Merged
  <2> QED BY <1>2, <1>5, <2>2 DEF TransitionPart
<1>12. DiskPart'
  BY <1>2, <1>3, <1>6 DEF OperationInv, DiskPart, Carries, Merged
<1> QED BY <1>7, <1>8, <1>9, <1>10, <1>11, <1>12 DEF OperationInv

LEMMA CancelSound ==
  ASSUME OperationInv, cancel
  PROVE  OperationInv'
<1>1. /\ UNCHANGED <<writerVars, snapshot, ledger, transition, gate, revision, finalization,
                     pending_completion, completion_checkpoint, handler>>
      /\ cancelled' \in BOOLEAN
  BY DEF cancel
<1>2. /\ Disk' = Disk /\ UNCHANGED <<rows, storage_failure, connection, attempts>>
  BY <1>1 DEF writerVars, journalVars, Disk
<1>3. TypePart'
  BY <1>1, <1>2 DEF OperationInv, TypePart, OperationTypeOK, JournalTypeOK
<1>4. WriterPart' /\ LedgerPart' /\ CompletionPart'
  BY <1>1, <1>2 DEF OperationInv, WriterPart, Retained, LedgerPart, CompletionPart
<1>5. PublicPart'
  BY <1>1, <1>2 DEF OperationInv, PublicPart, PrefixOver
<1>6. TransitionPart'
  BY <1>1 DEF OperationInv, TransitionPart, TransitionShape, Carries, PrefixOver, Merged
<1>7. DiskPart'
  BY <1>1, <1>2 DEF OperationInv, DiskPart, Carries, Merged
<1> QED BY <1>3, <1>4, <1>5, <1>6, <1>7 DEF OperationInv

LEMMA TakeControlSound ==
  ASSUME OperationInv, take_finalization_control
  PROVE  OperationInv'
<1>1. /\ UNCHANGED <<writerVars, snapshot, cancelled, ledger, transition, gate, revision,
                     pending_completion, completion_checkpoint, handler>>
      /\ finalization' = [finalization EXCEPT !.control_issued = TRUE]
      /\ snapshot.finalization # NoFinalization
  BY DEF take_finalization_control
<1>2. finalization \in [prepared : BOOLEAN, control_issued : BOOLEAN, outcome_prepared : BOOLEAN]
  BY DEF OperationInv, TypePart, OperationTypeOK
<1>3. /\ finalization' \in [prepared : BOOLEAN, control_issued : BOOLEAN, outcome_prepared : BOOLEAN]
      /\ finalization'.outcome_prepared = finalization.outcome_prepared
  BY <1>1, <1>2
<1>4. /\ Disk' = Disk /\ UNCHANGED <<rows, storage_failure, connection, attempts>>
  BY <1>1 DEF writerVars, journalVars, Disk
<1>5. TypePart'
  BY <1>1, <1>3, <1>4 DEF OperationInv, TypePart, OperationTypeOK, JournalTypeOK
<1>6. WriterPart' /\ LedgerPart' /\ CompletionPart'
  BY <1>1, <1>4 DEF OperationInv, WriterPart, Retained, LedgerPart, CompletionPart
<1>7. PublicPart'
  BY <1>1, <1>3, <1>4 DEF OperationInv, PublicPart, PrefixOver
<1>8. TransitionPart'
  BY <1>1, <1>3 DEF OperationInv, TransitionPart, TransitionShape, Carries, PrefixOver, Merged
<1>9. DiskPart'
  BY <1>1, <1>4 DEF OperationInv, DiskPart, Carries, Merged
<1> QED BY <1>5, <1>6, <1>7, <1>8, <1>9 DEF OperationInv

-----------------------------------------------------------------------------
(* Finalization and completion.                                            *)

\* The intent or the outcome of the closing export becomes the retained
\* checkpoint.
LEMMA CaptureStep ==
  ASSUME OperationInv, transition = NoCheckpoint, gate = Free, pending_completion = NoSnapshot,
         ~is_terminal(snapshot.phase), ~AnyEffectOpen(ledger.records),
         NEW s \in Captured, ~is_terminal(s.phase), Merged(s), s.host = ledger.records,
         validate_finalization(s), validate_finalization_successor(s, snapshot),
         PrefixOver(s.finalization),
         NEW n, n = NewCheckpoint("lifecycle", 0, s), transition' = n,
         ledger' \in LedgerType, ledger'.records = ledger.records, ledger.sealed => ledger'.sealed,
         finalization' \in [prepared : BOOLEAN, control_issued : BOOLEAN, outcome_prepared : BOOLEAN],
         finalization'.control_issued <=> finalization.control_issued,
         finalization.outcome_prepared => finalization'.outcome_prepared,
         s.finalization.outcome # "none" => ledger'.sealed /\ finalization'.outcome_prepared,
         UNCHANGED <<writerVars, snapshot, cancelled, gate, revision, pending_completion,
                     completion_checkpoint, handler>>
  PROVE  OperationInv'
<1>1. completion_checkpoint = NoCheckpoint
  BY NothingPending
<1>2. 0 \in 0 .. MaxEffects /\ "lifecycle" \in {"lifecycle", "start", "outcome"}
  BY OperationAssumption
<1>3. /\ n \in PendingCheckpoint /\ n.purpose = "lifecycle" /\ n.effect = 0 /\ n.snapshot = s
      /\ n.attempt = "New" /\ n # NoCheckpoint /\ CheckpointShape(n, Disk, revision, attempts)
  BY <1>1, <1>2, CaptureFacts
<1>4. /\ Disk' = Disk /\ UNCHANGED <<rows, storage_failure, connection, attempts>>
  BY DEF writerVars, journalVars, Disk
<1>5. TypePart'
  BY <1>3, <1>4 DEF OperationInv, TypePart, OperationTypeOK, JournalTypeOK, LedgerType
<1>6. WriterPart'
  <2>1. WriterShape(n, Disk, revision, attempts) /\ Retained' = n
    BY <1>3 DEF WriterShape, Retained
  <2> QED BY <1>4, <2>1 DEF WriterPart
<1>7. LedgerPart'
  BY DEF OperationInv, LedgerPart
<1>8. PublicPart'
  BY <1>4 DEF OperationInv, PublicPart, PrefixOver
<1>9. TransitionPart'
  <2>1. Carries(s)
    BY RecordsCarry
  <2>2. Carries(s)' /\ PrefixOver(s.finalization)'
    BY <2>1 DEF Carries, PrefixOver
  <2>3. PICK c : c = n
    OBVIOUS
  <2>4. Carries(c.snapshot)' /\ PrefixOver(c.snapshot.finalization)'
    BY <1>3, <2>2, <2>3
  <2>5. TransitionShape(c)'
    BY <1>3, <2>3, <2>4 DEF TransitionShape
  <2> QED BY <1>3, <2>3, <2>5 DEF TransitionPart
<1>10. CompletionPart'
  BY <1>1 DEF CompletionPart
<1>11. DiskPart'
  BY <1>1, <1>4 DEF OperationInv, DiskPart, Carries, Merged
<1> QED BY <1>5, <1>6, <1>7, <1>8, <1>9, <1>10, <1>11 DEF OperationInv

\* Closed records satisfy any frozen prefix within them.
LEMMA ClosedPrefix ==
  ASSUME OperationInv, ~AnyEffectOpen(ledger.records), NEW f, f.count \in 0 .. Len(ledger.records)
  PROVE  PrefixOver(f)
<1>1. DOMAIN ledger.records = 1 .. Len(ledger.records) /\ Len(ledger.records) \in Nat
  BY LedgerTyped, HostsFacts
<1>2. \A i \in 1 .. f.count : i \in DOMAIN ledger.records
  BY <1>1
<1> QED BY <1>2 DEF PrefixOver, AnyEffectOpen

\* A frozen prefix lies within the records.
LEMMA PrefixBound ==
  ASSUME OperationInv, NEW f, f.count \in Nat, PrefixOver(f)
  PROVE  f.count <= Len(ledger.records)
<1>1. DOMAIN ledger.records = 1 .. Len(ledger.records) /\ Len(ledger.records) \in Nat
  BY LedgerTyped, HostsFacts
<1>2. CASE f.count = 0
  BY <1>1, <1>2
<1>3. CASE f.count # 0
  <2>1. f.count \in 1 .. f.count
    BY <1>3
  <2>2. f.count \in DOMAIN ledger.records
    BY <2>1 DEF PrefixOver
  <2> QED BY <1>1, <2>2
<1> QED BY <1>2, <1>3

LEMMA PrepareFinalizationSound ==
  ASSUME OperationInv, NEW business \in Results, prepare_finalization(business)
  PROVE  OperationInv'
<1> DEFINE a == advance_snapshot(snapshot, "Cleaning")
<1> DEFINE q == project(a)
<1> DEFINE f == [business |-> business, count |-> Len(ledger.records), outcome |-> "none"]
<1> DEFINE s == [q EXCEPT !.finalization = f]
<1>1. /\ transition = NoCheckpoint /\ gate = Free /\ pending_completion = NoSnapshot
      /\ LegalAdvance(snapshot.phase, "Cleaning") /\ ~AnyEffectOpen(ledger.records)
      /\ ledger' = [ledger EXCEPT !.stage = "Finalization"]
      /\ finalization' = [finalization EXCEPT !.prepared = TRUE]
      /\ transition' = NewCheckpoint("lifecycle", 0, s)
      /\ UNCHANGED <<writerVars, snapshot, cancelled, gate, revision, pending_completion,
                     completion_checkpoint, handler>>
  BY DEF prepare_finalization
<1>2. ~is_terminal(snapshot.phase) /\ snapshot.finalization = NoFinalization
  BY <1>1, AdvanceOpen
<1>3. a \in Captured /\ a.phase = "Cleaning"
  BY InvTyped, AdvanceFacts DEF OperationPhase, NonTerminalPhases
<1>4. q \in Captured /\ q.phase = "Cleaning" /\ q.host = ledger.records /\ Merged(q)
  BY <1>3, InvTyped, ProjectFacts
<1>5. Len(ledger.records) \in 0 .. MaxEffects /\ Len(ledger.records) \in Nat /\ business \in Outcome
  BY LedgerTyped, HostsFacts, OperationAssumption
<1>6. /\ f \in [business : Outcome, count : 0 .. MaxEffects, outcome : Outcome \cup {"none"}]
      /\ f.count = Len(ledger.records) /\ f.outcome = "none"
  BY <1>5
<1> HIDE DEF a, q, f
<1>7. /\ s \in Captured /\ s.phase = "Cleaning" /\ s.host = q.host /\ s.effects = q.effects
      /\ s.finalization = f
  BY <1>4, <1>6 DEF Captured
<1> HIDE DEF s
<1>8. ~is_terminal(s.phase)
  BY <1>7 DEF is_terminal, TerminalPhases
<1>9. Merged(s) /\ s.host = ledger.records
  BY <1>4, <1>7 DEF Merged
<1>10. validate_finalization(s)
  BY <1>1, <1>5, <1>6, <1>7, <1>8, <1>9 DEF validate_finalization, AnyEffectOpen
<1>11. validate_finalization_successor(s, snapshot)
  BY <1>2 DEF validate_finalization_successor
<1>12. PrefixOver(s.finalization)
  <2>1. f.count \in 0 .. Len(ledger.records)
    BY <1>5, <1>6
  <2> QED BY <1>1, <1>7, <2>1, ClosedPrefix
<1>13. ledger \in LedgerType
       /\ finalization \in [prepared : BOOLEAN, control_issued : BOOLEAN, outcome_prepared : BOOLEAN]
  BY LedgerTyped, InvTyped DEF OperationTypeOK
<1>14. /\ ledger' \in LedgerType /\ ledger'.records = ledger.records /\ ledger'.sealed = ledger.sealed
  BY <1>1, <1>13 DEF LedgerType
<1>15. /\ finalization' \in [prepared : BOOLEAN, control_issued : BOOLEAN, outcome_prepared : BOOLEAN]
       /\ finalization'.control_issued = finalization.control_issued
       /\ finalization'.outcome_prepared = finalization.outcome_prepared
  BY <1>1, <1>13
<1>16. s.finalization.outcome = "none"
  BY <1>6, <1>7
<1> QED BY <1>1, <1>2, <1>7, <1>8, <1>9, <1>10, <1>11, <1>12, <1>14, <1>15, <1>16, CaptureStep

LEMMA PrepareOutcomeSound ==
  ASSUME OperationInv, NEW result \in Results, prepare_finalization_outcome(result)
  PROVE  OperationInv'
<1> DEFINE q == project(snapshot)
<1> DEFINE f == [snapshot.finalization EXCEPT !.outcome = result]
<1> DEFINE s == [q EXCEPT !.finalization = f]
<1>1. /\ transition = NoCheckpoint /\ gate = Free /\ pending_completion = NoSnapshot
      /\ finalization.control_issued /\ ~finalization.outcome_prepared
      /\ snapshot.phase = "Cleaning" /\ ~AnyEffectOpen(ledger.records)
      /\ ledger' = [ledger EXCEPT !.sealed = TRUE]
      /\ finalization' = [finalization EXCEPT !.outcome_prepared = TRUE]
      /\ transition' = NewCheckpoint("lifecycle", 0, [q EXCEPT !.finalization.outcome = result])
      /\ UNCHANGED <<writerVars, snapshot, cancelled, gate, revision, pending_completion,
                     completion_checkpoint, handler>>
  BY DEF prepare_finalization_outcome
<1>2. /\ snapshot \in Captured /\ snapshot.finalization # NoFinalization
      /\ snapshot.finalization.outcome = "none" /\ PrefixOver(snapshot.finalization)
  BY <1>1 DEF OperationInv, PublicPart
<1>3. /\ q \in Captured /\ q.phase = "Cleaning" /\ q.host = ledger.records /\ Merged(q)
      /\ q.finalization = snapshot.finalization
  BY <1>1, InvTyped, ProjectFacts
<1>4. /\ snapshot.finalization \in
           [business : Outcome, count : 0 .. MaxEffects, outcome : Outcome \cup {"none"}]
      /\ result \in Outcome
  BY <1>2, OperationAssumption DEF Captured
<1>5. /\ f \in [business : Outcome, count : 0 .. MaxEffects, outcome : Outcome \cup {"none"}]
      /\ f.count = snapshot.finalization.count /\ f.business = snapshot.finalization.business
      /\ f.outcome = result /\ f.count \in Nat
  BY <1>4, OperationAssumption
<1>6. transition' = NewCheckpoint("lifecycle", 0, s)
  BY <1>1, <1>3
<1> HIDE DEF q, f
<1>7. /\ s \in Captured /\ s.phase = "Cleaning" /\ s.host = q.host /\ s.effects = q.effects
      /\ s.finalization = f
  BY <1>3, <1>5 DEF Captured
<1> HIDE DEF s
<1>8. ~is_terminal(s.phase) /\ ~is_terminal(snapshot.phase)
  BY <1>1, <1>7 DEF is_terminal, TerminalPhases
<1>9. Merged(s) /\ s.host = ledger.records
  BY <1>3, <1>7 DEF Merged
<1>10. PrefixOver(f) /\ f.count <= Len(ledger.records)
  <2>1. PrefixOver(f)
    BY <1>2, <1>5 DEF PrefixOver
  <2> QED BY <1>5, <2>1, PrefixBound
<1>11. validate_finalization(s)
  <2>1. ledger.records \in Hosts /\ DOMAIN ledger.records = 1 .. Len(ledger.records)
    BY LedgerTyped, HostsFacts
  <2> QED BY <1>1, <1>5, <1>7, <1>8, <1>9, <1>10, <2>1 DEF validate_finalization, AnyEffectOpen
<1>12. validate_finalization_successor(s, snapshot)
  BY <1>2, <1>5, <1>7 DEF validate_finalization_successor
<1>13. ledger \in LedgerType
       /\ finalization \in [prepared : BOOLEAN, control_issued : BOOLEAN, outcome_prepared : BOOLEAN]
  BY LedgerTyped, InvTyped DEF OperationTypeOK
<1>14. /\ ledger' \in LedgerType /\ ledger'.records = ledger.records /\ ledger'.sealed
  BY <1>1, <1>13 DEF LedgerType
<1>15. /\ finalization' \in [prepared : BOOLEAN, control_issued : BOOLEAN, outcome_prepared : BOOLEAN]
       /\ finalization'.control_issued = finalization.control_issued
       /\ finalization'.outcome_prepared
  BY <1>1, <1>13
<1> QED BY <1>1, <1>6, <1>7, <1>8, <1>9, <1>10, <1>11, <1>12, <1>14, <1>15, CaptureStep

LEMMA PrepareCompletionSound ==
  ASSUME OperationInv, NEW result \in Results, NEW effects \in OwnerEvidence,
         prepare_completion(result, effects)
  PROVE  OperationInv'
<1> DEFINE f == snapshot.finalization
<1> DEFINE closed == IF f = NoFinalization THEN result ELSE FinalResult(f.business, f.outcome)
<1> DEFINE m == merge_effects(effects, ledger.records)
<1>1. /\ pending_completion = NoSnapshot /\ gate = Free /\ transition = NoCheckpoint
      /\ snapshot.phase = "Cleaning" /\ ~AnyEffectOpen(ledger.records)
      /\ f # NoFinalization => f.outcome # "none"
      /\ ledger' = [ledger EXCEPT !.sealed = TRUE]
      /\ UNCHANGED <<writerVars, snapshot, cancelled, transition, gate, revision,
                     finalization, completion_checkpoint, handler>>
  BY DEF prepare_completion
<1>2. PICK p : p = [snapshot EXCEPT !.phase = TerminalPhase(closed), !.host = ledger.records,
                                    !.effects = m, !.cancelled = cancelled]
  OBVIOUS
<1>3. pending_completion' = p
  BY <1>2 DEF prepare_completion
<1>4. TerminalPhase(closed) \in OperationPhase /\ is_terminal(TerminalPhase(closed))
  BY DEF TerminalPhase, OperationPhase, TerminalPhases, is_terminal
<1>5. /\ snapshot \in Captured /\ ledger.records \in Hosts /\ effects \in EffectState
      /\ cancelled \in BOOLEAN /\ ledger \in LedgerType
  BY InvTyped, LedgerTyped, OperationAssumption DEF OperationTypeOK
<1>6. p \in Captured
  BY <1>2, <1>4, <1>5, WithRecords
<1> HIDE DEF closed, m
<1>7. p.phase = TerminalPhase(closed) /\ p.host = ledger.records /\ p.finalization = f
  BY <1>2, <1>5 DEF Captured
<1>8. validate_finalization(p)
  <2>1. CASE f = NoFinalization
    BY <1>7, <2>1 DEF validate_finalization
  <2>2. CASE f # NoFinalization
    <3>1. PrefixOver(f) /\ f.count \in Nat
      BY <1>5, CapturedFacts, OperationAssumption DEF OperationInv, PublicPart
    <3>2. f.count <= Len(p.host) /\ DOMAIN p.host = 1 .. Len(p.host)
      BY <1>5, <1>7, <3>1, PrefixBound, HostsFacts
    <3>3. p.phase = TerminalPhase(FinalResult(f.business, f.outcome)) /\ is_terminal(p.phase)
      BY <1>4, <1>7, <2>2 DEF closed
    <3> QED BY <1>1, <1>7, <2>2, <3>2, <3>3 DEF validate_finalization, AnyEffectOpen
  <2> QED BY <2>1, <2>2
<1>9. completion_checkpoint = NoCheckpoint
  BY <1>1, NothingPending
<1>10. /\ Disk' = Disk /\ UNCHANGED <<rows, storage_failure, connection, attempts>>
  BY <1>1 DEF writerVars, journalVars, Disk
<1>11. ledger' \in LedgerType /\ ledger'.records = ledger.records /\ ledger'.sealed
  BY <1>1, <1>5 DEF LedgerType
<1>12. TypePart'
  BY <1>1, <1>3, <1>6, <1>10, <1>11, CapturedFacts
     DEF OperationInv, TypePart, OperationTypeOK, JournalTypeOK, LedgerType
<1>13. WriterPart'
  BY <1>1, <1>10 DEF OperationInv, WriterPart, Retained
<1>14. LedgerPart'
  BY <1>1, <1>11 DEF OperationInv, LedgerPart
<1>15. ~is_terminal(snapshot.phase)
  BY <1>1 DEF is_terminal, TerminalPhases
<1>16. PublicPart'
  BY <1>1, <1>10, <1>11, <1>15 DEF OperationInv, PublicPart, PrefixOver
<1>17. TransitionPart'
  BY <1>1 DEF OperationInv, TransitionPart
<1>18. CompletionPart'
  <2>1. is_terminal(p.phase)
    BY <1>4, <1>7
  <2> QED BY <1>1, <1>3, <1>6, <1>7, <1>8, <1>9, <1>11, <2>1 DEF CompletionPart
<1>19. DiskPart'
  BY <1>1, <1>9, <1>10, <1>11 DEF OperationInv, DiskPart, Carries, Merged
<1> QED BY <1>12, <1>13, <1>14, <1>16, <1>17, <1>18, <1>19 DEF OperationInv

LEMMA DriveCompletionSound ==
  ASSUME OperationInv, NEW retry \in BOOLEAN, drive_completion_checkpoint(retry)
  PROVE  OperationInv'
<1>1. PICK cp : cp = IF completion_checkpoint # NoCheckpoint THEN completion_checkpoint
                     ELSE NewCheckpoint("lifecycle", 0, pending_completion)
  OBVIOUS
<1>2. PICK admitted \in Admission :
        LET d == Driven(cp, retry, admitted) IN DriveEffect(cp, d) /\ completion_checkpoint' = d.cp
  BY <1>1, Zenon DEF drive_completion_checkpoint
<1>3. PICK d : d = Driven(cp, retry, admitted)
  OBVIOUS
<1>4. DriveEffect(cp, d) /\ completion_checkpoint' = d.cp
  BY <1>2, <1>3, Zenon
<1>5. /\ snapshot.phase = "Cleaning" /\ pending_completion # NoSnapshot
      /\ UNCHANGED <<snapshot, cancelled, ledger, transition, gate, finalization,
                     pending_completion, handler>>
  BY DEF drive_completion_checkpoint
<1>6. /\ pending_completion \in Captured /\ validate_finalization(pending_completion)
      /\ is_terminal(pending_completion.phase)
      /\ pending_completion.finalization = snapshot.finalization
      /\ pending_completion.host = ledger.records
      /\ ledger.sealed /\ transition = NoCheckpoint /\ gate = Free
  BY <1>5 DEF OperationInv, CompletionPart
<1>7. cp \in PendingCheckpoint /\ cp.snapshot = pending_completion
      /\ CheckpointShape(cp, Disk, revision, attempts)
  <2>1. CASE completion_checkpoint # NoCheckpoint
    <3>1. cp = completion_checkpoint
      BY <1>1, <2>1
    <3> QED BY <1>6, <2>1, <3>1
         DEF OperationInv, TypePart, OperationTypeOK, CompletionPart, WriterPart, WriterShape, Retained
  <2>2. CASE completion_checkpoint = NoCheckpoint
    <3>1. validate_finalization_successor(pending_completion, snapshot)
      BY <1>6 DEF validate_finalization_successor
    <3>2. 0 \in 0 .. MaxEffects /\ "lifecycle" \in {"lifecycle", "start", "outcome"}
      BY OperationAssumption
    <3>3. cp = NewCheckpoint("lifecycle", 0, pending_completion)
      BY <1>1, <2>2
    <3> QED BY <1>6, <2>2, <3>1, <3>2, <3>3, CaptureFacts
  <2> QED BY <2>1, <2>2
<1>8. DriveResult(cp, d)
  BY <1>3, <1>4, <1>7, DriveSound, InvTyped
<1>9. /\ UNCHANGED <<rows, storage_failure, connection>> /\ Disk' = Disk
      /\ d.cp \in PendingCheckpoint /\ d.cp # NoCheckpoint /\ d.cp.snapshot = cp.snapshot
      /\ CheckpointShape(d.cp, Disk, revision', attempts')
      /\ d.result = "done" <=> d.cp.attempt = "Acknowledged"
      /\ d.result = "done" => Disk # NoRow /\ Disk.snapshot = cp.snapshot
      /\ d.result # "done" => revision' = revision
      /\ attempts' \in [ReceiptIds -> Attempt \cup {NoReceipt}] /\ revision' \in 0 .. MaxRevision
  BY <1>8, CheckpointAssumption DEF DriveResult, journalVars, Disk
<1>10. cp.attempt = "Acknowledged" => d.result = "done"
  <2>1. admitted \in BOOLEAN
    BY DEF Admission
  <2>2. Outcomes(Base(cp, retry), admitted, d)
    BY <1>3, <1>7, <2>1, DrivenCases DEF CheckpointShape, AttemptShape
  <2>3. cp.attempt = "Acknowledged" => Base(cp, retry).attempt = "Acknowledged"
    BY <1>7, BaseFacts
  <2> QED BY <2>2, <2>3 DEF Outcomes
<1>11. TypePart'
  BY <1>4, <1>5, <1>9 DEF OperationInv, TypePart, OperationTypeOK, JournalTypeOK
<1>12. WriterPart'
  <2>1. WriterShape(d.cp, Disk, revision', attempts') /\ Retained' = d.cp
    BY <1>4, <1>5, <1>6, <1>9 DEF WriterShape, Retained
  <2> QED BY <1>9, <2>1 DEF WriterPart
<1>13. LedgerPart' /\ TransitionPart'
  BY <1>5, <1>6 DEF OperationInv, LedgerPart, TransitionPart
<1>14. ~is_terminal(snapshot.phase)
  BY <1>5 DEF is_terminal, TerminalPhases
<1>15. PublicPart'
  <2>1. IF Disk = NoRow THEN snapshot.finalization = NoFinalization
        ELSE Disk.revision = revision' => Disk.snapshot.finalization = snapshot.finalization
    <3>1. CASE d.result = "done"
      BY <1>6, <1>7, <1>9, <3>1
    <3>2. CASE d.result # "done"
      BY <1>9, <3>2 DEF OperationInv, PublicPart
    <3> QED BY <3>1, <3>2
  <2> QED BY <1>5, <1>9, <1>14, <2>1 DEF OperationInv, PublicPart, PrefixOver
<1>16. CompletionPart'
  BY <1>4, <1>5, <1>6, <1>7, <1>9 DEF CompletionPart
<1>17. DiskPart'
  <2>1. Disk # NoRow /\ is_terminal(Disk.snapshot.phase) =>
          /\ Disk.snapshot = d.cp.snapshot
          /\ Disk.revision = revision' + 1 \/ d.cp.attempt = "Acknowledged"
    <3> SUFFICES ASSUME Disk # NoRow, is_terminal(Disk.snapshot.phase)
                 PROVE  /\ Disk.snapshot = d.cp.snapshot
                        /\ Disk.revision = revision' + 1 \/ d.cp.attempt = "Acknowledged"
      OBVIOUS
    <3>1. /\ completion_checkpoint # NoCheckpoint
          /\ Disk.snapshot = completion_checkpoint.snapshot
          /\ Disk.revision = revision + 1 \/ completion_checkpoint.attempt = "Acknowledged"
      BY <1>14 DEF OperationInv, DiskPart
    <3>2. cp = completion_checkpoint
      BY <1>1, <3>1
    <3> QED BY <1>9, <1>10, <3>1, <3>2
  <2> QED BY <1>4, <1>5, <1>9, <2>1 DEF OperationInv, DiskPart, Carries, Merged
<1> QED BY <1>11, <1>12, <1>13, <1>15, <1>16, <1>17 DEF OperationInv

LEMMA PublishCompletionSound ==
  ASSUME OperationInv, publish_completion
  PROVE  OperationInv'
<1>1. /\ completion_checkpoint # NoCheckpoint /\ completion_checkpoint.attempt = "Acknowledged"
      /\ snapshot.phase = "Cleaning" /\ pending_completion # NoSnapshot
      /\ snapshot' = pending_completion /\ pending_completion' = NoSnapshot
      /\ completion_checkpoint' = NoCheckpoint
      /\ UNCHANGED <<writerVars, cancelled, ledger, transition, gate, revision, finalization,
                     handler>>
  BY DEF publish_completion
<1>2. /\ pending_completion \in Captured /\ validate_finalization(pending_completion)
      /\ is_terminal(pending_completion.phase)
      /\ pending_completion.finalization = snapshot.finalization
      /\ ledger.sealed /\ transition = NoCheckpoint /\ gate = Free
      /\ completion_checkpoint.snapshot = pending_completion
  BY <1>1 DEF OperationInv, CompletionPart
<1>3. CheckpointShape(completion_checkpoint, Disk, revision, attempts)
  BY <1>1, <1>2 DEF OperationInv, WriterPart, WriterShape, Retained
<1>4. IdleShape(Disk, revision, attempts) /\ Disk # NoRow /\ Disk.snapshot = pending_completion
  BY <1>1, <1>2, <1>3 DEF CheckpointShape, IdleShape
<1>5. /\ Disk' = Disk /\ UNCHANGED <<rows, storage_failure, connection, attempts>>
  BY <1>1 DEF writerVars, journalVars, Disk
<1>6. TypePart'
  BY <1>1, <1>2, <1>5, CapturedFacts DEF OperationInv, TypePart, OperationTypeOK, JournalTypeOK
<1>7. WriterPart'
  <2>1. WriterShape(NoCheckpoint, Disk, revision, attempts) /\ Retained' = NoCheckpoint
    BY <1>1, <1>2, <1>4 DEF WriterShape, Retained
  <2> QED BY <1>1, <1>5, <2>1 DEF WriterPart
<1>8. LedgerPart' /\ TransitionPart' /\ CompletionPart'
  BY <1>1, <1>2 DEF OperationInv, LedgerPart, TransitionPart, CompletionPart
<1>9. PublicPart'
  BY <1>1, <1>2, <1>4, <1>5 DEF OperationInv, PublicPart, PrefixOver
<1>10. DiskPart'
  BY <1>1, <1>2, <1>5 DEF OperationInv, DiskPart, Carries, Merged
<1> QED BY <1>6, <1>7, <1>8, <1>9, <1>10 DEF OperationInv

-----------------------------------------------------------------------------
(* Handlers and storage.                                                   *)

LEMMA DriveStartSound ==
  ASSUME OperationInv, NEW i \in Effects, handler[i].pc = "prepared",
         NEW cp \in PendingCheckpoint, TransitionShape(cp), cp.purpose = "start",
         CheckpointShape(cp, Disk, revision, attempts),
         ~is_terminal(snapshot.phase), pending_completion = NoSnapshot,
         completion_checkpoint = NoCheckpoint,
         NEW admitted \in Admission, NEW d, d = Driven(cp, FALSE, admitted), DriveStart(i, cp, d)
  PROVE  OperationInv'
<1>1. /\ DriveEffect(cp, d)
      /\ UNCHANGED <<snapshot, cancelled, finalization, pending_completion, completion_checkpoint>>
  BY DEF DriveStart
<1>2. DriveResult(cp, d)
  BY <1>1, DriveSound, InvTyped
<1>3. /\ d.cp # NoCheckpoint /\ Free # Owner /\ i # Owner
      /\ i \in Effects \cup {Free, Owner} /\ Free \in Effects \cup {Free, Owner}
  <2>1. d.cp # NoCheckpoint
    BY <1>2, CheckpointAssumption DEF DriveResult
  <2>2. Free # Owner /\ i # Owner
    BY OperationAssumption DEF Free, Owner, Effects
  <2> QED BY <2>1, <2>2
<1>4. CASE d.result = "done" /\ cp.effect = i /\ transition' = NoCheckpoint /\ gate' = Free
           /\ handler' = [handler EXCEPT ![i].pc = "permitted"] /\ UNCHANGED ledger
  <2>1. handler' = [handler EXCEPT ![i] = [handler[i] EXCEPT !.pc = "permitted"]]
    BY <1>4
  <2>2. PICK s : s = cp.snapshot
    OBVIOUS
  <2>3. Carries(s) /\ i \in DOMAIN s.host /\ UNCHANGED ledger
    BY <1>4, <2>2 DEF TransitionShape
  <2>4. EffectsKept /\ Carries(s)'
    <3>1. PICK from, pc : from = "prepared" /\ pc = "permitted"
      OBVIOUS
    <3>2. handler[i].pc = from /\ handler' = [handler EXCEPT ![i] = [handler[i] EXCEPT !.pc = pc]]
      BY <2>1, <3>1
    <3>3. /\ (from = "prepared" /\ pc = "permitted") \/ (from = "returned" /\ pc = "confirmed")
          /\ pc = "confirmed" => s.host[i].effects = ledger.records[i].effects
      BY <3>1
    <3> QED BY <2>3, <3>2, <3>3, GrantMove, Zenon
  <2> QED BY <1>1, <1>2, <1>3, <1>4, <2>2, <2>4, GateDrive
<1>5. CASE UNCHANGED <<ledger, handler>> /\ d.result = "done" /\ transition' = NoCheckpoint /\ gate' = i
  <2>1. EffectsKept /\ EvidenceKept
    BY <1>5, StayKept
  <2>2. Carries(cp.snapshot)'
    BY <2>1 DEF TransitionShape, EvidenceKept
  <2> QED BY <1>1, <1>2, <1>3, <1>5, <2>1, <2>2, GateDrive
<1>6. CASE /\ d.result # "done" /\ transition' = d.cp /\ gate' \in {i, Free}
           /\ UNCHANGED <<ledger, handler>> \/ Dropped(i)
  <2>1. EffectsKept /\ EvidenceKept
    BY <1>6, StayKept, DropMove
  <2> QED BY <1>1, <1>2, <1>3, <1>6, <2>1, GateDrive
<1>7. \/ /\ d.result = "pending"
         /\ transition' = d.cp
         /\ gate' = IF handler[i].native THEN i ELSE Free
         /\ UNCHANGED <<ledger, handler>>
      \/ /\ d.result = "done" /\ cp.effect = i
         /\ transition' = NoCheckpoint
         /\ gate' = Free
         /\ handler' = [handler EXCEPT ![i].pc = "permitted"]
         /\ UNCHANGED ledger
      \/ /\ d.result = "done" /\ cp.effect # i
         /\ transition' = NoCheckpoint
         /\ gate' = i
         /\ UNCHANGED <<ledger, handler>>
      \/ /\ d.result \notin {"pending", "done"}
         /\ transition' = d.cp
         /\ gate' = Free
         /\ StartRefused(i, d.result)
  BY DEF DriveStart
<1>8. CASE d.result = "pending" /\ transition' = d.cp /\ gate' = (IF handler[i].native THEN i ELSE Free)
           /\ UNCHANGED <<ledger, handler>>
  BY <1>6, <1>8
<1>9. CASE d.result \notin {"pending", "done"} /\ transition' = d.cp /\ gate' = Free
           /\ StartRefused(i, d.result)
  <2>1. UNCHANGED <<ledger, handler>> \/ Dropped(i)
    BY <1>9, Zenon DEF StartRefused
  <2> QED BY <1>6, <1>9, <2>1
<1> QED BY <1>4, <1>5, <1>7, <1>8, <1>9

LEMMA CaptureStartSound ==
  ASSUME OperationInv, NEW i \in Effects, capture_effect_start(i)
  PROVE  OperationInv'
<1>1. PICK cp : cp = NewCheckpoint("start", i, StartCandidate(i))
  OBVIOUS
<1>2. /\ handler[i].pc = "prepared" /\ transition = NoCheckpoint /\ ~is_terminal(snapshot.phase)
      /\ \E admitted \in Admission : DriveStart(i, cp, Driven(cp, FALSE, admitted))
  BY <1>1 DEF capture_effect_start
<1>3. PICK admitted \in Admission : DriveStart(i, cp, Driven(cp, FALSE, admitted))
  BY <1>2
<1>4. PICK d : d = Driven(cp, FALSE, admitted)
  OBVIOUS
<1>5. DriveStart(i, cp, d)
  BY <1>3, <1>4
<1>6. /\ cp \in PendingCheckpoint /\ TransitionShape(cp)
      /\ CheckpointShape(cp, Disk, revision, attempts)
      /\ cp.purpose = "start"
      /\ pending_completion = NoSnapshot /\ completion_checkpoint = NoCheckpoint
  BY <1>1, <1>2, StartCapture
<1> QED BY <1>2, <1>4, <1>5, <1>6, DriveStartSound

LEMMA PollStartSound ==
  ASSUME OperationInv, NEW i \in Effects, poll_effect_start(i)
  PROVE  OperationInv'
<1>1. PICK cp : cp = transition
  OBVIOUS
<1>2. /\ handler[i].pc = "prepared" /\ transition # NoCheckpoint /\ cp.purpose = "start"
      /\ \E admitted \in Admission : DriveStart(i, cp, Driven(cp, FALSE, admitted))
  BY <1>1 DEF poll_effect_start
<1>3. PICK admitted \in Admission : DriveStart(i, cp, Driven(cp, FALSE, admitted))
  BY <1>2
<1>4. PICK d : d = Driven(cp, FALSE, admitted)
  OBVIOUS
<1>5. DriveStart(i, cp, d)
  BY <1>3, <1>4
<1>6. /\ cp \in PendingCheckpoint /\ TransitionShape(cp)
      /\ CheckpointShape(cp, Disk, revision, attempts)
      /\ ~is_terminal(snapshot.phase)
      /\ pending_completion = NoSnapshot /\ completion_checkpoint = NoCheckpoint
  BY <1>1, <1>2, RetainedFacts
<1> QED BY <1>2, <1>4, <1>5, <1>6, DriveStartSound

LEMMA PollOutcomeSound ==
  ASSUME OperationInv, NEW i \in Effects, poll_effect_outcome(i)
  PROVE  OperationInv'
<1>1. PICK cp : cp = IF transition = NoCheckpoint THEN NewCheckpoint("outcome", i, project(snapshot))
                     ELSE transition
  OBVIOUS
<1>2. /\ handler[i].pc = "returned"
      /\ cp.purpose = "start" \/ (cp.purpose = "outcome" /\ cp.effect = i)
      /\ transition = NoCheckpoint => ~is_terminal(snapshot.phase)
      /\ \E admitted \in Admission :
           LET d == Driven(cp, FALSE, admitted) IN
           /\ DriveEffect(cp, d)
           /\ transition' = IF d.result = "done" THEN NoCheckpoint ELSE d.cp
           /\ gate' = IF d.result = "done" /\ cp.purpose = "start" THEN i ELSE Free
           /\ handler' = IF d.result = "done" /\ cp.purpose = "outcome"
                         THEN [handler EXCEPT ![i].pc = "confirmed"] ELSE handler
      /\ UNCHANGED <<snapshot, cancelled, ledger, finalization, pending_completion,
                     completion_checkpoint>>
  BY <1>1, Zenon DEF poll_effect_outcome
<1>3. PICK admitted \in Admission :
           LET d == Driven(cp, FALSE, admitted) IN
           /\ DriveEffect(cp, d)
           /\ transition' = IF d.result = "done" THEN NoCheckpoint ELSE d.cp
           /\ gate' = IF d.result = "done" /\ cp.purpose = "start" THEN i ELSE Free
           /\ handler' = IF d.result = "done" /\ cp.purpose = "outcome"
                         THEN [handler EXCEPT ![i].pc = "confirmed"] ELSE handler
  BY <1>2, Zenon
<1>4. PICK d : d = Driven(cp, FALSE, admitted)
  OBVIOUS
<1>5. /\ DriveEffect(cp, d)
      /\ transition' = IF d.result = "done" THEN NoCheckpoint ELSE d.cp
      /\ gate' = IF d.result = "done" /\ cp.purpose = "start" THEN i ELSE Free
      /\ handler' = IF d.result = "done" /\ cp.purpose = "outcome"
                    THEN [handler EXCEPT ![i].pc = "confirmed"] ELSE handler
  BY <1>3, <1>4, Zenon
<1>6. /\ cp \in PendingCheckpoint /\ TransitionShape(cp)
      /\ CheckpointShape(cp, Disk, revision, attempts)
      /\ ~is_terminal(snapshot.phase)
      /\ pending_completion = NoSnapshot /\ completion_checkpoint = NoCheckpoint
  <2>1. CASE transition = NoCheckpoint
    <3>1. cp = NewCheckpoint("outcome", i, project(snapshot))
      BY <1>1, <2>1
    <3> QED BY <1>2, <2>1, <3>1, OutcomeCapture
  <2>2. CASE transition # NoCheckpoint
    BY <1>1, <2>2, RetainedFacts
  <2> QED BY <2>1, <2>2
<1>7. DriveResult(cp, d)
  BY <1>4, <1>5, <1>6, DriveSound, InvTyped
<1>8. /\ Free # Owner /\ i # Owner
      /\ i \in Effects \cup {Free, Owner} /\ Free \in Effects \cup {Free, Owner}
  BY OperationAssumption DEF Free, Owner, Effects
<1>9. CASE d.result = "done" /\ cp.purpose = "outcome"
  <2>1. handler' = [handler EXCEPT ![i] = [handler[i] EXCEPT !.pc = "confirmed"]] /\ UNCHANGED ledger
    BY <1>2, <1>5, <1>9
  <2>2. PICK s : s = cp.snapshot
    OBVIOUS
  <2>3. Carries(s) /\ i \in DOMAIN s.host /\ s.host[i].effects = ledger.records[i].effects
    BY <1>2, <1>6, <1>9, <2>2 DEF TransitionShape
  <2>4. EffectsKept /\ Carries(s)'
    BY <1>2, <2>1, <2>3, GrantMove
  <2> QED BY <1>2, <1>5, <1>6, <1>7, <1>8, <1>9, <2>2, <2>4, GateDrive
<1>10. CASE ~(d.result = "done" /\ cp.purpose = "outcome")
  <2>1. UNCHANGED <<ledger, handler>>
    BY <1>2, <1>5, <1>10
  <2>2. EffectsKept /\ EvidenceKept
    BY <2>1, StayKept
  <2>3. Carries(cp.snapshot)'
    BY <1>6, <2>2 DEF TransitionShape, EvidenceKept
  <2>4. cp.purpose = "start" \/ cp.purpose = "outcome"
    BY <1>2
  <2> QED BY <1>2, <1>5, <1>6, <1>7, <1>8, <1>10, <2>2, <2>3, <2>4, GateDrive
<1> QED BY <1>9, <1>10

\* The checkpoint in the writer's hands carries what its owner may publish.
LEMMA RetainedCarries ==
  ASSUME OperationInv, Retained # NoCheckpoint
  PROVE  /\ Retained \in PendingCheckpoint
         /\ CheckpointShape(Retained, Disk, revision, attempts)
         /\ Merged(Retained.snapshot) /\ Carries(Retained.snapshot)
         /\ ~is_terminal(snapshot.phase)
         /\ \/ ~is_terminal(Retained.snapshot.phase)
            \/ completion_checkpoint # NoCheckpoint /\ Retained = completion_checkpoint
<1>1. CheckpointShape(Retained, Disk, revision, attempts)
  BY DEF OperationInv, WriterPart, WriterShape
<1>2. CASE transition # NoCheckpoint
  <2>1. Retained = transition
    BY <1>2 DEF Retained
  <2>2. transition \in PendingCheckpoint /\ TransitionShape(transition) /\ ~is_terminal(snapshot.phase)
    BY <1>2, RetainedFacts
  <2> QED BY <1>1, <2>1, <2>2 DEF TransitionShape
<1>3. CASE transition = NoCheckpoint
  <2>1. Retained = completion_checkpoint /\ completion_checkpoint # NoCheckpoint
    BY <1>3 DEF Retained
  <2>2. /\ completion_checkpoint \in PendingCheckpoint
        /\ completion_checkpoint.snapshot = pending_completion /\ pending_completion # NoSnapshot
    BY <2>1 DEF OperationInv, TypePart, OperationTypeOK, CompletionPart
  <2>3. /\ pending_completion.host = ledger.records /\ ledger.sealed
        /\ snapshot.phase = "Cleaning"
    BY <2>2 DEF OperationInv, CompletionPart
  <2>4. Merged(pending_completion)
    BY <2>3 DEF OperationInv, LedgerPart, Merged
  <2>5. Carries(pending_completion)
    BY <2>3, RecordsCarry
  <2> QED BY <1>1, <2>1, <2>2, <2>3, <2>4, <2>5 DEF is_terminal, TerminalPhases
<1> QED BY <1>2, <1>3

LEMMA StorageSound ==
  ASSUME OperationInv, StorageStep
  PROVE  OperationInv'
<1>1. UNCHANGED <<snapshot, cancelled, ledger, transition, gate, revision,
                  finalization, pending_completion, completion_checkpoint, handler>>
  BY DEF StorageStep, operationVars
<1>2. LedgerPart' /\ CompletionPart'
  BY <1>1 DEF OperationInv, LedgerPart, CompletionPart
<1>3. TransitionPart'
  BY <1>1 DEF OperationInv, TransitionPart, TransitionShape, Carries, PrefixOver, Merged
<1>4. PICK cp : cp = Retained
  OBVIOUS
<1>5. Retained' = cp
  BY <1>1, <1>4 DEF Retained
<1>6. ASSUME NEW r \in ReceiptIds, attempts[r] # NoReceipt
      PROVE  cp # NoCheckpoint
  BY <1>4, <1>6 DEF OperationInv, WriterPart, WriterShape, IdleShape
<1>7. cp # NoCheckpoint =>
        /\ cp \in PendingCheckpoint
        /\ CheckpointShape(cp, Disk, revision, attempts)
        /\ Merged(cp.snapshot) /\ Carries(cp.snapshot)
        /\ ~is_terminal(snapshot.phase)
        /\ \/ ~is_terminal(cp.snapshot.phase)
           \/ completion_checkpoint # NoCheckpoint /\ cp = completion_checkpoint
  BY <1>4, RetainedCarries
<1>8. OperationTypeOK'
  BY <1>1 DEF OperationInv, TypePart, OperationTypeOK
<1>9. ASSUME rows' = rows, JournalTypeOK', attempts' \in [ReceiptIds -> Attempt \cup {NoReceipt}],
             WriterShape(cp, Disk, revision, attempts')
      PROVE  OperationInv'
  <2>1. Disk' = Disk
    BY <1>9 DEF Disk
  <2>2. WriterPart'
    BY <1>1, <1>5, <1>9, <2>1 DEF WriterPart
  <2>3. PublicPart'
    BY <1>1, <2>1 DEF OperationInv, PublicPart, PrefixOver
  <2>4. DiskPart'
    BY <1>1, <2>1 DEF OperationInv, DiskPart, Carries, Merged
  <2> QED BY <1>2, <1>3, <1>8, <1>9, <2>2, <2>3, <2>4 DEF OperationInv, TypePart
<1>10. ASSUME NEW r \in ReceiptIds, ExecuteAttempt(r)
       PROVE  OperationInv'
  <2>1. cp # NoCheckpoint
    BY <1>6, <1>10 DEF ExecuteAttempt
  <2>2. /\ JournalTypeOK'
        /\ attempts' \in [ReceiptIds -> Attempt \cup {NoReceipt}]
        /\ cp.attempt = "Submitted"
        /\ CheckpointShape(cp, Disk', revision, attempts')
        /\ \/ Disk' = Disk
           \/ Disk' = Candidate(revision, cp.snapshot) /\ (Disk # NoRow => Disk.revision = revision)
    BY <1>7, <1>10, <2>1, InvTyped, ExecuteSound
  <2>3. WriterPart'
    <3>1. WriterShape(cp, Disk', revision, attempts')
      BY <2>1, <2>2 DEF WriterShape
    <3> QED BY <1>1, <1>5, <3>1 DEF WriterPart
  <2>4. CASE Disk' = Disk
    <3>1. PublicPart'
      BY <1>1, <2>4 DEF OperationInv, PublicPart, PrefixOver
    <3>2. DiskPart'
      BY <1>1, <2>4 DEF OperationInv, DiskPart, Carries, Merged
    <3> QED BY <1>2, <1>3, <1>8, <2>2, <2>3, <3>1, <3>2 DEF OperationInv, TypePart
  <2>5. CASE Disk' = Candidate(revision, cp.snapshot)
    <3>1. Disk'.revision = revision + 1 /\ Disk'.snapshot = cp.snapshot /\ revision \in Nat
      BY <2>5, InvTyped, JournalAssumption DEF Candidate, WriterTyped
    <3>2. Disk' # NoRow
      <4>1. revision < MaxRevision /\ cp.snapshot \in Captured
        BY <1>7, <2>1, <2>2 DEF CheckpointShape, AttemptShape
      <4>2. cp.snapshot \in Snapshots /\ revision + 1 \in 1 .. MaxRevision
        BY <4>1, <3>1, CapturedFacts, JournalAssumption
      <4>3. Candidate(revision, cp.snapshot) \in Row
        BY <4>2 DEF Candidate, Row
      <4> QED BY <2>5, <4>3, JournalAssumption DEF Row
    <3>3. PublicPart'
      BY <1>1, <1>7, <2>1, <3>1, <3>2 DEF OperationInv, PublicPart, PrefixOver
    <3>4. PICK s : s = cp.snapshot
      OBVIOUS
    <3>5. Merged(s) /\ Carries(s)'
      BY <1>1, <1>7, <2>1, <3>4 DEF Carries
    <3>6. Carries(Disk.snapshot)'
      BY <3>1, <3>4, <3>5 DEF Carries
    <3>7. DiskPart'
      BY <1>1, <1>7, <2>1, <3>1, <3>2, <3>4, <3>5, <3>6 DEF DiskPart, Merged
    <3> QED BY <1>2, <1>3, <1>8, <2>2, <2>3, <3>3, <3>7 DEF OperationInv, TypePart
  <2> QED BY <2>2, <2>4, <2>5
<1>11. ASSUME NEW r \in ReceiptIds, SettleAttempt(r)
       PROVE  OperationInv'
  <2>1. cp # NoCheckpoint
    BY <1>6, <1>11 DEF SettleAttempt
  <2>2. /\ UNCHANGED journalVars
        /\ attempts' \in [ReceiptIds -> Attempt \cup {NoReceipt}]
        /\ CheckpointShape(cp, Disk, revision, attempts')
    BY <1>7, <1>11, <2>1, InvTyped, SettleSound
  <2>3. JournalTypeOK' /\ rows' = rows
    BY <2>2 DEF journalVars, JournalTypeOK, OperationInv, TypePart
  <2> QED BY <1>9, <2>1, <2>2, <2>3 DEF WriterShape
<1>12. ASSUME recover_storage, UNCHANGED attempts
       PROVE  OperationInv'
  <2>1. JournalTypeOK' /\ rows' = rows
    BY <1>12 DEF recover_storage, journalVars, JournalTypeOK, OperationInv, TypePart
  <2>2. WriterShape(cp, Disk, revision, attempts')
    BY <1>4, <1>12 DEF OperationInv, WriterPart
  <2>3. attempts' \in [ReceiptIds -> Attempt \cup {NoReceipt}]
    BY <1>12 DEF OperationInv, TypePart
  <2> QED BY <1>9, <2>1, <2>2, <2>3
<1> QED BY <1>10, <1>11, <1>12 DEF StorageStep

-----------------------------------------------------------------------------
(* Every reachable state.                                                  *)

LEMMA OperationInitially == Init => OperationInv
<1> SUFFICES ASSUME Init PROVE OperationInv
  OBVIOUS
<1> USE DEF Init, JournalInit, WriterInit, OperationInit
<1>1. op \in Operations /\ Disk = NoRow /\ revision = 0 /\ MaxRevision \in Nat /\ MaxEffects \in Nat
  BY OperationAssumption, JournalAssumption DEF Disk
<1>2. <<>> \in Hosts
  <2>1. <<>> \in [1 .. 0 -> HostEffectRecord] /\ 0 \in 0 .. MaxEffects
    BY <1>1
  <2>2. [1 .. 0 -> HostEffectRecord] \in {[1 .. n -> HostEffectRecord] : n \in 0 .. MaxEffects}
    BY <2>1, Zenon
  <2> QED BY <2>1, <2>2, Zenon DEF Hosts
<1>3. /\ snapshot \in Captured /\ snapshot.finalization = NoFinalization
      /\ snapshot.phase = "Queued"
  BY <1>2 DEF Captured, OperationPhase, NonTerminalPhases, EffectState, ResolvedEffectState
<1>4. ledger.records = <<>> /\ ledger \in LedgerType /\ ~ledger.sealed /\ DOMAIN ledger.records = {}
  BY <1>2 DEF LedgerType
<1>5. handler \in HandlerType /\ \A i \in Effects : handler[i].pc = "absent"
  BY DEF HandlerType, HandlerPc
<1>6. OperationTypeOK
  <2>1. finalization \in [prepared : BOOLEAN, control_issued : BOOLEAN, outcome_prepared : BOOLEAN]
    OBVIOUS
  <2>2. snapshot \in Snapshots /\ cancelled \in BOOLEAN /\ revision \in 0 .. MaxRevision
    <3>1. cancelled \in BOOLEAN
      OBVIOUS
    <3> HIDE DEF Init
    <3> QED BY <1>1, <1>3, <3>1, CapturedFacts
  <2>3. /\ transition \in {NoCheckpoint} /\ completion_checkpoint \in {NoCheckpoint}
        /\ pending_completion \in {NoSnapshot} /\ gate \in {Free}
    OBVIOUS
  <2> HIDE DEF Init
  <2> QED BY <1>4, <1>5, <2>1, <2>2, <2>3 DEF OperationTypeOK, LedgerType, HandlerType
<1>7. JournalTypeOK /\ attempts \in [ReceiptIds -> Attempt \cup {NoReceipt}]
  BY DEF JournalTypeOK
<1>8. WriterPart
  BY <1>1 DEF WriterPart, WriterShape, Retained, IdleShape, RowShape
<1>9. LedgerPart
  BY <1>4, <1>5 DEF LedgerPart, RecordOf
<1>10. PublicPart
  <2>1. NoFinalization.count = 0 /\ NoFinalization.outcome = "none" /\ ~is_terminal(snapshot.phase)
    BY <1>3 DEF NoFinalization, is_terminal, TerminalPhases
  <2>2. PrefixOver(snapshot.finalization)
    BY <1>3, <2>1 DEF PrefixOver
  <2>3. validate_finalization(snapshot)
    BY <1>3 DEF validate_finalization
  <2> QED BY <1>1, <1>3, <2>1, <2>2, <2>3 DEF PublicPart
<1>11. TransitionPart
  <2>1. Free # Owner
    BY <1>1 DEF Free, Owner
  <2> QED BY <2>1 DEF TransitionPart
<1>12. CompletionPart
  BY DEF CompletionPart
<1>13. DiskPart
  BY <1>1, <1>5 DEF DiskPart, GrantedPcs
<1> QED BY <1>6, <1>7, <1>8, <1>9, <1>10, <1>11, <1>12, <1>13 DEF OperationInv, TypePart

LEMMA EffectStepSound ==
  ASSUME OperationInv, NEW i \in Effects, EffectStep(i)
  PROVE  OperationInv'
<1>1. ASSUME NEW stage, NEW native \in BOOLEAN, prepare(i, stage, native) PROVE OperationInv'
  <2>1. EffectsKept /\ EvidenceKept
    BY <1>1, PrepareMove
  <2> QED BY <1>1, <2>1, EffectOnly DEF prepare
<1>2. CASE capture_effect_start(i)
  BY <1>2, CaptureStartSound
<1>3. CASE poll_effect_start(i)
  BY <1>3, PollStartSound
<1>4. ASSUME handler[i].pc \in {"prepared", "permitted", "confirmed"}, Dropped(i),
             UNCHANGED <<writerVars, snapshot, cancelled, transition, gate, revision, finalization,
                         pending_completion, completion_checkpoint>>
      PROVE  OperationInv'
  <2>1. EffectsKept /\ EvidenceKept
    BY <1>4, DropMove
  <2>2. ~ledger.sealed
    BY <1>4, LedgerTyped DEF OpenPcs
  <2> QED BY <1>4, <2>1, <2>2, EffectOnly
<1>5. CASE refuse_effect_start(i)
  BY <1>4, <1>5 DEF refuse_effect_start
<1>6. CASE abandon(i)
  BY <1>4, <1>6 DEF abandon
<1>7. CASE release(i)
  BY <1>4, <1>7 DEF release
<1>8. CASE begin(i)
  <2>1. EffectsKept /\ EvidenceKept
    BY <1>8, BeginMove
  <2>2. ~ledger.sealed
    BY <1>8, LedgerTyped DEF OpenPcs, begin
  <2> QED BY <1>8, <2>1, <2>2, EffectOnly DEF begin
<1>9. ASSUME NEW e \in Evidence, observe(i, e) PROVE OperationInv'
  <2>1. EffectsKept /\ EvidenceKept
    BY <1>9, ObserveMove
  <2>2. ~ledger.sealed
    BY <1>9, LedgerTyped DEF OpenPcs, observe
  <2> QED BY <1>9, <2>1, <2>2, EffectOnly DEF observe
<1>10. CASE poll_effect_outcome(i)
  BY <1>10, PollOutcomeSound
<1> QED BY <1>1, <1>2, <1>3, <1>5, <1>6, <1>7, <1>8, <1>9, <1>10 DEF EffectStep

LEMMA OwnerStepSound ==
  ASSUME OperationInv, OwnerStep
  PROVE  OperationInv'
<1>1. ASSUME NEW phase \in NonTerminalPhases, poll_advance(phase) \/ advance(phase)
      PROVE  OperationInv'
  <2>1. CASE poll_advance(phase)
    BY <2>1, AdvanceSound DEF poll_advance
  <2>2. CASE advance(phase)
    BY <2>2, AdvanceSound DEF advance
  <2> QED BY <1>1, <2>1, <2>2
<1>2. CASE finish_advance
  <2>1. transition # NoCheckpoint
    BY <1>2 DEF finish_advance, OperationInv, TransitionPart
  <2> QED BY <1>2, <2>1, RetainedDriveSound DEF finish_advance
<1>3. CASE retry_advance
  BY <1>3, RetainedDriveSound DEF retry_advance
<1>4. ASSUME NEW b \in Results, prepare_finalization(b) \/ prepare_finalization_outcome(b)
      PROVE  OperationInv'
  BY <1>4, PrepareFinalizationSound, PrepareOutcomeSound
<1>5. CASE take_finalization_control
  BY <1>5, TakeControlSound
<1>6. ASSUME NEW b \in Results, NEW e \in OwnerEvidence, prepare_completion(b, e)
      PROVE  OperationInv'
  BY <1>6, PrepareCompletionSound
<1>7. ASSUME NEW retry \in BOOLEAN, drive_completion_checkpoint(retry)
      PROVE  OperationInv'
  BY <1>7, DriveCompletionSound
<1>8. CASE publish_completion
  BY <1>8, PublishCompletionSound
<1> QED BY <1>1, <1>2, <1>3, <1>4, <1>5, <1>6, <1>7, <1>8 DEF OwnerStep

LEMMA OperationStutters ==
  ASSUME OperationInv, UNCHANGED vars
  PROVE  OperationInv'
<1>1. /\ Disk' = Disk
      /\ UNCHANGED <<rows, storage_failure, connection, attempts, snapshot, cancelled, ledger,
                     transition, gate, revision, finalization, pending_completion,
                     completion_checkpoint, handler>>
  BY DEF vars, writerVars, operationVars, journalVars, Disk
<1>2. TypePart'
  BY <1>1 DEF OperationInv, TypePart, OperationTypeOK, JournalTypeOK
<1>3. WriterPart' /\ LedgerPart' /\ CompletionPart'
  BY <1>1 DEF OperationInv, WriterPart, Retained, LedgerPart, CompletionPart
<1>4. PublicPart'
  BY <1>1 DEF OperationInv, PublicPart, PrefixOver
<1>5. TransitionPart'
  BY <1>1 DEF OperationInv, TransitionPart, TransitionShape, Carries, PrefixOver, Merged
<1>6. DiskPart'
  BY <1>1 DEF OperationInv, DiskPart, Carries, Merged
<1> QED BY <1>2, <1>3, <1>4, <1>5, <1>6 DEF OperationInv

LEMMA OperationNext ==
  ASSUME OperationInv, [Next]_vars
  PROVE  OperationInv'
<1>1. CASE OwnerStep
  BY <1>1, OwnerStepSound
<1>2. ASSUME NEW i \in Effects, EffectStep(i) PROVE OperationInv'
  BY <1>2, EffectStepSound
<1>3. CASE cancel
  BY <1>3, CancelSound
<1>4. CASE request_checkpoint_retry
  BY <1>4, RetrySound
<1>5. CASE StorageStep
  BY <1>5, StorageSound
<1>6. CASE Finished
  BY <1>6, OperationStutters DEF Finished
<1>7. CASE UNCHANGED vars
  BY <1>7, OperationStutters
<1> QED BY <1>1, <1>2, <1>3, <1>4, <1>5, <1>6, <1>7 DEF Next

\* The writer's, the ledger's, the gate's and the terminal candidate's parts of
\* the invariant hold together in every reachable state of an operation.
THEOREM OperationInductive == OperationSpec => []OperationInv
<1>1. Init => OperationInv
  BY OperationInitially
<1>2. OperationInv /\ [Next]_vars => OperationInv'
  BY OperationNext
<1> QED BY <1>1, <1>2, PTL DEF OperationSpec

\* The public state, the gate, the revision, the ledger and the callers of an
\* operation keep their types.
THEOREM OperationTyped == OperationSpec => []OperationTypeOK
<1>1. OperationInv => OperationTypeOK
  BY DEF OperationInv, TypePart
<1> QED BY <1>1, OperationInductive, PTL

\* Only one checkpoint is in flight, and the writer's shape is about it.
LEMMA OneInFlight ==
  ASSUME OperationInv
  PROVE  /\ \A cp \in InFlight : cp = Retained /\ cp # NoCheckpoint
         /\ Retained # NoCheckpoint /\ Retained.attempt # "Acknowledged" => Retained \in InFlight
<1>1. transition # NoCheckpoint => completion_checkpoint = NoCheckpoint
  BY RetainedFacts
<1> QED BY <1>1 DEF InFlight, Retained

LEMMA InvEvidence ==
  ASSUME OperationInv
  PROVE  EvidenceSound
<1>1. /\ Retained = NoCheckpoint => IdleShape(Disk, revision, attempts)
      /\ Retained # NoCheckpoint => CheckpointShape(Retained, Disk, revision, attempts)
  BY DEF OperationInv, WriterPart, WriterShape
<1>2. RevisionAgrees
  <2>1. CASE Retained = NoCheckpoint
    BY <1>1, <2>1 DEF IdleShape, RowShape, RevisionAgrees
  <2>2. CASE Retained # NoCheckpoint
    BY <1>1, <2>2, OneInFlight DEF CheckpointShape, RowShape, RevisionAgrees
  <2> QED BY <2>1, <2>2
<1>3. NoSelfConflict
  <2>1. ASSUME NEW r \in ReceiptIds, attempts[r] # NoReceipt
        PROVE  attempts[r].error \in Soft
    <3>1. Retained # NoCheckpoint
      BY <1>1, <2>1 DEF IdleShape
    <3> QED BY <1>1, <2>1, <3>1 DEF CheckpointShape, AttemptShape
  <2>2. \A cp \in InFlight : cp.failure \in Soft \cup {"Refused"}
    BY <1>1, OneInFlight DEF CheckpointShape
  <2> QED BY <2>1, <2>2 DEF NoSelfConflict, Soft
<1>4. TerminalIsDurable
  <2> SUFFICES ASSUME is_terminal(snapshot.phase)
               PROVE  Disk # NoRow /\ Disk.snapshot = snapshot /\ Disk.revision = revision
    BY DEF TerminalIsDurable
  <2>1. /\ Disk # NoRow /\ Disk.snapshot = snapshot
        /\ transition = NoCheckpoint /\ pending_completion = NoSnapshot
    BY DEF OperationInv, PublicPart
  <2>2. Retained = NoCheckpoint
    BY <2>1 DEF OperationInv, CompletionPart, Retained
  <2> QED BY <1>1, <2>1, <2>2 DEF IdleShape
<1>5. ClosingIntentDurable
  <2> SUFFICES ASSUME finalization.control_issued
               PROVE  /\ Disk # NoRow
                      /\ Disk.snapshot.finalization # NoFinalization
                      /\ \A i \in 1 .. Disk.snapshot.finalization.count :
                           ledger.records[i].phase = "Completed"
    BY DEF ClosingIntentDurable
  <2>1. /\ snapshot.finalization # NoFinalization /\ PrefixOver(snapshot.finalization)
        /\ Disk # NoRow /\ snapshot \in Captured
        /\ Disk.revision = revision => Disk.snapshot.finalization = snapshot.finalization
    BY DEF OperationInv, PublicPart
  <2>2. snapshot.finalization.business \in Outcome /\ NoFinalization.business \notin Outcome
    BY <2>1, CapturedFacts DEF NoFinalization, Outcome
  <2>3. /\ Disk.snapshot.finalization.business = snapshot.finalization.business
        /\ Disk.snapshot.finalization.count = snapshot.finalization.count
    <3>1. CASE Disk.revision = revision
      BY <2>1, <3>1
    <3>2. CASE Disk.revision # revision
      <4>1. Retained # NoCheckpoint /\ Disk.snapshot = Retained.snapshot
        BY <1>1, <2>1, <3>2 DEF IdleShape, CheckpointShape
      <4>2. CASE transition # NoCheckpoint
        <5>1. validate_finalization_successor(transition.snapshot, snapshot) /\ Retained = transition
          BY <4>2, RetainedFacts DEF TransitionShape, Retained
        <5> QED BY <2>1, <4>1, <5>1 DEF validate_finalization_successor
      <4>3. CASE transition = NoCheckpoint
        BY <4>1, <4>3 DEF OperationInv, CompletionPart, Retained
      <4> QED BY <4>2, <4>3
    <3> QED BY <3>1, <3>2
  <2> QED BY <2>1, <2>2, <2>3 DEF PrefixOver
<1>6. FrozenEvidence
  BY DEF FrozenEvidence, OperationInv, LedgerPart, CompletionPart
<1>7. ConfirmedIsDurable
  BY DEF ConfirmedIsDurable, OperationInv, DiskPart, Carries, GrantedPcs
<1> QED BY <1>2, <1>3, <1>4, <1>5, <1>6, <1>7 DEF EvidenceSound

\* Whatever the number of effects, revisions and owners' interleavings: the
\* acknowledged revision is the row's or one behind the retained candidate, the
\* operation's own checkpoints never conflict, a public terminal snapshot and a
\* confirmed result are on disk, the closing export has a durable intent, and a
\* sealed ledger has no open effect.
THEOREM EvidenceAlwaysSound == OperationSpec => []EvidenceSound
<1>1. OperationInv => EvidenceSound
  BY InvEvidence
<1> QED BY <1>1, OperationInductive, PTL

-----------------------------------------------------------------------------
(* The checkpoint contract.                                                *)

DispatchedPcs == {"running", "returned", "confirmed", "done"}

LEMMA SameDispatched ==
  ASSUME \A j \in Effects : handler'[j].pc \in DispatchedPcs <=> handler[j].pc \in DispatchedPcs
  PROVE  Dispatched' = Dispatched
  BY DEF Dispatched, DispatchedPcs

\* Effect i alone moves.
LEMMA PcMoves ==
  ASSUME OperationInv, NEW i \in Effects, NEW pc, handler' = [handler EXCEPT ![i].pc = pc]
  PROVE  /\ handler'[i].pc = pc
         /\ \A j \in Effects : j # i => handler'[j] = handler[j]
<1>1. handler \in HandlerType
  BY LedgerTyped
<1> QED BY <1>1 DEF HandlerType

LEMMA PcStays ==
  ASSUME OperationInv, NEW i \in Effects, NEW pc, handler' = [handler EXCEPT ![i].pc = pc],
         pc \in DispatchedPcs <=> handler[i].pc \in DispatchedPcs
  PROVE  Dispatched' = Dispatched
<1>1. \A j \in Effects : handler'[j].pc \in DispatchedPcs <=> handler[j].pc \in DispatchedPcs
  BY PcMoves
<1> QED BY <1>1, SameDispatched

LEMMA DropStays ==
  ASSUME OperationInv, NEW i \in Effects, handler[i].pc \in {"prepared", "permitted", "confirmed"},
         Dropped(i)
  PROVE  Dispatched' = Dispatched
<1>1. PICK pc : pc = IF handler[i].pc = "confirmed" THEN "done" ELSE "abandoned"
  OBVIOUS
<1>2. handler' = [handler EXCEPT ![i].pc = pc]
  BY <1>1 DEF Dropped
<1>3. pc \in DispatchedPcs <=> handler[i].pc \in DispatchedPcs
  BY <1>1 DEF DispatchedPcs
<1> QED BY <1>2, <1>3, PcStays

LEMMA DriveKeepsRows ==
  ASSUME NEW cp, NEW d, DriveEffect(cp, d)
  PROVE  rows' = rows
  BY DEF DriveEffect, SubmitAttempt, DropAttempt, journalVars, writerVars

\* A drive of an intent leaves the public state and starts no handler.
LEMMA DriveStartStays ==
  ASSUME OperationInv, NEW i \in Effects, handler[i].pc = "prepared", NEW cp, NEW d,
         DriveStart(i, cp, d)
  PROVE  rows' = rows /\ snapshot' = snapshot /\ Dispatched' = Dispatched
<1>1. rows' = rows /\ snapshot' = snapshot
  BY DriveKeepsRows DEF DriveStart
<1>2. CASE UNCHANGED handler
  BY <1>1, <1>2, SameDispatched
<1>3. CASE handler' = [handler EXCEPT ![i].pc = "permitted"]
  BY <1>1, <1>3, PcStays DEF DispatchedPcs
<1>4. CASE Dropped(i)
  BY <1>1, <1>4, DropStays
<1>5. UNCHANGED handler \/ handler' = [handler EXCEPT ![i].pc = "permitted"] \/ Dropped(i)
  BY Zenon DEF DriveStart, StartRefused
<1> QED BY <1>1, <1>2, <1>3, <1>4, <1>5

LEMMA EffectContract ==
  ASSUME OperationInv, NEW i \in Effects, EffectStep(i), ~begin(i)
  PROVE  rows' = rows /\ snapshot' = snapshot /\ Dispatched' = Dispatched
<1>1. ASSUME NEW stage, NEW native \in BOOLEAN, prepare(i, stage, native)
      PROVE  rows' = rows /\ snapshot' = snapshot /\ Dispatched' = Dispatched
  <2>1. rows' = rows /\ snapshot' = snapshot
    BY <1>1 DEF prepare, writerVars, journalVars
  <2>2. handler \in HandlerType /\ handler[i].pc = "absent"
    <3>1. /\ handler \in HandlerType /\ ledger.records \in Hosts
          /\ RecordOf(handler[i], ledger.records, i)
      BY LedgerTyped
    <3>2. i \notin DOMAIN ledger.records
      BY <1>1, <3>1, HostsFacts DEF prepare
    <3> QED BY <3>1, <3>2 DEF RecordOf
  <2>3. handler' = [handler EXCEPT ![i] = [pc |-> "prepared", native |-> native]]
    BY <1>1 DEF prepare
  <2>4. \A j \in Effects : handler'[j].pc \in DispatchedPcs <=> handler[j].pc \in DispatchedPcs
    BY <2>2, <2>3 DEF HandlerType, DispatchedPcs
  <2> QED BY <2>1, <2>4, SameDispatched
<1>2. CASE capture_effect_start(i)
  <2>1. PICK cp : cp = NewCheckpoint("start", i, StartCandidate(i))
    OBVIOUS
  <2>2. PICK admitted \in Admission : DriveStart(i, cp, Driven(cp, FALSE, admitted))
    BY <1>2, <2>1 DEF capture_effect_start
  <2>3. PICK d : d = Driven(cp, FALSE, admitted)
    OBVIOUS
  <2>4. DriveStart(i, cp, d) /\ handler[i].pc = "prepared"
    BY <1>2, <2>2, <2>3 DEF capture_effect_start
  <2> QED BY <2>4, DriveStartStays
<1>3. CASE poll_effect_start(i)
  <2>1. PICK cp : cp = transition
    OBVIOUS
  <2>2. PICK admitted \in Admission : DriveStart(i, cp, Driven(cp, FALSE, admitted))
    BY <1>3, <2>1 DEF poll_effect_start
  <2>3. PICK d : d = Driven(cp, FALSE, admitted)
    OBVIOUS
  <2>4. DriveStart(i, cp, d) /\ handler[i].pc = "prepared"
    BY <1>3, <2>2, <2>3 DEF poll_effect_start
  <2> QED BY <2>4, DriveStartStays
<1>4. CASE refuse_effect_start(i) \/ abandon(i) \/ release(i)
  <2>1. rows' = rows /\ snapshot' = snapshot
    BY <1>4 DEF refuse_effect_start, abandon, release, writerVars, journalVars
  <2>2. handler[i].pc \in {"prepared", "permitted", "confirmed"} /\ Dropped(i)
    BY <1>4 DEF refuse_effect_start, abandon, release
  <2> QED BY <2>1, <2>2, DropStays
<1>5. ASSUME NEW e \in Evidence, observe(i, e)
      PROVE  rows' = rows /\ snapshot' = snapshot /\ Dispatched' = Dispatched
  <2>1. rows' = rows /\ snapshot' = snapshot
    BY <1>5 DEF observe, writerVars, journalVars
  <2>2. handler[i].pc = "running" /\ handler' = [handler EXCEPT ![i].pc = "returned"]
    BY <1>5 DEF observe
  <2> QED BY <2>1, <2>2, PcStays DEF DispatchedPcs
<1>6. CASE poll_effect_outcome(i)
  <2>1. \E cp, d : DriveEffect(cp, d)
    BY <1>6 DEF poll_effect_outcome
  <2>2. rows' = rows /\ snapshot' = snapshot
    BY <1>6, <2>1, DriveKeepsRows DEF poll_effect_outcome
  <2>3. /\ handler[i].pc = "returned"
        /\ UNCHANGED handler \/ handler' = [handler EXCEPT ![i].pc = "confirmed"]
    BY <1>6, Zenon DEF poll_effect_outcome
  <2>4. CASE UNCHANGED handler
    BY <2>2, <2>4, SameDispatched
  <2>5. CASE handler' = [handler EXCEPT ![i].pc = "confirmed"]
    BY <2>2, <2>3, <2>5, PcStays DEF DispatchedPcs
  <2> QED BY <2>3, <2>4, <2>5
<1> QED BY <1>1, <1>2, <1>3, <1>4, <1>5, <1>6 DEF EffectStep

LEMMA OwnerContract ==
  ASSUME OperationInv, OwnerStep
  PROVE  rows' = rows /\ Published /\ Dispatched' = Dispatched
<1>1. ASSUME NEW cp, NEW wait, NEW retry, drive_advance(cp, wait, retry)
      PROVE  rows' = rows /\ Dispatched' = Dispatched
  <2>1. \E d : DriveEffect(cp, d)
    BY <1>1 DEF drive_advance
  <2>2. rows' = rows /\ UNCHANGED handler
    BY <1>1, <2>1, DriveKeepsRows DEF drive_advance
  <2> QED BY <2>2, SameDispatched
<1>2. ASSUME NEW phase \in NonTerminalPhases, poll_advance(phase) \/ advance(phase)
      PROVE  rows' = rows /\ Published /\ Dispatched' = Dispatched
  <2>1. PICK cp : cp = AdvanceCheckpoint(phase)
    OBVIOUS
  <2>2. CASE poll_advance(phase)
    <3>1. drive_advance(cp, FALSE, FALSE)
      BY <2>1, <2>2 DEF poll_advance
    <3>2. Published
      BY <2>2, AdvanceSound DEF poll_advance
    <3> QED BY <1>1, <3>1, <3>2
  <2>3. CASE advance(phase)
    <3>1. drive_advance(cp, TRUE, TRUE)
      BY <2>1, <2>3 DEF advance
    <3>2. Published
      BY <2>3, AdvanceSound DEF advance
    <3> QED BY <1>1, <3>1, <3>2
  <2> QED BY <1>2, <2>2, <2>3
<1>3. CASE finish_advance
  <2>1. transition # NoCheckpoint /\ Published
    BY <1>3, RetainedDriveSound DEF finish_advance, OperationInv, TransitionPart
  <2>2. PICK cp : cp = transition
    OBVIOUS
  <2>3. drive_advance(cp, TRUE, FALSE)
    BY <1>3, <2>2 DEF finish_advance
  <2> QED BY <1>1, <2>1, <2>3
<1>4. CASE retry_advance
  <2>1. Published
    BY <1>4, RetainedDriveSound DEF retry_advance
  <2>2. PICK cp : cp = transition
    OBVIOUS
  <2>3. drive_advance(cp, FALSE, TRUE)
    BY <1>4, <2>2 DEF retry_advance
  <2> QED BY <1>1, <2>1, <2>3
<1>5. ASSUME NEW b, prepare_finalization(b) \/ prepare_finalization_outcome(b) \/ take_finalization_control
      PROVE  rows' = rows /\ Published /\ Dispatched' = Dispatched
  <2>1. rows' = rows /\ Published /\ UNCHANGED handler
    BY <1>5 DEF prepare_finalization, prepare_finalization_outcome, take_finalization_control,
                writerVars, journalVars, Published
  <2> QED BY <2>1, SameDispatched
<1>6. ASSUME NEW b, NEW e, prepare_completion(b, e)
      PROVE  rows' = rows /\ Published /\ Dispatched' = Dispatched
  <2>1. rows' = rows /\ Published /\ UNCHANGED handler
    BY <1>6 DEF prepare_completion, writerVars, journalVars, Published
  <2> QED BY <2>1, SameDispatched
<1>7. ASSUME NEW retry, drive_completion_checkpoint(retry)
      PROVE  rows' = rows /\ Published /\ Dispatched' = Dispatched
  <2>1. \E cp, d : DriveEffect(cp, d)
    BY <1>7 DEF drive_completion_checkpoint
  <2>2. rows' = rows /\ Published /\ UNCHANGED handler
    BY <1>7, <2>1, DriveKeepsRows DEF drive_completion_checkpoint, Published
  <2> QED BY <2>2, SameDispatched
<1>8. CASE publish_completion
  <2>1. rows' = rows /\ UNCHANGED handler /\ snapshot' = pending_completion
    BY <1>8 DEF publish_completion, writerVars, journalVars
  <2>2. /\ transition = NoCheckpoint /\ completion_checkpoint.snapshot = pending_completion
        /\ completion_checkpoint.attempt = "Acknowledged" /\ completion_checkpoint # NoCheckpoint
    BY <1>8 DEF publish_completion, OperationInv, CompletionPart
  <2>3. Disk # NoRow /\ Disk.snapshot = pending_completion
    BY <2>2 DEF OperationInv, WriterPart, WriterShape, Retained, CheckpointShape
  <2> QED BY <2>1, <2>3, SameDispatched DEF Published
<1>9. CASE take_finalization_control
  BY <1>5, <1>9
<1> QED BY <1>2, <1>3, <1>4, <1>5, <1>6, <1>7, <1>8, <1>9 DEF OwnerStep

\* The contract's operators are the model's.
LEMMA SameContract == \A p : History!is_terminal(p) <=> is_terminal(p)
  BY Zenon DEF History!is_terminal, is_terminal, History!TerminalPhases, TerminalPhases

\* What disk holds admits every effect that is or was dispatched.
LEMMA DiskAdmits ==
  ASSUME OperationInv, NEW s \in Captured, Merged(s), NEW i \in Effects, i \in DOMAIN s.host
  PROVE  History!Admits(s, i)
  BY DEF History!Admits, Merged, AnyEffectOpen

LEMMA ContractStep ==
  ASSUME OperationInv, [Next]_vars
  PROVE  [History!ContractNext]_(History!contractVars)
<1> DEFINE durable == IF Disk = NoRow THEN NoSnapshot ELSE Disk.snapshot
<1>1. Disk # NoRow => Disk.snapshot \in Captured /\ Disk.snapshot # NoSnapshot
  <2>1. RowShape(Disk, revision)
    BY DEF OperationInv, WriterPart, WriterShape, IdleShape, CheckpointShape
  <2> QED BY <2>1, CapturedFacts DEF RowShape
<1>2. ASSUME rows' = rows, Published, Dispatched' = Dispatched
      PROVE  [History!ContractNext]_(History!contractVars)
  <2>1. durable' = durable
    BY <1>2 DEF Disk
  <2>2. CASE snapshot' = snapshot
    BY <1>2, <2>1, <2>2 DEF History!contractVars
  <2>3. CASE Disk # NoRow /\ snapshot' = Disk.snapshot
    <3>1. History!Publish
      BY <1>1, <1>2, <2>1, <2>3 DEF History!Publish
    <3> QED BY <3>1 DEF History!ContractNext
  <2> QED BY <1>2, <2>2, <2>3 DEF Published
<1>3. ASSUME UNCHANGED <<rows, snapshot, handler>>
      PROVE  [History!ContractNext]_(History!contractVars)
  BY <1>2, <1>3, SameDispatched DEF Published
<1>4. CASE OwnerStep
  BY <1>2, <1>4, OwnerContract
<1>5. ASSUME NEW i \in Effects, EffectStep(i), ~begin(i)
      PROVE  [History!ContractNext]_(History!contractVars)
  BY <1>2, <1>5, EffectContract DEF Published
<1>6. ASSUME NEW i \in Effects, begin(i)
      PROVE  [History!ContractNext]_(History!contractVars)
  <2>1. /\ UNCHANGED <<rows, snapshot>> /\ handler[i].pc = "permitted"
        /\ handler' = [handler EXCEPT ![i].pc = "running"]
    BY <1>6 DEF begin, writerVars, journalVars
  <2>2. /\ handler'[i].pc = "running" /\ \A j \in Effects : j # i => handler'[j] = handler[j]
    BY <2>1, PcMoves
  <2>3. Dispatched' = Dispatched \cup {i}
    BY <2>2 DEF Dispatched
  <2>4. durable' = durable
    BY <2>1 DEF Disk
  <2>5. /\ Disk # NoRow /\ Merged(Disk.snapshot) /\ i \in DOMAIN Disk.snapshot.host
    BY <2>1 DEF OperationInv, DiskPart, Carries, GrantedPcs
  <2>6. ~ledger.sealed
    BY <2>1, LedgerTyped DEF OpenPcs
  <2>7. ~is_terminal(Disk.snapshot.phase)
    BY <2>5, <2>6 DEF OperationInv, DiskPart, PublicPart, CompletionPart
  <2>8. History!Admits(Disk.snapshot, i)
    BY <1>1, <2>5, DiskAdmits
  <2>9. History!Dispatch(i)
    BY <1>1, <2>1, <2>3, <2>4, <2>5, <2>7, <2>8, SameContract DEF History!Dispatch
  <2> QED BY <2>9 DEF History!ContractNext
<1>7. CASE cancel \/ request_checkpoint_retry
  BY <1>3, <1>7 DEF cancel, request_checkpoint_retry, writerVars, journalVars
<1>8. CASE StorageStep
  <2>1. UNCHANGED <<snapshot, handler>>
    BY <1>8 DEF StorageStep, operationVars
  <2>2. ASSUME NEW r \in ReceiptIds, ExecuteAttempt(r)
        PROVE  [History!ContractNext]_(History!contractVars)
    <3>1. PICK cp : cp = Retained
      OBVIOUS
    <3>2. cp # NoCheckpoint
      BY <2>2, <3>1 DEF ExecuteAttempt, OperationInv, WriterPart, WriterShape, IdleShape
    <3>3. /\ cp \in PendingCheckpoint
          /\ CheckpointShape(cp, Disk, revision, attempts)
          /\ Merged(cp.snapshot) /\ Carries(cp.snapshot) /\ ~is_terminal(snapshot.phase)
      BY <3>1, <3>2, RetainedCarries
    <3>4. /\ cp.attempt = "Submitted"
          /\ CheckpointShape(cp, Disk', revision, attempts')
          /\ \/ Disk' = Disk
             \/ Disk' = Candidate(revision, cp.snapshot) /\ (Disk # NoRow => Disk.revision = revision)
      BY <2>2, <3>3, InvTyped, ExecuteSound
    <3>5. Dispatched' = Dispatched
      BY <2>1, SameDispatched
    <3>6. CASE Disk' = Disk
      BY <2>1, <3>5, <3>6 DEF History!contractVars
    <3>7. CASE /\ Disk' = Candidate(revision, cp.snapshot)
               /\ Disk # NoRow => Disk.revision = revision
      <4>1. revision \in Nat /\ revision < MaxRevision /\ cp.snapshot \in Captured
        BY <3>3, <3>4, InvTyped, JournalAssumption DEF CheckpointShape, AttemptShape, WriterTyped
      <4>2. cp.snapshot \in Snapshots /\ revision + 1 \in 1 .. MaxRevision
        BY <4>1, CapturedFacts, JournalAssumption
      <4>3. Candidate(revision, cp.snapshot) \in Row /\ Candidate(revision, cp.snapshot).snapshot = cp.snapshot
        BY <4>2 DEF Candidate, Row
      <4>4. durable' = cp.snapshot
        BY <3>7, <4>3, JournalAssumption DEF Row
      <4>5. Disk = NoRow \/ ~is_terminal(Disk.snapshot.phase)
        <5> SUFFICES ASSUME Disk # NoRow, is_terminal(Disk.snapshot.phase) PROVE FALSE
          OBVIOUS
        <5>1. /\ completion_checkpoint # NoCheckpoint
              /\ Disk.revision = revision + 1 \/ completion_checkpoint.attempt = "Acknowledged"
          BY <3>3 DEF OperationInv, DiskPart
        <5>2. cp = completion_checkpoint
          BY <3>1, <5>1, RetainedFacts DEF Retained
        <5> QED BY <3>4, <3>7, <4>1, <5>1, <5>2
      <4>6. \A i \in Dispatched : History!Admits(cp.snapshot, i)
        <5> SUFFICES ASSUME NEW i \in Dispatched PROVE History!Admits(cp.snapshot, i)
          OBVIOUS
        <5>1. i \in Effects /\ handler[i].pc \in GrantedPcs
          BY DEF Dispatched, GrantedPcs
        <5>2. i \in DOMAIN cp.snapshot.host
          BY <3>3, <5>1 DEF Carries
        <5> QED BY <3>3, <4>1, <5>1, <5>2, DiskAdmits
      <4>7. History!Persist
        BY <2>1, <3>5, <4>2, <4>4, <4>5, <4>6, SameContract DEF History!Persist
      <4> QED BY <4>7 DEF History!ContractNext
    <3> QED BY <3>4, <3>6, <3>7
  <2>3. ASSUME NEW r \in ReceiptIds, SettleAttempt(r)
        PROVE  [History!ContractNext]_(History!contractVars)
    BY <1>3, <2>1, <2>3 DEF SettleAttempt, journalVars
  <2>4. CASE recover_storage
    BY <1>3, <2>1, <2>4 DEF recover_storage, journalVars
  <2> QED BY <1>8, <2>2, <2>3, <2>4 DEF StorageStep
<1>9. CASE UNCHANGED vars
  BY <1>3, <1>9 DEF vars, writerVars, operationVars, journalVars
<1>10. CASE Finished
  BY <1>9, <1>10 DEF Finished
<1>11. ASSUME NEW i \in Effects, EffectStep(i)
       PROVE  [History!ContractNext]_(History!contractVars)
  BY <1>5, <1>6, <1>11
<1> QED BY <1>4, <1>7, <1>8, <1>9, <1>10, <1>11 DEF Next

\* Every behaviour of an operation, its handlers and its checkpoints is one of
\* the checkpoint contract: snapshots become durable one after the other and
\* never after a terminal one, a snapshot becomes public only as the durable
\* one, and a handler starts only when what is durable admits it.
THEOREM OperationImplementsContract == OperationSpec => ImplementsContract
<1>1. Init => History!ContractInit
  <2> SUFFICES ASSUME Init PROVE History!ContractInit
    OBVIOUS
  <2>1. Disk = NoRow /\ Dispatched = {}
    BY OperationAssumption DEF Init, JournalInit, OperationInit, Disk, Dispatched
  <2>2. snapshot = [context |-> "module", phase |-> "Queued", effects |-> "NotStarted",
                    cancelled |-> FALSE, host |-> <<>>, finalization |-> NoFinalization]
    BY DEF Init, OperationInit
  <2> QED BY <2>1, <2>2, Zenon DEF History!ContractInit
<1>2. OperationInv /\ [Next]_vars => [History!ContractNext]_(History!contractVars)
  BY ContractStep
<1> QED BY <1>1, <1>2, OperationInductive, PTL DEF OperationSpec, ImplementsContract, History!Contract

-----------------------------------------------------------------------------
(* One handler at a time, and an owner that waits for it.                  *)

RunningKnown ==
  \A i \in Effects : handler[i].pc = "running" => ledger.records[i].effects = "Unknown"

\* No handler starts, reports or is confirmed.
SerialKept ==
  /\ OneOpen(ledger'.records) /\ RunningKnown'
  /\ \A j \in Effects : handler'[j].pc \in {"permitted", "running", "returned", "confirmed"} =>
       handler[j].pc = handler'[j].pc
  /\ \A j \in Dispatched' : j \in Dispatched /\ ledger'.records[j].effects = ledger.records[j].effects

\* c is cp after a drive, or cp itself.
SameCapture(c, cp) ==
  c.snapshot = cp.snapshot /\ c.purpose = cp.purpose /\ c.effect = cp.effect

LEMMA SerialStep ==
  ASSUME SerialPart, SerialKept, Disk' = Disk,
         \/ transition' = NoCheckpoint
         \/ \E cp : SerialShape(cp) /\ SameCapture(transition', cp)
  PROVE  SerialPart'
<1>1. ASSUME NEW s, NEW i \in Dispatched', Shows(s, i) PROVE Shows(s, i)'
  BY <1>1 DEF Shows, SerialKept
<1>2. transition' # NoCheckpoint => SerialShape(transition)'
  <2> SUFFICES ASSUME transition' # NoCheckpoint PROVE SerialShape(transition)'
    OBVIOUS
  <2>1. PICK cp : SerialShape(cp) /\ SameCapture(transition', cp)
    OBVIOUS
  <2>2. PICK c : c = transition'
    OBVIOUS
  <2>3. /\ \A i \in Effects : handler'[i].pc \notin {"permitted", "running", "confirmed"}
        /\ \A i \in Effects : handler'[i].pc = "returned" => c.purpose = "outcome"
        /\ c.purpose = "start" => c.snapshot.host[c.effect] = Intent
    BY <2>1, <2>2 DEF SerialShape, SameCapture, SerialKept
  <2>4. PICK s : s = c.snapshot
    OBVIOUS
  <2>5. \A i \in Dispatched' : Shows(s, i)
    BY <2>1, <2>2, <2>4 DEF SerialShape, SameCapture, SerialKept
  <2>6. \A i \in Dispatched' : Shows(s, i)'
    BY <1>1, <2>5
  <2> QED BY <2>2, <2>3, <2>4, <2>6 DEF SerialShape, Shows
<1>3. PICK t : t = Disk.snapshot
  OBVIOUS
<1>4. \A i \in Dispatched' : Disk # NoRow /\ Shows(t, i)
  BY <1>3 DEF SerialPart, SerialKept
<1>5. \A i \in Dispatched' : Shows(t, i)'
  BY <1>1, <1>4
<1>6. \A i \in Dispatched' : Disk' # NoRow /\ Shows(Disk.snapshot, i)'
  BY <1>3, <1>4, <1>5 DEF Shows
<1>7. \A i \in Effects : handler'[i].pc = "permitted" => Disk'.snapshot.host[i] = Intent
  BY DEF SerialPart, SerialKept
<1> QED BY <1>2, <1>6, <1>7 DEF SerialPart, SerialKept, RunningKnown

\* The open record is effect i's, so every other dispatched effect is over.
LEMMA OthersOver ==
  ASSUME OperationInv, SerialPart, NEW i \in Effects, handler[i].pc \in OpenPcs,
         NEW j \in Effects, j # i
  PROVE  /\ handler[j].pc \in {"absent", "done", "abandoned"}
         /\ j \in Dispatched => j \in DOMAIN ledger.records /\ ledger.records[j].phase = "Completed"
<1>1. /\ RecordOf(handler[i], ledger.records, i) /\ RecordOf(handler[j], ledger.records, j)
      /\ handler[j].pc \in HandlerPc
      /\ handler[i].pc \in OpenPcs => i \in DOMAIN ledger.records
      /\ handler[j].pc \in OpenPcs => j \in DOMAIN ledger.records
  BY LedgerTyped
<1>2. ledger.records[i].phase # "Completed" /\ (handler[j].pc \in OpenPcs => ledger.records[j].phase # "Completed")
  BY <1>1 DEF RecordOf, OpenPcs
<1>3. handler[j].pc \notin OpenPcs
  BY <1>1, <1>2 DEF SerialPart, OneOpen
<1>4. handler[j].pc \in {"absent", "done", "abandoned"}
  BY <1>1, <1>3 DEF HandlerPc, OpenPcs
<1> QED BY <1>1, <1>4 DEF RecordOf, Dispatched

LEMMA NoneOpen ==
  ASSUME OperationInv, ~AnyEffectOpen(ledger.records), NEW j \in Effects
  PROVE  /\ handler[j].pc \in {"absent", "done", "abandoned"}
         /\ j \in Dispatched => j \in DOMAIN ledger.records /\ ledger.records[j].phase = "Completed"
<1>1. /\ RecordOf(handler[j], ledger.records, j) /\ handler[j].pc \in HandlerPc
      /\ handler[j].pc \in OpenPcs => j \in DOMAIN ledger.records
  BY LedgerTyped
<1>2. handler[j].pc \notin OpenPcs
  BY <1>1 DEF RecordOf, OpenPcs, AnyEffectOpen
<1> QED BY <1>1, <1>2 DEF HandlerPc, OpenPcs, RecordOf, Dispatched

\* A capture of the closed ledger shows every dispatched effect.
LEMMA ClosedShape ==
  ASSUME OperationInv, ~AnyEffectOpen(ledger.records), NEW cp, cp.snapshot.host = ledger.records,
         cp.purpose = "lifecycle"
  PROVE  SerialShape(cp)
<1>1. \A j \in Effects : handler[j].pc \in {"absent", "done", "abandoned"}
  BY NoneOpen
<1>2. \A j \in Dispatched : j \in Effects
  BY DEF Dispatched
<1>3. \A j \in Dispatched : Shows(cp.snapshot, j)
  BY <1>2, NoneOpen DEF Shows
<1> QED BY <1>1, <1>3 DEF SerialShape

LEMMA SerialStays ==
  ASSUME SerialPart, ledger'.records = ledger.records, UNCHANGED handler
  PROVE  SerialKept
  BY DEF SerialPart, SerialKept, RunningKnown, Dispatched

LEMMA SerialDrops ==
  ASSUME OperationInv, SerialPart, NEW i \in Effects,
         handler[i].pc \in {"prepared", "permitted", "confirmed"}, Dropped(i)
  PROVE  SerialKept
<1> DEFINE x == [ledger.records[i] EXCEPT !.phase = "Completed"]
<1>1. /\ i \in DOMAIN ledger.records /\ ledger.records[i] \in HostEffectRecord
      /\ ledger \in LedgerType /\ handler \in HandlerType /\ ledger.records \in Hosts
      /\ \A j \in Effects : handler[j].pc \in GrantedPcs => j \in DOMAIN ledger.records
  BY LedgerTyped, HostsFacts DEF OpenPcs
<1>2. x \in HostEffectRecord /\ x.phase = "Completed" /\ x.effects = ledger.records[i].effects
  BY <1>1 DEF HostEffectRecord, HostEffectPhase
<1>3. PICK pc \in {"done", "abandoned"} :
        /\ pc = "done" => handler[i].pc = "confirmed"
        /\ handler' = [handler EXCEPT ![i].pc = pc]
  BY DEF Dropped
<1>4. ledger' = [ledger EXCEPT !.records = [ledger.records EXCEPT ![i] = x]]
  BY DEF Dropped
<1> HIDE DEF x
<1>5. /\ handler'[i].pc = pc /\ \A j \in Effects : j # i => handler'[j] = handler[j]
  BY <1>3, PcMoves
<1>6. ledger'.records = [ledger.records EXCEPT ![i] = x]
  BY <1>1, <1>4 DEF LedgerType
<1>7. /\ DOMAIN ledger'.records = DOMAIN ledger.records /\ ledger'.records[i] = x
      /\ \A j \in DOMAIN ledger.records : j # i => ledger'.records[j] = ledger.records[j]
  BY <1>1, <1>2, <1>6, HostsExcept
<1>8. OneOpen(ledger'.records)
  BY <1>2, <1>7 DEF SerialPart, OneOpen
<1>9. RunningKnown'
  <2> SUFFICES ASSUME NEW j \in Effects, handler'[j].pc = "running"
               PROVE  ledger'.records[j].effects = "Unknown"
    BY DEF RunningKnown
  <2>1. j # i /\ handler[j].pc = "running"
    BY <1>3, <1>5
  <2>2. j \in DOMAIN ledger.records /\ ledger.records[j].effects = "Unknown"
    BY <1>1, <2>1 DEF GrantedPcs, SerialPart
  <2> QED BY <1>7, <2>1, <2>2
<1>10. \A j \in Dispatched' : j \in Dispatched /\ ledger'.records[j].effects = ledger.records[j].effects
  <2> SUFFICES ASSUME NEW j \in Dispatched'
               PROVE  j \in Dispatched /\ ledger'.records[j].effects = ledger.records[j].effects
    OBVIOUS
  <2>1. Dispatched' = Dispatched
    BY DropStays
  <2>2. j \in Dispatched /\ j \in Effects /\ j \in DOMAIN ledger.records
    BY <1>1, <2>1 DEF Dispatched, GrantedPcs
  <2> QED BY <1>2, <1>7, <2>2
<1>11. \A j \in Effects : handler'[j].pc \in {"permitted", "running", "returned", "confirmed"} =>
         handler[j].pc = handler'[j].pc
  BY <1>3, <1>5
<1> QED BY <1>8, <1>9, <1>10, <1>11 DEF SerialKept

LEMMA SerialPrepares ==
  ASSUME MaxOpen = 1, OperationInv, SerialPart, NEW i \in Effects, NEW stage, NEW native \in BOOLEAN,
         prepare(i, stage, native)
  PROVE  SerialKept
<1> DEFINE x == [phase |-> "Prepared", effects |-> "NotStarted"]
<1> DEFINE h == Append(ledger.records, x)
<1> DEFINE open == {j \in DOMAIN ledger.records : ledger.records[j].phase # "Completed"}
<1>1. /\ ledger \in LedgerType /\ handler \in HandlerType /\ ledger.records \in Hosts
      /\ \A j \in Effects : handler[j].pc \in GrantedPcs => j \in DOMAIN ledger.records
  BY LedgerTyped
<1>2. x \in HostEffectRecord
  BY DEF HostEffectRecord, HostEffectPhase, EffectState, ResolvedEffectState
<1>3. i = Len(ledger.records) + 1 /\ Cardinality(open) < 1
  BY DEF prepare
<1>4. open = {}
  <2>1. Len(ledger.records) \in Nat /\ DOMAIN ledger.records = 1 .. Len(ledger.records)
    BY <1>1, HostsFacts
  <2>2. IsFiniteSet(DOMAIN ledger.records)
    BY <2>1, FS_Interval
  <2>3. IsFiniteSet(open)
    BY <2>2, FS_Subset
  <2>4. Cardinality(open) \in Nat
    BY <2>3, FS_CardinalityType
  <2>5. Cardinality(open) = 0
    BY <1>3, <2>4
  <2> QED BY <2>3, <2>5, FS_EmptySet
<1>5. Len(ledger.records) < MaxEffects
  BY <1>1, <1>3, HostsFacts, OperationAssumption DEF Effects
<1>6. /\ DOMAIN h = DOMAIN ledger.records \cup {i} /\ i \notin DOMAIN ledger.records
      /\ \A j \in DOMAIN ledger.records : h[j] = ledger.records[j]
  BY <1>1, <1>2, <1>3, <1>5, HostsAppend
<1>7. /\ ledger' = [ledger EXCEPT !.records = h]
      /\ handler' = [handler EXCEPT ![i] = [pc |-> "prepared", native |-> native]]
  BY DEF prepare
<1> HIDE DEF h
<1>8. ledger'.records = h
  BY <1>1, <1>7 DEF LedgerType
<1>9. OneOpen(ledger'.records)
  BY <1>4, <1>6, <1>8 DEF OneOpen
<1>10. handler'[i].pc = "prepared" /\ \A j \in Effects : j # i => handler'[j] = handler[j]
  BY <1>1, <1>7 DEF HandlerType
<1>11. RunningKnown'
  <2> SUFFICES ASSUME NEW j \in Effects, handler'[j].pc = "running"
               PROVE  ledger'.records[j].effects = "Unknown"
    BY DEF RunningKnown
  <2>1. j # i /\ handler[j].pc = "running"
    BY <1>10
  <2>2. j \in DOMAIN ledger.records /\ ledger.records[j].effects = "Unknown"
    BY <1>1, <2>1 DEF GrantedPcs, SerialPart
  <2> QED BY <1>6, <1>8, <2>2
<1>12. \A j \in Dispatched' : j \in Dispatched /\ ledger'.records[j].effects = ledger.records[j].effects
  <2> SUFFICES ASSUME NEW j \in Dispatched'
               PROVE  j \in Dispatched /\ ledger'.records[j].effects = ledger.records[j].effects
    OBVIOUS
  <2>1. j \in Effects /\ j # i /\ j \in Dispatched /\ handler[j].pc \in GrantedPcs
    BY <1>10 DEF Dispatched, GrantedPcs
  <2> QED BY <1>1, <1>6, <1>8, <2>1
<1>13. \A j \in Effects : handler'[j].pc \in {"permitted", "running", "returned", "confirmed"} =>
         handler[j].pc = handler'[j].pc
  BY <1>10
<1> QED BY <1>9, <1>11, <1>12, <1>13 DEF SerialKept

\* A drive by the owner, over the retained checkpoint or over a capture that
\* OwnerWaits allows.
LEMMA SerialAdvance ==
  ASSUME OperationInv, SerialPart, NEW cp \in PendingCheckpoint,
         CheckpointShape(cp, Disk, revision, attempts),
         NEW wait \in BOOLEAN, NEW retry \in BOOLEAN, drive_advance(cp, wait, retry),
         transition' # NoCheckpoint /\ transition'.purpose = cp.purpose => SerialShape(cp)
  PROVE  SerialPart'
<1>1. PICK admitted \in Admission :
        LET d == Driven(cp, retry, admitted) IN
        /\ DriveEffect(cp, d)
        /\ transition' = IF d.result = "done" /\ cp.purpose # "outcome" THEN NoCheckpoint ELSE d.cp
  BY Zenon DEF drive_advance
<1>2. PICK d : d = Driven(cp, retry, admitted)
  OBVIOUS
<1>3. /\ DriveEffect(cp, d)
      /\ transition' = IF d.result = "done" /\ cp.purpose # "outcome" THEN NoCheckpoint ELSE d.cp
  BY <1>1, <1>2, Zenon
<1>4. DriveResult(cp, d)
  BY <1>2, <1>3, DriveSound, InvTyped
<1>5. SameCapture(d.cp, cp) /\ rows' = rows
  BY <1>4 DEF DriveResult, SameCapture, journalVars
<1>6. Disk' = Disk
  BY <1>5 DEF Disk
<1>7. SerialKept
  BY SerialStays DEF drive_advance
<1>8. transition' = NoCheckpoint \/ (SerialShape(cp) /\ SameCapture(transition', cp))
  BY <1>3, <1>5 DEF SameCapture
<1> QED BY <1>6, <1>7, <1>8, SerialStep

LEMMA SerialRetained ==
  ASSUME OperationInv, SerialPart, transition # NoCheckpoint, NEW wait \in BOOLEAN,
         NEW retry \in BOOLEAN, drive_advance(transition, wait, retry)
  PROVE  SerialPart'
<1>1. PICK cp : cp = transition
  OBVIOUS
<1>2. drive_advance(cp, wait, retry) /\ SerialShape(cp)
  BY <1>1 DEF SerialPart
<1>3. cp \in PendingCheckpoint /\ CheckpointShape(cp, Disk, revision, attempts)
  BY <1>1, RetainedFacts
<1> QED BY <1>2, <1>3, SerialAdvance

LEMMA SerialMoves ==
  ASSUME OperationInv, SerialPart, OwnerWaits, NEW phase, NEW wait \in BOOLEAN, NEW retry \in BOOLEAN,
         MayAdvance(phase), drive_advance(AdvanceCheckpoint(phase), wait, retry)
  PROVE  SerialPart'
<1>1. PICK cp : cp = AdvanceCheckpoint(phase)
  OBVIOUS
<1>2. drive_advance(cp, wait, retry)
  BY <1>1
<1>3. CASE transition # NoCheckpoint
  <2>1. cp = transition
    BY <1>1, <1>3 DEF AdvanceCheckpoint
  <2>2. drive_advance(transition, wait, retry)
    BY <1>2, <2>1
  <2> QED BY <1>3, <2>2, SerialRetained
<1>4. CASE transition = NoCheckpoint
  <2>1. cp = NewCheckpoint("lifecycle", 0, project(advance_snapshot(snapshot, phase)))
    BY <1>1, <1>4 DEF AdvanceCheckpoint
  <2>2. phase \in Targets /\ LegalAdvance(snapshot.phase, phase) /\ pending_completion = NoSnapshot
    BY <1>4 DEF MayAdvance
  <2>3. /\ cp \in PendingCheckpoint /\ CheckpointShape(cp, Disk, revision, attempts)
        /\ cp.purpose = "lifecycle" /\ cp.snapshot.host = ledger.records
    BY <1>4, <2>1, <2>2, AdvanceCapture
  <2>4. transition' # NoCheckpoint /\ transition'.purpose = cp.purpose => SerialShape(cp)
    <3> SUFFICES ASSUME transition' # NoCheckpoint, transition'.purpose = cp.purpose
                 PROVE  SerialShape(cp)
      OBVIOUS
    <3>1. ~AnyEffectOpen(ledger.records)
      BY <1>4, <2>3 DEF OwnerWaits
    <3> QED BY <2>3, <3>1, ClosedShape
  <2> QED BY <1>2, <2>3, <2>4, SerialAdvance
<1> QED BY <1>3, <1>4

\* A capture of the owner that is not driven yet.
LEMMA SerialCapture ==
  ASSUME OperationInv, SerialPart, ~AnyEffectOpen(ledger.records),
         NEW s, s.host = ledger.records, transition' = NewCheckpoint("lifecycle", 0, s),
         ledger'.records = ledger.records, UNCHANGED <<writerVars, handler>>
  PROVE  SerialPart'
<1>1. PICK n : n = NewCheckpoint("lifecycle", 0, s)
  OBVIOUS
<1>2. n.snapshot = s /\ n.purpose = "lifecycle"
  BY <1>1 DEF NewCheckpoint
<1>3. SerialShape(n)
  BY <1>2, ClosedShape
<1>4. SameCapture(transition', n)
  BY <1>1 DEF SameCapture
<1>5. SerialKept /\ Disk' = Disk
  BY SerialStays DEF writerVars, journalVars, Disk
<1> QED BY <1>3, <1>4, <1>5, SerialStep

\* Nothing that the serial argument is about changes.
LEMMA SerialQuiet ==
  ASSUME OperationInv, SerialPart, rows' = rows, ledger'.records = ledger.records, UNCHANGED handler,
         transition' = transition \/ SameCapture(transition', transition), transition = NoCheckpoint => transition' = NoCheckpoint
  PROVE  SerialPart'
<1>1. SerialKept /\ Disk' = Disk
  BY SerialStays DEF Disk
<1>2. PICK cp : cp = transition
  OBVIOUS
<1>3. cp # NoCheckpoint => SerialShape(cp) /\ SameCapture(transition', cp)
  BY <1>2 DEF SerialPart, SameCapture
<1>4. \/ transition' = NoCheckpoint
      \/ \E c : SerialShape(c) /\ SameCapture(transition', c)
  BY <1>2, <1>3
<1> QED BY <1>1, <1>4, SerialStep

LEMMA SerialOwner ==
  ASSUME OperationInv, SerialPart, OwnerStep, OwnerWaits
  PROVE  SerialPart'
<1>1. ASSUME NEW phase \in NonTerminalPhases, poll_advance(phase) \/ advance(phase)
      PROVE  SerialPart'
  <2>1. CASE poll_advance(phase)
    BY <2>1, SerialMoves DEF poll_advance
  <2>2. CASE advance(phase)
    BY <2>2, SerialMoves DEF advance
  <2> QED BY <1>1, <2>1, <2>2
<1>2. CASE finish_advance
  <2>1. transition # NoCheckpoint
    BY <1>2 DEF finish_advance, OperationInv, TransitionPart
  <2> QED BY <1>2, <2>1, SerialRetained DEF finish_advance
<1>3. CASE retry_advance
  BY <1>3, SerialRetained DEF retry_advance
<1>4. ASSUME NEW b \in Results, prepare_finalization(b)
      PROVE  SerialPart'
  <2> DEFINE q == project(advance_snapshot(snapshot, "Cleaning"))
  <2> DEFINE f == [business |-> b, count |-> Len(ledger.records), outcome |-> "none"]
  <2> DEFINE s == [q EXCEPT !.finalization = f]
  <2>1. /\ ~AnyEffectOpen(ledger.records) /\ ledger' = [ledger EXCEPT !.stage = "Finalization"]
        /\ UNCHANGED <<writerVars, handler>> /\ transition' = NewCheckpoint("lifecycle", 0, s)
    BY <1>4 DEF prepare_finalization
  <2>2. "Cleaning" \in OperationPhase
    BY DEF OperationPhase, NonTerminalPhases
  <2>3. q \in Captured /\ q.host = ledger.records
    BY <2>2, InvTyped, AdvanceFacts, ProjectFacts
  <2>4. ledger'.records = ledger.records
    BY <2>1, LedgerTyped DEF LedgerType
  <2> HIDE DEF q, f
  <2>5. s.host = ledger.records
    BY <2>3 DEF Captured
  <2> HIDE DEF s
  <2> QED BY <2>1, <2>4, <2>5, SerialCapture
<1>5. ASSUME NEW b \in Results, prepare_finalization_outcome(b)
      PROVE  SerialPart'
  <2> DEFINE q == project(snapshot)
  <2> DEFINE s == [q EXCEPT !.finalization.outcome = b]
  <2>1. /\ ~AnyEffectOpen(ledger.records) /\ ledger' = [ledger EXCEPT !.sealed = TRUE]
        /\ UNCHANGED <<writerVars, handler>> /\ transition' = NewCheckpoint("lifecycle", 0, s)
    BY <1>5 DEF prepare_finalization_outcome
  <2>2. q \in Captured /\ q.host = ledger.records
    BY InvTyped, ProjectFacts
  <2>3. ledger'.records = ledger.records
    BY <2>1, LedgerTyped DEF LedgerType
  <2> HIDE DEF q
  <2>4. s.host = ledger.records
    BY <2>2 DEF Captured
  <2> HIDE DEF s
  <2> QED BY <2>1, <2>3, <2>4, SerialCapture
<1>6. CASE take_finalization_control
  BY <1>6, SerialQuiet DEF take_finalization_control, writerVars, journalVars
<1>7. ASSUME NEW b \in Results, NEW e \in OwnerEvidence, prepare_completion(b, e)
      PROVE  SerialPart'
  <2>1. /\ ledger' = [ledger EXCEPT !.sealed = TRUE] /\ UNCHANGED <<writerVars, handler, transition>>
    BY <1>7 DEF prepare_completion
  <2>2. ledger'.records = ledger.records /\ rows' = rows
    BY <2>1, LedgerTyped DEF LedgerType, writerVars, journalVars
  <2> QED BY <2>1, <2>2, SerialQuiet
<1>8. ASSUME NEW retry \in BOOLEAN, drive_completion_checkpoint(retry)
      PROVE  SerialPart'
  <2>1. rows' = rows
    BY <1>8, OwnerContract DEF OwnerStep
  <2>2. UNCHANGED <<ledger, handler, transition>>
    BY <1>8 DEF drive_completion_checkpoint
  <2> QED BY <2>1, <2>2, SerialQuiet
<1>9. CASE publish_completion
  BY <1>9, SerialQuiet DEF publish_completion, writerVars, journalVars
<1> QED BY <1>1, <1>2, <1>3, <1>4, <1>5, <1>6, <1>7, <1>8, <1>9 DEF OwnerStep

\* A drive of an intent: only the caller it names becomes permitted, once the row
\* is the intent's candidate.
LEMMA SerialStart ==
  ASSUME OperationInv, SerialPart, NEW i \in Effects, handler[i].pc = "prepared",
         NEW cp \in PendingCheckpoint, SerialShape(cp), cp.purpose = "start",
         CheckpointShape(cp, Disk, revision, attempts),
         NEW admitted \in Admission, NEW d, d = Driven(cp, FALSE, admitted), DriveStart(i, cp, d)
  PROVE  SerialPart'
<1>1. DriveEffect(cp, d)
  BY DEF DriveStart
<1>2. DriveResult(cp, d)
  BY <1>1, DriveSound, InvTyped
<1>3. SameCapture(d.cp, cp) /\ Disk' = Disk
  BY <1>2 DEF DriveResult, SameCapture, journalVars, Disk
<1>4. CASE d.result = "done" /\ cp.effect = i /\ transition' = NoCheckpoint
           /\ handler' = [handler EXCEPT ![i].pc = "permitted"] /\ UNCHANGED ledger
  <2>1. handler'[i].pc = "permitted" /\ \A j \in Effects : j # i => handler'[j] = handler[j]
    BY <1>4, PcMoves
  <2>2. Disk.snapshot = cp.snapshot
    BY <1>2, <1>4 DEF DriveResult
  <2>3. \A j \in Effects : handler'[j].pc = "permitted" => j = i
    BY <2>1 DEF SerialShape
  <2>4. Disk.snapshot.host[i] = Intent
    BY <1>4, <2>2 DEF SerialShape
  <2>5. \A j \in Effects : handler'[j].pc = "permitted" => Disk'.snapshot.host[j] = Intent
    BY <1>3, <2>3, <2>4
  <2>6. Dispatched' = Dispatched
    BY <1>4, PcStays DEF DispatchedPcs
  <2>7. \A j \in Dispatched' : Disk' # NoRow /\ Shows(Disk.snapshot, j)'
    BY <1>3, <1>4, <2>6 DEF SerialPart, Shows
  <2>8. \A j \in Effects : handler'[j].pc = "running" => handler[j].pc = "running"
    BY <2>1
  <2>9. RunningKnown' /\ OneOpen(ledger'.records)
    BY <1>4, <2>8 DEF RunningKnown, SerialPart
  <2> QED BY <1>4, <2>5, <2>7, <2>9 DEF SerialPart, RunningKnown
<1>5. CASE transition' \in {NoCheckpoint, d.cp} /\ (UNCHANGED <<ledger, handler>> \/ Dropped(i))
  <2>1. SerialKept
    BY <1>5, SerialStays, SerialDrops
  <2> QED BY <1>3, <1>5, <2>1, SerialStep
<1>6. \/ /\ d.result = "done" /\ cp.effect = i /\ transition' = NoCheckpoint
         /\ handler' = [handler EXCEPT ![i].pc = "permitted"] /\ UNCHANGED ledger
      \/ transition' \in {NoCheckpoint, d.cp} /\ (UNCHANGED <<ledger, handler>> \/ Dropped(i))
  BY Zenon DEF DriveStart, StartRefused
<1> QED BY <1>4, <1>5, <1>6

LEMMA SerialCaptureStart ==
  ASSUME OperationInv, SerialPart, NEW i \in Effects, capture_effect_start(i)
  PROVE  SerialPart'
<1>1. PICK cp : cp = NewCheckpoint("start", i, StartCandidate(i))
  OBVIOUS
<1>2. /\ handler[i].pc = "prepared" /\ transition = NoCheckpoint /\ ~is_terminal(snapshot.phase)
      /\ \E admitted \in Admission : DriveStart(i, cp, Driven(cp, FALSE, admitted))
  BY <1>1 DEF capture_effect_start
<1>3. PICK admitted \in Admission : DriveStart(i, cp, Driven(cp, FALSE, admitted))
  BY <1>2
<1>4. PICK d : d = Driven(cp, FALSE, admitted)
  OBVIOUS
<1>5. DriveStart(i, cp, d)
  BY <1>3, <1>4
<1>6. /\ cp \in PendingCheckpoint /\ CheckpointShape(cp, Disk, revision, attempts)
      /\ cp.purpose = "start" /\ cp.effect = i
  BY <1>1, <1>2, StartCapture
<1>7. cp.snapshot = StartCandidate(i)
  BY <1>1 DEF NewCheckpoint
<1>8. /\ DOMAIN cp.snapshot.host = DOMAIN ledger.records /\ cp.snapshot.host[i] = Intent
      /\ \A j \in DOMAIN ledger.records : j # i => cp.snapshot.host[j] = ledger.records[j]
  <2>1. OperationTypeOK /\ snapshot \in Captured /\ i \in DOMAIN ledger.records
    BY <1>2, LedgerTyped DEF OperationInv, TypePart, PublicPart, OpenPcs
  <2> QED BY <1>7, <2>1, StartFacts DEF Intent
<1>9. handler[i].pc \in OpenPcs
  BY <1>2 DEF OpenPcs
<1>10. \A j \in Effects : j # i => handler[j].pc \in {"absent", "done", "abandoned"}
  BY <1>9, OthersOver
<1>11. \A j \in Dispatched : Shows(cp.snapshot, j)
  <2> SUFFICES ASSUME NEW j \in Dispatched PROVE Shows(cp.snapshot, j)
    OBVIOUS
  <2>1. j \in Effects /\ j # i
    BY <1>2 DEF Dispatched
  <2>2. j \in DOMAIN ledger.records /\ ledger.records[j].phase = "Completed"
    BY <1>9, <2>1, OthersOver
  <2> QED BY <1>8, <2>1, <2>2 DEF Shows
<1>12. SerialShape(cp)
  BY <1>2, <1>6, <1>8, <1>10, <1>11 DEF SerialShape
<1> QED BY <1>2, <1>4, <1>5, <1>6, <1>12, SerialStart

LEMMA SerialPollStart ==
  ASSUME OperationInv, SerialPart, NEW i \in Effects, poll_effect_start(i)
  PROVE  SerialPart'
<1>1. PICK cp : cp = transition
  OBVIOUS
<1>2. /\ handler[i].pc = "prepared" /\ transition # NoCheckpoint /\ cp.purpose = "start"
      /\ \E admitted \in Admission : DriveStart(i, cp, Driven(cp, FALSE, admitted))
  BY <1>1 DEF poll_effect_start
<1>3. PICK admitted \in Admission : DriveStart(i, cp, Driven(cp, FALSE, admitted))
  BY <1>2
<1>4. PICK d : d = Driven(cp, FALSE, admitted)
  OBVIOUS
<1>5. DriveStart(i, cp, d)
  BY <1>3, <1>4
<1>6. cp \in PendingCheckpoint /\ CheckpointShape(cp, Disk, revision, attempts) /\ SerialShape(cp)
  BY <1>1, <1>2, RetainedFacts DEF SerialPart
<1> QED BY <1>2, <1>4, <1>5, <1>6, SerialStart

\* The outcome of effect i: the capture shows its evidence and every closed one's.
LEMMA SerialOutcome ==
  ASSUME OperationInv, SerialPart, NEW i \in Effects, poll_effect_outcome(i)
  PROVE  SerialPart'
<1>1. PICK cp : cp = IF transition = NoCheckpoint THEN NewCheckpoint("outcome", i, project(snapshot))
                     ELSE transition
  OBVIOUS
<1>2. /\ handler[i].pc = "returned" /\ UNCHANGED ledger
      /\ transition = NoCheckpoint => ~is_terminal(snapshot.phase)
      /\ \E admitted \in Admission :
           LET d == Driven(cp, FALSE, admitted) IN
           /\ DriveEffect(cp, d)
           /\ transition' = IF d.result = "done" THEN NoCheckpoint ELSE d.cp
           /\ handler' = IF d.result = "done" /\ cp.purpose = "outcome"
                         THEN [handler EXCEPT ![i].pc = "confirmed"] ELSE handler
  BY <1>1, Zenon DEF poll_effect_outcome
<1>3. PICK admitted \in Admission :
           LET d == Driven(cp, FALSE, admitted) IN
           /\ DriveEffect(cp, d)
           /\ transition' = IF d.result = "done" THEN NoCheckpoint ELSE d.cp
           /\ handler' = IF d.result = "done" /\ cp.purpose = "outcome"
                         THEN [handler EXCEPT ![i].pc = "confirmed"] ELSE handler
  BY <1>2, Zenon
<1>4. PICK d : d = Driven(cp, FALSE, admitted)
  OBVIOUS
<1>5. /\ DriveEffect(cp, d)
      /\ transition' = IF d.result = "done" THEN NoCheckpoint ELSE d.cp
      /\ handler' = IF d.result = "done" /\ cp.purpose = "outcome"
                    THEN [handler EXCEPT ![i].pc = "confirmed"] ELSE handler
  BY <1>3, <1>4, Zenon
<1>6. /\ cp \in PendingCheckpoint /\ CheckpointShape(cp, Disk, revision, attempts)
      /\ SerialShape(cp)
  <2>1. CASE transition = NoCheckpoint
    <3>1. cp = NewCheckpoint("outcome", i, project(snapshot))
      BY <1>1, <2>1
    <3>2. cp \in PendingCheckpoint /\ CheckpointShape(cp, Disk, revision, attempts) /\ cp.purpose = "outcome"
      BY <1>2, <2>1, <3>1, OutcomeCapture
    <3>3. cp.snapshot.host = ledger.records
      <4>1. cp.snapshot = project(snapshot)
        BY <3>1 DEF NewCheckpoint
      <4> QED BY <4>1, InvTyped, ProjectFacts
    <3>4. handler[i].pc \in OpenPcs
      BY <1>2 DEF OpenPcs
    <3>5. \A j \in Effects : j # i => handler[j].pc \in {"absent", "done", "abandoned"}
      BY <3>4, OthersOver
    <3>6. i \in DOMAIN ledger.records /\ ledger.records[i].phase = "Running"
      BY <1>2, <3>4, LedgerTyped DEF RecordOf
    <3>7. \A j \in Dispatched : Shows(cp.snapshot, j)
      <4> SUFFICES ASSUME NEW j \in Dispatched PROVE Shows(cp.snapshot, j)
        OBVIOUS
      <4>1. j \in Effects
        BY DEF Dispatched
      <4>2. j \in DOMAIN ledger.records /\ ledger.records[j].phase \in {"Running", "Completed"}
        BY <3>4, <3>6, <4>1, OthersOver
      <4> QED BY <3>3, <4>2 DEF Shows
    <3> QED BY <1>2, <3>2, <3>5, <3>7 DEF SerialShape
  <2>2. CASE transition # NoCheckpoint
    BY <1>1, <2>2, RetainedFacts DEF SerialPart
  <2> QED BY <2>1, <2>2
<1>7. DriveResult(cp, d)
  BY <1>4, <1>5, <1>6, DriveSound, InvTyped
<1>8. SameCapture(d.cp, cp) /\ Disk' = Disk
  BY <1>7 DEF DriveResult, SameCapture, journalVars, Disk
<1>9. CASE d.result = "done" /\ cp.purpose = "outcome"
  <2>1. handler' = [handler EXCEPT ![i].pc = "confirmed"] /\ transition' = NoCheckpoint
    BY <1>5, <1>9
  <2>2. handler'[i].pc = "confirmed" /\ \A j \in Effects : j # i => handler'[j] = handler[j]
    BY <2>1, PcMoves
  <2>3. Dispatched' = Dispatched
    BY <1>2, <2>1, PcStays DEF DispatchedPcs
  <2>4. \A j \in Effects : handler'[j].pc \in {"permitted", "running"} => handler[j].pc = handler'[j].pc
    BY <2>2
  <2>5. \A j \in Dispatched' : Disk' # NoRow /\ Shows(Disk.snapshot, j)'
    BY <1>2, <1>8, <2>3 DEF SerialPart, Shows
  <2>6. RunningKnown' /\ OneOpen(ledger'.records)
    BY <1>2, <2>4 DEF RunningKnown, SerialPart
  <2>7. \A j \in Effects : handler'[j].pc = "permitted" => Disk'.snapshot.host[j] = Intent
    BY <1>8, <2>4 DEF SerialPart
  <2> QED BY <2>1, <2>5, <2>6, <2>7 DEF SerialPart, RunningKnown
<1>10. CASE ~(d.result = "done" /\ cp.purpose = "outcome")
  <2>1. UNCHANGED <<ledger, handler>> /\ transition' \in {NoCheckpoint, d.cp}
    BY <1>2, <1>5, <1>10
  <2>2. SerialKept
    BY <2>1, SerialStays
  <2> QED BY <1>6, <1>8, <2>1, <2>2, SerialStep
<1> QED BY <1>9, <1>10

\* The handler starts: the row its permission was granted on shows it.
LEMMA SerialBegin ==
  ASSUME OperationInv, SerialPart, NEW i \in Effects, begin(i)
  PROVE  SerialPart'
<1> DEFINE x == [phase |-> "Running", effects |-> "Unknown"]
<1>1. /\ handler[i].pc = "permitted" /\ handler' = [handler EXCEPT ![i].pc = "running"]
      /\ ledger' = [ledger EXCEPT !.records = [ledger.records EXCEPT ![i] = x]]
      /\ UNCHANGED <<writerVars, transition>>
  BY DEF begin
<1>2. /\ i \in DOMAIN ledger.records /\ ledger \in LedgerType /\ ledger.records \in Hosts
      /\ handler[i].pc \in OpenPcs /\ RecordOf(handler[i], ledger.records, i)
      /\ \A j \in Effects : handler[j].pc \in GrantedPcs => j \in DOMAIN ledger.records
  BY <1>1, LedgerTyped DEF OpenPcs
<1>3. x \in HostEffectRecord /\ x.phase = "Running" /\ x.effects = "Unknown"
  BY DEF HostEffectRecord, HostEffectPhase, EffectState
<1>4. ledger.records[i].phase = "Prepared"
  BY <1>1, <1>2 DEF RecordOf
<1> HIDE DEF x
<1>5. ledger'.records = [ledger.records EXCEPT ![i] = x]
  BY <1>1, <1>2 DEF LedgerType
<1>6. /\ DOMAIN ledger'.records = DOMAIN ledger.records /\ ledger'.records[i] = x
      /\ \A j \in DOMAIN ledger.records : j # i => ledger'.records[j] = ledger.records[j]
  BY <1>2, <1>3, <1>5, HostsExcept
<1>7. handler'[i].pc = "running" /\ \A j \in Effects : j # i => handler'[j] = handler[j]
  BY <1>1, PcMoves
<1>8. transition' = NoCheckpoint /\ Disk' = Disk
  BY <1>1 DEF SerialPart, SerialShape, writerVars, journalVars, Disk
<1>9. OneOpen(ledger'.records)
  <2>1. \A j \in DOMAIN ledger.records : ledger'.records[j].phase # "Completed" => ledger.records[j].phase # "Completed"
    BY <1>4, <1>6
  <2> QED BY <1>6, <2>1 DEF SerialPart, OneOpen
<1>10. \A j \in Effects : j # i => handler'[j].pc \in {"absent", "done", "abandoned"}
  BY <1>2, <1>7, OthersOver
<1>11. RunningKnown'
  BY <1>3, <1>6, <1>7, <1>10 DEF RunningKnown
<1>12. ASSUME NEW j \in Dispatched' PROVE Disk' # NoRow /\ Shows(Disk.snapshot, j)'
  <2>1. CASE j = i
    <3>1. Disk # NoRow /\ i \in DOMAIN Disk.snapshot.host
      BY <1>1 DEF OperationInv, DiskPart, Carries, GrantedPcs
    <3>2. Disk.snapshot.host[i].phase = "Running" /\ Disk.snapshot.host[i].effects = "Unknown"
      BY <1>1 DEF SerialPart, Intent
    <3> QED BY <1>8, <2>1, <3>1, <3>2 DEF Shows
  <2>2. CASE j # i
    <3>1. j \in Effects /\ j \in Dispatched /\ handler[j].pc \in GrantedPcs
      BY <1>7, <1>12, <2>2 DEF Dispatched, GrantedPcs
    <3>2. ledger'.records[j] = ledger.records[j]
      BY <1>2, <1>6, <2>2, <3>1
    <3>3. Disk # NoRow /\ Shows(Disk.snapshot, j)
      BY <3>1 DEF SerialPart
    <3> QED BY <1>8, <3>2, <3>3 DEF Shows
  <2> QED BY <2>1, <2>2
<1>13. \A j \in Effects : handler'[j].pc # "permitted"
  BY <1>7, <1>10
<1> QED BY <1>8, <1>9, <1>11, <1>12, <1>13 DEF SerialPart, RunningKnown

\* The handler reports: until now its evidence was unknown, on disk too.
LEMMA SerialObserve ==
  ASSUME OperationInv, SerialPart, NEW i \in Effects, NEW e \in Evidence, observe(i, e)
  PROVE  SerialPart'
<1> DEFINE x == [ledger.records[i] EXCEPT !.effects = e]
<1>1. /\ handler[i].pc = "running" /\ handler' = [handler EXCEPT ![i].pc = "returned"]
      /\ ledger' = [ledger EXCEPT !.records = [ledger.records EXCEPT ![i] = x]]
      /\ UNCHANGED <<writerVars, transition>>
  BY DEF observe
<1>2. /\ i \in DOMAIN ledger.records /\ ledger \in LedgerType /\ ledger.records \in Hosts
      /\ handler[i].pc \in OpenPcs /\ ledger.records[i] \in HostEffectRecord
      /\ \A j \in Effects : handler[j].pc \in GrantedPcs => j \in DOMAIN ledger.records
  BY <1>1, LedgerTyped, HostsFacts DEF OpenPcs
<1>3. x \in HostEffectRecord /\ x.phase = ledger.records[i].phase /\ x.effects = e
  BY <1>2, OperationAssumption DEF HostEffectRecord
<1> HIDE DEF x
<1>4. ledger'.records = [ledger.records EXCEPT ![i] = x]
  BY <1>1, <1>2 DEF LedgerType
<1>5. /\ DOMAIN ledger'.records = DOMAIN ledger.records /\ ledger'.records[i] = x
      /\ \A j \in DOMAIN ledger.records : j # i => ledger'.records[j] = ledger.records[j]
  BY <1>2, <1>3, <1>4, HostsExcept
<1>6. handler'[i].pc = "returned" /\ \A j \in Effects : j # i => handler'[j] = handler[j]
  BY <1>1, PcMoves
<1>7. transition' = NoCheckpoint /\ Disk' = Disk
  BY <1>1 DEF SerialPart, SerialShape, writerVars, journalVars, Disk
<1>8. OneOpen(ledger'.records)
  <2>1. \A j \in DOMAIN ledger.records : ledger'.records[j].phase # "Completed" => ledger.records[j].phase # "Completed"
    BY <1>3, <1>5
  <2> QED BY <1>5, <2>1 DEF SerialPart, OneOpen
<1>9. \A j \in Effects : j # i => handler'[j].pc \in {"absent", "done", "abandoned"}
  BY <1>2, <1>6, OthersOver
<1>10. \A j \in Effects : handler'[j].pc \notin {"running", "permitted"}
  BY <1>6, <1>9
<1>11. ASSUME NEW j \in Dispatched' PROVE Disk' # NoRow /\ Shows(Disk.snapshot, j)'
  <2>1. j \in Effects /\ j \in Dispatched /\ handler[j].pc \in GrantedPcs
    BY <1>1, <1>6, <1>11 DEF Dispatched, GrantedPcs
  <2>2. Disk # NoRow /\ Shows(Disk.snapshot, j)
    BY <2>1 DEF SerialPart
  <2>3. CASE j = i
    <3>1. ledger.records[i].effects = "Unknown"
      BY <1>1 DEF SerialPart
    <3>2. Disk.snapshot.host[i].effects = "Unknown"
      BY <2>2, <2>3, <3>1 DEF Shows
    <3> QED BY <1>7, <2>2, <2>3, <3>2 DEF Shows
  <2>4. CASE j # i
    <3>1. ledger'.records[j] = ledger.records[j]
      BY <1>2, <1>5, <2>1, <2>4
    <3> QED BY <1>7, <2>2, <3>1 DEF Shows
  <2> QED BY <2>3, <2>4
<1> QED BY <1>7, <1>8, <1>10, <1>11 DEF SerialPart

LEMMA SerialEffect ==
  ASSUME MaxOpen = 1, OperationInv, SerialPart, NEW i \in Effects, EffectStep(i)
  PROVE  SerialPart'
<1>1. ASSUME SerialKept, UNCHANGED <<writerVars, transition>>
      PROVE  SerialPart'
  <2>1. Disk' = Disk
    BY <1>1 DEF writerVars, journalVars, Disk
  <2>2. PICK cp : cp = transition
    OBVIOUS
  <2>3. transition' = NoCheckpoint \/ (SerialShape(cp) /\ SameCapture(transition', cp))
    BY <1>1, <2>2 DEF SerialPart, SameCapture
  <2> QED BY <1>1, <2>1, <2>3, SerialStep
<1>2. ASSUME NEW stage \in {"Business", "Finalization"}, NEW native \in BOOLEAN, prepare(i, stage, native)
      PROVE  SerialPart'
  <2>1. SerialKept
    BY <1>2, SerialPrepares
  <2>2. UNCHANGED <<writerVars, transition>>
    BY <1>2 DEF prepare
  <2> QED BY <1>1, <2>1, <2>2
<1>3. CASE refuse_effect_start(i) \/ abandon(i) \/ release(i)
  <2>1. handler[i].pc \in {"prepared", "permitted", "confirmed"} /\ Dropped(i)
    BY <1>3 DEF refuse_effect_start, abandon, release
  <2>2. SerialKept
    BY <2>1, SerialDrops
  <2>3. UNCHANGED <<writerVars, transition>>
    BY <1>3 DEF refuse_effect_start, abandon, release
  <2> QED BY <1>1, <2>2, <2>3
<1>4. CASE capture_effect_start(i) \/ poll_effect_start(i) \/ poll_effect_outcome(i) \/ begin(i)
  BY <1>4, SerialCaptureStart, SerialPollStart, SerialOutcome, SerialBegin
<1>5. ASSUME NEW e \in Evidence, observe(i, e) PROVE SerialPart'
  BY <1>5, SerialObserve
<1> QED BY <1>2, <1>3, <1>4, <1>5 DEF EffectStep

\* A commit replaces the row by the checkpoint in flight, which shows as much.
LEMMA SerialStorage ==
  ASSUME OperationInv, SerialPart, StorageStep
  PROVE  SerialPart'
<1>1. UNCHANGED <<snapshot, cancelled, ledger, transition, gate, revision,
                  finalization, pending_completion, completion_checkpoint, handler>>
  BY DEF StorageStep, operationVars
<1>2. CASE rows' = rows
  BY <1>1, <1>2, SerialQuiet
<1>3. ASSUME NEW r \in ReceiptIds, ExecuteAttempt(r)
      PROVE  SerialPart'
  <2>1. PICK cp : cp = Retained
    OBVIOUS
  <2>2. cp # NoCheckpoint
    BY <1>3, <2>1 DEF OperationInv, WriterPart, WriterShape, IdleShape, ExecuteAttempt
  <2>3. cp \in PendingCheckpoint /\ CheckpointShape(cp, Disk, revision, attempts)
    BY <2>1, <2>2, RetainedCarries
  <2>4. \/ Disk' = Disk
        \/ Disk' = Candidate(revision, cp.snapshot)
    BY <1>3, <2>3, InvTyped, ExecuteSound
  <2>5. SerialKept
    BY <1>1, SerialStays
  <2>6. CASE Disk' = Disk
    <3>1. PICK c : c = transition
      OBVIOUS
    <3>2. transition' = NoCheckpoint \/ (SerialShape(c) /\ SameCapture(transition', c))
      BY <1>1, <3>1 DEF SerialPart, SameCapture
    <3> QED BY <2>5, <2>6, <3>2, SerialStep
  <2>7. CASE Disk' = Candidate(revision, cp.snapshot) /\ Disk' # Disk
    <3>1. Disk'.snapshot = cp.snapshot
      BY <2>7 DEF Candidate
    <3>2. OperationInv'
      BY StorageSound
    <3>3. /\ \A j \in Effects : handler[j].pc # "permitted"
          /\ \A j \in Dispatched : Shows(cp.snapshot, j)
      <4>1. CASE transition # NoCheckpoint
        <5>1. cp = transition
          BY <2>1, <4>1 DEF Retained
        <5> QED BY <4>1, <5>1 DEF SerialPart, SerialShape
      <4>2. CASE transition = NoCheckpoint
        <5>1. cp = completion_checkpoint
          BY <2>1, <4>2 DEF Retained
        <5>2. cp.snapshot.host = ledger.records /\ ~AnyEffectOpen(ledger.records)
          BY <2>2, <5>1 DEF OperationInv, CompletionPart, LedgerPart
        <5>3. \A j \in Effects : handler[j].pc \in {"absent", "done", "abandoned"}
          BY <5>2, NoneOpen
        <5>4. \A j \in Dispatched : j \in Effects
          BY DEF Dispatched
        <5> QED BY <5>2, <5>3, <5>4, NoneOpen DEF Shows
      <4> QED BY <4>1, <4>2
    <3>4. Dispatched' = Dispatched
      BY <1>1 DEF Dispatched
    <3>5. ASSUME NEW j \in Dispatched' PROVE Disk' # NoRow /\ Shows(Disk.snapshot, j)'
      <4>1. j \in Effects /\ handler'[j].pc \in GrantedPcs
        BY <3>5 DEF Dispatched, GrantedPcs
      <4>2. Disk' # NoRow
        BY <3>2, <4>1 DEF OperationInv, DiskPart
      <4>3. Shows(cp.snapshot, j)
        BY <3>3, <3>4, <3>5
      <4> QED BY <1>1, <3>1, <4>2, <4>3 DEF Shows
    <3>6. PICK c : c = transition
      OBVIOUS
    <3>7. transition' # NoCheckpoint => SerialShape(transition)'
      <4>1. c # NoCheckpoint => SerialShape(c)
        BY <3>6 DEF SerialPart
      <4> QED BY <1>1, <3>4, <3>6, <4>1 DEF SerialShape, Shows
    <3>8. \A j \in Effects : handler'[j].pc # "permitted"
      BY <1>1, <3>3
    <3> QED BY <2>5, <3>5, <3>7, <3>8 DEF SerialPart, SerialKept, RunningKnown
  <2> QED BY <2>4, <2>6, <2>7
<1>4. ASSUME NEW r \in ReceiptIds, SettleAttempt(r)
      PROVE  SerialPart'
  BY <1>2, <1>4 DEF SettleAttempt, journalVars
<1>5. CASE recover_storage
  BY <1>2, <1>5 DEF recover_storage, journalVars
<1> QED BY <1>3, <1>4, <1>5 DEF StorageStep

LEMMA SerialInitially == Init => SerialPart
<1> SUFFICES ASSUME Init PROVE SerialPart
  OBVIOUS
<1>1. ledger.records = <<>> /\ transition = NoCheckpoint
  BY DEF Init, OperationInit
<1>2. \A i \in Effects : handler[i].pc = "absent"
  BY DEF Init, OperationInit
<1>3. OneOpen(ledger.records)
  BY <1>1 DEF OneOpen
<1>4. Dispatched = {}
  BY <1>2 DEF Dispatched
<1> QED BY <1>1, <1>2, <1>3, <1>4 DEF SerialPart

LEMMA SerialNext ==
  ASSUME MaxOpen = 1, OperationInv, SerialPart, [Next /\ OwnerWaits]_vars
  PROVE  SerialPart'
<1>1. CASE OwnerStep /\ OwnerWaits
  BY <1>1, SerialOwner
<1>2. ASSUME NEW i \in Effects, EffectStep(i) PROVE SerialPart'
  BY <1>2, SerialEffect
<1>3. CASE cancel
  BY <1>3, SerialQuiet DEF cancel, writerVars, journalVars
<1>4. CASE request_checkpoint_retry
  <2>1. /\ transition # NoCheckpoint /\ transition' = [transition EXCEPT !.retry = "Requested"]
        /\ UNCHANGED <<rows, ledger, handler>>
    BY <1>4 DEF request_checkpoint_retry, writerVars, journalVars
  <2>2. transition \in PendingCheckpoint
    BY <2>1, RetainedFacts
  <2>3. SameCapture(transition', transition)
    BY <2>1, <2>2 DEF SameCapture, PendingCheckpoint
  <2> QED BY <2>1, <2>3, SerialQuiet
<1>5. CASE StorageStep
  BY <1>5, SerialStorage
<1>6. CASE UNCHANGED vars
  BY <1>6, SerialQuiet DEF vars, writerVars, journalVars, operationVars
<1> QED BY <1>1, <1>2, <1>3, <1>4, <1>5, <1>6 DEF Next, Finished

LEMMA SerialRecords ==
  ASSUME SerialPart
  PROVE  DiskRecordsPermission
  BY DEF SerialPart, Shows, DiskRecordsPermission

\* With one handler open at a time and an owner that captures no phase while it
\* is open (OwnerWaits), disk records the permission of every dispatched effect
\* and keeps it: no later checkpoint, lost confirmation, retry or terminal row
\* takes a started effect back to Prepared/NotStarted.
THEOREM PermissionAlwaysRecorded ==
  ASSUME MaxOpen = 1
  PROVE  SerialSpec => []DiskRecordsPermission
<1>1. Init => OperationInv /\ SerialPart
  BY OperationInitially, SerialInitially
<1>2. OperationInv /\ SerialPart /\ [Next /\ OwnerWaits]_vars => (OperationInv /\ SerialPart)'
  BY OperationNext, SerialNext
<1>3. OperationInv /\ SerialPart => DiskRecordsPermission
  BY SerialRecords
<1> QED BY <1>1, <1>2, <1>3, PTL DEF SerialSpec
=============================================================================
