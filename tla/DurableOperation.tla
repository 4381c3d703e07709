-------------------------- MODULE DurableOperation --------------------------
(***************************************************************************)
(* One queue-backed operation and everybody who checkpoints it             *)
(* (operations.rs, operations/checkpoint.rs, checkpoint/outcome.rs,        *)
(* operations/finalization.rs, effects.rs and the native and queued        *)
(* dispatch paths of capabilities/): the owner moves it through its        *)
(* phases, host handlers are dispatched only after their intent is on      *)
(* disk, and a terminal result becomes public only after its checkpoint    *)
(* is acknowledged.  All of them write through CheckpointWriter, which the *)
(* journal worker implements, under one revision, ordered by the           *)
(* operation's transition gate.                                            *)
(*                                                                         *)
(* One action is one critical section of the transition gate.  A native    *)
(* caller that waits for disk keeps the gate, so its call is two actions   *)
(* with gate set in between.  Waking and maintenance intervals are left    *)
(* out: a poll may happen at any time.                                     *)
(***************************************************************************)
EXTENDS CheckpointWriter

CONSTANTS
  op,             \* the operation
  MaxEffects,     \* max_effect_records_per_operation
  MaxOpen,        \* handlers open at the same time
  Evidence,       \* effect states a handler reports
  OwnerEvidence,  \* effect states the executor reports at completion
  Results,        \* outcomes of the business and of the closing execution
  Targets,        \* phases the owner moves to
  NoCheckpoint, NoSnapshot

Hosts == UNION {[1 .. n -> HostEffectRecord] : n \in 0 .. MaxEffects}

\* Every snapshot an operation can capture.
Captured ==
  [context : {"module"}, phase : OperationPhase, effects : EffectState,
   cancelled : BOOLEAN, host : Hosts,
   finalization : {NoFinalization} \cup
     [business : Outcome, count : 0 .. MaxEffects, outcome : Outcome \cup {"none"}]]

ASSUME OperationAssumption ==
  /\ op \in Operations
  /\ Captured \subseteq Snapshots /\ NoSnapshot \notin Snapshots
  /\ MaxEffects \in Nat /\ MaxOpen \in Nat
  /\ Evidence \subseteq EffectState
  /\ OwnerEvidence \subseteq EffectState
  /\ Results \subseteq Outcome
  /\ Targets \subseteq NonTerminalPhases
  /\ ReceiptIds # {} /\ NoReceipt \notin ReceiptIds \cup Attempt

VARIABLES
  snapshot,               \* Operation::snapshot, the public state
  cancelled,              \* CallControl's cancellation flag
  ledger,                 \* EffectLedger: stage, sealed, records
  transition,             \* Operation::transition: the retained checkpoint
  gate,                   \* who keeps the transition mutex while waiting
  revision,               \* OperationHistory::revision, 0 for None
  finalization,           \* FinalizationOwnership
  pending_completion,     \* the frozen terminal snapshot
  completion_checkpoint,  \* its checkpoint
  handler                 \* effect -> transport and position of its caller

operationVars == <<snapshot, cancelled, ledger, transition, gate, revision,
                   finalization, pending_completion, completion_checkpoint, handler>>
writerVars == <<journalVars, attempts>>
vars == <<writerVars, operationVars>>

Effects == 1 .. MaxEffects
Free == 0
Owner == MaxEffects + 1
HandlerPc == {"absent", "prepared", "permitted", "running", "returned",
              "confirmed", "done", "abandoned"}

PendingCheckpoint ==
  [purpose : {"lifecycle", "start", "outcome"}, effect : 0 .. MaxEffects,
   failure : WriteError \cup {"Refused", "Internal"},
   retry : {"Waiting", "Requested", "Retrying"}, snapshot : Snapshots,
   attempt : {"New", "Submitted", "Failed", "Acknowledged"},
   receipt : ReceiptIds \cup {NoReceipt}]

ASSUME CheckpointAssumption == NoCheckpoint \notin PendingCheckpoint

\* Type invariant of the operation's own state.
OperationTypeOK ==
  /\ snapshot \in Snapshots
  /\ cancelled \in BOOLEAN
  /\ ledger \in [stage : {"Business", "Finalization"}, sealed : BOOLEAN,
                 records : Hosts]
  /\ transition \in PendingCheckpoint \cup {NoCheckpoint}
  /\ gate \in Effects \cup {Free, Owner}
  /\ revision \in 0 .. MaxRevision
  /\ finalization \in [prepared : BOOLEAN, control_issued : BOOLEAN,
                       outcome_prepared : BOOLEAN]
  /\ pending_completion \in Snapshots \cup {NoSnapshot}
  /\ completion_checkpoint \in PendingCheckpoint \cup {NoCheckpoint}
  /\ handler \in [Effects -> [pc : HandlerPc, native : BOOLEAN]]

OperationInit ==
  /\ snapshot = [context |-> "module", phase |-> "Queued", effects |-> "NotStarted",
                 cancelled |-> FALSE, host |-> <<>>, finalization |-> NoFinalization]
  /\ cancelled = FALSE
  /\ ledger = [stage |-> "Business", sealed |-> FALSE, records |-> <<>>]
  /\ transition = NoCheckpoint
  /\ gate = Free
  /\ revision = 0
  /\ finalization = [prepared |-> FALSE, control_issued |-> FALSE,
                     outcome_prepared |-> FALSE]
  /\ pending_completion = NoSnapshot
  /\ completion_checkpoint = NoCheckpoint
  /\ handler = [i \in Effects |-> [pc |-> "absent", native |-> FALSE]]

-----------------------------------------------------------------------------
(* Captured snapshots.                                                     *)

\* Mutant of project: the host records of the published snapshot are kept.
ProjectPublishedRecords(s) ==
  [s EXCEPT !.cancelled = cancelled, !.effects = merge_effects(@, ledger.records)]

\* Operation::project without its observation-only WaitingForHost, which every
\* capture overwrites with the phase it is for.
project(s) ==
  [s EXCEPT !.cancelled = cancelled,
            !.host = ledger.records,
            !.effects = merge_effects(@, ledger.records)]

\* Mutant of StartCandidate: the live record is captured as it is.
StartCandidateFromLedger(i) ==
  [snapshot EXCEPT !.cancelled = cancelled,
                   !.host = ledger.records,
                   !.effects = merge_effects(@, ledger.records)]

\* The candidate of checkpoint_effect_start: permission on disk, while the live
\* ledger still says Prepared.
StartCandidate(i) ==
  LET host == [ledger.records EXCEPT ![i] = [phase |-> "Running", effects |-> "Unknown"]] IN
  [snapshot EXCEPT !.cancelled = cancelled,
                   !.host = host,
                   !.effects = merge_effects(@, host)]

NewCheckpoint(purpose, i, s) ==
  [purpose |-> purpose, effect |-> i, failure |-> "none", retry |-> "Waiting",
   snapshot |-> s, attempt |-> "New", receipt |-> NoReceipt]

-----------------------------------------------------------------------------
(* PendingCheckpoint::drive.                                               *)

\* A client owns no receipt when it submits: one checkpoint is in flight at a time.
FreshReceipt == CHOOSE r \in ReceiptIds : attempts[r] = NoReceipt

\* May a submission be admitted; submit_request refuses an exhausted revision.
Admission == IF revision < MaxRevision THEN BOOLEAN ELSE {FALSE}

\* What one drive does to checkpoint cp: its next value, the result ("done",
\* "pending" or the error), what it asks of the writer, and the revision.
\* `admitted` is whether a submission passes the queue's limits and the revision
\* is not exhausted.  Between submission and observation the writer may finish;
\* that is a second drive.
Driven(cp, retry, admitted) ==
  LET again == retry \/ cp.retry = "Requested"
      base == [cp EXCEPT
                 !.retry = IF again THEN "Retrying" ELSE @,
                 !.attempt = IF again /\ @ = "Failed" THEN "New" ELSE @]
      write == attempts[base.receipt]
      Pending(next, call) ==
        [cp |-> next, result |-> "pending", call |-> call, revision |-> revision]
      Failed(next, error, call) ==
        [cp |-> [next EXCEPT !.failure = error, !.retry = "Waiting"],
         result |-> error, call |-> call, revision |-> revision]
      Done(next, call, accepted) ==
        [cp |-> [next EXCEPT !.failure = "none"],
         result |-> "done", call |-> call, revision |-> accepted]
  IN
  CASE base.attempt = "New" /\ admitted ->
         Pending([base EXCEPT !.attempt = "Submitted", !.receipt = FreshReceipt], "submit")
    [] base.attempt = "New" /\ ~admitted ->
         Failed([base EXCEPT !.attempt = "Failed"], "Refused", "none")
    [] base.attempt = "Acknowledged" -> Done(base, "none", revision)
    [] base.attempt = "Failed" -> Failed(base, base.failure, "none")
    [] base.attempt = "Submitted" ->
         CASE write.stage # "settled" -> Pending(base, "none")
           [] write.stage = "settled" /\ write.error # "none" ->
                Failed([base EXCEPT !.attempt = "Failed", !.receipt = NoReceipt],
                       write.error, "release")
           [] write.stage = "settled" /\ write.error = "none" ->
                IF write.previous # revision THEN Failed(base, "Internal", "none")
                ELSE Done([base EXCEPT !.attempt = "Acknowledged", !.receipt = NoReceipt],
                          "release", write.revision)

\* Mutants of DriveEffect: an acknowledged revision is not kept; a retry does not
\* accept the identical successor.
DriveEffectForgettingRevision(cp, d) ==
  /\ \/ d.call = "submit" /\ SubmitAttempt(d.cp.receipt, op, revision, cp.snapshot, TRUE)
     \/ d.call = "release" /\ DropAttempt(cp.receipt)
     \/ d.call = "none" /\ UNCHANGED writerVars
  /\ UNCHANGED revision
DriveEffectStrict(cp, d) ==
  /\ \/ d.call = "submit" /\ SubmitAttempt(d.cp.receipt, op, revision, cp.snapshot, FALSE)
     \/ d.call = "release" /\ DropAttempt(cp.receipt)
     \/ d.call = "none" /\ UNCHANGED writerVars
  /\ revision' = d.revision

\* The writer and revision side of a drive of cp that decided d.
DriveEffect(cp, d) ==
  /\ revision' = d.revision
  /\ \/ /\ d.call = "submit"
        /\ SubmitAttempt(d.cp.receipt, op, revision, cp.snapshot, TRUE)
     \/ /\ d.call = "release"
        /\ DropAttempt(cp.receipt)
     \/ /\ d.call = "none"
        /\ UNCHANGED writerVars

\* Mutant of WaitEnded: only a successful write wakes the waiter.
WaitEndedOnSuccess(cp) ==
  cp.attempt = "Submitted" =>
    attempts[cp.receipt].stage = "settled" /\ attempts[cp.receipt].error = "none"

\* A blocking caller that already holds the gate continues when its receipt is
\* complete.
WaitEnded(cp) ==
  cp.attempt = "Submitted" => attempts[cp.receipt].stage = "settled"

-----------------------------------------------------------------------------
(* The owner's lifecycle steps.                                            *)

\* drive_advance under the gate: publish an acknowledged phase, consume an
\* acknowledged intent without dispatching, leave an acknowledged outcome to
\* its handler.
drive_advance(cp, wait, retry) ==
  /\ \E admitted \in Admission :
       LET d == Driven(cp, retry, admitted) IN
       /\ DriveEffect(cp, d)
       /\ transition' = IF d.result = "done" /\ cp.purpose # "outcome"
                        THEN NoCheckpoint ELSE d.cp
       /\ snapshot' = IF d.result = "done" /\ cp.purpose = "lifecycle"
                      THEN cp.snapshot ELSE snapshot
       /\ gate' = IF d.result = "pending" /\ wait THEN Owner ELSE Free
  /\ UNCHANGED <<cancelled, ledger, finalization, pending_completion,
                 completion_checkpoint, handler>>

\* The checkpoint that moving to `phase` drives: the retained one, or a new
\* capture of a legal transition.
AdvanceCheckpoint(phase) ==
  IF transition # NoCheckpoint THEN transition
  ELSE NewCheckpoint("lifecycle", 0, project(advance_snapshot(snapshot, phase)))

MayAdvance(phase) ==
  /\ pending_completion = NoSnapshot
  /\ IF transition # NoCheckpoint THEN transition.snapshot.phase = phase
     ELSE phase \in Targets /\ LegalAdvance(snapshot.phase, phase)

\* poll_advance, and poll_finalization of a retained Cleaning checkpoint.
poll_advance(phase) ==
  /\ gate = Free
  /\ MayAdvance(phase)
  /\ drive_advance(AdvanceCheckpoint(phase), FALSE, FALSE)

\* advance: wait for disk with the gate held.
advance(phase) ==
  /\ gate = Free
  /\ MayAdvance(phase)
  /\ drive_advance(AdvanceCheckpoint(phase), TRUE, TRUE)

\* advance continues after its receipt completed.
finish_advance ==
  /\ gate = Owner
  /\ WaitEnded(transition)
  /\ drive_advance(transition, TRUE, FALSE)

\* retry_advance.
retry_advance ==
  /\ gate = Free
  /\ transition # NoCheckpoint
  /\ drive_advance(transition, FALSE, TRUE)

\* OperationHandle::request_checkpoint_retry.
request_checkpoint_retry ==
  /\ gate = Free
  /\ transition # NoCheckpoint
  /\ transition.failure # "none"
  /\ transition.retry = "Waiting"
  /\ transition' = [transition EXCEPT !.retry = "Requested"]
  /\ UNCHANGED <<writerVars, snapshot, cancelled, ledger, gate, revision, finalization,
                 pending_completion, completion_checkpoint, handler>>

\* OperationHandle::cancel.
cancel ==
  /\ ~is_terminal(snapshot.phase)
  /\ cancelled' = TRUE
  /\ UNCHANGED <<writerVars, snapshot, ledger, transition, gate, revision, finalization,
                 pending_completion, completion_checkpoint, handler>>

-----------------------------------------------------------------------------
(* Finalization and completion.                                            *)

\* prepare_finalization with the bounded business outcome.
prepare_finalization(business) ==
  /\ gate = Free
  /\ transition = NoCheckpoint
  /\ ~finalization.prepared
  /\ pending_completion = NoSnapshot
  /\ LegalAdvance(snapshot.phase, "Cleaning")
  /\ ~ledger.sealed /\ ledger.stage = "Business"
  /\ ~AnyEffectOpen(ledger.records)
  /\ ledger' = [ledger EXCEPT !.stage = "Finalization"]
  /\ finalization' = [finalization EXCEPT !.prepared = TRUE]
  /\ transition' = NewCheckpoint("lifecycle", 0,
       [project(advance_snapshot(snapshot, "Cleaning")) EXCEPT
          !.finalization = [business |-> business, count |-> Len(ledger.records),
                            outcome |-> "none"]])
  /\ UNCHANGED <<writerVars, snapshot, cancelled, gate, revision, pending_completion,
                 completion_checkpoint, handler>>

\* Mutant of take_finalization_control: the intent need not be acknowledged.
TakeFinalizationControlEarly ==
  /\ gate = Free
  /\ finalization.prepared
  /\ ~finalization.control_issued
  /\ finalization' = [finalization EXCEPT !.control_issued = TRUE]
  /\ UNCHANGED <<writerVars, snapshot, cancelled, ledger, transition, gate, revision,
                 pending_completion, completion_checkpoint, handler>>

\* take_finalization_control: the only right to run the closing export.
take_finalization_control ==
  /\ gate = Free
  /\ transition = NoCheckpoint
  /\ snapshot.phase = "Cleaning"
  /\ snapshot.finalization # NoFinalization
  /\ finalization.prepared
  /\ ~finalization.control_issued
  /\ finalization' = [finalization EXCEPT !.control_issued = TRUE]
  /\ UNCHANGED <<writerVars, snapshot, cancelled, ledger, transition, gate, revision,
                 pending_completion, completion_checkpoint, handler>>

\* prepare_finalization_outcome.
prepare_finalization_outcome(result) ==
  /\ gate = Free
  /\ transition = NoCheckpoint
  /\ finalization.control_issued
  /\ ~finalization.outcome_prepared
  /\ pending_completion = NoSnapshot
  /\ snapshot.phase = "Cleaning"
  /\ ~AnyEffectOpen(ledger.records)
  /\ ledger' = [ledger EXCEPT !.sealed = TRUE]
  /\ finalization' = [finalization EXCEPT !.outcome_prepared = TRUE]
  /\ transition' = NewCheckpoint("lifecycle", 0,
       [project(snapshot) EXCEPT !.finalization.outcome = result])
  /\ UNCHANGED <<writerVars, snapshot, cancelled, gate, revision, pending_completion,
                 completion_checkpoint, handler>>

\* Mutant of prepare_completion: a retained checkpoint is bypassed.
PrepareCompletionBypassing(result, effects) ==
  /\ pending_completion = NoSnapshot
  /\ gate = Free
  /\ snapshot.phase = "Cleaning"
  /\ snapshot.finalization = NoFinalization
  /\ ~AnyEffectOpen(ledger.records)
  /\ ledger' = [ledger EXCEPT !.sealed = TRUE]
  /\ pending_completion' =
       [snapshot EXCEPT !.phase = TerminalPhase(result),
                        !.host = ledger.records,
                        !.effects = merge_effects(effects, ledger.records),
                        !.cancelled = cancelled]
  /\ UNCHANGED <<writerVars, snapshot, cancelled, transition, gate, revision,
                 finalization, completion_checkpoint, handler>>

\* prepare_completion: freeze the terminal snapshot and seal the ledger.
prepare_completion(result, effects) ==
  LET f == snapshot.finalization
      closed == IF f = NoFinalization THEN result ELSE FinalResult(f.business, f.outcome) IN
  /\ pending_completion = NoSnapshot
  /\ gate = Free
  /\ transition = NoCheckpoint
  /\ snapshot.phase = "Cleaning"
  /\ f # NoFinalization =>
       finalization.outcome_prepared /\ result = f.business /\ f.outcome # "none"
  /\ ~AnyEffectOpen(ledger.records)
  /\ ledger' = [ledger EXCEPT !.sealed = TRUE]
  /\ pending_completion' =
       [snapshot EXCEPT !.phase = TerminalPhase(closed),
                        !.host = ledger.records,
                        !.effects = merge_effects(effects, ledger.records),
                        !.cancelled = cancelled]
  /\ UNCHANGED <<writerVars, snapshot, cancelled, transition, gate, revision,
                 finalization, completion_checkpoint, handler>>

\* drive_completion_checkpoint.
drive_completion_checkpoint(retry) ==
  LET cp == IF completion_checkpoint # NoCheckpoint THEN completion_checkpoint
            ELSE NewCheckpoint("lifecycle", 0, pending_completion) IN
  /\ snapshot.phase = "Cleaning"
  /\ pending_completion # NoSnapshot
  /\ \E admitted \in Admission :
       LET d == Driven(cp, retry, admitted) IN
       /\ DriveEffect(cp, d)
       /\ completion_checkpoint' = d.cp
  /\ UNCHANGED <<snapshot, cancelled, ledger, transition, gate, finalization,
                 pending_completion, handler>>

\* Mutants of publish_completion: the candidate is taken before it is published;
\* publication does not wait for the acknowledgement.
PublishCompletionTaken ==
  /\ completion_checkpoint # NoCheckpoint
  /\ completion_checkpoint.attempt = "Acknowledged"
  /\ snapshot' = NoSnapshot
  /\ pending_completion' = NoSnapshot
  /\ completion_checkpoint' = NoCheckpoint
  /\ UNCHANGED <<writerVars, cancelled, ledger, transition, gate, revision,
                 finalization, handler>>
PublishCompletionEarly ==
  /\ completion_checkpoint # NoCheckpoint
  /\ snapshot.phase = "Cleaning"
  /\ pending_completion # NoSnapshot
  /\ snapshot' = pending_completion
  /\ pending_completion' = NoSnapshot
  /\ completion_checkpoint' = NoCheckpoint
  /\ UNCHANGED <<writerVars, cancelled, ledger, transition, gate, revision,
                 finalization, handler>>

\* publish_completion.
publish_completion ==
  /\ completion_checkpoint # NoCheckpoint
  /\ completion_checkpoint.attempt = "Acknowledged"
  /\ snapshot.phase = "Cleaning"
  /\ pending_completion # NoSnapshot
  /\ snapshot' = pending_completion
  /\ pending_completion' = NoSnapshot
  /\ completion_checkpoint' = NoCheckpoint
  /\ UNCHANGED <<writerVars, cancelled, ledger, transition, gate, revision, finalization,
                 handler>>

-----------------------------------------------------------------------------
(* Host effects.                                                           *)

\* EffectLedger::prepare for a control of `stage`; the closing control exists
\* only once it was issued.
prepare(i, stage, native) ==
  /\ i = Len(ledger.records) + 1
  /\ Cardinality({j \in DOMAIN ledger.records :
                    ledger.records[j].phase # "Completed"}) < MaxOpen
  /\ ~ledger.sealed /\ ledger.stage = stage
  /\ stage = "Finalization" => finalization.control_issued
  /\ ledger' = [ledger EXCEPT !.records =
                  Append(@, [phase |-> "Prepared", effects |-> "NotStarted"])]
  /\ handler' = [handler EXCEPT ![i] = [pc |-> "prepared", native |-> native]]
  /\ UNCHANGED <<writerVars, snapshot, cancelled, transition, gate, revision, finalization,
                 pending_completion, completion_checkpoint>>

\* EffectAttempt::drop: the caller gave up its last owner, before the handler
\* was dispatched or after its result was handed over.
Dropped(i) ==
  /\ ledger' = [ledger EXCEPT !.records[i].phase = "Completed"]
  /\ handler' = [handler EXCEPT ![i].pc =
                   IF handler[i].pc = "confirmed" THEN "done" ELSE "abandoned"]

\* The error of a start: a native call returns it and drops the attempt; the
\* queue keeps the request on an Internal error and cancels it on others.  A
\* known storage failure is classified either way.
StartRefused(i, error) ==
  \/ /\ handler[i].native \/ error \notin {"Uncertain", "Supervisor", "Internal"}
     /\ Dropped(i)
  \/ /\ ~handler[i].native
     /\ error \in {"Uncertain", "Supervisor", "Internal", "Storage"}
     /\ UNCHANGED <<ledger, handler>>

\* checkpoint_effect_start by the caller of effect i, which holds the gate.
DriveStart(i, cp, d) ==
  /\ DriveEffect(cp, d)
  /\ \/ /\ d.result = "pending"
        /\ transition' = d.cp
        /\ gate' = IF handler[i].native THEN i ELSE Free
        /\ UNCHANGED <<ledger, handler>>
     \/ /\ d.result = "done" /\ cp.effect = i
        /\ transition' = NoCheckpoint
        /\ gate' = Free
        /\ handler' = [handler EXCEPT ![i].pc = "permitted"]
        /\ UNCHANGED ledger
     \/ /\ d.result = "done" /\ cp.effect # i    \* drained; its own is next
        /\ transition' = NoCheckpoint
        /\ gate' = i
        /\ UNCHANGED <<ledger, handler>>
     \/ /\ d.result \notin {"pending", "done"}
        /\ transition' = d.cp
        /\ gate' = Free
        /\ StartRefused(i, d.result)
  /\ UNCHANGED <<snapshot, cancelled, finalization, pending_completion,
                 completion_checkpoint>>

\* take_next keeps the broker's lock from the acknowledged intent to begin, so no
\* other queued effect is started in between; native callers do not take it.
BrokerFree(i) ==
  \A j \in Effects \ {i} :
    handler[j].pc = "permitted" => handler[i].native \/ handler[j].native

\* No checkpoint is retained: capture the intent of effect i.
capture_effect_start(i) ==
  /\ handler[i].pc = "prepared"
  /\ BrokerFree(i)
  /\ gate \in {Free, i}
  /\ transition = NoCheckpoint
  /\ ~is_terminal(snapshot.phase)
  /\ LET cp == NewCheckpoint("start", i, StartCandidate(i)) IN
       \E admitted \in Admission : DriveStart(i, cp, Driven(cp, FALSE, admitted))

\* Observe a retained intent, its own or one to drain; never retry a failed one.
poll_effect_start(i) ==
  /\ handler[i].pc = "prepared"
  /\ BrokerFree(i)
  /\ gate \in {Free, i}
  /\ transition # NoCheckpoint
  /\ transition.purpose = "start"
  /\ gate = i => WaitEnded(transition)
  /\ \E admitted \in Admission :
       DriveStart(i, transition, Driven(transition, FALSE, admitted))

\* Another owner's checkpoint is retained: a native call fails, the queue waits.
refuse_effect_start(i) ==
  /\ handler[i].pc = "prepared"
  /\ handler[i].native
  /\ gate = Free
  /\ transition # NoCheckpoint
  /\ transition.purpose # "start"
  /\ Dropped(i)
  /\ UNCHANGED <<writerVars, snapshot, cancelled, transition, gate, revision,
                 finalization, pending_completion, completion_checkpoint>>

\* Mutant of begin: the handler starts while its intent is pending.
BeginUnpermitted(i) ==
  /\ handler[i].pc \in {"prepared", "permitted"}
  /\ ledger' = [ledger EXCEPT !.records[i] = [phase |-> "Running", effects |-> "Unknown"]]
  /\ handler' = [handler EXCEPT ![i].pc = "running"]
  /\ UNCHANGED <<writerVars, snapshot, cancelled, transition, gate, revision,
                 finalization, pending_completion, completion_checkpoint>>

\* EffectAttempt::begin: the handler is now executing.
begin(i) ==
  /\ handler[i].pc = "permitted"
  /\ ledger' = [ledger EXCEPT !.records[i] = [phase |-> "Running", effects |-> "Unknown"]]
  /\ handler' = [handler EXCEPT ![i].pc = "running"]
  /\ UNCHANGED <<writerVars, snapshot, cancelled, transition, gate, revision, finalization,
                 pending_completion, completion_checkpoint>>

\* Cancellation, a deadline, a revoked grant or a closed registration before
\* dispatch: the attempt is dropped without executing.
abandon(i) ==
  /\ handler[i].pc \in {"prepared", "permitted"}
  /\ gate # i
  /\ Dropped(i)
  /\ UNCHANGED <<writerVars, snapshot, cancelled, transition, gate, revision, finalization,
                 pending_completion, completion_checkpoint>>

\* EffectAttempt::observe: the handler returned (or panicked) with evidence e.
observe(i, e) ==
  /\ handler[i].pc = "running"
  /\ ledger' = [ledger EXCEPT !.records[i].effects = e]
  /\ handler' = [handler EXCEPT ![i].pc = "returned"]
  /\ UNCHANGED <<writerVars, snapshot, cancelled, transition, gate, revision, finalization,
                 pending_completion, completion_checkpoint>>

\* poll_effect_outcome by the owner of effect i's result, over the retained
\* checkpoint or a new capture; it drains an intent, and waits for the owner of
\* any other checkpoint.
poll_effect_outcome(i) ==
  LET mine == transition = NoCheckpoint
      cp == IF mine THEN NewCheckpoint("outcome", i, project(snapshot)) ELSE transition IN
  /\ handler[i].pc = "returned"
  /\ gate \in {Free, i}
  /\ cp.purpose = "start" \/ (cp.purpose = "outcome" /\ cp.effect = i)
  /\ mine => ~is_terminal(snapshot.phase)
  /\ \E admitted \in Admission :
       LET d == Driven(cp, FALSE, admitted) IN
       /\ DriveEffect(cp, d)
       /\ transition' = IF d.result = "done" THEN NoCheckpoint ELSE d.cp
       /\ gate' = IF d.result = "done" /\ cp.purpose = "start" THEN i ELSE Free
       /\ handler' = IF d.result = "done" /\ cp.purpose = "outcome"
                     THEN [handler EXCEPT ![i].pc = "confirmed"] ELSE handler
  /\ UNCHANGED <<snapshot, cancelled, ledger, finalization, pending_completion,
                 completion_checkpoint>>

\* The confirmed result is handed over; admission and attempt are dropped.
release(i) ==
  /\ handler[i].pc = "confirmed"
  /\ Dropped(i)
  /\ UNCHANGED <<writerVars, snapshot, cancelled, transition, gate, revision, finalization,
                 pending_completion, completion_checkpoint>>

-----------------------------------------------------------------------------
(* The specification.                                                      *)

OwnerStep ==
  \/ \E phase \in NonTerminalPhases : poll_advance(phase) \/ advance(phase)
  \/ finish_advance
  \/ retry_advance
  \/ \E b \in Results : prepare_finalization(b) \/ prepare_finalization_outcome(b)
  \/ take_finalization_control
  \/ \E b \in Results, e \in OwnerEvidence : prepare_completion(b, e)
  \/ \E retry \in BOOLEAN : drive_completion_checkpoint(retry)
  \/ publish_completion

EffectStep(i) ==
  \/ \E stage \in {"Business", "Finalization"}, native \in BOOLEAN :
       prepare(i, stage, native)
  \/ capture_effect_start(i)
  \/ poll_effect_start(i)
  \/ refuse_effect_start(i)
  \/ begin(i)
  \/ abandon(i)
  \/ \E e \in Evidence : observe(i, e)
  \/ poll_effect_outcome(i)
  \/ release(i)

\* The journal worker and the host's recovery of the storage.  The host attests
\* or forgets a row only after every owner has stopped, so neither happens here.
StorageStep ==
  /\ \/ \E r \in ReceiptIds : ExecuteAttempt(r) \/ SettleAttempt(r)
     \/ recover_storage /\ UNCHANGED attempts
  /\ UNCHANGED operationVars

\* A published terminal operation may stay as it is.
Finished == is_terminal(snapshot.phase) /\ UNCHANGED vars

Next ==
  \/ OwnerStep
  \/ \E i \in Effects : EffectStep(i)
  \/ cancel \/ request_checkpoint_retry
  \/ StorageStep
  \/ Finished

Init == JournalInit /\ WriterInit /\ OperationInit

OperationSpec == Init /\ [][Next]_vars

\* The scheduler's discipline: a handler is called from the executor's stack,
\* and the owner captures no phase before that call has returned.
OwnerWaits ==
  ~(/\ AnyEffectOpen(ledger.records)
    /\ transition = NoCheckpoint
    /\ transition' # NoCheckpoint
    /\ transition'.purpose = "lifecycle")

SerialSpec == Init /\ [][Next /\ OwnerWaits]_vars

\* The caller that keeps the gate while it waits for its receipt.
GateHolderStep ==
  \/ finish_advance
  \/ \E i \in Effects :
       /\ gate = i
       /\ capture_effect_start(i) \/ poll_effect_start(i) \/ poll_effect_outcome(i)

\* The journal worker settles what it admitted (JournalWorker's FairSpec), and a
\* thread woken by its receipt runs.  Polling, retries and recovery stay up to
\* the host.
FairSerialSpec ==
  /\ SerialSpec
  /\ \A r \in ReceiptIds :
       WF_vars((ExecuteAttempt(r) \/ SettleAttempt(r)) /\ UNCHANGED operationVars)
  /\ WF_vars(GateHolderStep)

-----------------------------------------------------------------------------
(* Properties.                                                             *)

Disk == rows[op]
Dispatched == {i \in Effects : handler[i].pc \in {"running", "returned", "confirmed", "done"}}

\* The checkpoint that is in flight, whoever owns it.
InFlight ==
  {cp \in {transition, completion_checkpoint} \ {NoCheckpoint} : cp.attempt # "Acknowledged"}

\* The acknowledged revision is the row's revision, or the row is one ahead and
\* is exactly the retained candidate whose confirmation is still missing: an
\* unacknowledged commit can only be confirmed, never mistaken for another.
RevisionAgrees ==
  IF Disk = NoRow THEN revision = 0
  ELSE \/ Disk.revision = revision
       \/ /\ Disk.revision = revision + 1
          /\ \E cp \in InFlight : cp.snapshot = Disk.snapshot

\* Two actors never compete for one revision: a phase, an intent, an outcome and
\* a terminal checkpoint of one operation never conflict with each other.
NoSelfConflict ==
  /\ \A r \in ReceiptIds : attempts[r] # NoReceipt =>
       attempts[r].error \notin {"StaleGeneration", "NotFound", "AlreadyCompleted", "Invalid"}
  /\ \A cp \in InFlight : cp.failure # "Internal"

\* A terminal snapshot is public only if it is the stored row, with its evidence.
TerminalIsDurable ==
  is_terminal(snapshot.phase) =>
    Disk # NoRow /\ Disk.snapshot = snapshot /\ Disk.revision = revision

\* Disk records execution permission before the handler runs and keeps it: a
\* crash never leaves a started effect recorded as Prepared/NotStarted.
DiskRecordsPermission ==
  \A i \in Dispatched :
    /\ Disk # NoRow
    /\ i \in DOMAIN Disk.snapshot.host
    /\ Disk.snapshot.host[i].phase # "Prepared"
    /\ Disk.snapshot.host[i].effects \in {"Unknown", ledger.records[i].effects}

\* The closing export may run only after its intent is on disk, and no handler
\* is open in the business prefix the intent froze.
ClosingIntentDurable ==
  finalization.control_issued =>
    /\ Disk # NoRow
    /\ Disk.snapshot.finalization # NoFinalization
    /\ \A i \in 1 .. Disk.snapshot.finalization.count :
         ledger.records[i].phase = "Completed"

\* The terminal snapshot was frozen with evidence that no longer changes.
FrozenEvidence ==
  /\ ledger.sealed => ~AnyEffectOpen(ledger.records)
  /\ pending_completion # NoSnapshot =>
       /\ pending_completion.host = ledger.records
       /\ transition = NoCheckpoint
       /\ gate = Free

\* A returned handler's evidence is on disk before its result and admission are
\* handed over.
ConfirmedIsDurable ==
  \A i \in Effects :
    handler[i].pc = "confirmed" =>
      /\ i \in DOMAIN Disk.snapshot.host
      /\ Disk.snapshot.host[i].effects = ledger.records[i].effects

\* What the operation shows, what its retained checkpoints say and what disk
\* holds agree, through lost confirmations, retries and every order of owner,
\* effect and terminal checkpoints.
EvidenceSound ==
  /\ RevisionAgrees /\ NoSelfConflict
  /\ TerminalIsDurable /\ ClosingIntentDurable
  /\ FrozenEvidence /\ ConfirmedIsDurable

\* A thread that waits for disk with the transition gate held always gets an
\* answer and releases it, whatever storage and supervisor do: queries,
\* cancellation and pollers are refused only for a while.
GateReleased == (gate # Free) ~> (gate = Free)

\* The operation implements the checkpoint contract: its public state is always
\* one that was durable when it was published, nothing follows a terminal row,
\* and a handler runs only under durable evidence that it may have run.
History == INSTANCE CheckpointContract WITH
  durable <- IF Disk = NoRow THEN NoSnapshot ELSE Disk.snapshot,
  visible <- snapshot,
  dispatched <- Dispatched,
  Initial <- [context |-> "module", phase |-> "Queued", effects |-> "NotStarted",
              cancelled |-> FALSE, host |-> <<>>, finalization |-> NoFinalization]
ImplementsContract == History!Contract
=============================================================================
