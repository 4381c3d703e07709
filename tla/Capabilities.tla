---------------------------- MODULE Capabilities ----------------------------
(***************************************************************************)
(* Host capabilities (capabilities/registry.rs, broker.rs,                 *)
(* broker/completion.rs): registrations that admit calls until they are    *)
(* unregistered or the runtime shuts down, native calls on the executor's  *)
(* stack, and queued calls that a host SDK takes, completes and that their *)
(* waiter may cancel or abandon at any time.                               *)
(*                                                                         *)
(* One action is one mutex section; a call that unlocks and locks again    *)
(* is several actions.  A cancellation that was decided under the broker's *)
(* lock and is applied under a later one waits in `cancels`.  Schemas,     *)
(* permissions and arguments are abstracted to `revoked`: the moment the   *)
(* caller's authority, deadline or control ends.  Durable confirmation is  *)
(* DurableOperation's; here it may be pending, refused or acknowledged.    *)
(***************************************************************************)
EXTENDS Naturals, Sequences, FiniteSets

CONSTANTS
  RegIds,          \* registration identities, never reused
  Names,           \* capability names
  Calls,           \* host calls, each made once
  MaxEntries,      \* max_registered_capabilities
  MaxConcurrent,   \* CapabilityDescriptor::max_concurrent
  MaxRequests,     \* max_host_requests: parent admission and retained records
  NoEntry, NoReg, NoRecord, NoCall

Entry == [name : Names, native : BOOLEAN, accepting : BOOLEAN,
          finalization_only : BOOLEAN, running : Nat, closure : BOOLEAN,
          releasing : BOOLEAN, listed : BOOLEAN]

\* owner is the thread that moved the prepared call out of the record.
RequestRecord ==
  [phase : {"Queued", "Dispatched", "Completing", "Completed"},
   prepared : BOOLEAN, pending_outcome : BOOLEAN, cancelled : BOOLEAN,
   waiter_alive : BOOLEAN, outcome : {"none", "ok", "error"},
   owner : {"none", "complete", "drive", "cancel", "publish"}]

ASSUME CapabilitiesAssumption ==
  /\ MaxEntries \in Nat \ {0}
  /\ MaxConcurrent \in Nat \ {0}
  /\ MaxRequests \in Nat \ {0}
  /\ NoReg \notin RegIds
  /\ NoCall \notin Calls
  /\ IsFiniteSet(Calls) /\ IsFiniteSet(RegIds)
  /\ NoEntry \notin Entry /\ NoRecord \notin RequestRecord

VARIABLES
  entries,     \* registration -> CapabilityEntry, or NoEntry
  active,      \* RegistryState::active: name -> registration
  closing,     \* RegistryState::closing
  running,     \* CapabilityAdmission::running
  records,     \* BrokerState::records: call -> RequestRecord, or NoRecord
  ready,       \* BrokerState::ready
  tombstones,  \* BrokerState::tombstones
  reserved,    \* BrokerState::bytes, one unit for a record
  stopping,    \* BrokerState::closing
  lock,        \* the call whose submission keeps the broker's lock
  calls,       \* call -> the state of its caller
  cancels,     \* cancellations decided and not yet applied: <<who, call>>
  retiring,    \* registration -> position of its unregister
  shutdown     \* position of begin_shutdown and close_and_poll

registryVars == <<entries, active, closing, running, retiring, shutdown>>
brokerVars == <<records, ready, tombstones, reserved, stopping, lock, cancels>>
vars == <<registryVars, brokerVars, calls>>

CallPc == {"absent", "admitted", "prepared", "rejected", "refusing", "submitted",
           "running", "returned", "confirmed", "failed", "over"}

Call == [pc : CallPc, reg : RegIds \cup {NoReg}, finalization : BOOLEAN,
         permit : BOOLEAN, evidence : {"none", "Prepared", "Running", "Completed"},
         revoked : BOOLEAN]

\* Who decided a cancellation: an unregister and close wait for theirs, the pump,
\* a refresh and a waiter only request one.
Cancellers == RegIds \cup {"close", "request"}

\* Type invariant of the registry, the broker and the calls.
CapabilitiesTypeOK ==
  /\ entries \in [RegIds -> Entry \cup {NoEntry}]
  /\ active \in [Names -> RegIds \cup {NoReg}]
  /\ closing \in BOOLEAN /\ stopping \in BOOLEAN
  /\ running \in 0..MaxRequests /\ reserved \in Nat
  /\ records \in [Calls -> RequestRecord \cup {NoRecord}]
  /\ ready \in Seq(Calls) /\ tombstones \in Seq(Calls)
  /\ lock \in Calls \cup {NoCall}
  /\ calls \in [Calls -> Call]
  /\ cancels \subseteq Cancellers \X Calls
  /\ retiring \in [RegIds -> {"no", "removed", "closed", "scanned", "done"}]
  /\ shutdown \in {"open", "finalizing", "registry", "broker"}

Init ==
  /\ entries = [g \in RegIds |-> NoEntry]
  /\ active = [n \in Names |-> NoReg]
  /\ closing = FALSE /\ stopping = FALSE
  /\ running = 0 /\ reserved = 0
  /\ records = [c \in Calls |-> NoRecord]
  /\ ready = <<>> /\ tombstones = <<>>
  /\ lock = NoCall
  /\ calls = [c \in Calls |->
       [pc |-> "absent", reg |-> NoReg, finalization |-> FALSE, permit |-> FALSE,
        evidence |-> "none", revoked |-> FALSE]]
  /\ cancels = {}
  /\ retiring = [g \in RegIds |-> "no"]
  /\ shutdown = "open"

-----------------------------------------------------------------------------
(* Registrations.                                                          *)

Listed == {g \in RegIds : entries[g] # NoEntry /\ entries[g].listed}

\* register: publish a batch of names with fresh identities, all or nothing.
register(batch, native) ==
  /\ ~closing
  /\ Cardinality(batch) + Cardinality(Listed) <= MaxEntries
  /\ \A n \in batch : active[n] = NoReg
  /\ \E ids \in [batch -> {g \in RegIds : entries[g] = NoEntry}] :
       /\ \A n, m \in batch : ids[n] = ids[m] => n = m
       /\ active' = [n \in Names |-> IF n \in batch THEN ids[n] ELSE active[n]]
       /\ entries' = [g \in RegIds |->
            IF \E n \in batch : ids[n] = g
            THEN [name |-> CHOOSE n \in batch : ids[n] = g, native |-> native,
                  accepting |-> TRUE, finalization_only |-> FALSE, running |-> 0,
                  closure |-> native, releasing |-> FALSE, listed |-> TRUE]
            ELSE entries[g]]
  /\ UNCHANGED <<closing, running, retiring, shutdown, brokerVars, calls>>

\* with_dispatch_gate and admit: is registration g open for this stage?
GateOpen(g, finalization) ==
  /\ entries[g].accepting
  /\ entries[g].finalization_only => finalization

\* Mutant of Idle: a call's closure clone is not waited for.
IdleIgnoringRunning(entry) == ~entry.accepting /\ entry.closure

\* The last owner takes the native closure out and destroys it unlocked.
Idle(entry) == ~entry.accepting /\ entry.running = 0 /\ entry.closure

\* The entry after its closure was taken if nobody can need it any more.
Settled(entry) ==
  IF Idle(entry) THEN [entry EXCEPT !.closure = FALSE, !.releasing = TRUE] ELSE entry

\* CapabilityEntry::close.
Closed(entry) == Settled([entry EXCEPT !.accepting = FALSE])

\* The closure's destructor returned.
finish_release(g) ==
  /\ entries[g] # NoEntry
  /\ entries[g].releasing
  /\ entries' = [entries EXCEPT ![g].releasing = FALSE]
  /\ UNCHANGED <<active, closing, running, retiring, shutdown, brokerVars, calls>>

\* CapabilityRegistrationStatus::drained.
Drained(g) ==
  /\ ~entries[g].accepting
  /\ entries[g].running = 0
  /\ ~entries[g].closure
  /\ ~entries[g].releasing

\* unregister: withdraw the name.
unregister(g) ==
  /\ g \in Listed
  /\ retiring[g] = "no"
  /\ active' = [n \in Names |-> IF active[n] = g THEN NoReg ELSE active[n]]
  /\ retiring' = [retiring EXCEPT ![g] = "removed"]
  /\ UNCHANGED <<entries, closing, running, shutdown, brokerVars, calls>>

\* unregister: close the entry.
unregister_close(g) ==
  /\ retiring[g] = "removed"
  /\ entries' = [entries EXCEPT ![g] = Closed(@)]
  /\ retiring' = [retiring EXCEPT ![g] = "closed"]
  /\ UNCHANGED <<active, closing, running, shutdown, brokerVars, calls>>

\* retire_registration: find its queued requests.
retire_registration(g) ==
  /\ retiring[g] = "closed"
  /\ lock = NoCall
  /\ cancels' = cancels \cup
       {<<g, c>> : c \in {d \in Calls : /\ records[d] # NoRecord
                                        /\ records[d].phase = "Queued"
                                        /\ calls[d].reg = g}}
  /\ retiring' = [retiring EXCEPT ![g] = "scanned"]
  /\ UNCHANGED <<entries, active, closing, running, shutdown, records, ready,
                 tombstones, reserved, stopping, lock, calls>>

\* unregister returns when every found request was cancelled.
unregister_return(g) ==
  /\ retiring[g] = "scanned"
  /\ \A c \in Calls : <<g, c>> \notin cancels
  /\ retiring' = [retiring EXCEPT ![g] = "done"]
  /\ UNCHANGED <<entries, active, closing, running, shutdown, brokerVars, calls>>

\* forget a drained registration.
forget(g) ==
  /\ g \in Listed
  /\ Drained(g)
  /\ entries' = [entries EXCEPT ![g].listed = FALSE]
  /\ UNCHANGED <<active, closing, running, retiring, shutdown, brokerVars, calls>>

-----------------------------------------------------------------------------
(* Shutdown.                                                               *)

\* begin_shutdown closes publication, then restricts the entries one by one.
begin_shutdown ==
  /\ shutdown = "open"
  /\ closing' = TRUE
  /\ active' = [n \in Names |-> NoReg]
  /\ shutdown' = "finalizing"
  /\ UNCHANGED <<entries, running, retiring, brokerVars, calls>>

\* It goes on while the supervisor may already poll for closure.
restrict_entry(g) ==
  /\ closing
  /\ g \in Listed
  /\ ~entries[g].finalization_only
  /\ entries' = [entries EXCEPT ![g].finalization_only = TRUE]
  /\ UNCHANGED <<active, closing, running, retiring, shutdown, brokerVars, calls>>

\* Mutant of close_and_poll: the names stay published.
CloseAndPollKeepingNames ==
  /\ shutdown \in {"open", "finalizing"}
  /\ closing' = TRUE
  /\ shutdown' = "registry"
  /\ UNCHANGED <<entries, active, running, retiring, brokerVars, calls>>

\* close_and_poll: the registry.
close_and_poll ==
  /\ shutdown \in {"open", "finalizing"}
  /\ closing' = TRUE
  /\ active' = [n \in Names |-> NoReg]
  /\ shutdown' = "registry"
  /\ UNCHANGED <<entries, running, retiring, brokerVars, calls>>

\* Mutant of close: only the flag is set.
CloseWithoutCancelling ==
  /\ shutdown = "registry"
  /\ lock = NoCall
  /\ stopping' = TRUE
  /\ shutdown' = "broker"
  /\ UNCHANGED <<entries, active, closing, running, retiring, records, ready,
                 tombstones, reserved, lock, cancels, calls>>

\* HostRequestBroker::close: stop admission and cancel what is retained.
close ==
  /\ shutdown = "registry"
  /\ lock = NoCall
  /\ stopping' = TRUE
  /\ cancels' = cancels \cup {<<"close", c>> : c \in {d \in Calls : records[d] # NoRecord}}
  /\ shutdown' = "broker"
  /\ UNCHANGED <<entries, active, closing, running, retiring, records, ready,
                 tombstones, reserved, lock, calls>>

\* close_and_poll: one entry, once the broker's cancellations returned.
close_entry(g) ==
  /\ shutdown = "broker"
  /\ \A c \in Calls : <<"close", c>> \notin cancels
  /\ g \in Listed
  /\ entries[g].accepting
  /\ entries' = [entries EXCEPT ![g] = Closed(@)]
  /\ UNCHANGED <<active, closing, running, retiring, shutdown, brokerVars, calls>>

-----------------------------------------------------------------------------
(* Admission and its release.                                              *)

\* The permit is counted by the parent and the entry together.
Count(c, g, finalization) ==
  /\ running' = running + 1
  /\ entries' = [entries EXCEPT ![g].running = @ + 1]
  /\ calls' = [calls EXCEPT ![c].pc = "admitted", ![c].reg = g,
                            ![c].finalization = finalization, ![c].permit = TRUE]
  /\ UNCHANGED <<active, closing, retiring, shutdown, brokerVars>>

\* Mutant of admit: the gate is not tested.
AdmitUngated(c, g, finalization) ==
  /\ calls[c].pc = "absent"
  /\ entries[g] # NoEntry
  /\ running < MaxRequests /\ entries[g].running < MaxConcurrent
  /\ Count(c, g, finalization)

\* CapabilityEntry::admit.  The caller's snapshot may name any registration that
\* was ever active.
admit(c, g, finalization) ==
  /\ calls[c].pc = "absent"
  /\ entries[g] # NoEntry
  /\ GateOpen(g, finalization)
  /\ running < MaxRequests /\ entries[g].running < MaxConcurrent
  /\ Count(c, g, finalization)

\* The entry without one of its calls.
Left(entry) == Settled([entry EXCEPT !.running = @ - 1])

\* Mutants of Release: the parent count is returned twice; it is not returned.
ReleaseParentTwice(c) ==
  /\ running' = running - 2
  /\ entries' = [entries EXCEPT ![calls[c].reg] = Left(@)]
ReleaseEntryOnly(c) ==
  /\ UNCHANGED running
  /\ entries' = [entries EXCEPT ![calls[c].reg] = Left(@)]

\* CapabilityPermit::drop, after the callback clone was destroyed.
Release(c) ==
  /\ running' = running - 1
  /\ entries' = [entries EXCEPT ![calls[c].reg] = Left(@)]

\* CapabilitySnapshot::prepare after admission: reserve the effect and recheck
\* the authority.
prepare(c) ==
  /\ calls[c].pc = "admitted"
  /\ \/ /\ calls' = [calls EXCEPT ![c].evidence = "Prepared",
                      ![c].pc = IF calls[c].revoked THEN "failed" ELSE "prepared"]
        /\ UNCHANGED <<entries, running>>
     \/ /\ Release(c)                          \* the ledger refused
        /\ calls' = [calls EXCEPT ![c].permit = FALSE, ![c].pc = "over"]
  /\ UNCHANGED <<active, closing, retiring, shutdown, brokerVars>>

\* An error return of a native call, and of prepare itself: locals are dropped in
\* reverse order of declaration, the effect first and then the admission.
drop_failed(c) ==
  /\ calls[c].pc = "failed"
  /\ IF calls[c].evidence # "Completed"
     THEN /\ calls' = [calls EXCEPT ![c].evidence = "Completed"]
          /\ UNCHANGED <<entries, running>>
     ELSE /\ Release(c)
          /\ calls' = [calls EXCEPT ![c].permit = FALSE, ![c].pc = "over"]
  /\ UNCHANGED <<active, closing, retiring, shutdown, brokerVars>>

\* A PreparedCapability is dropped as a whole, in field order: admission, effect.
DropPrepared(c, pc) ==
  /\ Release(c)
  /\ calls' = [calls EXCEPT ![c].permit = FALSE, ![c].evidence = "Completed",
                            ![c].pc = pc]

\* The caller's authority, deadline or control ended.
revoke(c) ==
  /\ calls[c].pc \notin {"absent", "over"}
  /\ ~calls[c].revoked
  /\ calls' = [calls EXCEPT ![c].revoked = TRUE]
  /\ UNCHANGED <<registryVars, brokerVars>>

-----------------------------------------------------------------------------
(* CapabilitySnapshot::invoke_native.                                      *)

IsNative(c) == entries[calls[c].reg].native

\* Disk acknowledged the intent, the authority was rechecked, and the gate is
\* open: the handler runs.  Otherwise the call fails.
begin_native(c) ==
  /\ calls[c].pc = "prepared"
  /\ IsNative(c)
  /\ \/ /\ ~calls[c].revoked
        /\ GateOpen(calls[c].reg, calls[c].finalization)
        /\ calls' = [calls EXCEPT ![c].pc = "running", ![c].evidence = "Running"]
     \/ calls' = [calls EXCEPT ![c].pc = "failed"]
  /\ UNCHANGED <<registryVars, brokerVars>>

\* The handler returned or panicked.
return_native(c) ==
  /\ calls[c].pc = "running"
  /\ calls' = [calls EXCEPT ![c].pc = "returned"]
  /\ UNCHANGED <<registryVars, brokerVars>>

\* confirm_native_outcome.
confirm_native(c) ==
  /\ calls[c].pc = "returned"
  /\ \E pc \in {"confirmed", "failed"} : calls' = [calls EXCEPT ![c].pc = pc]
  /\ UNCHANGED <<registryVars, brokerVars>>

\* drop(admitted), then drop(effect).
finish_native(c) ==
  /\ calls[c].pc = "confirmed"
  /\ IF calls[c].permit
     THEN /\ Release(c)
          /\ calls' = [calls EXCEPT ![c].permit = FALSE]
     ELSE /\ calls' = [calls EXCEPT ![c].evidence = "Completed", ![c].pc = "over"]
          /\ UNCHANGED <<entries, running>>
  /\ UNCHANGED <<active, closing, retiring, shutdown, brokerVars>>

-----------------------------------------------------------------------------
(* HostRequestBroker: submission and delivery.                             *)

\* max_records, counting delivered and completed requests with a waiter.
RecordsFull == Cardinality({d \in Calls : records[d] # NoRecord}) >= MaxRequests

\* What submit publishes.
NewRecord ==
  [phase |-> "Queued", prepared |-> TRUE, pending_outcome |-> FALSE,
   cancelled |-> FALSE, waiter_alive |-> TRUE, outcome |-> "none",
   owner |-> "none"]

\* Mutant of submit: publication does not look at the gate.
SubmitUngated(c) ==
  /\ calls[c].pc = "prepared"
  /\ ~IsNative(c)
  /\ lock = NoCall
  /\ ~(stopping \/ RecordsFull)
  /\ records' = [records EXCEPT ![c] = NewRecord]
  /\ ready' = Append(ready, c)
  /\ reserved' = reserved + 1
  /\ calls' = [calls EXCEPT ![c].pc = "submitted"]
  /\ UNCHANGED <<registryVars, tombstones, stopping, cancels, lock>>

\* submit.  A closed or full broker, too many bytes or evidence that cannot name
\* the request unlocks before the argument is dropped; a closed gate drops the
\* closure that owns it while the broker is locked.
submit(c) ==
  /\ calls[c].pc = "prepared"
  /\ ~IsNative(c)
  /\ lock = NoCall
  /\ \/ /\ calls' = [calls EXCEPT ![c].pc = "rejected"]
        /\ UNCHANGED <<records, ready, reserved, lock>>
     \/ /\ ~(stopping \/ RecordsFull)
        /\ IF GateOpen(calls[c].reg, calls[c].finalization)
           THEN /\ records' = [records EXCEPT ![c] = NewRecord]
                /\ ready' = Append(ready, c)
                /\ reserved' = reserved + 1
                /\ calls' = [calls EXCEPT ![c].pc = "submitted"]
                /\ UNCHANGED lock
           ELSE /\ calls' = [calls EXCEPT ![c].pc = "refusing"]
                /\ lock' = c
                /\ UNCHANGED <<records, ready, reserved>>
  /\ UNCHANGED <<registryVars, tombstones, stopping, cancels>>

\* The refused submission is destroyed, and the broker unlocked.
drop_submission(c) ==
  /\ calls[c].pc \in {"rejected", "refusing"}
  /\ DropPrepared(c, "over")
  /\ lock' = IF lock = c THEN NoCall ELSE lock
  /\ UNCHANGED <<active, closing, retiring, shutdown, records, ready, tombstones,
                 reserved, stopping, cancels>>

\* Mutant of take_next: the delivered request stays at the head.
TakeNextKeepingHead ==
  /\ lock = NoCall /\ ~stopping
  /\ ready # <<>>
  /\ LET c == Head(ready) IN
     /\ ~calls[c].revoked
     /\ GateOpen(calls[c].reg, calls[c].finalization)
     /\ records' = [records EXCEPT ![c].phase = "Dispatched"]
     /\ calls' = [calls EXCEPT ![c].evidence = "Running"]
  /\ UNCHANGED <<registryVars, ready, tombstones, reserved, stopping, lock, cancels>>

\* take_next: deliver the head, or cancel it in a later section when it lost its
\* authority, its gate closed or its intent was refused.  A pending intent or an
\* internal error leaves it where it is.
take_next ==
  /\ lock = NoCall /\ ~stopping
  /\ ready # <<>>
  /\ LET c == Head(ready) IN
     \/ /\ ~calls[c].revoked
        /\ GateOpen(calls[c].reg, calls[c].finalization)
        /\ records' = [records EXCEPT ![c].phase = "Dispatched"]
        /\ calls' = [calls EXCEPT ![c].evidence = "Running"]
        /\ ready' = Tail(ready)
        /\ UNCHANGED cancels
     \/ /\ cancels' = cancels \cup {<<"request", c>>}
        /\ UNCHANGED <<records, calls, ready>>
  /\ UNCHANGED <<registryVars, tombstones, reserved, stopping, lock>>

-----------------------------------------------------------------------------
(* HostRequestBroker: completion, cancellation, result owner.              *)

Retained(c) == records[c] # NoRecord /\ lock = NoCall

\* ready.retain: the entries other than c, in their order.
Retain(queue, c) ==
  LET kept == {i \in DOMAIN queue : queue[i] # c}
      Rank(i) == Cardinality({j \in kept : j <= i}) IN
  [k \in 1 .. Cardinality(kept) |-> queue[CHOOSE i \in kept : Rank(i) = k]]

\* Mutant of Removed: the reservation is not returned.
RemovedKeepingReservation(c) ==
  /\ records' = [records EXCEPT ![c] = NoRecord]
  /\ UNCHANGED reserved
  /\ ready' = Retain(ready, c)
  /\ tombstones' = LET all == Append(tombstones, c) IN
                   IF Len(all) > MaxRequests THEN Tail(all) ELSE all

\* remove: drop a terminal record, keep a bounded memory of its identity.
Removed(c) ==
  /\ records' = [records EXCEPT ![c] = NoRecord]
  /\ reserved' = reserved - 1
  /\ ready' = Retain(ready, c)
  /\ tombstones' = LET all == Append(tombstones, c) IN
                   IF Len(all) > MaxRequests THEN Tail(all) ELSE all

\* complete: claim a delivered request.
complete(c) ==
  /\ Retained(c)
  /\ records[c].phase = "Dispatched"
  /\ records' = [records EXCEPT ![c].phase = "Completing", ![c].prepared = FALSE,
                                ![c].owner = "complete"]
  /\ UNCHANGED <<registryVars, ready, tombstones, reserved, stopping, lock, cancels, calls>>

\* complete: hand the observed result back to the record.
retain_outcome(c) ==
  /\ Retained(c)
  /\ records[c].owner = "complete"
  /\ records' = [records EXCEPT ![c].prepared = TRUE, ![c].pending_outcome = TRUE,
                                ![c].owner = "none"]
  /\ UNCHANGED <<registryVars, ready, tombstones, reserved, stopping, lock, cancels, calls>>

\* drive_completion: claim a retained outcome.
drive_completion(c) ==
  /\ Retained(c)
  /\ records[c].phase = "Completing" /\ records[c].pending_outcome
  /\ records' = [records EXCEPT ![c].prepared = FALSE, ![c].pending_outcome = FALSE,
                                ![c].owner = "drive"]
  /\ UNCHANGED <<registryVars, ready, tombstones, reserved, stopping, lock, cancels, calls>>

\* drive_completion: not acknowledged yet, or storage failed.
restore_outcome(c) ==
  /\ Retained(c)
  /\ records[c].owner = "drive"
  /\ records' = [records EXCEPT ![c].prepared = TRUE, ![c].pending_outcome = TRUE,
                                ![c].owner = "none"]
  /\ UNCHANGED <<registryVars, ready, tombstones, reserved, stopping, lock, cancels, calls>>

\* Mutant of drop_prepared: the admission is kept past the publication.
DropPreparedLate(c) ==
  /\ records[c] # NoRecord
  /\ records[c].owner \in {"drive", "cancel"}
  /\ records' = [records EXCEPT ![c].owner = "publish"]
  /\ UNCHANGED <<registryVars, ready, tombstones, reserved, stopping, lock, cancels, calls>>

\* drive_completion and cancel: destroy the prepared call outside the broker's
\* lock, before its outcome is published.
drop_prepared(c) ==
  /\ records[c] # NoRecord
  /\ records[c].owner \in {"drive", "cancel"}
  /\ records' = [records EXCEPT ![c].owner = "publish"]
  /\ DropPrepared(c, "submitted")
  /\ UNCHANGED <<active, closing, retiring, shutdown, ready, tombstones, reserved,
                 stopping, lock, cancels>>

\* publish: the outcome becomes visible, or the record of an abandoned request
\* is removed.
publish(c) ==
  /\ Retained(c)
  /\ records[c].owner = "publish"
  /\ IF records[c].waiter_alive
     THEN /\ \E outcome \in {"ok", "error"} :
               /\ outcome = "ok" => ~records[c].cancelled
               /\ records' = [records EXCEPT ![c].phase = "Completed",
                                ![c].outcome = outcome, ![c].owner = "none"]
          /\ UNCHANGED <<ready, tombstones, reserved>>
     ELSE Removed(c)
  /\ calls' = [calls EXCEPT ![c].pc = "over"]
  /\ UNCHANGED <<registryVars, stopping, lock, cancels>>

\* refresh: the authority ended, or the gate of a queued request closed.
refresh(c) ==
  /\ Retained(c)
  /\ records[c].prepared
  /\ \/ calls[c].revoked
     \/ records[c].phase = "Queued" /\ ~GateOpen(calls[c].reg, calls[c].finalization)
  /\ cancels' = cancels \cup {<<"request", c>>}
  /\ UNCHANGED <<registryVars, records, ready, tombstones, reserved, stopping, lock, calls>>

\* Mutant of cancel: a request that is gone is an error.
CancelRequiringRecord(who, c) ==
  /\ <<who, c>> \in cancels
  /\ lock = NoCall
  /\ records[c] # NoRecord
  /\ cancels' = cancels \ {<<who, c>>}
  /\ \/ /\ records[c].phase = "Completed"
        /\ UNCHANGED <<records, ready>>
     \/ /\ records[c].phase \in {"Dispatched", "Completing"}
        /\ records' = [records EXCEPT ![c].cancelled = TRUE]
        /\ UNCHANGED ready
     \/ /\ records[c].phase = "Queued"
        /\ records' = [records EXCEPT ![c].cancelled = TRUE, ![c].phase = "Completing",
                         ![c].prepared = FALSE, ![c].owner = "cancel"]
        /\ ready' = Retain(ready, c)
  /\ UNCHANGED <<registryVars, tombstones, reserved, stopping, lock, calls>>

\* cancel: only an undispatched request ends; of a dispatched one the reason is
\* kept for its outcome.
cancel(who, c) ==
  /\ <<who, c>> \in cancels
  /\ lock = NoCall
  /\ cancels' = cancels \ {<<who, c>>}
  /\ \/ /\ records[c] = NoRecord
        /\ UNCHANGED <<records, ready>>
     \/ /\ records[c] # NoRecord
        /\ records[c].phase = "Completed"
        /\ UNCHANGED <<records, ready>>
     \/ /\ records[c] # NoRecord
        /\ records[c].phase \in {"Dispatched", "Completing"}
        /\ records' = [records EXCEPT ![c].cancelled = TRUE]
        /\ UNCHANGED ready
     \/ /\ records[c] # NoRecord
        /\ records[c].phase = "Queued"
        /\ records' = [records EXCEPT ![c].cancelled = TRUE, ![c].phase = "Completing",
                         ![c].prepared = FALSE, ![c].owner = "cancel"]
        /\ ready' = Retain(ready, c)
  /\ UNCHANGED <<registryVars, tombstones, reserved, stopping, lock, calls>>

\* Mutant of drop_handle: an unfinished record is removed with its waiter.
DropHandleRemoving(c) ==
  /\ Retained(c)
  /\ records[c].waiter_alive
  /\ Removed(c)
  /\ UNCHANGED <<registryVars, stopping, lock, calls, cancels>>

\* HostRequestHandle::cancel.
request_cancel(c) ==
  /\ Retained(c)
  /\ records[c].waiter_alive
  /\ cancels' = cancels \cup {<<"request", c>>}
  /\ UNCHANGED <<registryVars, records, ready, tombstones, reserved, stopping, lock, calls>>

\* HostRequestHandle::drop.
drop_handle(c) ==
  /\ Retained(c)
  /\ records[c].waiter_alive
  /\ IF records[c].phase = "Completed"
     THEN Removed(c) /\ UNCHANGED cancels
     ELSE /\ records' = [records EXCEPT ![c].waiter_alive = FALSE]
          /\ cancels' = cancels \cup {<<"request", c>>}
          /\ UNCHANGED <<ready, tombstones, reserved>>
  /\ UNCHANGED <<registryVars, stopping, lock, calls>>

-----------------------------------------------------------------------------
(* The specification.                                                      *)

RegistryStep ==
  \/ \E batch \in SUBSET Names \ {{}}, native \in BOOLEAN : register(batch, native)
  \/ \E g \in RegIds :
       \/ finish_release(g) \/ unregister(g) \/ unregister_close(g)
       \/ retire_registration(g) \/ unregister_return(g) \/ forget(g)
       \/ restrict_entry(g) \/ close_entry(g)
  \/ begin_shutdown \/ close_and_poll \/ close

CallStep(c) ==
  \/ \E g \in RegIds, finalization \in BOOLEAN : admit(c, g, finalization)
  \/ prepare(c) \/ drop_failed(c) \/ revoke(c)
  \/ begin_native(c) \/ return_native(c) \/ confirm_native(c) \/ finish_native(c)
  \/ submit(c) \/ drop_submission(c)

\* The thread that owns the prepared call or its outcome.
OwnerStep(c) == retain_outcome(c) \/ drop_prepared(c) \/ publish(c)

RequestStep(c) ==
  \/ complete(c) \/ drive_completion(c) \/ restore_outcome(c)
  \/ refresh(c) \/ request_cancel(c) \/ drop_handle(c)
  \/ \E who \in Cancellers : cancel(who, c)

Next ==
  \/ RegistryStep
  \/ take_next
  \/ \E c \in Calls : CallStep(c) \/ OwnerStep(c) \/ RequestStep(c)

Spec == Init /\ [][Next]_vars

\* A thread between two sections of one call of the broker goes on, and so does an unregister; nothing is
\* assumed of handlers, waiters, the SDK's pump or storage.
FairSpec ==
  /\ Spec
  /\ \A c \in Calls :
       /\ WF_vars(OwnerStep(c)) /\ WF_vars(drop_submission(c))
       /\ \A who \in Cancellers : WF_vars(cancel(who, c))
  /\ \A g \in RegIds :
       /\ WF_vars(unregister_close(g))
       /\ WF_vars(retire_registration(g))
       /\ WF_vars(unregister_return(g))

-----------------------------------------------------------------------------
(* Properties.                                                             *)

\* Admission is exact: each registration and the parent count precisely the
\* permits alive, across refusals, errors, cancellations and completions, and
\* a registration's own limit is not exceeded.
PermitsExact ==
  /\ running = Cardinality({c \in Calls : calls[c].permit})
  /\ \A g \in RegIds : entries[g] # NoEntry =>
       /\ entries[g].running = Cardinality({c \in Calls : calls[c].permit /\ calls[c].reg = g})
       /\ entries[g].running <= MaxConcurrent

\* A drained registration may be released by its SDK: no admitted call can still
\* reach its closure.
DrainedIsIdle ==
  \A g \in RegIds : entries[g] # NoEntry /\ (Drained(g) \/ (~entries[g].closure /\ entries[g].native)) =>
    \A c \in Calls : calls[c].reg = g => ~calls[c].permit

\* And it stays drained, so that status and forget need no common lock.
DrainedIsFinal ==
  [][\A g \in RegIds : entries[g] # NoEntry /\ Drained(g) => Drained(g)']_vars

\* The ready queue holds exactly the queued requests, each once and each with its
\* prepared call: take_next never finds an inconsistent head.
ReadyExact ==
  /\ \A i, j \in DOMAIN ready : ready[i] = ready[j] => i = j
  /\ \A c \in Calls :
       (\E i \in DOMAIN ready : ready[i] = c)
         <=> (records[c] # NoRecord /\ records[c].phase = "Queued")
  /\ \A c \in Calls : records[c] # NoRecord /\ records[c].phase \in {"Queued", "Dispatched"} =>
       records[c].prepared

\* Whoever completes or cancels a request owns its prepared call alone and finds
\* the record again when it locks the broker: cancellation, waiters and
\* retirement never remove it in between.
CompletionOwned ==
  \A c \in Calls : calls[c].pc = "submitted" =>
    /\ records[c] # NoRecord
    /\ records[c].owner # "none" => ~records[c].prepared /\ records[c].phase = "Completing"
    /\ records[c].owner = "none" => records[c].prepared /\ calls[c].permit

\* A waiter sees an outcome only after the handler's admission and evidence were
\* released.
PublishedAfterRelease ==
  \A c \in Calls : records[c] # NoRecord /\ records[c].phase = "Completed" =>
    ~calls[c].permit /\ calls[c].evidence = "Completed"

\* Permits and the ready queue are exact whoever ends a call.
CallsCounted == PermitsExact /\ ReadyExact

\* One thread owns each completion, and it is seen after its release.
CompletionSound == CompletionOwned /\ PublishedAfterRelease

\* Retention is exact and bounded through refusals, abandoned waiters and
\* cancellations: what is reserved is what is retained, permits, which records
\* outlive, keep the limit of their own, and the tombstones are the latest
\* requests that are gone, so a late completion is told "already completed".
RetentionExact ==
  /\ reserved = Cardinality({c \in Calls : records[c] # NoRecord})
  /\ reserved <= MaxRequests /\ running <= MaxRequests
  /\ Len(tombstones) <= MaxRequests
  /\ \A i, j \in DOMAIN tombstones :
       /\ tombstones[i] = tombstones[j] => i = j
       /\ records[tombstones[i]] = NoRecord /\ calls[tombstones[i]].pc = "over"

\* A published name resolves to a retained registration that is not drained:
\* snapshot's expect("active registration exists") cannot panic, whatever
\* unregister, shutdown and forget do in between.
ActiveResolves ==
  \A n \in Names : active[n] # NoReg =>
    active[n] \in Listed /\ entries[active[n]].name = n /\ ~Drained(active[n])

\* When unregister returned no request of that registration is queued any more,
\* and none will be, even for a call admitted before the gate closed.
RetiredHasNoQueue ==
  \A c \in Calls : records[c] # NoRecord /\ records[c].phase = "Queued" =>
    retiring[calls[c].reg] # "done"

\* Closing the broker ends every queued request; a waiter is not left alone.
ClosedRequestsEnd ==
  \A c \in Calls :
    (stopping /\ records[c] # NoRecord /\ records[c].phase = "Queued")
      ~> (records[c] = NoRecord \/ records[c].phase = "Completed")

\* unregister returns, whatever waiters, the pump and close do to the requests it
\* found.
UnregisterReturns ==
  \A g \in RegIds : retiring[g] = "removed" ~> retiring[g] = "done"

\* A retired registration is out of everybody's reach and leaves nothing behind,
\* while a published one can always be resolved.
RetiredIsQuiet ==
  DrainedIsIdle /\ ActiveResolves /\ RetiredHasNoQueue /\ RetentionExact

\* Closing a registration or the broker ends what it found, with no help from
\* handlers.
ClosureEnds == ClosedRequestsEnd /\ UnregisterReturns

\* Does not hold: effects.rs says "Unique effect owner, destroyed after the
\* callback clone and its admission permit", but a call that fails early drops
\* the effect first.
EvidenceAfterAdmission ==
  \A c \in Calls : calls[c].evidence = "Completed" => ~calls[c].permit

\* Does not hold: broker.rs says "no host callback or permit destructor runs
\* under" its lock, but a submission refused by a closed registration does.
NoPermitDropUnderLock ==
  [][\A c \in Calls : lock = c /\ calls[c].permit => calls'[c].permit]_vars
=============================================================================
