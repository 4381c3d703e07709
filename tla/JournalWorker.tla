--------------------------- MODULE JournalWorker ---------------------------
(***************************************************************************)
(* The single journal writer (journal/worker.rs, journal/worker/recovery.rs*)
(* ): a bounded queue of write receipts, one supervised thread that        *)
(* executes each admitted write once, panic supervision that settles what  *)
(* the thread owned, explicit recovery of the thread, and closure.         *)
(*                                                                         *)
(* Every mutex section is one action.  A receipt is reference counted in   *)
(* the code; here its owners are the client (held), the queue, the active  *)
(* slot, a thread's local variable and a supervisor's settling list, and   *)
(* the action that removes the last owner runs ReceiptState::drop.  Lock   *)
(* poisoning is not modelled: every section is free of panics.             *)
(***************************************************************************)
EXTENDS OperationJournal

CONSTANTS
  ReceiptIds,        \* receipt allocations alive at the same time
  ThreadIds,         \* worker threads alive at the same time
  MaxPendingWrites,  \* OperationJournalWorkerConfig::max_pending_writes
  MaxPendingBytes,   \* OperationJournalWorkerConfig::max_pending_bytes
  Size(_),           \* serialized bytes of a request's snapshot
  Requests,          \* what the clients of this specification submit
  NoReceipt, NoThread

WritePhase == {"Queued", "Writing", "Completed"}
WriteError == Errors \cup {"Supervisor"}

\* executions counts the transactions run for the receipt, and written is the
\* result of the last one, a local of the writer thread until it is published.
Receipt ==
  [op : Operations, previous : 0 .. MaxRevision, snapshot : Snapshots,
   again : BOOLEAN, bytes : Nat, phase : WritePhase,
   revision : 0 .. MaxRevision, error : WriteError,
   held : BOOLEAN, executions : Nat,
   written : [revision : 0 .. MaxRevision, error : Errors]]

\* What the client of an admitted write can tell of it.
View ==
  [op : Operations, previous : 0 .. MaxRevision, snapshot : Snapshots,
   again : BOOLEAN, stage : {"queued", "executed", "settled"},
   revision : 0 .. MaxRevision, error : WriteError, held : BOOLEAN]

ASSUME WorkerAssumption ==
  /\ MaxPendingWrites \in Nat \ {0}
  /\ MaxPendingBytes \in Nat \ {0}
  /\ Requests \subseteq [op : Operations, previous : 0 .. MaxRevision,
                          snapshot : Snapshots, again : BOOLEAN]
  /\ \A q \in Requests : Size(q.snapshot) \in Nat
  /\ IsFiniteSet(ReceiptIds)
  /\ NoReceipt \notin ReceiptIds /\ NoReceipt \notin Receipt /\ NoReceipt \notin View
  /\ NoThread \notin ThreadIds

VARIABLES
  receipts,         \* receipt -> ReceiptState, or NoReceipt when not allocated
  queued,           \* WriterState::queued
  active,           \* WriterState::active
  close_requested,  \* WriterState::close_requested
  failure,          \* WriterState::failure is set
  pending_writes,   \* WriterState::pending_writes
  pending_bytes,    \* WriterState::pending_bytes
  threads,          \* the stacks of the writer threads
  handle,           \* ThreadOwner::handle
  unproven_exit     \* ThreadOwner::unproven_exit

workerVars == <<receipts, queued, active, close_requested, failure,
                pending_writes, pending_bytes, threads, handle, unproven_exit>>
vars == <<journalVars, workerVars>>

NotWritten == [revision |-> 0, error |-> "none"]

ThreadPc == {"none", "idle", "taken", "writing", "wrote", "published",
             "failing", "settling", "exited", "panicked"}

Thread == [pc : ThreadPc, receipt : ReceiptIds \cup {NoReceipt},
           settling : Seq(ReceiptIds)]

NewThread == [pc |-> "idle", receipt |-> NoReceipt, settling |-> <<>>]
NotRunning == [NewThread EXCEPT !.pc = "none"]

Alive(t) == threads[t].pc \notin {"none", "exited", "panicked"}

\* WriterState::admission_closed.
admission_closed == close_requested \/ failure

\* Type invariant of the queue, the receipts and the threads.
WorkerTypeOK ==
  /\ receipts \in [ReceiptIds -> Receipt \cup {NoReceipt}]
  /\ queued \in Seq(ReceiptIds)
  /\ active \in ReceiptIds \cup {NoReceipt}
  /\ close_requested \in BOOLEAN
  /\ failure \in BOOLEAN
  /\ pending_writes \in 0..MaxPendingWrites
  /\ pending_bytes \in 0..MaxPendingBytes
  /\ threads \in [ThreadIds -> Thread]
  /\ handle \in ThreadIds \cup {NoThread}
  /\ unproven_exit \in BOOLEAN

\* OperationJournalWorker::new starts one thread.
WorkerInit ==
  /\ receipts = [r \in ReceiptIds |-> NoReceipt]
  /\ queued = <<>>
  /\ active = NoReceipt
  /\ close_requested = FALSE
  /\ failure = FALSE
  /\ pending_writes = 0
  /\ pending_bytes = 0
  /\ handle \in ThreadIds
  /\ threads = [t \in ThreadIds |-> IF t = handle THEN NewThread ELSE NotRunning]
  /\ unproven_exit = FALSE

-----------------------------------------------------------------------------
(* Receipts.                                                               *)

\* Mutant of Completed: a later completion replaces the first.
CompletedAgain(receipt, revision, error) ==
  [receipt EXCEPT !.phase = "Completed", !.revision = revision, !.error = error,
                  !.written = NotWritten]

\* ReceiptState::complete: the first completion wins.
Completed(receipt, revision, error) ==
  IF receipt.phase = "Completed" THEN receipt
  ELSE [receipt EXCEPT !.phase = "Completed", !.revision = revision, !.error = error,
                       !.written = NotWritten]

\* Mutants of Release: every owner returns the quota; the bytes are kept.
ReleaseByEveryOwner(r, receipt, last) ==
  /\ receipts' = [receipts EXCEPT ![r] = IF last THEN NoReceipt ELSE receipt]
  /\ pending_writes' = pending_writes - 1
  /\ pending_bytes' = pending_bytes - receipt.bytes
ReleaseWithoutBytes(r, receipt, last) ==
  /\ receipts' = [receipts EXCEPT ![r] = IF last THEN NoReceipt ELSE receipt]
  /\ pending_writes' = IF last THEN pending_writes - 1 ELSE pending_writes
  /\ UNCHANGED pending_bytes

\* Give up one owner of r; ReceiptState::drop returns the quota with the last.
Release(r, receipt, last) ==
  IF last
  THEN /\ receipts' = [receipts EXCEPT ![r] = NoReceipt]
       /\ pending_writes' = pending_writes - 1
       /\ pending_bytes' = pending_bytes - receipt.bytes
  ELSE /\ receipts' = [receipts EXCEPT ![r] = receipt]
       /\ UNCHANGED <<pending_writes, pending_bytes>>

\* Mutant of HasCapacity: the new snapshot's bytes are not counted.
HasCapacityBefore(bytes) ==
  /\ pending_writes < MaxPendingWrites
  /\ pending_bytes <= MaxPendingBytes

\* submit_request's admission test for a snapshot of `bytes` bytes.
HasCapacity(bytes) ==
  /\ pending_writes < MaxPendingWrites
  /\ bytes + pending_bytes <= MaxPendingBytes

\* The error of a refused submission, "none" when it is admitted.
SubmitError(previous, s) ==
  IF previous >= MaxRevision THEN "Invalid"
  ELSE IF Size(s) > MaxPendingBytes THEN "CapacityExceeded"
  ELSE IF admission_closed THEN "Closed"
  ELSE IF ~HasCapacity(Size(s)) THEN "CapacityExceeded"
  ELSE "none"

\* submit_request: admit the write of s as receipt r, held by its client.
submit_request(r, o, previous, s, again) ==
  /\ SubmitError(previous, s) = "none"
  /\ receipts[r] = NoReceipt
  /\ receipts' = [receipts EXCEPT ![r] =
        [op |-> o, previous |-> previous, snapshot |-> s, again |-> again,
         bytes |-> Size(s), phase |-> "Queued", revision |-> 0,
         error |-> "none", held |-> TRUE, executions |-> 0,
         written |-> NotWritten]]
  /\ queued' = Append(queued, r)
  /\ pending_writes' = pending_writes + 1
  /\ pending_bytes' = pending_bytes + Size(s)
  /\ UNCHANGED <<active, close_requested, failure, threads, handle, unproven_exit>>

\* The thread side still owns r.
WorkerOwns(r) ==
  \/ active = r
  \/ \E i \in DOMAIN queued : queued[i] = r
  \/ \E t \in ThreadIds :
       \/ threads[t].receipt = r
       \/ \E i \in DOMAIN threads[t].settling : threads[t].settling[i] = r

\* The client drops its JournalWriteReceipt.
DropReceipt(r) ==
  /\ receipts[r] # NoReceipt
  /\ receipts[r].held
  /\ Release(r, [receipts[r] EXCEPT !.held = FALSE], ~WorkerOwns(r))
  /\ UNCHANGED <<queued, active, close_requested, failure, threads, handle,
                 unproven_exit>>

-----------------------------------------------------------------------------
(* WriterCenter::run, one action per lock section.                         *)

\* Pop the next receipt and publish it as active.
TakeWrite(t) ==
  /\ threads[t].pc = "idle"
  /\ queued # <<>>
  /\ active' = Head(queued)
  /\ queued' = Tail(queued)
  /\ threads' = [threads EXCEPT ![t].pc = "taken", ![t].receipt = Head(queued)]
  /\ UNCHANGED <<receipts, close_requested, failure, pending_writes,
                 pending_bytes, handle, unproven_exit>>

\* Mutants of StopThread: the thread leaves its queue behind; it ignores a close.
StopThreadWithQueue(t) ==
  /\ threads[t].pc = "idle"
  /\ admission_closed
  /\ threads' = [threads EXCEPT ![t].pc = "exited"]
  /\ UNCHANGED <<receipts, queued, active, close_requested, failure,
                 pending_writes, pending_bytes, handle, unproven_exit>>
StopThreadOnFailureOnly(t) ==
  /\ threads[t].pc = "idle"
  /\ queued = <<>>
  /\ failure
  /\ threads' = [threads EXCEPT ![t].pc = "exited"]
  /\ UNCHANGED <<receipts, queued, active, close_requested, failure,
                 pending_writes, pending_bytes, handle, unproven_exit>>

\* Closed or failed with nothing queued: run returns and the thread ends.
StopThread(t) ==
  /\ threads[t].pc = "idle"
  /\ queued = <<>>
  /\ admission_closed
  /\ threads' = [threads EXCEPT ![t].pc = "exited"]
  /\ UNCHANGED <<receipts, queued, active, close_requested, failure,
                 pending_writes, pending_bytes, handle, unproven_exit>>

\* The receipt becomes Writing.
MarkWriting(t) ==
  /\ threads[t].pc = "taken"
  /\ receipts' = [receipts EXCEPT ![threads[t].receipt].phase = "Writing"]
  /\ threads' = [threads EXCEPT ![t].pc = "writing"]
  /\ UNCHANGED <<queued, active, close_requested, failure, pending_writes,
                 pending_bytes, handle, unproven_exit>>

\* The SQLite transaction, with no worker lock held.
ExecuteWrite(t) ==
  LET r == threads[t].receipt IN
  /\ threads[t].pc = "writing"
  /\ \E e \in Errors :
       /\ write_checkpoint(receipts[r].op, receipts[r].previous,
                           receipts[r].snapshot, receipts[r].again, e)
       /\ receipts' = [receipts EXCEPT
            ![r].executions = @ + 1,
            ![r].written = [revision |-> IF e = "none" THEN receipts[r].previous + 1 ELSE 0,
                            error |-> e]]
  /\ threads' = [threads EXCEPT ![t].pc = "wrote"]
  /\ UNCHANGED <<queued, active, close_requested, failure, pending_writes,
                 pending_bytes, handle, unproven_exit>>

\* Mutant of PublishWrite: every executed write is acknowledged.
PublishWriteAsSuccess(t) ==
  LET r == threads[t].receipt IN
  /\ threads[t].pc = "wrote"
  /\ receipts' = [receipts EXCEPT ![r] = Completed(@, @.previous + 1, "none")]
  /\ threads' = [threads EXCEPT ![t].pc = "published"]
  /\ UNCHANGED <<queued, active, close_requested, failure, pending_writes,
                 pending_bytes, handle, unproven_exit>>

\* receipt.complete(result).
PublishWrite(t) ==
  LET r == threads[t].receipt IN
  /\ threads[t].pc = "wrote"
  /\ receipts' = [receipts EXCEPT ![r] =
        Completed(@, @.written.revision, @.written.error)]
  /\ threads' = [threads EXCEPT ![t].pc = "published"]
  /\ UNCHANGED <<queued, active, close_requested, failure, pending_writes,
                 pending_bytes, handle, unproven_exit>>

\* Clear the active slot, then drop the local reference.
ReleaseWrite(t) ==
  LET r == threads[t].receipt IN
  /\ threads[t].pc = "published"
  /\ active' = NoReceipt
  /\ threads' = [threads EXCEPT ![t] = NewThread]
  /\ Release(r, receipts[r], ~receipts[r].held)
  /\ UNCHANGED <<queued, close_requested, failure, handle, unproven_exit>>

-----------------------------------------------------------------------------
(* Supervision: catch_unwind, WriterCenter::fail.                          *)

\* Mutant of PanicWrite: nothing catches the panic.
PanicWriteUnsupervised(t) ==
  /\ threads[t].pc \in {"taken", "writing", "wrote", "published"}
  /\ threads' = [threads EXCEPT ![t] = [NewThread EXCEPT !.pc = "panicked"]]
  /\ UNCHANGED <<receipts, queued, active, close_requested, failure,
                 pending_writes, pending_bytes, handle, unproven_exit>>

\* A panic while a write is owned; unwinding drops the local reference, the
\* active slot keeps the receipt.
PanicWrite(t) ==
  /\ threads[t].pc \in {"taken", "writing", "wrote", "published"}
  /\ threads' = [threads EXCEPT ![t] = [NewThread EXCEPT !.pc = "failing"]]
  /\ UNCHANGED <<receipts, queued, active, close_requested, failure,
                 pending_writes, pending_bytes, handle, unproven_exit>>

\* Mutants of FailWorker: the queue is not settled; the active write is queued
\* again.
FailWorkerKeepingQueue(t) ==
  /\ threads[t].pc = "failing"
  /\ failure' = TRUE
  /\ threads' = [threads EXCEPT
        ![t].pc = "settling",
        ![t].settling = IF active = NoReceipt THEN <<>> ELSE <<active>>]
  /\ active' = NoReceipt
  /\ UNCHANGED <<receipts, queued, close_requested, pending_writes, pending_bytes,
                 handle, unproven_exit>>
FailWorkerReplaying(t) ==
  /\ threads[t].pc = "failing"
  /\ queued' = IF active = NoReceipt THEN queued ELSE <<active>> \o queued
  /\ active' = NoReceipt
  /\ threads' = [threads EXCEPT ![t] = NewThread]
  /\ UNCHANGED <<receipts, close_requested, failure, pending_writes, pending_bytes,
                 handle, unproven_exit>>

\* fail: record the failure and take the active and queued attempts.
FailWorker(t) ==
  /\ threads[t].pc = "failing"
  /\ failure' = TRUE
  /\ threads' = [threads EXCEPT
        ![t].pc = "settling",
        ![t].settling = (IF active = NoReceipt THEN <<>> ELSE <<active>>) \o queued]
  /\ active' = NoReceipt
  /\ queued' = <<>>
  /\ UNCHANGED <<receipts, close_requested, pending_writes, pending_bytes,
                 handle, unproven_exit>>

\* fail: complete one taken attempt with the error and drop it.
SettleWrite(t) ==
  /\ threads[t].pc = "settling"
  /\ threads[t].settling # <<>>
  /\ LET r == Head(threads[t].settling) IN
       Release(r, Completed(receipts[r], 0, "Supervisor"), ~receipts[r].held)
  /\ threads' = [threads EXCEPT ![t].settling = Tail(@)]
  /\ UNCHANGED <<queued, active, close_requested, failure, handle, unproven_exit>>

\* The supervisor returns; destroying the panic payload may itself panic, and
\* then the exit is not proven to be supervised.
EndThread(t) ==
  /\ threads[t].pc = "settling"
  /\ threads[t].settling = <<>>
  /\ \E pc \in {"exited", "panicked"} : threads' = [threads EXCEPT ![t].pc = pc]
  /\ UNCHANGED <<receipts, queued, active, close_requested, failure,
                 pending_writes, pending_bytes, handle, unproven_exit>>

-----------------------------------------------------------------------------
(* The host's control calls.                                               *)

request_close ==
  /\ close_requested' = TRUE
  /\ UNCHANGED <<receipts, queued, active, failure, pending_writes,
                 pending_bytes, threads, handle, unproven_exit>>

\* ThreadOwner::exited.
HandleExited == IF handle = NoThread THEN TRUE ELSE ~Alive(handle)

\* ThreadOwner::join_finished on an exited thread learns whether some exit, now
\* or at an earlier join, happened outside supervision.
UnprovenAfterJoin ==
  unproven_exit \/ (handle # NoThread /\ threads[handle].pc = "panicked")

\* poll_closed.  Its call of fail finds the queue and the active slot already
\* taken by the thread's own supervisor (SupervisorDrained), so it only sets
\* the failure.
poll_closed ==
  /\ HandleExited
  /\ handle' = NoThread
  /\ unproven_exit' = UnprovenAfterJoin
  /\ failure' = (failure \/ UnprovenAfterJoin)
  /\ UNCHANGED <<receipts, queued, active, close_requested, pending_writes,
                 pending_bytes, threads>>

\* What poll_closed returns once the thread is joined.
ClosedVerdict ==
  /\ HandleExited
  /\ admission_closed
  /\ pending_writes = 0
  /\ active = NoReceipt
  /\ queued = <<>>

\* Mutants of recover_worker: the old thread may still run; a close is undone.
RecoverWorkerOverlapping ==
  /\ ~close_requested
  /\ failure
  /\ active = NoReceipt /\ queued = <<>>
  /\ \E t \in ThreadIds :
       /\ ~Alive(t)
       /\ threads' = [threads EXCEPT ![t] = NewThread]
       /\ handle' = t
  /\ failure' = FALSE
  /\ UNCHANGED <<receipts, queued, active, close_requested, pending_writes,
                 pending_bytes, unproven_exit>>
RecoverWorkerAfterClose ==
  /\ failure
  /\ HandleExited
  /\ ~UnprovenAfterJoin
  /\ active = NoReceipt /\ queued = <<>>
  /\ \E t \in ThreadIds :
       /\ ~Alive(t)
       /\ threads' = [threads EXCEPT ![t] = NewThread]
       /\ handle' = t
  /\ failure' = FALSE
  /\ UNCHANGED <<receipts, queued, active, close_requested, pending_writes,
                 pending_bytes, unproven_exit>>

\* recover_worker on a failed, exited thread that was not explicitly closed:
\* join it, then start another on the same queue.  An unproven exit, work the
\* supervisor did not settle, or a failed spawn keep the failure.
recover_worker ==
  /\ ~close_requested
  /\ failure
  /\ HandleExited
  /\ unproven_exit' = UnprovenAfterJoin
  /\ \/ /\ handle' = NoThread
        /\ UNCHANGED <<threads, failure>>
     \/ /\ ~UnprovenAfterJoin
        /\ active = NoReceipt /\ queued = <<>>
        /\ \E t \in ThreadIds :
             /\ ~Alive(t)
             /\ threads' = [threads EXCEPT ![t] = NewThread]
             /\ handle' = t
        /\ failure' = FALSE
  /\ UNCHANGED <<receipts, queued, active, close_requested, pending_writes,
                 pending_bytes>>

-----------------------------------------------------------------------------
(* The worker with arbitrary clients and a host that uses the journal.     *)

WriterStep(t) ==
  \/ (TakeWrite(t) \/ StopThread(t) \/ MarkWriting(t) \/ PublishWrite(t)
        \/ ReleaseWrite(t) \/ FailWorker(t) \/ SettleWrite(t) \/ EndThread(t))
     /\ UNCHANGED journalVars
  \/ ExecuteWrite(t)

Panic == \E t \in ThreadIds : PanicWrite(t) /\ UNCHANGED journalVars

\* The allocator's choice of a free receipt is immaterial.
Submit ==
  /\ \E r \in ReceiptIds : receipts[r] = NoReceipt
  /\ \E q \in Requests :
       submit_request(CHOOSE r \in ReceiptIds : receipts[r] = NoReceipt,
                      q.op, q.previous, q.snapshot, q.again)
  /\ UNCHANGED journalVars

Drop == \E r \in ReceiptIds : DropReceipt(r) /\ UNCHANGED journalVars

HostControl == (request_close \/ poll_closed \/ recover_worker) /\ UNCHANGED journalVars

HostJournal == (Reconcile \/ Forget \/ recover_storage) /\ UNCHANGED workerVars

WorkerNext ==
  \/ \E t \in ThreadIds : WriterStep(t)
  \/ Panic \/ Submit \/ Drop \/ HostControl \/ HostJournal

Init == JournalInit /\ WorkerInit

Spec == Init /\ [][WorkerNext]_vars

\* The operating system runs the writer thread, and SQLite returns: its busy
\* timeout and page limits are bounded.  Nothing is assumed of clients or host.
FairSpec == Spec /\ \A t \in ThreadIds : WF_vars(WriterStep(t))

-----------------------------------------------------------------------------
(* Properties.                                                             *)

Live == {r \in ReceiptIds : receipts[r] # NoReceipt}
Unfinished == {r \in Live : receipts[r].phase # "Completed"}

\* pending_writes counts exactly the receipts that still exist: no path
\* (completion, panic, settling, dropped observers, recovery) leaks a slot or
\* returns one twice, and the unsigned counters never underflow.
QuotaExact == pending_writes = Cardinality(Live)

\* The receipts in some order, and the bytes each is charged with.
ReceiptOrder ==
  CHOOSE f \in [1 .. Cardinality(ReceiptIds) -> ReceiptIds] :
    \A r \in ReceiptIds : \E i \in DOMAIN f : \A j \in DOMAIN f : f[j] = r <=> j = i
Charge(r) == IF receipts[r] = NoReceipt THEN 0 ELSE receipts[r].bytes

\* pending_bytes is the last of the partial sums of all charges, so the byte
\* budget is neither leaked nor returned twice.
BytesExact ==
  LET n == Cardinality(ReceiptIds) IN
  \E sum \in [0 .. n -> 0 .. MaxPendingBytes] :
    /\ sum[0] = 0
    /\ \A i \in 1 .. n : sum[i] = sum[i - 1] + Charge(ReceiptOrder[i])
    /\ pending_bytes = sum[n]

\* Every admitted, unfinished write is owned by some stage of a thread that is
\* alive; a client waiting in wait_until_completed is never stranded.
NoStrandedWrite ==
  /\ \A r \in Unfinished :
       \/ \E i \in DOMAIN queued : queued[i] = r
       \/ active = r
       \/ \E t \in ThreadIds : Alive(t) /\
            \E i \in DOMAIN threads[t].settling : threads[t].settling[i] = r
  /\ (queued # <<>> \/ active # NoReceipt) => \E t \in ThreadIds : Alive(t)

\* One writer: recovery starts a thread only after the failed one really ended,
\* and only the joined handle's thread can be alive.
SingleWriter ==
  \A t \in ThreadIds : Alive(t) => handle = t

\* An admitted write reaches storage at most once, even when the thread panics
\* after the transaction, and only an executed write is acknowledged.
NeverReplayed ==
  \A r \in Live :
    /\ receipts[r].executions <= 1
    /\ receipts[r].revision # 0 => receipts[r].executions = 1

\* When a thread ended outside supervision its supervisor had already settled
\* everything, so the poller's fail has nothing left to lose.
SupervisorDrained ==
  \A t \in ThreadIds :
    threads[t].pc = "panicked" /\ handle = t =>
      failure /\ queued = <<>> /\ active = NoReceipt

\* Every admitted write has one live owner and one execution, whichever thread
\* serves it and however that thread ended.
WritesOwned == NoStrandedWrite /\ SingleWriter /\ NeverReplayed /\ SupervisorDrained

\* The quotas are exact and every admitted write is owned, after completion,
\* panic, settling, dropped observers and recovery.
WorkerSound == QuotaExact /\ BytesExact /\ WritesOwned

\* Neither a published result nor a completed close is ever taken back: no
\* later supervisor error replaces the result of a receipt, and after an
\* explicit close neither recovery nor a late submission brings a thread or a
\* receipt back.
NothingReopened ==
  [][/\ \A r \in ReceiptIds :
          r \in Live /\ receipts[r].phase = "Completed" /\ receipts'[r] # NoReceipt
            => /\ receipts'[r].phase = "Completed"
               /\ receipts'[r].revision = receipts[r].revision
               /\ receipts'[r].error = receipts[r].error
     /\ close_requested /\ ClosedVerdict => close_requested' /\ ClosedVerdict']_vars

\* What a client can tell of receipt r: nothing once its last owner is gone or
\* it was completed without an observer.
ClientView(r) ==
  LET receipt == receipts[r]
      completed == receipt.phase = "Completed" IN
  IF receipt = NoReceipt THEN NoReceipt
  ELSE IF completed /\ ~receipt.held THEN NoReceipt
  ELSE [op |-> receipt.op, previous |-> receipt.previous,
        snapshot |-> receipt.snapshot, again |-> receipt.again,
        stage |-> CASE completed -> "settled"
                    [] ~completed /\ receipt.executions = 0 -> "queued"
                    [] OTHER -> "executed",
        revision |-> IF completed THEN receipt.revision ELSE receipt.written.revision,
        error |-> IF completed THEN receipt.error ELSE receipt.written.error,
        held |-> receipt.held]

\* The worker implements the writer its clients rely on: queueing, supervision
\* and recovery never run a transaction twice, publish a result that storage
\* did not return, or lose an attempt.
Writer == INSTANCE CheckpointWriter WITH attempts <- [r \in ReceiptIds |-> ClientView(r)]
ImplementsWriter == Writer!WriterSpec

\* Every admitted write is eventually completed, with or without panics.
AdmittedWritesSettle ==
  \A r \in ReceiptIds : r \in Unfinished ~> r \notin Unfinished

\* An explicit close lets the thread drain its queue and end.
CloseEndsThread ==
  close_requested ~> \A t \in ThreadIds : ~Alive(t)

\* No client waits for ever for its write, and no host for the worker's end.
WorkEnds == AdmittedWritesSettle /\ CloseEndsThread
=============================================================================
