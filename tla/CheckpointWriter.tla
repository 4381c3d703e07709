-------------------------- MODULE CheckpointWriter --------------------------
(***************************************************************************)
(* What the journal worker promises its clients, without queue, thread or  *)
(* supervision: an admitted attempt reaches storage at most once, is then  *)
(* settled with that result or with a supervisor error that proves nothing *)
(* about the row, and stays settled until its client drops the receipt.    *)
(* JournalWorker implements this; DurableOperation builds on it.           *)
(***************************************************************************)
EXTENDS OperationJournal

CONSTANTS
  ReceiptIds,   \* receipt allocations
  Requests,     \* what the clients of WriterSpec submit
  NoReceipt

VARIABLES attempts   \* receipt -> attempt, or NoReceipt

WriteError == Errors \cup {"Supervisor"}

Attempt ==
  [op : Operations, previous : 0 .. MaxRevision, snapshot : Snapshots,
   again : BOOLEAN, stage : {"queued", "executed", "settled"},
   revision : 0 .. MaxRevision, error : WriteError, held : BOOLEAN]

NewAttempt(o, previous, s, again) ==
  [op |-> o, previous |-> previous, snapshot |-> s, again |-> again,
   stage |-> "queued", revision |-> 0, error |-> "none", held |-> TRUE]

WriterInit == attempts = [r \in ReceiptIds |-> NoReceipt]

\* Admission; a refusal (closed, failed, over quota, exhausted revision) leaves
\* everything alone.
SubmitAttempt(r, o, previous, s, again) ==
  /\ attempts[r] = NoReceipt
  /\ attempts' = [attempts EXCEPT ![r] = NewAttempt(o, previous, s, again)]
  /\ UNCHANGED journalVars

\* The transaction of attempt r.
ExecuteAttempt(r) ==
  LET a == attempts[r] IN
  /\ a # NoReceipt
  /\ a.stage = "queued"
  /\ \E e \in Errors :
       /\ write_checkpoint(a.op, a.previous, a.snapshot, a.again, e)
       /\ attempts' = [attempts EXCEPT ![r] =
            [a EXCEPT !.stage = "executed",
                      !.revision = IF e = "none" THEN a.previous + 1 ELSE 0,
                      !.error = e]]

\* The result becomes observable, unless the thread panicked before or after
\* the transaction: then only the supervisor's error does.  Nobody keeps a
\* settled attempt whose client is gone.
SettleAttempt(r) ==
  LET a == attempts[r]
      Settled(revision, error) ==
        IF a.held THEN [a EXCEPT !.stage = "settled", !.revision = revision, !.error = error]
        ELSE NoReceipt IN
  /\ a # NoReceipt
  /\ \/ /\ a.stage = "executed"
        /\ attempts' = [attempts EXCEPT ![r] = Settled(a.revision, a.error)]
     \/ /\ a.stage \in {"queued", "executed"}
        /\ attempts' = [attempts EXCEPT ![r] = Settled(0, "Supervisor")]
  /\ UNCHANGED journalVars

\* The client drops its receipt; an unfinished attempt goes on.
DropAttempt(r) ==
  /\ attempts[r] # NoReceipt
  /\ attempts[r].held
  /\ attempts' = [attempts EXCEPT ![r] =
       IF attempts[r].stage = "settled" THEN NoReceipt
       ELSE [attempts[r] EXCEPT !.held = FALSE]]
  /\ UNCHANGED journalVars

WriterNext ==
  \/ \E r \in ReceiptIds :
       \/ \E q \in Requests : SubmitAttempt(r, q.op, q.previous, q.snapshot, q.again)
       \/ ExecuteAttempt(r)
       \/ SettleAttempt(r)
       \/ DropAttempt(r)
  \/ (Reconcile \/ Forget \/ recover_storage) /\ UNCHANGED attempts

WriterSpec == JournalInit /\ WriterInit /\ [][WriterNext]_<<journalVars, attempts>>
=============================================================================
