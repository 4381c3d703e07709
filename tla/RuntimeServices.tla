---------------------------- MODULE RuntimeServices ----------------------------
(***************************************************************************)
(* The engine's registry of persistent managed sessions                    *)
(* (managed_runtime_services.rs): reservations made inside the transaction *)
(* of a lease evaluation, event tokens, activation, rollback, retirement   *)
(* of an owner, the retry worker and the shutdown of the registry.         *)
(*                                                                         *)
(* A record is moved between the table and the retiring map under the      *)
(* registry lock; killing and cleaning happen outside it, so several       *)
(* actors meet on one session: the evaluation that opened it, the Lua      *)
(* userdata, the thread that retires its owner, and the retry worker.      *)
(* A process is one atomic object here; ProcessSession gives its teardown. *)
(***************************************************************************)
EXTENDS Naturals, FiniteSets, Sequences

CONSTANTS SessionOwners,   \* package owner tokens
          MaxSessions,     \* bound: session identifiers handed out
          SessionLimit,    \* persistent_session_limit_per_engine
          MaxKillFailures  \* bound: kills that fail

ASSUME ServicesAssumption == /\ MaxSessions \in Nat /\ MaxKillFailures \in Nat
                             /\ SessionLimit \in Nat \ {0}

VARIABLES
  nextId,        \* next_session_id
  rec,           \* every record: where it is and what it holds
  tokens,        \* tokens registered with the event center
  process,       \* the managed process of every session
  cleanup,       \* the one-shot cleanup handle of every session
  userdata,      \* sessions whose Lua userdata is alive, and what it does
  eval,          \* the evaluation of every owner: its transaction and its open call
  retired,       \* owners handed to retire_owner
  call,          \* teardown call of every actor
  retryQueue,    \* targets of the retirement retry center
  killFailures,  \* bound: kills that failed so far
  servicesOpen   \* the registry has not been dropped

servicesVars == <<nextId, rec, tokens, process, cleanup, userdata, eval, retired, call,
                  retryQueue, killFailures, servicesOpen>>

Ids == 1..MaxSessions
Closer == "closer"
Worker == "worker"
Actors == SessionOwners \cup {Closer, Worker}

NoRecord == [at |-> "none", owner |-> "none", token |-> FALSE, active |-> FALSE]
NoEval == [txn |-> FALSE, ids |-> {}, pc |-> "idle", id |-> 0]
NoCall == [pc |-> "idle", ids |-> {}, id |-> 0, err |-> FALSE, target |-> <<"none", 0>>]

ServicesInit ==
  /\ nextId = 0
  /\ rec = [i \in Ids |-> NoRecord]
  /\ tokens = {}
  /\ process = [i \in Ids |-> "none"]
  /\ cleanup = [i \in Ids |-> "none"]
  /\ userdata = [i \in Ids |-> "none"]
  /\ eval = [o \in SessionOwners |-> NoEval]
  /\ retired = {}
  /\ call = [a \in Actors |-> NoCall]
  /\ retryQueue = <<>>
  /\ killFailures = 0
  /\ servicesOpen = TRUE

InTable(i) == rec[i].at = "table"
Charged == {i \in Ids : rec[i].at \in {"table", "retiring"}}

\* detach_session, for a set of records under one lock.
detach_session(ids) ==
  [i \in Ids |-> IF i \in ids THEN [rec[i] EXCEPT !.at = "retiring"] ELSE rec[i]]

\* Every transaction forgets the sessions somebody else takes over.
Forgotten(ids) == [o \in SessionOwners |-> [eval[o] EXCEPT !.ids = @ \ ids]]

\* enqueue_target: a closed center ignores it, a queued target is not doubled.
enqueue_target(t) ==
  IF servicesOpen /\ \A k \in 1..Len(retryQueue) : retryQueue[k] # t
  THEN Append(retryQueue, t) ELSE retryQueue

-----------------------------------------------------------------------------
\* Opening a session inside an evaluation

\* The thread of an evaluation also tears down what it rolls back and cleans
\* the userdata its Lua code closes or collects.
Free(o) ==
  /\ call[o].pc = "idle"
  /\ \A i \in Ids : rec[i].owner = o => userdata[i] \notin {"cleaning", "finishing"}

\* eval_runtime_session_locked is entered for a lease that is still active.
\* Nothing keeps the lease active from here on: replacing it retires its owner
\* while this evaluation runs.
EvalEnter(o) ==
  /\ servicesOpen /\ o \notin retired /\ eval[o] = NoEval /\ Free(o)
  /\ eval' = [eval EXCEPT ![o].pc = "begin"]
  /\ UNCHANGED <<nextId, rec, tokens, process, cleanup, userdata, retired, call,
                 retryQueue, killFailures, servicesOpen>>

begin_transaction(o) ==
  /\ eval[o].pc = "begin"
  /\ eval' = [eval EXCEPT ![o].txn = TRUE, ![o].pc = "idle"]
  /\ UNCHANGED <<nextId, rec, tokens, process, cleanup, userdata, retired, call,
                 retryQueue, killFailures, servicesOpen>>

Reservable == Cardinality(Charged) < SessionLimit

reserve_session(o) ==
  /\ eval[o].txn /\ eval[o].pc = "idle" /\ Free(o)
  /\ nextId < MaxSessions /\ Reservable
  /\ nextId' = nextId + 1
  /\ rec' = [rec EXCEPT ![nextId'] = [NoRecord EXCEPT !.at = "table", !.owner = o]]
  /\ eval' = [eval EXCEPT ![o].ids = @ \cup {nextId'}, ![o].pc = "register", ![o].id = nextId']
  /\ UNCHANGED <<tokens, process, cleanup, userdata, retired, call, retryQueue,
                 killFailures, servicesOpen>>

\* unregister_session: table record, transaction lists and event token.
Unregistered(i) ==
  /\ rec' = IF InTable(i) THEN [rec EXCEPT ![i].at = "gone", ![i].token = FALSE] ELSE rec
  /\ tokens' = IF InTable(i) /\ rec[i].token THEN tokens \ {i} ELSE tokens

\* register_session on the event center, outside the registry lock; the event
\* center may refuse it (it is closed or full).
RegisterToken(o) ==
  /\ eval[o].pc = "register"
  /\ \/ /\ tokens' = tokens \cup {eval[o].id}
        /\ eval' = [eval EXCEPT ![o].pc = "mark"]
        /\ UNCHANGED rec
     \/ /\ Unregistered(eval[o].id)
        /\ eval' = [Forgotten({eval[o].id}) EXCEPT ![o].pc = "idle"]
  /\ UNCHANGED <<nextId, process, cleanup, userdata, retired, call, retryQueue,
                 killFailures, servicesOpen>>

LostTokensKept(o) == tokens

\* An owner that was retired meanwhile has no reservation any more.
LostTokens(o) == tokens \ {eval[o].id}

MarkToken(o) ==
  /\ eval[o].pc = "mark"
  /\ IF InTable(eval[o].id)
     THEN /\ rec' = [rec EXCEPT ![eval[o].id].token = TRUE]
          /\ eval' = [eval EXCEPT ![o].pc = "launch"]
          /\ UNCHANGED tokens
     ELSE /\ tokens' = LostTokens(o)
          /\ eval' = [eval EXCEPT ![o].pc = "idle"]
          /\ UNCHANGED rec
  /\ UNCHANGED <<nextId, process, cleanup, userdata, retired, call, retryQueue,
                 killFailures, servicesOpen>>

\* The process starts, or parsing or launching fails and the reservation's
\* Drop removes the record.
Launch(o) ==
  /\ eval[o].pc = "launch"
  /\ \/ /\ process' = [process EXCEPT ![eval[o].id] = "alive"]
        /\ eval' = [eval EXCEPT ![o].pc = "activate"]
        /\ UNCHANGED <<rec, tokens>>
     \/ /\ Unregistered(eval[o].id)
        /\ eval' = [Forgotten({eval[o].id}) EXCEPT ![o].pc = "idle"]
        /\ UNCHANGED process
  /\ UNCHANGED <<nextId, cleanup, userdata, retired, call, retryQueue, killFailures,
                 servicesOpen>>

\* activate: the record takes over the process and its cleanup handle; if the
\* record is gone the process is dropped, which kills it.
activate(o) ==
  LET i == eval[o].id IN
  /\ eval[o].pc = "activate"
  /\ IF InTable(i)
     THEN /\ rec' = [rec EXCEPT ![i].active = TRUE]
          /\ cleanup' = [cleanup EXCEPT ![i] = "pending"]
          /\ userdata' = [userdata EXCEPT ![i] = "held"]
          /\ UNCHANGED process
     ELSE /\ process' = [process EXCEPT ![i] = "dead"]
          /\ UNCHANGED <<rec, cleanup, userdata>>
  /\ eval' = [eval EXCEPT ![o].pc = "idle"]
  /\ UNCHANGED <<nextId, tokens, retired, call, retryQueue, killFailures,
                 servicesOpen>>

commit(o) ==
  /\ eval[o].txn /\ eval[o].pc = "idle" /\ Free(o)
  /\ eval' = [eval EXCEPT ![o] = NoEval]
  /\ UNCHANGED <<nextId, rec, tokens, process, cleanup, userdata, retired, call,
                 retryQueue, killFailures, servicesOpen>>

\* A failed evaluation drops its guard: its sessions still in the table are
\* detached together and torn down by this thread.
rollback_transaction(o) ==
  /\ eval[o].txn /\ eval[o].pc = "idle" /\ Free(o)
  /\ LET ids == {i \in eval[o].ids : InTable(i)}
     IN /\ rec' = detach_session(ids)
        /\ call' = [call EXCEPT ![o] = [NoCall EXCEPT !.pc = "next", !.ids = ids]]
  /\ eval' = [eval EXCEPT ![o] = NoEval]
  /\ UNCHANGED <<nextId, tokens, process, cleanup, userdata, retired, retryQueue,
                 killFailures, servicesOpen>>

-----------------------------------------------------------------------------
\* The session ends by itself, or its userdata closes it

ProcessExits(i) ==
  /\ process[i] = "alive"
  /\ process' = [process EXCEPT ![i] = "exited"]
  /\ UNCHANGED <<nextId, rec, tokens, cleanup, userdata, eval, retired, call, retryQueue,
                 killFailures, servicesOpen>>

\* The process tree is dead; run_once takes the callback if it is still there.
UserdataTakes(i, after) ==
  /\ process' = [process EXCEPT ![i] = "dead"]
  /\ cleanup' = [cleanup EXCEPT ![i] = IF @ = "pending" THEN "running" ELSE @]
  /\ userdata' = [userdata EXCEPT ![i] = IF cleanup[i] = "pending" THEN "cleaning" ELSE after]

\* close() or kill() from Lua; a kill that fails only raises an error.
UserdataKill(i) ==
  /\ userdata[i] = "held"
  /\ eval[rec[i].owner].txn /\ eval[rec[i].owner].pc = "idle" /\ Free(rec[i].owner)
  /\ UserdataTakes(i, "held")
  /\ UNCHANGED <<nextId, rec, tokens, eval, retired, call, retryQueue, killFailures,
                 servicesOpen>>

\* The userdata is collected during an evaluation or dropped with its VM.  When
\* the kill fails it asks for a retry while the cleanup is pending.
UserdataDrop(i) ==
  /\ userdata[i] = "held"
  /\ eval[rec[i].owner].pc = "idle" /\ Free(rec[i].owner)
  /\ \/ UserdataTakes(i, "gone") /\ UNCHANGED <<retryQueue, killFailures>>
     \/ /\ killFailures < MaxKillFailures /\ process[i] # "dead"
        /\ killFailures' = killFailures + 1
        /\ userdata' = [userdata EXCEPT ![i] = "gone"]
        /\ retryQueue' = IF cleanup[i] = "pending" THEN enqueue_target(<<"session", i>>)
                         ELSE retryQueue
        /\ UNCHANGED <<process, cleanup>>
  /\ UNCHANGED <<nextId, rec, tokens, eval, retired, call, servicesOpen>>

\* The lease's VM goes with its last reference: the manager's when its owner is
\* retired, or that of the evaluation that outlives the retirement.
VmDrop(i) == rec[i].owner \in retired /\ eval[rec[i].owner] = NoEval /\ UserdataDrop(i)

\* run_once in the userdata: the package cleanup, then unregister_session.
UserdataCleanup(i) ==
  /\ userdata[i] = "cleaning"
  /\ userdata' = [userdata EXCEPT ![i] = "finishing"]
  /\ Unregistered(i)
  /\ eval' = Forgotten({i})
  /\ UNCHANGED <<nextId, process, cleanup, retired, call, retryQueue, killFailures,
                 servicesOpen>>

\* Only then does the handle count as finished.
UserdataFinish(i) ==
  /\ userdata[i] = "finishing"
  /\ userdata' = [userdata EXCEPT ![i] = "gone"]
  /\ cleanup' = [cleanup EXCEPT ![i] = "finished"]
  /\ UNCHANGED <<nextId, rec, tokens, process, eval, retired, call, retryQueue,
                 killFailures, servicesOpen>>

-----------------------------------------------------------------------------
\* teardown_records, by any actor: one record after the other

TeardownKill(a) ==
  /\ call[a].pc = "next"
  /\ \E i \in call[a].ids :
     /\ tokens' = IF rec[i].token THEN tokens \ {i} ELSE tokens
     /\ rec' = [rec EXCEPT ![i].token = FALSE]
     /\ \/ /\ process' = IF rec[i].active THEN [process EXCEPT ![i] = "dead"] ELSE process
           /\ call' = [call EXCEPT ![a].pc = "cleanup", ![a].id = i]
           /\ UNCHANGED killFailures
        \/ /\ rec[i].active /\ killFailures < MaxKillFailures /\ process[i] # "dead"
           /\ killFailures' = killFailures + 1
           /\ call' = [call EXCEPT ![a].pc = "failed", ![a].id = i]
           /\ UNCHANGED process
  /\ UNCHANGED <<nextId, cleanup, userdata, eval, retired, retryQueue, servicesOpen>>

\* run_once takes the callback under the handle's lock; somebody else's
\* callback that has not finished is a failure to be retried.
TeardownTake(a) ==
  LET i == call[a].id IN
  /\ call[a].pc = "cleanup"
  /\ cleanup' = [cleanup EXCEPT ![i] = IF @ = "pending" THEN "running" ELSE @]
  /\ call' = [call EXCEPT ![a].pc = IF cleanup[i] = "pending" THEN "running"
                                    ELSE IF cleanup[i] = "running" THEN "failed" ELSE "settle"]
  /\ UNCHANGED <<nextId, rec, tokens, process, userdata, eval, retired, retryQueue,
                 killFailures, servicesOpen>>

TeardownCleanup(a) ==
  LET i == call[a].id IN
  /\ call[a].pc = "running"
  /\ cleanup' = [cleanup EXCEPT ![i] = "finished"]
  /\ Unregistered(i)
  /\ eval' = Forgotten({i})
  /\ call' = [call EXCEPT ![a].pc = "settle"]
  /\ UNCHANGED <<nextId, process, userdata, retired, retryQueue, killFailures, servicesOpen>>

NeedsRetryNever(a) == FALSE

\* retry: the attempt failed and nobody else finished the cleanup meanwhile.
NeedsRetry(a) == call[a].pc = "failed" /\ cleanup[call[a].id] # "finished"

SettledAtSkippingFinished(a) ==
  IF NeedsRetry(a) THEN "table" ELSE IF call[a].pc = "failed" THEN "retiring" ELSE "gone"

SettledAt(a) == IF NeedsRetry(a) THEN "table" ELSE "gone"

\* The record goes back to the table for a retry, or leaves the registry.
TeardownSettle(a) ==
  LET i == call[a].id IN
  /\ call[a].pc \in {"failed", "settle"}
  /\ rec' = [rec EXCEPT ![i].at = SettledAt(a)]
  /\ call' = [call EXCEPT ![a].pc = IF NeedsRetry(a) THEN "enqueue" ELSE "next",
                          ![a].ids = @ \ {i},
                          ![a].err = @ \/ call[a].pc = "failed"]
  /\ UNCHANGED <<nextId, tokens, process, cleanup, userdata, eval, retired, retryQueue,
                 killFailures, servicesOpen>>

TeardownEnqueue(a) ==
  /\ call[a].pc = "enqueue"
  /\ retryQueue' = enqueue_target(<<"session", call[a].id>>)
  /\ call' = [call EXCEPT ![a].pc = "next"]
  /\ UNCHANGED <<nextId, rec, tokens, process, cleanup, userdata, eval, retired,
                 killFailures, servicesOpen>>

-----------------------------------------------------------------------------
\* Retirement of an owner, the retry worker and the end of the calls

OwnedBy(o) == {i \in Ids : InTable(i) /\ rec[i].owner = o}

\* The lease of the owner is no longer active, so no evaluation of it starts any
\* more; one that has started may be anywhere.  A host may repeat a close that
\* failed.
retire_owner(o) ==
  /\ servicesOpen /\ call[Closer].pc = "idle"
  /\ retired' = retired \cup {o}
  /\ rec' = detach_session(OwnedBy(o))
  /\ eval' = Forgotten(OwnedBy(o))
  /\ call' = [call EXCEPT ![Closer] = [NoCall EXCEPT !.pc = "next", !.ids = OwnedBy(o),
                                                     !.target = <<"owner", o>>]]
  /\ UNCHANGED <<nextId, tokens, process, cleanup, userdata, retryQueue, killFailures,
                 servicesOpen>>

\* retry_session: refused while another actor tears the record down.
retry_session(i) ==
  /\ rec' = IF InTable(i) THEN detach_session({i}) ELSE rec
  /\ UNCHANGED eval
  /\ call' = [call EXCEPT ![Worker] =
                [NoCall EXCEPT !.pc = "next", !.target = <<"session", i>>,
                               !.ids = IF InTable(i) THEN {i} ELSE {},
                               !.err = rec[i].at = "retiring"]]

retry_retired_owner(o) ==
  /\ rec' = detach_session(OwnedBy(o))
  /\ eval' = Forgotten(OwnedBy(o))
  /\ call' = [call EXCEPT ![Worker] = [NoCall EXCEPT !.pc = "next", !.ids = OwnedBy(o),
                                                     !.target = <<"owner", o>>]]

wait_next ==
  /\ servicesOpen /\ call[Worker].pc = "idle" /\ retryQueue # <<>>
  /\ LET t == Head(retryQueue) IN IF t[1] = "owner" THEN retry_retired_owner(t[2])
                                  ELSE retry_session(t[2])
  /\ retryQueue' = Tail(retryQueue)
  /\ UNCHANGED <<nextId, tokens, process, cleanup, userdata, retired, killFailures,
                 servicesOpen>>

\* An owner's retirement also fails while any session of it is left.
OwnerLeft(t) == t[1] = "owner" /\ \E i \in Charged : rec[i].owner = t[2]

\* The call returns: retire_owner and the worker queue the target again when
\* it failed, a rollback is only logged.
CallEnds(a) ==
  /\ call[a].pc = "next" /\ call[a].ids = {}
  /\ LET failed == call[a].err \/ OwnerLeft(call[a].target)
     IN retryQueue' = IF failed /\ a \in {Closer, Worker} THEN enqueue_target(call[a].target)
                      ELSE retryQueue
  /\ call' = [call EXCEPT ![a] = NoCall]
  /\ UNCHANGED <<nextId, rec, tokens, process, cleanup, userdata, eval, retired,
                 killFailures, servicesOpen>>

\* teardown_records_for_shutdown: what resists three attempts keeps its
\* package resources.
TeardownShutdown ==
  \E resist \in SUBSET {i \in Ids : InTable(i) /\ process[i] = "alive"} :
  LET ended(i) == InTable(i) /\ i \notin resist
  IN /\ process' = [i \in Ids |-> IF ended(i) THEN "dead" ELSE process[i]]
     /\ cleanup' = [i \in Ids |-> IF ended(i) /\ cleanup[i] = "pending" THEN "finished"
                                  ELSE cleanup[i]]

\* Drop of the registry, when no evaluation and no retirement refers to it:
\* the retry center closes, the worker is joined, and what is in the table is
\* killed and cleaned in at most three attempts; what resists is left to the
\* process's own drop.
DropServices ==
  /\ servicesOpen
  /\ \A o \in SessionOwners : eval[o] = NoEval
  /\ \A a \in Actors : call[a].pc = "idle"
  /\ servicesOpen' = FALSE
  /\ retryQueue' = <<>>
  /\ tokens' = {}
  /\ rec' = [i \in Ids |-> IF InTable(i) THEN [rec[i] EXCEPT !.at = "gone", !.token = FALSE]
                           ELSE rec[i]]
  /\ TeardownShutdown
  /\ UNCHANGED <<nextId, userdata, eval, retired, call, killFailures>>

-----------------------------------------------------------------------------
TeardownOf(a) == \/ TeardownKill(a) \/ TeardownTake(a) \/ TeardownCleanup(a)
                 \/ TeardownSettle(a) \/ TeardownEnqueue(a) \/ CallEnds(a)

EvalStep(o) == \/ begin_transaction(o) \/ RegisterToken(o) \/ MarkToken(o) \/ Launch(o)
               \/ activate(o) \/ commit(o) \/ rollback_transaction(o)

CleanupStep(i) == UserdataCleanup(i) \/ UserdataFinish(i)

ServicesNext ==
  \/ \E o \in SessionOwners :
       EvalEnter(o) \/ reserve_session(o) \/ EvalStep(o) \/ retire_owner(o)
  \/ \E i \in Ids : ProcessExits(i) \/ UserdataKill(i) \/ UserdataDrop(i) \/ CleanupStep(i)
  \/ \E a \in Actors : TeardownOf(a)
  \/ wait_next \/ DropServices

\* Threads that are in a call go on, an evaluation ends (its budget stops it),
\* the VM of a retired lease is dropped, a started cleanup ends and the retry
\* worker serves its queue.
ServicesFairness ==
  /\ \A a \in Actors : WF_servicesVars(TeardownOf(a))
  /\ \A o \in SessionOwners : WF_servicesVars(EvalStep(o))
  /\ \A i \in Ids : WF_servicesVars(VmDrop(i)) /\ WF_servicesVars(CleanupStep(i))
  /\ WF_servicesVars(wait_next)

-----------------------------------------------------------------------------
\* The variables keep their types.
ServicesTypeOK ==
  /\ nextId \in 0..MaxSessions
  /\ \A i \in Ids : /\ rec[i].at \in {"none", "table", "retiring", "gone"}
                    /\ process[i] \in {"none", "alive", "exited", "dead"}
                    /\ cleanup[i] \in {"none", "pending", "running", "finished"}
                    /\ userdata[i] \in {"none", "held", "cleaning", "finishing",
                                       "gone"}
  /\ tokens \subseteq Ids /\ retired \subseteq SessionOwners
  /\ killFailures \in 0..MaxKillFailures

Opening(i) == \E o \in SessionOwners : eval[o].pc # "idle" /\ eval[o].id = i

\* No session escapes the registry: the limit counts every session that is
\* open or being torn down; a process that was not killed, and an event token
\* that is still registered, belong to a charged record or to the open call in
\* progress; two actors never tear the same record down; and a record that an
\* attempt left behind (its token is gone) always has a retry queued or a
\* worker that is about to queue it, although each step takes the lock anew.
SessionsAccounted ==
  /\ Cardinality(Charged) <= SessionLimit
  /\ servicesOpen => \A i \in Ids :
       process[i] = "alive" => i \in Charged \/ Opening(i)
  /\ \A i \in tokens : i \in Charged \/ Opening(i)
  /\ \A i \in Ids : Cardinality({a \in Actors : i \in call[a].ids}) <= 1
  /\ \A i \in Ids : InTable(i) /\ rec[i].active /\ ~rec[i].token =>
       \/ \E k \in 1..Len(retryQueue) : retryQueue[k] = <<"session", i>>
       \/ \E a \in Actors : call[a].pc = "enqueue" /\ call[a].id = i
       \/ call[Worker].target = <<"session", i>> /\ call[Worker].err

\* The sessions of a retired owner are all gone in the end and stay gone, whoever
\* was busy with them when the owner was retired, however often a kill failed,
\* and although an evaluation that outlives the retirement may open more.
RetirementCompletes ==
  \A o \in SessionOwners : o \in retired ~> [](\A i \in Charged : rec[i].owner # o)
=============================================================================
