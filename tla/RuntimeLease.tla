----------------------------- MODULE RuntimeLease -----------------------------
(***************************************************************************)
(* Runtime leases (engine/lease.rs): persistent Lua VMs addressed by a     *)
(* session id, with generations, expiry, replacement, tombstones, and the  *)
(* hand-over of retired owners to the managed-session services.            *)
(*                                                                         *)
(* Two kinds of lock: the manager's state lock, and the lock of a lease's  *)
(* session, which an evaluation holds while Lua runs and everybody else    *)
(* only tries.  An evaluation looks its lease up under the first lock and  *)
(* tries the second one later, so anything may happen in between.          *)
(* A lease is named by its sequence number, which also stands for the      *)
(* owner token of its package.                                             *)
(***************************************************************************)
EXTENDS Naturals, FiniteSets

CONSTANTS Sids,         \* session ids
          MaxLeaseIds,  \* bound: leases ever created
          LeaseLimit,   \* MAX_RUNTIME_SESSION_LEASES_PER_MANAGER
          Callers       \* host threads

ASSUME LeaseAssumption ==
  /\ MaxLeaseIds \in Nat /\ LeaseLimit \in Nat \ {0}
  /\ "free" \notin Callers

VARIABLES
  leases,       \* active lease ids
  lease,        \* every lease: sid, generation, terminal state, finite, expired
  sidIndex,     \* sid_index, 0 for no entry
  generations,  \* last generation of every sid
  tombstones,   \* retired leases still remembered
  nextLease,    \* next_sequence
  retiredOwners,\* retired_owner_tokens
  appliedOwners,\* owners whose retirement the services have carried out
  sessionLock,  \* caller evaluating in each lease, or "free"
  managerLock,  \* caller inside insert between its check and its commit
  caller,       \* program counter of every caller
  openSessions  \* leases that own a live managed session

leaseVars == <<leases, lease, sidIndex, generations, tombstones, nextLease, retiredOwners,
               appliedOwners, sessionLock, managerLock, caller, openSessions>>

LeaseIds == 1..MaxLeaseIds
NoLease == [sid |-> "none", gen |-> 0, terminal |-> "active", finite |-> FALSE, expired |-> FALSE]
IdleCaller == [pc |-> "idle", id |-> 0, sid |-> "none"]

LeaseInit ==
  /\ leases = {} /\ tombstones = {} /\ nextLease = 0
  /\ lease = [l \in LeaseIds |-> NoLease]
  /\ sidIndex = [s \in Sids |-> 0]
  /\ generations = [s \in Sids |-> 0]
  /\ retiredOwners = {} /\ appliedOwners = {}
  /\ sessionLock = [l \in LeaseIds |-> "free"]
  /\ managerLock = "free"
  /\ caller = [c \in Callers |-> IdleCaller]
  /\ openSessions = {}

Unlocked(l) == sessionLock[l] = "free"
Inactive(l) == lease[l].terminal # "active" \/ lease[l].expired

\* A retired lease's VM is dropped with the last reference to it, and with the
\* VM the userdata of its managed sessions, which ends them.
Referenced(c, l) == caller[c].id = l /\ caller[c].pc \in {"drain_lookup", "locate", "eval"}
Surviving(open) == {l \in open : l \in leases' \/ \E c \in Callers : Referenced(c, l)'}

\* prune_inactive_locked: the expired leases nobody evaluates in.  Between its
\* check and the removal an evaluation may take the session lock, but it finds
\* the lease expired and gives up, so one step is enough.
Prunable == {l \in leases : Unlocked(l) /\ lease[l].expired}

\* retire_active_lease_locked for a set of leases, after pruning: terminal
\* state, owner queue, sid index, tombstone.  Old tombstones may be forgotten.
Retire(gone, code) ==
  /\ leases' = leases \ (gone \cup Prunable)
  /\ lease' = [l \in LeaseIds |-> IF l \in gone THEN [lease[l] EXCEPT !.terminal = code]
                                  ELSE IF l \in Prunable THEN [lease[l] EXCEPT !.terminal = "expired"]
                                  ELSE lease[l]]
  /\ retiredOwners' = retiredOwners \cup gone \cup Prunable
  /\ sidIndex' = [s \in Sids |-> IF sidIndex[s] \in gone \cup Prunable THEN 0 ELSE sidIndex[s]]
  /\ \E kept \in {tombstones, {}} : tombstones' = kept \cup gone \cup Prunable
  /\ openSessions' = Surviving(openSessions)

Goto(c, pc) == caller' = [caller EXCEPT ![c].pc = pc]
Back(c) == caller' = [caller EXCEPT ![c] = IdleCaller]
Free(c) == caller[c].pc = "idle" /\ managerLock = "free"

-----------------------------------------------------------------------------
\* create: insert

\* The existing lease of the sid, if pruning leaves one.
Existing(s) == IF sidIndex[s] \in Prunable THEN 0 ELSE sidIndex[s]

\* Refusals: the sid is taken (busy, or not to be replaced), or the limit is
\* reached.  Pruning has happened all the same.
InsertRefused(c, s, replace) ==
  /\ Free(c)
  /\ LET e == Existing(s)
     IN \/ e # 0 /\ (~Unlocked(e) \/ (~Inactive(e) /\ ~replace))
        \/ e = 0 /\ Cardinality(leases \ Prunable) >= LeaseLimit
  /\ Goto(c, "drain")
  /\ Retire({}, "active")
  /\ UNCHANGED <<generations, nextLease, appliedOwners, sessionLock, managerLock>>

\* The checks pass.  The session lock of a lease to be replaced is taken for
\* the check and released before the commit; the state lock is kept.
InsertCheck(c, s, replace) ==
  /\ Free(c) /\ nextLease < MaxLeaseIds
  /\ LET e == Existing(s)
     IN /\ e = 0 => Cardinality(leases \ Prunable) < LeaseLimit
        /\ e # 0 => Unlocked(e) /\ replace
        /\ caller' = [caller EXCEPT ![c] = [pc |-> "commit", id |-> e, sid |-> s]]
        /\ Retire({}, "active")
  /\ managerLock' = c
  /\ UNCHANGED <<generations, nextLease, appliedOwners, sessionLock>>

\* The infallible tail: counters, the old lease's retirement, the new entry.
InsertCommit(c) ==
  /\ caller[c].pc = "commit"
  /\ LET s == caller[c].sid
         old == IF caller[c].id = 0 THEN {} ELSE {caller[c].id}
         l == nextLease + 1
     IN \E finite \in BOOLEAN :
        /\ nextLease' = l
        /\ generations' = [generations EXCEPT ![s] = @ + 1]
        /\ leases' = (leases \ old) \cup {l}
        /\ lease' = [i \in LeaseIds |->
             IF i = l THEN [sid |-> s, gen |-> generations[s] + 1, terminal |-> "active",
                            finite |-> finite, expired |-> FALSE]
             ELSE IF i \in old THEN [lease[i] EXCEPT !.terminal = "replaced"] ELSE lease[i]]
        /\ retiredOwners' = retiredOwners \cup old
        /\ tombstones' = tombstones \cup old
        /\ sidIndex' = [sidIndex EXCEPT ![s] = l]
  /\ managerLock' = "free"
  /\ Goto(c, "drain")
  /\ openSessions' = Surviving(openSessions)
  /\ UNCHANGED <<appliedOwners, sessionLock>>

-----------------------------------------------------------------------------
\* close, and the read-only calls, which prune too

CloseIgnoringBusy(c, l) ==
  /\ Free(c) /\ l \in leases \ Prunable
  /\ Goto(c, "drain")
  /\ Retire({l}, "closed")
  /\ UNCHANGED <<generations, nextLease, appliedOwners, sessionLock, managerLock>>

close(c, l) ==
  /\ Free(c) /\ l \in leases \ Prunable /\ Unlocked(l)
  /\ Goto(c, "drain")
  /\ Retire({l}, "closed")
  /\ UNCHANGED <<generations, nextLease, appliedOwners, sessionLock, managerLock>>

\* status, list, and lookups that answer from a tombstone or not at all.
Query(c) ==
  /\ Free(c) /\ Prunable # {}
  /\ Goto(c, "drain")
  /\ Retire({}, "active")
  /\ UNCHANGED <<generations, nextLease, appliedOwners, sessionLock, managerLock>>

\* retire_runtime_session_manager_owners: take the queue and retire each owner
\* with the services, which end every session the owner has by then.
TakeRetiredOwners(c, then) ==
  /\ caller[c].pc \in {"drain", "drain_lookup"} /\ managerLock = "free"
  /\ then = IF caller[c].pc = "drain" THEN "idle" ELSE "locate"
  /\ appliedOwners' = appliedOwners \cup retiredOwners
  /\ openSessions' = openSessions \ retiredOwners
  /\ retiredOwners' = {}
  /\ Goto(c, then)
  /\ UNCHANGED <<leases, lease, sidIndex, generations, tombstones, nextLease, sessionLock,
                 managerLock>>

-----------------------------------------------------------------------------
\* eval

\* get: the lease exists and its lock is free for a moment.
get(c, l) ==
  /\ Free(c) /\ l \in leases \ Prunable /\ Unlocked(l)
  /\ caller' = [caller EXCEPT ![c] = [IdleCaller EXCEPT !.pc = "drain_lookup", !.id = l]]
  /\ Retire({}, "active")
  /\ UNCHANGED <<generations, nextLease, appliedOwners, sessionLock, managerLock>>

StillActiveUnchecked(l) == ~lease[l].expired

StillActive(l) == ~Inactive(l)

\* try_lock_session and ensure_runtime_session_active, which refreshes.
EvalBegin(c) ==
  LET l == caller[c].id IN
  /\ caller[c].pc = "locate"
  /\ IF Unlocked(l) /\ StillActive(l)
     THEN /\ sessionLock' = [sessionLock EXCEPT ![l] = c]
          /\ Goto(c, "eval")
     ELSE Back(c) /\ UNCHANGED sessionLock
  /\ UNCHANGED <<leases, lease, sidIndex, generations, tombstones, nextLease, retiredOwners,
                 appliedOwners, managerLock>>
  /\ openSessions' = Surviving(openSessions)

\* The script opens a managed session inside the evaluation's transaction.
OpenSession(c) ==
  /\ caller[c].pc = "eval"
  /\ openSessions' = openSessions \cup {caller[c].id}
  /\ UNCHANGED <<leases, lease, sidIndex, generations, tombstones, nextLease, retiredOwners,
                 appliedOwners, sessionLock, managerLock, caller>>

\* Success commits the transaction and refreshes the lease; failure rolls the
\* sessions it opened back.  Both release the session lock.
EvalEnd(c) ==
  LET l == caller[c].id IN
  /\ caller[c].pc = "eval"
  /\ Back(c)
  /\ UNCHANGED leases
  /\ \/ /\ lease' = [lease EXCEPT ![l].expired = FALSE]
        /\ openSessions' = Surviving(openSessions)
     \/ /\ openSessions' = Surviving(openSessions \ {l})
        /\ UNCHANGED lease
  /\ sessionLock' = [sessionLock EXCEPT ![l] = "free"]
  /\ UNCHANGED <<sidIndex, generations, tombstones, nextLease, retiredOwners,
                 appliedOwners, managerLock>>

\* Time passes for a lease with a finite lifetime.
Expire(l) ==
  /\ l <= nextLease /\ lease[l].finite /\ ~lease[l].expired
  /\ lease' = [lease EXCEPT ![l].expired = TRUE]
  /\ UNCHANGED <<leases, sidIndex, generations, tombstones, nextLease, retiredOwners,
                 appliedOwners, sessionLock, managerLock, caller, openSessions>>

-----------------------------------------------------------------------------
LeaseNext ==
  \/ \E c \in Callers, s \in Sids, replace \in BOOLEAN :
       InsertRefused(c, s, replace) \/ InsertCheck(c, s, replace)
  \/ \E c \in Callers, l \in LeaseIds : close(c, l) \/ get(c, l)
  \/ \E c \in Callers : \/ InsertCommit(c) \/ Query(c) \/ EvalBegin(c) \/ OpenSession(c)
                        \/ EvalEnd(c) \/ \E then \in {"idle", "locate"} : TakeRetiredOwners(c, then)
  \/ \E l \in LeaseIds : Expire(l)

-----------------------------------------------------------------------------
\* The variables keep their types.
LeaseTypeOK ==
  /\ leases \subseteq 1..nextLease /\ tombstones \subseteq 1..nextLease
  /\ \A l \in LeaseIds : lease[l].terminal \in {"active", "closed", "expired", "replaced"}
  /\ \A s \in Sids : sidIndex[s] \in 0..nextLease
  /\ managerLock \in Callers \cup {"free"}
  /\ openSessions \subseteq 1..nextLease

Evaluating(l) == \E c \in Callers : caller[c].pc = "eval" /\ caller[c].id = l

\* The tables agree and no retirement is lost or repeated: a sid has at most
\* one active lease, the index points at it and it carries the sid's last
\* generation; a lease that is not active any more is in the owner queue or
\* was handed to the services, never both; the limit holds.  No evaluation
\* runs in a closed or expired lease, and what an evaluation that outlived its
\* replaced lease opens (see ReplacedIsQuiet) stays open only while a call that
\* looked the lease up before still has a hold of it.
LeasesAgree ==
  /\ Cardinality(leases) <= LeaseLimit
  /\ \A l \in leases : /\ sidIndex[lease[l].sid] = l
                       /\ lease[l].gen = generations[lease[l].sid]
                       /\ lease[l].terminal = "active"
  /\ \A s \in Sids : sidIndex[s] # 0 => sidIndex[s] \in leases
  /\ retiredOwners \cap appliedOwners = {}
  /\ (1..nextLease) \ leases = retiredOwners \cup appliedOwners
  /\ tombstones \cap leases = {}
  /\ \A l \in 1..nextLease : Evaluating(l) => l \in leases \/ lease[l].terminal = "replaced"
  /\ \A l \in openSessions \cap appliedOwners : \E c \in Callers : Referenced(c, l)

\* Does not hold: replacing a lease is refused while it is busy, yet an
\* evaluation can enter between that check and the commit and go on in the
\* replaced lease.
ReplacedIsQuiet ==
  \A l \in 1..nextLease : lease[l].terminal = "replaced" => ~Evaluating(l)
=============================================================================
