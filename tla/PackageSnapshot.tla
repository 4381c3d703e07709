---------------------------- MODULE PackageSnapshot ----------------------------
(***************************************************************************)
(* Immutable package snapshots (managed_runtime_session.rs): the directory *)
(* a managed Python or Node session runs from.  A launch reserves a cleanup *)
(* slot, creates and copies the directory, and shares the snapshot between *)
(* the session's cleanup and the process reaper.  Whoever drops it last    *)
(* removes it through a private quarantine directory; a removal that fails *)
(* is handed, with its reservation, to one retry thread.  Other processes  *)
(* may move the directory away or put their own in its place.              *)
(***************************************************************************)
EXTENDS Naturals, FiniteSets, Sequences

CONSTANTS MaxSnapshots,       \* bound: snapshots prepared
          CleanupCapacity,    \* MANAGED_SNAPSHOT_CLEANUP_CAPACITY
          MaxFsFailures,      \* bound: filesystem operations that fail
          MaxSwaps            \* bound: objects moved away or replaced by others

ASSUME SnapshotAssumption == /\ MaxSnapshots \in Nat /\ CleanupCapacity \in Nat \ {0}
                             /\ MaxFsFailures \in Nat /\ MaxSwaps \in Nat

VARIABLES
  snap,          \* one record per snapshot: its owner, its cleanup record, its paths
  slots,         \* reserved of ManagedSnapshotCleanupRetry
  cleanupQueue,    \* records of ManagedSnapshotCleanupQueue
  fsFailures,    \* bound: failures so far
  swaps          \* bound: external changes so far

snapshotVars == <<snap, slots, cleanupQueue, fsFailures, swaps>>

Snapshots == 1..MaxSnapshots

\* "own" is the directory this snapshot created, with its recorded identity;
\* "foreign" is a non-empty object of another process.
Objects == {"none", "own", "foreign"}

SnapshotOwners == {"none", "permit", "prepare", "live", "drop", "queued", "worker", "done"}

NoSnapshot ==
  [owner |-> "none", holders |-> {}, identity |-> "none",
   at |-> "none",            \* object at the snapshot's own path
   captured |-> "none",      \* object inside the quarantine
   quarantine |-> FALSE,     \* quarantine_root
   orphan |-> FALSE,         \* orphan_quarantine_root
   present |-> TRUE,         \* snapshot_present
   dirs |-> 0,               \* quarantine directories on disk
   stage |-> "idle"]

SnapshotInit ==
  /\ snap = [n \in Snapshots |-> NoSnapshot]
  /\ slots = 0 /\ cleanupQueue = <<>> /\ fsFailures = 0 /\ swaps = 0

Fails == fsFailures < MaxFsFailures /\ fsFailures' = fsFailures + 1
Works == fsFailures' = fsFailures

-----------------------------------------------------------------------------
\* Preparation

reserve_managed_snapshot_cleanup_slot(n) ==
  /\ snap[n].owner = "none" /\ slots < CleanupCapacity
  /\ slots' = slots + 1
  /\ snap' = [snap EXCEPT ![n].owner = "permit"]
  /\ UNCHANGED <<cleanupQueue, fsFailures, swaps>>

\* Before the directory exists an early return only drops the permit.
PrepareRefused(n) ==
  /\ snap[n].owner = "permit" /\ Fails
  /\ slots' = slots - 1
  /\ snap' = [snap EXCEPT ![n].owner = "done"]
  /\ UNCHANGED <<cleanupQueue, swaps>>

CreateSnapshot(n) ==
  /\ snap[n].owner = "permit"
  /\ snap' = [snap EXCEPT ![n].owner = "prepare", ![n].at = "own"]
  /\ UNCHANGED <<slots, cleanupQueue, fsFailures, swaps>>

\* ManagedSnapshotPreparation::drop and ManagedPackageSnapshot::drop remove at once.
Dropping(s) == [s EXCEPT !.owner = "drop", !.holders = {}, !.stage = "orphan"]

\* The identity is read by path: it is the identity of whatever directory is
\* there by then.
IdentifySnapshot(n) ==
  /\ snap[n].owner = "prepare" /\ snap[n].identity = "none"
  /\ \/ snap[n].at # "none" /\ Works /\ snap' = [snap EXCEPT ![n].identity = snap[n].at]
     \/ snap[n].at # "none" /\ Fails /\ snap' = [snap EXCEPT ![n] = Dropping(@)]
     \/ snap[n].at = "none" /\ Works /\ snap' = [snap EXCEPT ![n] = Dropping(@)]
  /\ UNCHANGED <<slots, cleanupQueue, swaps>>

\* The copy goes through a descriptor whose identity is compared first; its
\* create_dir_all makes a new directory when the snapshot was moved away.
copy_managed_package_tree_from_fixed_root(n) ==
  /\ snap[n].owner = "prepare" /\ snap[n].identity # "none"
  /\ \/ /\ snap[n].at = snap[n].identity /\ Works
        /\ snap' = [snap EXCEPT ![n].owner = "live", ![n].holders = {"session"}]
     \/ /\ snap[n].at = snap[n].identity /\ Fails
        /\ snap' = [snap EXCEPT ![n] = Dropping(@)]
     \/ /\ snap[n].at # snap[n].identity /\ Works
        /\ snap' = [snap EXCEPT ![n] = [Dropping(@) EXCEPT !.at = "foreign"]]
  /\ UNCHANGED <<slots, cleanupQueue, swaps>>

\* launch_managed_python_session, launch_managed_node_session: the reaper's
\* keepalive holds a second reference for as long as the process may run.
launch_managed_session(n) ==
  /\ snap[n].owner = "live" /\ snap[n].holders = {"session"}
  /\ snap' = [snap EXCEPT ![n].holders = {"session", "reaper"}]
  /\ UNCHANGED <<slots, cleanupQueue, fsFailures, swaps>>

ReleaseHolder(n, h) ==
  /\ snap[n].owner = "live" /\ h \in snap[n].holders
  /\ snap' = [snap EXCEPT ![n] = IF @.holders = {h} THEN Dropping(@)
                                 ELSE [@ EXCEPT !.holders = @ \ {h}]]
  /\ UNCHANGED <<slots, cleanupQueue, fsFailures, swaps>>

-----------------------------------------------------------------------------
\* remove_managed_package_snapshot, by the dropping thread or the retry thread

Removing(n) == snap[n].owner \in {"drop", "worker"}

\* The removal fails: the immediate one hands its record and its reservation
\* over, the retry thread puts the record back at the end.
HandoffDroppingPermit(n, s) ==
  /\ snap' = [snap EXCEPT ![n] = [s EXCEPT !.owner = "queued", !.stage = "idle"]]
  /\ cleanupQueue' = Append(cleanupQueue, n) /\ slots' = slots - 1
  /\ UNCHANGED swaps
handoff(n, s) ==
  /\ snap' = [snap EXCEPT ![n] = [s EXCEPT !.owner = "queued", !.stage = "idle"]]
  /\ cleanupQueue' = Append(cleanupQueue, n)
  /\ UNCHANGED <<slots, swaps>>

RemoveSucceeds(n, s) ==
  /\ snap' = [snap EXCEPT ![n] = [s EXCEPT !.owner = "done", !.stage = "idle"]]
  /\ slots' = slots - 1
  /\ UNCHANGED <<cleanupQueue, swaps>>

RemoveGoesOn(n, s) ==
  /\ snap' = [snap EXCEPT ![n] = s]
  /\ UNCHANGED <<slots, cleanupQueue, swaps>>

\* The quarantine of an earlier attempt whose rename failed.
RemoveOrphan(n) ==
  /\ Removing(n) /\ snap[n].stage = "orphan"
  /\ LET s == snap[n]
         next == IF s.identity = "none" THEN "provisional"
                 ELSE IF ~s.quarantine THEN "isolate" ELSE "verify" IN
     \/ /\ Works
        /\ RemoveGoesOn(n, [s EXCEPT !.orphan = FALSE, !.stage = next,
                                     !.dirs = IF s.orphan THEN @ - 1 ELSE @])
     \/ s.orphan /\ Fails /\ handoff(n, s)

\* Without an identity only an empty directory may go.
RemoveProvisional(n) ==
  /\ Removing(n) /\ snap[n].stage = "provisional"
  /\ \/ snap[n].at # "foreign" /\ Works /\ RemoveSucceeds(n, [snap[n] EXCEPT !.at = "none"])
     \/ snap[n].at = "foreign" /\ Works /\ handoff(n, snap[n])
     \/ snap[n].at = "own" /\ Fails /\ handoff(n, snap[n])

\* Create a quarantine and rename whatever is at the path into it.
IsolateSnapshot(n) ==
  /\ Removing(n) /\ snap[n].stage = "isolate"
  /\ LET s == snap[n] IN
     \/ /\ Fails /\ handoff(n, s)                     \* no quarantine was created
     \/ /\ s.at # "none" /\ Works
        /\ RemoveGoesOn(n, [s EXCEPT !.captured = s.at, !.at = "none", !.quarantine = TRUE,
                                     !.dirs = @ + 1, !.stage = "verify"])
     \/ /\ s.at = "none" /\ Works
        /\ RemoveGoesOn(n, [s EXCEPT !.quarantine = TRUE, !.dirs = @ + 1, !.present = FALSE,
                                     !.stage = "verify"])
     \/ /\ s.at # "none" /\ Fails                     \* rename refused
        /\ \E kept \in BOOLEAN :
             handoff(n, [s EXCEPT !.orphan = kept, !.dirs = IF kept THEN @ + 1 ELSE @])

\* Only a directory with the recorded identity may be deleted.
MatchesAnything(s) == s.captured # "none"
Matches(s) == s.captured = s.identity

VerifyIsolated(n) ==
  /\ Removing(n) /\ snap[n].stage = "verify"
  /\ LET s == snap[n] IN
     \/ ~s.present /\ Works /\ RemoveGoesOn(n, [s EXCEPT !.stage = "sweep"])
     \/ s.present /\ Matches(s) /\ Works
        /\ RemoveGoesOn(n, [s EXCEPT !.stage = "delete"])
     \/ s.present /\ ~Matches(s) /\ Works /\ handoff(n, s)
     \/ s.present /\ Matches(s) /\ Fails /\ handoff(n, s)

\* The record remembers that the tree is gone, whatever happens to the quarantine.
DeletedUnrecorded(s) == [s EXCEPT !.captured = "none", !.stage = "sweep"]
Deleted(s) == [s EXCEPT !.captured = "none", !.present = FALSE, !.stage = "sweep"]

\* Opens the directory, compares the identity of the descriptor, empties the
\* directory through it, then removes the name if it is an empty directory.
remove_verified_managed_snapshot_tree(n) ==
  /\ Removing(n) /\ snap[n].stage = "delete"
  /\ LET s == snap[n] IN
     \/ Matches(s) /\ Works /\ RemoveGoesOn(n, Deleted(s))
     \/ ~Matches(s) /\ Works /\ handoff(n, s)
     \/ Matches(s) /\ Fails /\ handoff(n, s)

\* remove_dir of the quarantine.
SweepQuarantine(n) ==
  /\ Removing(n) /\ snap[n].stage = "sweep"
  /\ LET s == snap[n] IN
     \/ s.captured = "none" /\ Works
        /\ RemoveSucceeds(n, [s EXCEPT !.quarantine = FALSE, !.dirs = @ - 1])
     \/ s.captured # "none" /\ Works /\ handoff(n, s)
     \/ s.captured = "none" /\ Fails /\ handoff(n, s)

managed_snapshot_cleanup_worker ==
  /\ cleanupQueue # <<>> /\ \A n \in Snapshots : snap[n].owner # "worker"
  /\ snap' = [snap EXCEPT ![Head(cleanupQueue)].owner = "worker",
                          ![Head(cleanupQueue)].stage = "orphan"]
  /\ cleanupQueue' = Tail(cleanupQueue)
  /\ UNCHANGED <<slots, fsFailures, swaps>>

\* Another process moves the object away or puts its own there.
External(n) ==
  /\ swaps < MaxSwaps /\ swaps' = swaps + 1
  /\ \E object \in {"none", "foreign"} :
       \/ snap[n].at = "own" /\ snap' = [snap EXCEPT ![n].at = object]
       \/ snap[n].captured = "own" /\ snap' = [snap EXCEPT ![n].captured = object]
  /\ UNCHANGED <<slots, cleanupQueue, fsFailures>>

RemovalStep(n) ==
  \/ RemoveOrphan(n) \/ RemoveProvisional(n) \/ IsolateSnapshot(n)
  \/ VerifyIsolated(n) \/ remove_verified_managed_snapshot_tree(n) \/ SweepQuarantine(n)

SnapshotNext ==
  \/ \E n \in Snapshots :
       \/ reserve_managed_snapshot_cleanup_slot(n) \/ PrepareRefused(n) \/ CreateSnapshot(n)
       \/ IdentifySnapshot(n) \/ copy_managed_package_tree_from_fixed_root(n)
       \/ launch_managed_session(n) \/ \E h \in {"session", "reaper"} : ReleaseHolder(n, h)
       \/ RemovalStep(n) \/ External(n)
  \/ managed_snapshot_cleanup_worker

\* The dropping thread and the retry thread keep running.
SnapshotFairness ==
  /\ \A n \in Snapshots : WF_snapshotVars(RemovalStep(n))
  /\ WF_snapshotVars(managed_snapshot_cleanup_worker)

-----------------------------------------------------------------------------
\* The variables keep their types.
SnapshotTypeOK ==
  /\ snap \in [Snapshots ->
       [owner : SnapshotOwners, holders : SUBSET {"session", "reaper"},
        identity : Objects, at : Objects, captured : Objects,
        quarantine : BOOLEAN, orphan : BOOLEAN, present : BOOLEAN, dirs : 0..2,
        stage : {"idle", "orphan", "provisional", "isolate", "verify", "delete", "sweep"}]]
  /\ slots \in 0..CleanupCapacity
  /\ cleanupQueue \in Seq(Snapshots)

Owned(n) == snap[n].owner \notin {"none", "done"}

\* Every directory the runtime created (a snapshot at its path or captured, and
\* every quarantine) belongs to an owner that will remove it and that holds one of
\* the bounded cleanup slots; a queued record is in the queue exactly once; a
\* settled snapshot leaves nothing of its own behind.
SnapshotsOwned ==
  /\ slots = Cardinality({n \in Snapshots : Owned(n)})
  /\ \A n \in Snapshots :
       /\ ~Owned(n) => snap[n].dirs = 0 /\ "own" \notin {snap[n].at, snap[n].captured}
       /\ snap[n].dirs = Cardinality({f \in {"quarantine", "orphan"} : snap[n][f]})
       /\ Cardinality({i \in DOMAIN cleanupQueue : cleanupQueue[i] = n})
            = (IF snap[n].owner = "queued" THEN 1 ELSE 0)

\* What another process put at the path, or into the quarantine, is moved at
\* most: no removal, first or retried, ever deletes an object other than the one
\* whose identity was recorded at creation.
KeepsForeign ==
  \A n \in Snapshots :
     "foreign" \in {snap[n].at, snap[n].captured} /\ snap[n].identity # "foreign"
       => "foreign" \in {snap'[n].at, snap'[n].captured}

\* A dropped snapshot that nobody else touched is eventually gone, however its
\* first removals failed.
SnapshotsRemoved ==
  \A n \in Snapshots : snap[n].owner = "drop" ~> (snap[n].owner = "done" \/ swaps > 0)
=============================================================================
