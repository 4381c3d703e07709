------------------------- MODULE ManagedEnvironment -------------------------
(***************************************************************************)
(* Managed Python and Node environments (runtime/managed_runtime.rs): a    *)
(* package's lockfile determines an environment directory, which is built  *)
(* aside, marked and published by renaming; sessions hold shared leases on *)
(* it; a directory that is replaced becomes a backup that the publisher or *)
(* the recovery worker of the process disposes of.                         *)
(*                                                                         *)
(* A user is a thread that wants an environment.  The hash of the planned  *)
(* inputs is the lockfile it was computed from, so an environment is named *)
(* by the lockfile that it must have been built from.                      *)
(***************************************************************************)
EXTENDS Naturals, Sequences, FiniteSets

CONSTANTS EnvUsers,       \* threads that acquire environments
          Lockfiles,      \* contents the package's lockfile may have
          MaxDirectories, \* bound on the directories built
          RecoverySlots,  \* MAX_MANAGED_RUNTIME_BACKUP_RECOVERY_RECORDS
          MaxEnvFaults    \* bound on failing steps and foreign changes

ASSUME EnvAssumption == RecoverySlots \in Nat \ {0}

VARIABLES env,        \* the published directory of every lockfile
          lockfile,   \* the package's lockfile now
          planCache,  \* the plan cached for the package
          buildLock,  \* who holds the build lock of an environment
          envLease,   \* holders of the lifecycle lease of an environment
          user,       \* what every user is doing
          backups,    \* replaced directories on disk
          records,    \* recovery records that wait for the worker
          inHand,     \* the record the recovery worker is executing
          built,      \* directories built so far
          orphans,    \* backups whose process died
          envFaults   \* failing steps so far

envVars == <<env, lockfile, planCache, buildLock, envLease, user, backups, records, inHand,
             built, orphans, envFaults>>

NoDirectory == [id |-> 0, marker |-> "missing", from |-> 0]
NoPlan == 0
Vacant == "free"
Recovery == "recovery"
NoBackupRecord == [id |-> 0, plan |-> NoPlan, action |-> "none"]
IdleUser == [at |-> "idle", plan |-> NoPlan, made |-> NoDirectory, backup |-> 0, leased |-> 0]
Unleased == [shared |-> {}, exclusive |-> Vacant]

EnvInit ==
    /\ env = [l \in Lockfiles |-> NoDirectory]
    /\ lockfile \in Lockfiles
    /\ planCache = NoPlan
    /\ buildLock = [l \in Lockfiles |-> Vacant]
    /\ envLease = [l \in Lockfiles |-> Unleased]
    /\ user = [u \in EnvUsers |-> IdleUser]
    /\ backups = {}
    /\ records = <<>>
    /\ inHand = NoBackupRecord
    /\ built = 0
    /\ orphans = {}
    /\ envFaults = 0
----------------------------------------------------------------------------
EnvExists(l) == env[l].id # 0
IsReady(l) == EnvExists(l) /\ env[l].marker = "ok"
Unreadable(l) == EnvExists(l) /\ env[l].marker = "unreadable"

\* A record keeps its permit until it is dropped; a publication holds one for its backup.
Permits == Len(records) + (IF inHand = NoBackupRecord THEN 0 ELSE 1)
           + Cardinality({u \in EnvUsers : user[u].backup # 0})

FaultStep(n) == envFaults + n <= MaxEnvFaults /\ envFaults' = envFaults + n

Goes(u, to) == user' = [user EXCEPT ![u].at = to]

\* A returning ensure drops its publish lease and then its build lock.
BuildUnlocked(u) == [buildLock EXCEPT ![user[u].plan] = IF @ = u THEN Vacant ELSE @]
Unpublished(u) == [envLease EXCEPT ![user[u].plan].exclusive = IF @ = u THEN Vacant ELSE @]

EnsureReturns(u, to) ==
    /\ buildLock' = BuildUnlocked(u)
    /\ envLease' = Unpublished(u)
    /\ user' = [user EXCEPT ![u] = IF to = "idle" THEN IdleUser
                                   ELSE [IdleUser EXCEPT !.at = to, !.plan = user[u].plan]]

\* remove_identity_bound_managed_runtime_backup
Without(id) == {b \in backups : b.id # id}
----------------------------------------------------------------------------
(* Planning and ensure_managed_env.                                        *)

\* A cached plan is used only while the hashes of its inputs still hold.
ValidCachedPlan == planCache # NoPlan /\ planCache = lockfile

ResolvePlan(u) ==
    /\ user[u].at = "idle"
    /\ built < MaxDirectories
    /\ LET plan == IF ValidCachedPlan THEN planCache ELSE lockfile
       IN /\ planCache' = plan
          /\ user' = [user EXCEPT ![u].at = "check", ![u].plan = plan]
    /\ UNCHANGED <<env, lockfile, buildLock, envLease, backups, records, inHand, built, orphans,
                   envFaults>>

\* managed_env_is_ready before any lock; a marker that cannot be parsed is an error.
CheckReady(u) ==
    /\ user[u].at = "check"
    /\ Goes(u, IF Unreadable(user[u].plan) THEN "error"
               ELSE IF IsReady(user[u].plan) THEN "lease" ELSE "lock")
    /\ UNCHANGED <<env, lockfile, planCache, buildLock, envLease, backups, records, inHand, built,
                   orphans, envFaults>>

\* validate_managed_runtime_plan_assets: a replaced runtime or package manager ends the call.
AssetsChanged(u) ==
    /\ user[u].at \in {"check", "build"}
    /\ FaultStep(1)
    /\ Goes(u, "error")
    /\ UNCHANGED <<env, lockfile, planCache, buildLock, envLease, backups, records, inHand, built,
                   orphans>>

LockIsFree(l) == buildLock[l] = Vacant

\* The process mutex and the lock file, one after the other.
TakeBuildLock(u) ==
    /\ user[u].at = "lock"
    /\ LockIsFree(user[u].plan)
    /\ buildLock' = [buildLock EXCEPT ![user[u].plan] = u]
    /\ Goes(u, "recheck")
    /\ UNCHANGED <<env, lockfile, planCache, envLease, backups, records, inHand, built, orphans,
                   envFaults>>

Recheck(u) ==
    /\ user[u].at = "recheck"
    /\ IF IsReady(user[u].plan) THEN EnsureReturns(u, "lease")
       ELSE /\ Goes(u, IF Unreadable(user[u].plan) THEN "error" ELSE "build")
            /\ UNCHANGED <<buildLock, envLease>>
    /\ UNCHANGED <<env, lockfile, planCache, backups, records, inHand, built, orphans, envFaults>>
----------------------------------------------------------------------------
(* Building and publishing.                                                *)

InputUnchecked(u, copied) == TRUE

\* verify_managed_runtime_build_input_hash: the copied lockfile must be the planned one.
InputMatches(u, copied) == copied = user[u].plan

\* A new directory of a unique name receives a copy of the lockfile.
PrepareBuild(u) ==
    /\ user[u].at = "build"
    /\ built' = built + 1
    /\ IF InputMatches(u, lockfile)
       THEN user' = [user EXCEPT ![u].at = "install",
                         ![u].made = [id |-> built + 1, marker |-> "missing", from |-> lockfile]]
       ELSE Goes(u, "error")
    /\ UNCHANGED <<env, lockfile, planCache, buildLock, envLease, backups, records, inHand, orphans,
                   envFaults>>

\* The package manager runs; the marker is written last.
InstallPackages(u) ==
    /\ user[u].at = "install"
    /\ user' = [user EXCEPT ![u].at = "publish", ![u].made.marker = "ok"]
    /\ UNCHANGED <<env, lockfile, planCache, buildLock, envLease, backups, records, inHand, built,
                   orphans, envFaults>>

InstallFails(u) ==
    /\ user[u].at = "install"
    /\ FaultStep(1)
    /\ Goes(u, "error")
    /\ UNCHANGED <<env, lockfile, planCache, buildLock, envLease, backups, records, inHand, built,
                   orphans>>

LeaseUnchecked(l) == envLease[l].exclusive = Vacant

\* try_acquire_managed_runtime_env_publish_lease never waits for the holders of leases.
LeaseIsFree(l) == envLease[l] = Unleased

TakePublishLease(u) ==
    /\ user[u].at = "publish"
    /\ IF LeaseIsFree(user[u].plan)
       THEN /\ envLease' = [envLease EXCEPT ![user[u].plan].exclusive = u]
            /\ Goes(u, "stage")
       ELSE UNCHANGED envLease /\ Goes(u, "error")
    /\ UNCHANGED <<env, lockfile, planCache, buildLock, backups, records, inHand, built, orphans,
                   envFaults>>

\* An existing directory is renamed to a backup once a recovery slot is reserved.
StageExisting(u) ==
    /\ user[u].at = "stage"
    /\ LET l == user[u].plan
       IN IF ~EnvExists(l) THEN Goes(u, "rename") /\ UNCHANGED <<env, backups>>
          ELSE IF Permits >= RecoverySlots THEN Goes(u, "error") /\ UNCHANGED <<env, backups>>
          ELSE /\ backups' = backups \union {env[l]}
               /\ user' = [user EXCEPT ![u].at = "rename", ![u].backup = env[l].id]
               /\ env' = [env EXCEPT ![l] = NoDirectory]
    /\ UNCHANGED <<lockfile, planCache, buildLock, envLease, records, inHand, built, orphans,
                   envFaults>>

PublishBuild(u) ==
    /\ user[u].at = "rename"
    /\ env' = [env EXCEPT ![user[u].plan] = user[u].made]
    /\ Goes(u, "discard")
    /\ UNCHANGED <<lockfile, planCache, buildLock, envLease, backups, records, inHand, built,
                   orphans, envFaults>>

BackupOf(u) == CHOOSE b \in backups : b.id = user[u].backup

\* The rename fails and the backup is renamed back.
PublishRollsBack(u) ==
    /\ user[u].at = "rename"
    /\ FaultStep(1)
    /\ IF user[u].backup = 0 THEN UNCHANGED <<env, backups>>
       ELSE /\ env' = [env EXCEPT ![user[u].plan] = BackupOf(u)]
            /\ backups' = Without(user[u].backup)
    /\ user' = [user EXCEPT ![u].at = "error", ![u].backup = 0]
    /\ UNCHANGED <<lockfile, planCache, buildLock, envLease, records, inHand, built, orphans>>

\* Both renames fail: the worker inherits the backup and its permit.
PublishStrands(u) ==
    /\ user[u].at = "rename"
    /\ user[u].backup # 0
    /\ FaultStep(2)
    /\ records' = Append(records, [id |-> user[u].backup, plan |-> user[u].plan,
                                   action |-> "restore"])
    /\ user' = [user EXCEPT ![u].at = "error", ![u].backup = 0]
    /\ UNCHANGED <<env, lockfile, planCache, buildLock, envLease, backups, inHand, built, orphans>>

\* The publication is committed whether or not the backup can be removed now.
DiscardBackup(u) ==
    /\ user[u].at = "discard"
    /\ \/ backups' = Without(user[u].backup) /\ UNCHANGED <<records, envFaults>>
       \/ /\ user[u].backup # 0
          /\ FaultStep(1)
          /\ records' = Append(records, [id |-> user[u].backup, plan |-> user[u].plan,
                                         action |-> "remove"])
          /\ UNCHANGED backups
    /\ EnsureReturns(u, "lease")
    /\ UNCHANGED <<env, lockfile, planCache, inHand, built, orphans>>

\* Every error return removes the build directory and drops what is held.
EnsureFails(u) ==
    /\ user[u].at = "error"
    /\ EnsureReturns(u, "idle")
    /\ UNCHANGED <<env, lockfile, planCache, backups, records, inHand, built, orphans, envFaults>>
----------------------------------------------------------------------------
(* acquire_ready_managed_env_lease.                                        *)

TakeSharedLease(u) ==
    /\ user[u].at = "lease"
    /\ envLease[user[u].plan].exclusive = Vacant
    /\ envLease' = [envLease EXCEPT ![user[u].plan].shared = @ \union {u}]
    /\ Goes(u, "verify")
    /\ UNCHANGED <<env, lockfile, planCache, buildLock, backups, records, inHand, built, orphans,
                   envFaults>>

StillReadyAssumed(l) == TRUE

StillReady(l) == IsReady(l)

Unshared(u) == [envLease EXCEPT ![user[u].plan].shared = @ \ {u}]

\* The environment may have changed between ensure and the envLease.
VerifyLeased(u) ==
    /\ user[u].at = "verify"
    /\ IF StillReady(user[u].plan)
       THEN /\ user' = [user EXCEPT ![u].at = "holding", ![u].leased = env[user[u].plan].id]
            /\ UNCHANGED envLease
       ELSE envLease' = Unshared(u) /\ user' = [user EXCEPT ![u] = IdleUser]
    /\ UNCHANGED <<env, lockfile, planCache, buildLock, backups, records, inHand, built, orphans,
                   envFaults>>

DropLease(u) ==
    /\ user[u].at = "holding"
    /\ envLease' = Unshared(u)
    /\ user' = [user EXCEPT ![u] = IdleUser]
    /\ UNCHANGED <<env, lockfile, planCache, buildLock, backups, records, inHand, built, orphans,
                   envFaults>>
----------------------------------------------------------------------------
(* The recovery worker.                                                    *)

WaitNext ==
    /\ inHand = NoBackupRecord
    /\ records # <<>>
    /\ inHand' = Head(records)
    /\ records' = Tail(records)
    /\ UNCHANGED <<env, lockfile, planCache, buildLock, envLease, user, backups, built, orphans,
                   envFaults>>

RecordRequeued == Append(records, inHand)

\* A record whose attempt fails or panics goes to the end of the queue.
RecoveryFails ==
    /\ inHand # NoBackupRecord
    /\ FaultStep(1)
    /\ records' = RecordRequeued
    /\ inHand' = NoBackupRecord
    /\ UNCHANGED <<env, lockfile, planCache, buildLock, envLease, user, backups, built, orphans>>

RemoveCommitted ==
    /\ inHand.action = "remove"
    /\ backups' = Without(inHand.id)
    /\ inHand' = NoBackupRecord
    /\ UNCHANGED <<env, lockfile, planCache, buildLock, envLease, user, records, built, orphans,
                   envFaults>>

\* Under the build lock: a newer environment wins, an occupied name or lease postpones.
RestoreFailed ==
    /\ inHand.action = "restore"
    /\ LockIsFree(inHand.plan)
    /\ IF IsReady(inHand.plan)
       THEN backups' = Without(inHand.id) /\ UNCHANGED <<env, records>>
       ELSE IF EnvExists(inHand.plan) \/ ~LeaseIsFree(inHand.plan)
       THEN records' = RecordRequeued /\ UNCHANGED <<env, backups>>
       ELSE /\ env' = [env EXCEPT ![inHand.plan] = CHOOSE b \in backups : b.id = inHand.id]
            /\ backups' = Without(inHand.id)
            /\ UNCHANGED records
    /\ inHand' = NoBackupRecord
    /\ UNCHANGED <<lockfile, planCache, buildLock, envLease, user, built, orphans, envFaults>>
----------------------------------------------------------------------------
(* Changes from outside.                                                   *)

ChangeLockfile ==
    /\ FaultStep(1)
    /\ lockfile' \in Lockfiles \ {lockfile}
    /\ UNCHANGED <<env, planCache, buildLock, envLease, user, backups, records, inHand, built,
                   orphans>>

\* Somebody removes or truncates the marker of a published environment.
DamageMarker(l, marker) ==
    /\ IsReady(l)
    /\ FaultStep(1)
    /\ env' = [env EXCEPT ![l].marker = marker]
    /\ UNCHANGED <<lockfile, planCache, buildLock, envLease, user, backups, records, inHand, built,
                   orphans>>

\* The process dies: directories stay, locks, leases and records are gone.
KillProcess ==
    /\ \E u \in EnvUsers : user[u].at # "idle"
    /\ FaultStep(1)
    /\ planCache' = NoPlan
    /\ buildLock' = [l \in Lockfiles |-> Vacant]
    /\ envLease' = [l \in Lockfiles |-> Unleased]
    /\ user' = [u \in EnvUsers |-> IdleUser]
    /\ records' = <<>>
    /\ inHand' = NoBackupRecord
    /\ orphans' = orphans \union {b.id : b \in backups}
    /\ UNCHANGED <<env, lockfile, backups, built>>

EnvStep(u) ==
    \/ CheckReady(u) \/ TakeBuildLock(u) \/ Recheck(u) \/ PrepareBuild(u)
    \/ InstallPackages(u) \/ InstallFails(u) \/ AssetsChanged(u)
    \/ TakePublishLease(u) \/ StageExisting(u) \/ PublishBuild(u) \/ PublishRollsBack(u)
    \/ PublishStrands(u) \/ DiscardBackup(u) \/ EnsureFails(u)
    \/ TakeSharedLease(u) \/ VerifyLeased(u)

RecoveryStep == RemoveCommitted \/ RestoreFailed

EnvNext ==
    \/ \E u \in EnvUsers : EnvStep(u) \/ ResolvePlan(u) \/ DropLease(u)
    \/ WaitNext \/ RecoveryStep \/ RecoveryFails
    \/ ChangeLockfile \/ KillProcess
    \/ \E l \in Lockfiles, marker \in {"missing", "unreadable"} : DamageMarker(l, marker)

\* Threads run; the package manager ends; a lock that is released is taken.
EnvFairness ==
    /\ \A u \in EnvUsers : WF_envVars(EnvStep(u))
    /\ WF_envVars(WaitNext)
    /\ SF_envVars(RecoveryStep)
----------------------------------------------------------------------------
\* The variables keep their types.
EnvTypeOK ==
    /\ lockfile \in Lockfiles
    /\ planCache \in Lockfiles \union {NoPlan}
    /\ \A l \in Lockfiles :
        /\ env[l].id \in 0..MaxDirectories + Cardinality(EnvUsers)
        /\ buildLock[l] \in EnvUsers \union {Vacant}
        /\ envLease[l].shared \subseteq EnvUsers
        /\ envLease[l].exclusive \in EnvUsers \union {Vacant}
    /\ \A u \in EnvUsers : user[u].plan \in Lockfiles \union {NoPlan}
    /\ envFaults \in 0..MaxEnvFaults

(* The directory under a lease is never replaced; a marker that says ready  *)
(* stands in a directory built from the planned lockfile; every backup on   *)
(* disk has exactly one owner, which holds one of the limited permits       *)
(* (acquire_ready_managed_env_lease, finish_build_dir_with_backup_remover,  *)
(* reserve_managed_runtime_backup_recovery_slot).                           *)
EnvironmentsSound ==
    /\ \A u \in EnvUsers : user[u].at = "holding" =>
        user[u].leased # 0 /\ env[user[u].plan].id = user[u].leased
    /\ \A l \in Lockfiles : IsReady(l) => env[l].from = l
    /\ {b.id : b \in backups} \ orphans =
         {records[i].id : i \in 1..Len(records)}
         \union ({inHand.id} \ {0})
         \union ({user[u].backup : u \in EnvUsers} \ {0})
    /\ Permits = Cardinality({b.id : b \in backups} \ orphans)
    /\ Permits <= RecoverySlots

RemovalPending ==
    \/ inHand.action = "remove"
    \/ \E i \in 1..Len(records) : records[i].action = "remove"

(* Backups whose removal failed after their publication are all removed in   *)
(* the end, whatever other records the worker has to serve first and however *)
(* often an attempt fails, as long as the process lives                      *)
(* (run_managed_runtime_backup_recovery_worker).                             *)
BackupsRemoved == RemovalPending ~> ~RemovalPending
============================================================================
