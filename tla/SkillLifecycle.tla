---------------------------- MODULE SkillLifecycle ----------------------------
(***************************************************************************)
(* Skill lifecycle: enable, disable, install, update and uninstall of a    *)
(* skill in a chain of skill roots (skill/manager.rs), each followed by a  *)
(* reload of the engine and, on failure, by a rollback and a second reload *)
(* (engine.rs).                                                            *)
(*                                                                         *)
(* One skill id.  On disk every root holds a package directory, an install *)
(* record and a disabled record; a prepared change keeps the old package   *)
(* in a backup directory.  A file-system step that fails may leave a       *)
(* written file or a removed directory half done ("torn"); the process may *)
(* stop between any two steps.                                             *)
(***************************************************************************)
EXTENDS Naturals, FiniteSets, Sequences

CONSTANTS MaxVersion,        \* bound: package versions
          MaxLifecycleFaults \* bound: file-system steps that fail

ASSUME LifecycleAssumption == MaxVersion \in Nat \ {0} /\ MaxLifecycleFaults \in Nat

VARIABLES
  rootDisk,    \* package, install record and disabled record of every root
  loadedSkill, \* package the engine has loaded and its root, roots its catalogue lists
  lifecycle,   \* the operation under way
  settled,     \* outcome of the last operation
  fsFaults     \* file-system steps that have failed

lifecycleVars == <<rootDisk, loadedSkill, lifecycle, settled, fsFaults>>

\* ROOT comes first in every chain; USER stands for USER and PROJECT.
RootChain == <<"ROOT", "USER">>
SkillRoots == {"ROOT", "USER"}
Planes == {"System", "Skills"}
PackageVersions == 1..MaxVersion

\* A file or directory: absent, empty (a directory that disables the skill),
\* whole or torn.
Nothing == <<"none", 0>>
Empty == <<"empty", 0>>
Whole(v) == <<"whole", v>>
TornPackage(x) == <<"torn", x[2]>>
Exists(x) == x[1] # "none"

NoOp == [pc |-> "idle", action |-> "none", plane |-> "System", root |-> "USER", version |-> 0,
         before |-> [package |-> Nothing, record |-> Nothing, disabled |-> Nothing],
         backup |-> Nothing, torn |-> FALSE, failed |-> FALSE, uncertain |-> FALSE,
         committed |-> FALSE]

\* PackageVersions found by hand or by an earlier install, with or without a record.
LifecycleInit ==
  /\ \E pkg \in [SkillRoots -> {Nothing, Empty, Whole(1)}], managed \in BOOLEAN :
       rootDisk = [r \in SkillRoots |->
         [package |-> pkg[r],
          record |-> IF managed /\ pkg[r] = Whole(1) THEN Whole(1) ELSE Nothing,
          disabled |-> Nothing]]
  /\ loadedSkill = [root |-> "none", package |-> Nothing, listed |-> {}]
  /\ lifecycle = NoOp /\ settled = NoOp /\ fsFaults = 0

\* A file-system step: it succeeds with the first value, or fails with one of
\* the others.
Tries(good, bad) ==
  {[value |-> good, ok |-> TRUE]} \cup
  (IF fsFaults < MaxLifecycleFaults THEN {[value |-> b, ok |-> FALSE] : b \in bad} ELSE {})
Attempt == Tries(Nothing, {Nothing})
RecordWritten(old, new) == Tries(new, {old, TornPackage(new)})
Unlinked(old) == Tries(Nothing, {old} \ {Nothing})
Removed(old) == Tries(Nothing, {old, TornPackage(old)} \ {Nothing, TornPackage(Nothing)})
Faults(steps) == fsFaults' = fsFaults + Cardinality({i \in DOMAIN steps : ~steps[i].ok})

-----------------------------------------------------------------------------
\* Which instance counts

\* resolve_declared_skill_instance_from_roots: the first root with a directory.
Declared(roots, disk) ==
  {r \in roots : Exists(disk[r].package) /\ (r = "USER" /\ "ROOT" \in roots => ~Exists(disk["ROOT"].package))}

\* collect_effective_skill_instances_from_roots and load_from_roots: that
\* instance, unless it is an empty override or disabled in its root.
Effective(disk) ==
  {r \in Declared(SkillRoots, disk) : disk[r].package # Empty}
Loadable(disk) == {r \in Effective(disk) : ~Exists(disk[r].disabled)}

\* replace_installed_catalog: the instances the configuration service calls
\* effective.  It reads the manifests only, so a disabled record does not
\* count; the manifest of a torn package may or may not be left.
Catalogues(disk) ==
  {{r \in Effective(disk) : disk[r].package[1] \in kinds} : kinds \in {{"whole"}, {"whole", "torn"}}}

\* load_from_roots: the catalogue, then the skills; one that cannot be loaded
\* is logged and left out.
Loads(disk) ==
  UNION {{[root |-> "none", package |-> Nothing, listed |-> c]} \cup
         {[root |-> r, package |-> disk[r].package, listed |-> c] : r \in Loadable(disk) \cap c}
         : c \in Catalogues(disk)}

\* reload_from_roots: a candidate engine is built from the disk and replaces
\* the running one only when it is complete; publishing the difference of the
\* entries may still fail after that.
Reload(disk, next, failing) ==
  \E t \in Attempt :
    /\ \/ \E load \in Loads(disk) : loadedSkill' = load
       \/ ~t.ok /\ UNCHANGED loadedSkill
    /\ lifecycle' = IF t.ok THEN next ELSE failing
    /\ Faults(<<t>>)

\* guard_operation: the ROOT layer belongs to the system plane.
Guarded(plane, root) == plane = "Skills" => root # "ROOT"

Committed(op) == [op EXCEPT !.pc = "done", !.backup = Nothing, !.committed = TRUE]

LifecycleAt(pc, actions) == lifecycle.pc = pc /\ lifecycle.action \in actions
Moved(pc) == [lifecycle EXCEPT !.pc = pc]
Begin(action, plane, root, version) ==
  [NoOp EXCEPT !.action = action, !.plane = plane, !.root = root, !.version = version,
               !.before = rootDisk[root]]
Here == rootDisk[lifecycle.root]
Put(op, entry) == rootDisk' = [rootDisk EXCEPT ![op.root] = entry]
IsTorn(steps) == \E i \in DOMAIN steps : ~steps[i].ok /\ steps[i].value[1] = "torn"

\* The operation answers its caller.
Settle(op) == /\ settled' = op
              /\ lifecycle' = NoOp

-----------------------------------------------------------------------------
\* mutate_skill_state_and_reload

Mutate(action, plane) ==
  /\ lifecycle.pc = "idle"
  /\ \E root \in Declared(SkillRoots, rootDisk) :
       LET op == Begin(action, plane, root, 0)
           old == rootDisk[root].disabled
       IN /\ Guarded(plane, root)
          /\ \E t \in IF action = "Disable" THEN RecordWritten(old, Whole(0)) ELSE Unlinked(old) :
               /\ rootDisk' = [rootDisk EXCEPT ![root].disabled = t.value]
               /\ Faults(<<t>>)
               /\ IF t.ok THEN lifecycle' = [op EXCEPT !.pc = "mutated"] /\ settled' = NoOp
                  ELSE Settle([op EXCEPT !.failed = TRUE, !.torn = TRUE])
  /\ UNCHANGED loadedSkill

\* Nothing is rolled back when the reload fails.
MutateReload ==
  /\ LifecycleAt("mutated", {"Disable", "Enable"})
  /\ Reload(rootDisk, Moved("done"), [Moved("done") EXCEPT !.failed = TRUE, !.uncertain = TRUE])
  /\ UNCHANGED <<rootDisk, settled>>

-----------------------------------------------------------------------------
\* Preparing a change

\* Target root of an operation: named by the caller, or found.
InstallTargets(plane, explicit) ==
  IF explicit # "none" THEN {explicit} ELSE IF plane = "System" THEN {"ROOT"} ELSE {"USER"}
OperationRoots(action, plane, explicit, root) ==
  IF explicit # "none" \/ (action = "Install" /\ plane = "System" /\ root = "ROOT") THEN {root} ELSE SkillRoots

\* ensure_root_skill_id_is_not_system_occupied and
\* ensure_explicit_apply_target_will_be_effective.
Unshadowed(root) == root = "USER" => ~Exists(rootDisk["ROOT"].package)

\* Install: the package is downloaded and unpacked elsewhere, then renamed
\* into place.
PrepareInstall(plane, explicit, v) ==
  /\ lifecycle.pc = "idle"
  /\ \E root \in InstallTargets(plane, explicit) :
       /\ Unshadowed(root) /\ Guarded(plane, root)
       /\ Declared(OperationRoots("Install", plane, explicit, root), rootDisk) = {}
       /\ \E t \in Attempt :
            LET op == Begin("Install", plane, root, v)
            IN /\ Faults(<<t>>)
               /\ IF t.ok
                  THEN /\ rootDisk' = [rootDisk EXCEPT ![root].package = Whole(v)]
                       /\ lifecycle' = [op EXCEPT !.pc = "staged"] /\ settled' = NoOp
                  ELSE Settle([op EXCEPT !.failed = TRUE]) /\ UNCHANGED rootDisk
  /\ UNCHANGED loadedSkill

\* Update: only of a managed skill and to a newer version, or at least the same
\* one when the source is replaced; the old package is moved aside first.
PrepareUpdate(plane, explicit, v, replacing) ==
  /\ lifecycle.pc = "idle"
  /\ \E root \in Declared(IF explicit = "none" THEN SkillRoots ELSE {explicit}, rootDisk) :
       /\ Unshadowed(root) /\ Guarded(plane, root)
       /\ rootDisk[root].record[1] = "whole"
       /\ IF replacing THEN v >= rootDisk[root].record[2] ELSE v > rootDisk[root].record[2]
       /\ \E t \in Attempt :
            LET op == Begin("Update", plane, root, v)
            IN /\ Faults(<<t>>)
               /\ IF t.ok
                  THEN /\ lifecycle' = [op EXCEPT !.pc = "vacated", !.backup = rootDisk[root].package]
                       /\ rootDisk' = [rootDisk EXCEPT ![root].package = Nothing] /\ settled' = NoOp
                  ELSE Settle([op EXCEPT !.failed = TRUE]) /\ UNCHANGED rootDisk
  /\ UNCHANGED loadedSkill

\* publish_staged_skill_update.
PublishUpdate ==
  /\ LifecycleAt("vacated", {"Update"})
  /\ \E t \in Attempt, u \in Attempt :
       /\ t.ok => u.ok
       /\ Faults(<<t, u>>)
       /\ IF t.ok
          THEN /\ Put(lifecycle, [Here EXCEPT !.package = Whole(lifecycle.version)])
               /\ lifecycle' = Moved("staged") /\ UNCHANGED settled
          ELSE IF u.ok
          THEN /\ Put(lifecycle, [Here EXCEPT !.package = lifecycle.backup])
               /\ Settle([lifecycle EXCEPT !.failed = TRUE])
          ELSE /\ UNCHANGED rootDisk
               /\ Settle([lifecycle EXCEPT !.failed = TRUE, !.uncertain = TRUE])
  /\ UNCHANGED loadedSkill

\* Uninstall: the effective instance, or the one of a named root.  A record
\* that cannot be read stops it.
PrepareUninstall(plane, explicit) ==
  /\ lifecycle.pc = "idle"
  /\ \E root \in IF explicit = "none" THEN Effective(rootDisk) ELSE Declared({explicit}, rootDisk) :
       /\ Guarded(plane, root)
       /\ rootDisk[root].record[1] # "torn" /\ rootDisk[root].disabled[1] # "torn"
       /\ \E t \in Attempt :
            LET op == Begin("Uninstall", plane, root, 0)
            IN /\ Faults(<<t>>)
               /\ IF t.ok
                  THEN /\ lifecycle' = [op EXCEPT !.pc = "staged", !.backup = rootDisk[root].package]
                       /\ rootDisk' = [rootDisk EXCEPT ![root].package = Nothing] /\ settled' = NoOp
                  ELSE Settle([op EXCEPT !.failed = TRUE]) /\ UNCHANGED rootDisk
  /\ UNCHANGED loadedSkill

-----------------------------------------------------------------------------
\* Reload, commit, rollback

Recovering(op) == [op EXCEPT !.pc = "rollback", !.failed = TRUE]

StagedReload ==
  /\ LifecycleAt("staged", {"Install", "Update", "Uninstall"})
  /\ Reload(rootDisk, Moved("commit"), Recovering(lifecycle))
  /\ UNCHANGED <<rootDisk, settled>>

\* commit_prepared_skill_apply, first half: the install record.
CommitRecord ==
  /\ LifecycleAt("commit", {"Install", "Update"})
  /\ \E t \in RecordWritten(Here.record, Whole(lifecycle.version)) :
       /\ Put(lifecycle, [Here EXCEPT !.record = t.value])
       /\ Faults(<<t>>)
       /\ lifecycle' = IF ~t.ok THEN [Recovering(lifecycle) EXCEPT !.torn = @ \/ IsTorn(<<t>>)]
                       ELSE IF lifecycle.action = "Install" THEN Committed(lifecycle)
                       ELSE Moved("discard")
  /\ UNCHANGED <<loadedSkill, settled>>

\* Second half of an update: the backup goes; if it does not, the previous
\* record comes back.
CommitDiscard ==
  /\ LifecycleAt("discard", {"Update"})
  /\ \E t \in Removed(lifecycle.backup) :
       IF t.ok
       THEN /\ lifecycle' = Committed(lifecycle)
            /\ Faults(<<t>>) /\ UNCHANGED rootDisk
       ELSE \E u \in RecordWritten(Here.record, lifecycle.before.record) :
              /\ Put(lifecycle, [Here EXCEPT !.record = u.value])
              /\ Faults(<<t, u>>)
              /\ lifecycle' = [Recovering(lifecycle) EXCEPT !.backup = t.value,
                                 !.torn = @ \/ IsTorn(<<t, u>>), !.uncertain = ~u.ok]
  /\ UNCHANGED <<loadedSkill, settled>>

\* commit_prepared_skill_uninstall: both records, then the backup.
CommitUninstall ==
  /\ LifecycleAt("commit", {"Uninstall"})
  /\ \E d \in Unlinked(Here.disabled), r \in Unlinked(Here.record), b \in Removed(lifecycle.backup) :
       /\ ~d.ok => r.ok /\ r.value = Nothing /\ b.ok
       /\ ~r.ok => b.ok
       /\ Faults(<<d, r, b>>)
       /\ IF d.ok /\ r.ok /\ b.ok
          THEN /\ Put(lifecycle, [Here EXCEPT !.record = Nothing, !.disabled = Nothing])
               /\ lifecycle' = Committed(lifecycle)
          ELSE IF b.ok
          THEN /\ Put(lifecycle, [Here EXCEPT !.disabled = d.value,
                                    !.record = IF d.ok THEN r.value ELSE Here.record])
               /\ lifecycle' = Recovering(lifecycle)
          ELSE /\ \E w \in Attempt :  \* the records are put back, or not
                    Put(lifecycle, IF w.ok THEN Here
                                   ELSE [Here EXCEPT !.record = Nothing, !.disabled = Nothing])
               /\ lifecycle' = [Recovering(lifecycle) EXCEPT !.backup = b.value, !.torn = @ \/ IsTorn(<<b>>)]
  /\ UNCHANGED <<loadedSkill, settled>>

\* rollback_prepared_skill_apply and rollback_prepared_skill_uninstall: the
\* staged package goes, the backup returns, and after an uninstall so do both
\* records.
RecordsForgotten(entry) == entry
RecordsRestored(entry) ==
  IF lifecycle.action = "Uninstall"
  THEN [entry EXCEPT !.record = lifecycle.before.record, !.disabled = lifecycle.before.disabled]
  ELSE entry

Rollback ==
  /\ LifecycleAt("rollback", {"Install", "Update", "Uninstall"})
  /\ \E t \in Removed(Here.package), u \in Attempt, w \in Attempt :
       /\ ~t.ok \/ ~Exists(lifecycle.backup) => u.ok
       /\ ~t.ok \/ ~u.ok \/ lifecycle.action # "Uninstall" => w.ok
       /\ Faults(<<t, u, w>>)
       /\ lifecycle' = [Moved("restore") EXCEPT !.uncertain = @ \/ ~t.ok \/ ~u.ok \/ ~w.ok,
                          !.torn = @ \/ IsTorn(<<t>>),
                          !.backup = IF t.ok /\ u.ok THEN Nothing ELSE @]
       /\ Put(lifecycle,
              IF ~t.ok THEN [Here EXCEPT !.package = t.value]
              ELSE IF ~u.ok THEN [Here EXCEPT !.package = Nothing]
              ELSE IF ~w.ok THEN [Here EXCEPT !.package = lifecycle.backup]
              ELSE RecordsRestored([Here EXCEPT !.package = lifecycle.backup]))
  /\ UNCHANGED <<loadedSkill, settled>>

RestoreReload ==
  /\ LifecycleAt("restore", {"Install", "Update", "Uninstall"})
  /\ Reload(rootDisk, Moved("done"), [Moved("done") EXCEPT !.uncertain = TRUE])
  /\ UNCHANGED <<rootDisk, settled>>

\* After the commit the new dependency manifest is read, stale dependencies are
\* cleaned up and the instance is resolved for the event; an error of these is
\* returned as it is, and nothing is rolled back.
Done ==
  /\ lifecycle.pc = "done"
  /\ \E t \in Attempt :
       /\ ~t.ok => lifecycle.committed
       /\ Faults(<<t>>)
       /\ Settle([lifecycle EXCEPT !.pc = "idle", !.failed = @ \/ ~t.ok])
  /\ UNCHANGED <<rootDisk, loadedSkill>>

\* The process stops; a new engine loads what is on disk.
Crash ==
  /\ lifecycle.pc # "idle"
  /\ \E load \in Loads(rootDisk) : loadedSkill' = load
  /\ lifecycle' = NoOp /\ settled' = NoOp
  /\ UNCHANGED <<rootDisk, fsFaults>>

LifecycleNext ==
  \/ \E plane \in Planes :
       \/ Mutate("Disable", plane) \/ Mutate("Enable", plane)
       \/ \E explicit \in SkillRoots \cup {"none"} :
            \/ PrepareUninstall(plane, explicit)
            \/ \E v \in PackageVersions : \/ PrepareInstall(plane, explicit, v)
                                   \/ \E replacing \in BOOLEAN : PrepareUpdate(plane, explicit, v, replacing)
  \/ MutateReload \/ PublishUpdate \/ StagedReload
  \/ CommitRecord \/ CommitDiscard \/ CommitUninstall
  \/ Rollback \/ RestoreReload \/ Done \/ Crash

-----------------------------------------------------------------------------
Files == {Nothing, Empty, Whole(0)} \cup {Whole(v) : v \in PackageVersions} \cup {TornPackage(Whole(v)) : v \in 0..MaxVersion}

\* The types of the disk, the loaded skill and the operation.
LifecycleTypeOK ==
  /\ rootDisk \in [SkillRoots -> [package : Files, record : Files, disabled : Files]]
  /\ loadedSkill \in [root : SkillRoots \cup {"none"}, package : Files, listed : SUBSET SkillRoots]
  /\ lifecycle.backup \in Files \cup {TornPackage(Empty)} /\ lifecycle.root \in SkillRoots
  /\ fsFaults \in Nat

\* What an operation answers is what it did.  A completed one, and one that
\* failed after its commit, leaves the whole new package with its record and
\* the engine reloaded from it, or no trace of an uninstalled skill; an
\* install, update or uninstall that failed before its commit, whose recovery
\* reports no failure and in which no step was left half done, leaves the root
\* as it found it.
AnswerIsTrue ==
  /\ lifecycle.pc = "idle" /\ (settled.committed \/ ~settled.failed) =>
       LET now == rootDisk[settled.root]
       IN CASE settled.action \in {"Install", "Update"} ->
                 /\ now.package = Whole(settled.version) /\ now.record = now.package
                 /\ loadedSkill \in Loads(rootDisk)
            [] settled.action = "Uninstall" ->
                 ~Exists(now.package) /\ ~Exists(now.record) /\ ~Exists(now.disabled)
            [] settled.action = "Disable" -> loadedSkill.root # settled.root
            [] OTHER -> TRUE
  /\ lifecycle.pc = "idle" /\ settled.failed /\ ~settled.committed
     /\ ~settled.uncertain /\ ~settled.torn => rootDisk[settled.root] = settled.before

\* Does not hold: a failed install, update or uninstall should leave the root as
\* it found it unless its recovery says otherwise, but an error after the commit
\* leaves the change in place.
FailedIsRolledBack ==
  lifecycle.pc = "idle" /\ settled.failed /\ ~settled.uncertain /\ ~settled.torn =>
    rootDisk[settled.root] = settled.before

\* Does not hold: a failed operation whose recovery reports no failure should
\* leave the package it found, but a backup half removed by the commit is put back.
RolledBackIsOld ==
  lifecycle.pc = "idle" /\ settled.failed /\ ~settled.committed /\ ~settled.uncertain
    /\ settled.action \in {"Update", "Uninstall"} =>
    rootDisk[settled.root].package = settled.before.package
=============================================================================
