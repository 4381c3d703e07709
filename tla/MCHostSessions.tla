--------------------------- MODULE MCHostSessions ---------------------------
(***************************************************************************)
(* The instance of the host-side components that own processes and package *)
(* files: live process sessions and their reaper, managed session          *)
(* services, managed session events, package snapshots, the configuration  *)
(* store and its event queue, managed environments and one-shot commands.  *)
(* The components share no state, so the instance explores them one at a   *)
(* time: part says which one moves, the others stay in their initial       *)
(* state.                                                                  *)
(***************************************************************************)
EXTENDS ProcessSession, RuntimeServices, SessionEvents, PackageSnapshot,
        ConfigStore, ManagedEnvironment, OneShotExec

VARIABLE part    \* the component this behaviour explores

Components == {"process", "services", "events", "snapshot", "config", "queue",
               "environment", "exec"}

\* A package with a required key and a validator that refuses one combination,
\* and a later version of it that drops a key and accepts no stored text.
Wide == [declared |-> {"k", "l"}, accepts |-> [k \in ConfigKeys |-> {"x"}],
         required |-> {"k"}, default |-> [k \in ConfigKeys |-> Unset],
         validator |-> TRUE, rejects |-> {[k |-> "x", l |-> "x"]}]
Narrow == [declared |-> {"k"}, accepts |-> [k \in ConfigKeys |-> {}],
           required |-> {"k"},
           default |-> [k \in ConfigKeys |-> IF k = "k" THEN "x" ELSE Unset],
           validator |-> FALSE, rejects |-> {}]
MCSchemas == {Wide, Narrow}

HostInit ==
  /\ part \in Components
  /\ ProcessInit /\ ServicesInit /\ EventsInit
  /\ SnapshotInit /\ ConfigInit /\ EventQueueInit /\ EnvInit /\ ExecInit
  /\ lockfile = 1

HostNext ==
  \/ /\ part = "process" /\ ProcessNext
     /\ UNCHANGED <<part, servicesVars, eventsVars, snapshotVars, configVars,
                    eventQueueVars, envVars, execVars>>
  \/ /\ part = "services" /\ ServicesNext
     /\ UNCHANGED <<part, processVars, eventsVars, snapshotVars, configVars,
                    eventQueueVars, envVars, execVars>>
  \/ /\ part = "events" /\ EventsNext
     /\ UNCHANGED <<part, processVars, servicesVars, snapshotVars, configVars,
                    eventQueueVars, envVars, execVars>>
  \/ /\ part = "snapshot" /\ SnapshotNext
     /\ UNCHANGED <<part, processVars, servicesVars, eventsVars, configVars,
                    eventQueueVars, envVars, execVars>>
  \/ /\ part = "config" /\ ConfigNext
     /\ UNCHANGED <<part, processVars, servicesVars, eventsVars, snapshotVars,
                    eventQueueVars, envVars, execVars>>
  \/ /\ part = "queue" /\ EventQueueNext
     /\ UNCHANGED <<part, processVars, servicesVars, eventsVars, snapshotVars,
                    configVars, envVars, execVars>>
  \/ /\ part = "environment" /\ EnvNext
     /\ UNCHANGED <<part, processVars, servicesVars, eventsVars, snapshotVars,
                    configVars, eventQueueVars, execVars>>
  \/ /\ part = "exec" /\ ExecNext
     /\ UNCHANGED <<part, processVars, servicesVars, eventsVars, snapshotVars,
                    configVars, eventQueueVars, envVars>>

hostVars == <<part, processVars, servicesVars, eventsVars, snapshotVars, configVars,
              eventQueueVars, envVars, execVars>>

HostSpec == HostInit /\ [][HostNext]_hostVars

-----------------------------------------------------------------------------
\* The state of every component keeps its type.
HostTypeOK ==
  /\ part \in Components
  /\ part = "process" => ProcessTypeOK
  /\ part = "services" => ServicesTypeOK
  /\ part = "events" => EventsTypeOK
  /\ part = "snapshot" => SnapshotTypeOK
  /\ part = "config" => ConfigTypeOK
  /\ part = "queue" => EventQueueTypeOK
  /\ part = "environment" => EnvTypeOK
  /\ part = "exec" => ExecTypeOK

\* Sessions: every spawned child has an owner with a reaper slot and its files
\* are removed only after it was waited for, every output byte is accounted
\* for, no managed session escapes the registry's limit or its retries, and a
\* host may free a callback once replacing it returned; a one-shot command's
\* answer says how its process tree ended and loses no output unannounced.
SessionsSound ==
  /\ part = "process" => ChildrenOwned /\ CleanedAfterExit /\ OutputAccounted
  /\ part = "services" => SessionsAccounted
  /\ part = "events" => WakeSafe
  /\ part = "exec" => ExecAnswerTrue

\* Package files: every directory the runtime created has an owner with a
\* cleanup slot, a leased environment is never replaced and a ready one was
\* built from the planned lockfile, and no configuration snapshot is ahead of
\* the file or reports a package complete that its readers refuse, and a host
\* that polls configuration events misses none unannounced.
PackagesSound ==
  /\ part = "snapshot" => SnapshotsOwned
  /\ part = "config" => ConfigAgrees
  /\ part = "queue" => NothingMissedSilently
  /\ part = "environment" => EnvironmentsSound

\* What somebody else wrote is never lost: a removal deletes only the object
\* whose identity was recorded, and replacing the configuration file keeps
\* every key another engine committed.
NothingForeignLost ==
  [][ /\ part = "snapshot" => KeepsForeign
      /\ part = "config" => KeepsUpdates ]_hostVars

\* Under the fairness of each component's own threads: teardowns return, the
\* sessions of a retired owner end, a wake reaches its callback, dropped
\* snapshots and replaced backups are removed, configuration snapshots catch
\* up with the file, and one-shot commands are answered.
HostWorkEnds ==
  /\ part = "process" /\ ProcessFairness => TeardownReturns
  /\ part = "services" /\ ServicesFairness => RetirementCompletes
  /\ part = "events" /\ EventsFairness => WakeReaches
  /\ part = "snapshot" /\ SnapshotFairness => SnapshotsRemoved
  /\ part = "config" /\ ConfigFairness => CachesConverge
  /\ part = "environment" /\ EnvFairness => BackupsRemoved
  /\ part = "exec" /\ ExecFairness => ExecReturns
=============================================================================
