---------------------------- MODULE ProcessSession ----------------------------
(***************************************************************************)
(* A managed child process: launch, output pipe, observer, teardown by two *)
(* independent owners (the Lua userdata and the engine's session service), *)
(* and the process-wide reaper that inherits children whose teardown       *)
(* failed.  Sessions are launched one after the other and numbered; only   *)
(* the newest has a live ManagedProcessSessionState, older children may    *)
(* still be with the reaper.  One output stream is modelled; the second    *)
(* one is handled by the same code in the same order.                      *)
(*                                                                         *)
(* Locks: the child mutex is held for the whole of terminate-and-wait; the *)
(* reader-slot mutex is held while a teardown waits for the reader thread; *)
(* the output-change mutex is held by read() while it probes the slot      *)
(* ("probing"), which is what blocks the reader thread's notification.     *)
(***************************************************************************)
EXTENDS Naturals, FiniteSets

CONSTANTS MaxLaunches,     \* bound: launches attempted
          ReaperCapacity,  \* DETACHED_CHILD_REAPER_CAPACITY
          MaxOutput,       \* bound: bytes one child writes
          BufferLimit      \* buffer_limit_bytes

ASSUME ProcessAssumption == /\ MaxLaunches \in Nat /\ ReaperCapacity \in Nat
                            /\ MaxOutput \in Nat /\ BufferLimit \in Nat \ {0}

VARIABLES
  launched,   \* number of launch attempts so far; the newest session's id
  child,      \* OS view of every direct child
  holder,     \* who owns the Child handle
  reserved,   \* DetachedChildReaper.reserved
  keepalive,  \* final_reaper_keepalive of every launch
  cleaned,    \* launches whose cleanup handle has run
  session,    \* the newest ManagedProcessSessionState
  childLock,  \* holder of the child mutex, or "free"
  slotLock,   \* holder of the reader-slot mutex, or "free"
  reader,     \* the pipe reader thread
  output,     \* the bounded output buffer and its counters
  readCall,   \* the Lua caller inside read()
  teardown    \* teardown call of each owner

processVars == <<launched, child, holder, reserved, keepalive, cleaned, session,
                 childLock, slotLock, reader, output, readCall, teardown>>

Launches == 1..MaxLaunches
Owners == {"userdata", "service"}
ChildStates == {"none", "running", "dying", "zombie", "reaped"}

NoSession == [alive |-> FALSE, permit |-> FALSE, closed |-> FALSE, stdin |-> FALSE,
              terminated |-> FALSE, final |-> FALSE, gate |-> FALSE, watched |-> FALSE,
              told |-> FALSE, slot |-> FALSE, refs |-> {}, serviced |-> FALSE,
              dropping |-> FALSE, retry |-> FALSE]
NoOutput == [buffered |-> 0, total |-> 0, dropped |-> 0, delivered |-> 0]

ProcessInit ==
  /\ launched = 0
  /\ child = [i \in Launches |-> "none"]
  /\ holder = [i \in Launches |-> "nobody"]
  /\ reserved = 0
  /\ keepalive = [i \in Launches |-> "none"]
  /\ cleaned = {}
  /\ session = NoSession
  /\ childLock = "free" /\ slotLock = "free"
  /\ reader = "absent"
  /\ output = NoOutput
  /\ readCall = "idle"
  /\ teardown = [o \in Owners |-> "idle"]

-----------------------------------------------------------------------------
\* Launch

\* One slot too many.
ReserveOneMore == reserved <= ReaperCapacity

reserve_detached_child_reaper_slot == reserved < ReaperCapacity

CanLaunch == /\ launched < MaxLaunches
             /\ ~session.alive
             /\ \A o \in Owners : teardown[o] = "idle"
             /\ \A i \in Launches : holder[i] # "oneshot"

\* No slot, or the spawn itself fails: the permit's Drop gives the slot back.
LaunchRefused ==
  /\ CanLaunch
  /\ launched' = launched + 1
  /\ UNCHANGED <<child, holder, reserved, keepalive, cleaned, session, childLock,
                 slotLock, reader, output, readCall, teardown>>

\* The child runs but its process tree cannot be attached: kill and wait, and
\* hand over to the reaper what does not end in time.
terminate_spawned_child_after_attach_failure ==
  /\ CanLaunch /\ reserve_detached_child_reaper_slot
  /\ launched' = launched + 1
  /\ \/ /\ child' = [child EXCEPT ![launched'] = "reaped"]
        /\ keepalive' = [keepalive EXCEPT ![launched'] = "dropped"]
        /\ UNCHANGED <<holder, reserved>>
     \/ \E now \in {"running", "dying"} :
        /\ child' = [child EXCEPT ![launched'] = now]
        /\ holder' = [holder EXCEPT ![launched'] = "reaper"]
        /\ keepalive' = [keepalive EXCEPT ![launched'] = "handed"]
        /\ reserved' = reserved + 1
  /\ UNCHANGED <<cleaned, session, childLock, slotLock, reader, output, readCall, teardown>>

\* A launch that gets its state object.  When the reader thread or the exit
\* watcher cannot start, rollback_managed_process_launch tears it down at once
\* (the launcher then drops the only reference).  Otherwise the userdata owns
\* it and, for managed sessions, the service too, with a cleanup handle.
launch_with_attacher_and_observer ==
  /\ CanLaunch /\ reserve_detached_child_reaper_slot
  /\ launched' = launched + 1
  /\ child' = [child EXCEPT ![launched'] = "running"]
  /\ holder' = [holder EXCEPT ![launched'] = "session"]
  /\ reserved' = reserved + 1
  /\ \E serviced \in BOOLEAN, started \in BOOLEAN :
     /\ keepalive' = [keepalive EXCEPT ![launched'] = IF serviced THEN "held" ELSE "none"]
     /\ session' = [NoSession EXCEPT
          !.alive = TRUE, !.permit = TRUE, !.stdin = started, !.closed = ~started,
          !.gate = serviced /\ started, !.watched = serviced /\ started, !.slot = started,
          !.serviced = serviced /\ started, !.dropping = ~started,
          !.refs = IF serviced /\ started THEN Owners ELSE {"userdata"}]
     /\ reader' = IF started THEN "reading" ELSE "absent"
     /\ teardown' = IF started THEN teardown ELSE [teardown EXCEPT !["userdata"] = "kill"]
  /\ output' = NoOutput
  /\ UNCHANGED <<cleaned, childLock, slotLock, readCall>>

\* A one-shot process (runlua, exec, popen) owns its child itself.
spawn_with_keepalive ==
  /\ CanLaunch /\ reserve_detached_child_reaper_slot
  /\ launched' = launched + 1
  /\ child' = [child EXCEPT ![launched'] = "running"]
  /\ holder' = [holder EXCEPT ![launched'] = "oneshot"]
  /\ reserved' = reserved + 1
  /\ UNCHANGED <<keepalive, cleaned, session, childLock, slotLock, reader, output,
                 readCall, teardown>>

\* Its end: the tree is killed, the child waited for; unless the child is
\* reaped and the tree is empty, permit and child go to the reaper.
finalize_one_shot_process_tree(i) ==
  /\ holder[i] = "oneshot"
  /\ \/ /\ child' = [child EXCEPT ![i] = "reaped"]
        /\ holder' = [holder EXCEPT ![i] = "nobody"]
        /\ reserved' = reserved - 1
     \/ /\ child' = [child EXCEPT ![i] = IF @ = "running" THEN "dying" ELSE @]
        /\ holder' = [holder EXCEPT ![i] = "reaper"]
        /\ UNCHANGED reserved
  /\ UNCHANGED <<launched, keepalive, cleaned, session, childLock, slotLock, reader,
                 output, readCall, teardown>>

-----------------------------------------------------------------------------
\* The child, its output and the reader thread

ChildExits(i) ==
  /\ child[i] \in {"running", "dying"}
  /\ child' = [child EXCEPT ![i] = "zombie"]
  /\ UNCHANGED <<launched, holder, reserved, keepalive, cleaned, session, childLock,
                 slotLock, reader, output, readCall, teardown>>

\* append_bounded: the newest BufferLimit bytes stay, the rest is counted.
AppendedForgetting(out, n) ==
  LET kept == IF out.buffered + n > BufferLimit THEN BufferLimit ELSE out.buffered + n
      lost == IF n >= BufferLimit THEN n - BufferLimit
              ELSE IF out.buffered + n > BufferLimit THEN out.buffered + n - BufferLimit ELSE 0
  IN [out EXCEPT !.total = @ + n, !.buffered = kept, !.dropped = @ + lost]

Appended(out, n) ==
  LET kept == IF n >= BufferLimit THEN BufferLimit
              ELSE IF out.buffered + n > BufferLimit THEN BufferLimit ELSE out.buffered + n
      lost == IF n >= BufferLimit THEN out.buffered + (n - BufferLimit)
              ELSE IF out.buffered + n > BufferLimit THEN out.buffered + n - BufferLimit ELSE 0
  IN [out EXCEPT !.total = @ + n, !.buffered = kept, !.dropped = @ + lost]

ReaderChunk ==
  /\ reader = "reading" /\ launched > 0 /\ child[launched] = "running"
  /\ \E n \in 1..(MaxOutput - output.total) : output' = Appended(output, n)
  /\ reader' = "chunk"
  /\ UNCHANGED <<launched, child, holder, reserved, keepalive, cleaned, session,
                 childLock, slotLock, readCall, teardown>>

ReaderEof ==
  /\ reader = "reading" /\ child[launched] \in {"zombie", "reaped"}
  /\ reader' = "eof"
  /\ UNCHANGED <<launched, child, holder, reserved, keepalive, cleaned, session,
                 childLock, slotLock, output, readCall, teardown>>

\* notify_output_change needs the output-change mutex; after the last
\* notification the reader sends on done_tx.
notify_output_change ==
  /\ reader \in {"chunk", "eof"} /\ readCall # "probing"
  /\ reader' = IF reader = "chunk" THEN "reading" ELSE "done"
  /\ UNCHANGED <<launched, child, holder, reserved, keepalive, cleaned, session,
                 childLock, slotLock, output, readCall, teardown>>

\* run_live_child_watcher: one probe of the watched session.
run_live_child_watcher ==
  /\ session.watched
  /\ \/ ~session.gate /\ session' = [session EXCEPT !.watched = FALSE]
     \/ /\ session.gate /\ session.alive /\ childLock = "free"
        /\ session.final \/ child[launched] = "zombie"
        /\ session' = [session EXCEPT !.watched = FALSE, !.told = TRUE]
  /\ UNCHANGED <<launched, child, holder, reserved, keepalive, cleaned, childLock,
                 slotLock, reader, output, readCall, teardown>>

-----------------------------------------------------------------------------
\* read()

MaxRead == 1   \* bound: bytes one read may take (max_bytes)

Drained(out) ==
  LET n == IF out.buffered > MaxRead THEN MaxRead ELSE out.buffered
  IN [out EXCEPT !.buffered = @ - n, !.delivered = @ + n]

\* Entry, and every wake-up of the condition variable, re-check the buffer
\* while holding the output-change mutex.
ReadCheck ==
  /\ readCall \in {"idle", "waiting"}
  /\ session.alive /\ "userdata" \in session.refs /\ teardown["userdata"] = "idle"
  /\ IF output.buffered > 0
     THEN output' = Drained(output) /\ readCall' = "idle"
     ELSE UNCHANGED output /\ readCall' = "probing"
  /\ UNCHANGED <<launched, child, holder, reserved, keepalive, cleaned, session,
                 childLock, slotLock, reader, teardown>>

\* output_readers_drained takes the slot mutex; the loop ends when the reader
\* is done or the deadline has passed, and sleeps otherwise.
ReadProbe ==
  /\ readCall = "probing" /\ slotLock = "free"
  /\ \/ readCall' = "idle" /\ output' = Drained(output)
     \/ /\ session.slot /\ reader # "done" /\ reader # "eof"
        /\ readCall' = "waiting" /\ UNCHANGED output
  /\ UNCHANGED <<launched, child, holder, reserved, keepalive, cleaned, session,
                 childLock, slotLock, reader, teardown>>

-----------------------------------------------------------------------------
\* close() and kill(), by either owner

mark_closed(s) == [s EXCEPT !.closed = TRUE, !.gate = FALSE, !.stdin = FALSE]

\* The userdata's close() or kill(), its Drop (which makes one last attempt),
\* and the service's teardown of a rolled-back, retired or retried record.
KillBegin(o) ==
  /\ teardown[o] = "idle" /\ session.alive /\ o \in session.refs
  /\ o = "userdata" => readCall = "idle"
  /\ \E drop \in IF o = "userdata" THEN BOOLEAN ELSE {FALSE} :
       session' = [mark_closed(session) EXCEPT !.dropping = drop, !.retry = @ /\ o # "service"]
  /\ teardown' = [teardown EXCEPT ![o] = "kill"]
  /\ UNCHANGED <<launched, child, holder, reserved, keepalive, cleaned, childLock,
                 slotLock, reader, output, readCall>>

\* terminate_process_tree_once under the child mutex; a cached final status
\* ends the kill without waiting again.
KillTerminate(o) ==
  /\ teardown[o] = "kill" /\ childLock = "free"
  /\ \/ /\ ~session.terminated
        /\ teardown' = [teardown EXCEPT ![o] = "failed"]
        /\ UNCHANGED <<child, session, childLock>>
     \/ /\ session' = [session EXCEPT !.terminated = TRUE]
        /\ child' = IF ~session.terminated /\ child[launched] = "running"
                    THEN [child EXCEPT ![launched] = "dying"] ELSE child
        /\ teardown' = [teardown EXCEPT ![o] = IF session.final THEN "join" ELSE "wait"]
        /\ childLock' = IF session.final THEN "free" ELSE o
  /\ UNCHANGED <<launched, holder, reserved, keepalive, cleaned, slotLock, reader,
                 output, readCall>>

KillWait(o) ==
  /\ teardown[o] = "wait"
  /\ childLock' = "free"
  /\ \/ /\ child[launched] = "zombie"
        /\ child' = [child EXCEPT ![launched] = "reaped"]
        /\ session' = [session EXCEPT !.final = TRUE]
        /\ teardown' = [teardown EXCEPT ![o] = "release"]
     \/ /\ child[launched] # "zombie"
        /\ teardown' = [teardown EXCEPT ![o] = "failed"]
        /\ UNCHANGED <<child, session>>
  /\ UNCHANGED <<launched, holder, reserved, keepalive, cleaned, slotLock, reader,
                 output, readCall>>

\* The permit and the keepalives go back after the child mutex is released.
ReleasedKeepingPermit(s) ==
  /\ session' = s
  /\ reserved' = IF s.permit THEN reserved - 1 ELSE reserved
  /\ keepalive' = [keepalive EXCEPT ![launched] = IF @ = "held" THEN "dropped" ELSE @]
  /\ holder' = [holder EXCEPT ![launched] = "nobody"]

Released(s) ==
  /\ session' = [s EXCEPT !.permit = FALSE]
  /\ reserved' = IF s.permit THEN reserved - 1 ELSE reserved
  /\ keepalive' = [keepalive EXCEPT ![launched] = IF @ = "held" THEN "dropped" ELSE @]
  /\ holder' = [holder EXCEPT ![launched] = "nobody"]

KillRelease(o) ==
  /\ teardown[o] = "release"
  /\ Released(session)
  /\ teardown' = [teardown EXCEPT ![o] = "join"]
  /\ UNCHANGED <<launched, child, cleaned, childLock, slotLock, reader, output, readCall>>

\* join_one_reader: wait on done_rx with the slot mutex held, for at most
\* DEFAULT_SESSION_CLOSE_TIMEOUT_MS.
JoinBegin(o) ==
  /\ teardown[o] = "join" /\ slotLock = "free"
  /\ IF session.slot
     THEN slotLock' = o /\ teardown' = [teardown EXCEPT ![o] = "joining"]
     ELSE UNCHANGED slotLock /\ teardown' = [teardown EXCEPT ![o] = "done"]
  /\ UNCHANGED <<launched, child, holder, reserved, keepalive, cleaned, session,
                 childLock, reader, output, readCall>>

JoinDone(o) ==
  /\ teardown[o] = "joining" /\ reader = "done"
  /\ slotLock' = "free"
  /\ session' = [session EXCEPT !.slot = FALSE]
  /\ teardown' = [teardown EXCEPT ![o] = "done"]
  /\ UNCHANGED <<launched, child, holder, reserved, keepalive, cleaned, childLock,
                 reader, output, readCall>>

JoinNeverTimesOut(o) == FALSE

JoinTimesOut(o) ==
  /\ teardown[o] = "joining" /\ reader # "done"
  /\ slotLock' = "free"
  /\ teardown' = [teardown EXCEPT ![o] = "failed"]
  /\ UNCHANGED <<launched, child, holder, reserved, keepalive, cleaned, session,
                 childLock, reader, output, readCall>>

SucceededAnyhow(o) == teardown[o] \in {"done", "failed"}

Succeeded(o) == teardown[o] = "done"

\* The owner sees the outcome.  Success runs the cleanup handle (once), which
\* unregisters the session, so the service's reference goes too unless the
\* service is itself tearing the detached record down.  A failed service keeps
\* the record and queues a retry; a userdata whose last attempt failed asks the
\* service for one while the cleanup is still pending.
TeardownEnds(o) ==
  /\ teardown[o] \in {"done", "failed"}
  /\ teardown' = [teardown EXCEPT ![o] = "idle"]
  /\ LET ok == Succeeded(o)
         gone == (IF o = "userdata" /\ session.dropping THEN {"userdata"} ELSE {})
                 \cup (IF ok /\ (o = "service" \/ teardown["service"] = "idle")
                       THEN {"service"} ELSE {})
         asks == ~ok /\ session.serviced /\ launched \notin cleaned
                 /\ (o = "service" \/ session.dropping)
     IN /\ cleaned' = IF ok /\ session.serviced THEN cleaned \cup {launched} ELSE cleaned
        /\ session' = [session EXCEPT !.refs = @ \ gone, !.retry = @ \/ asks]
  /\ UNCHANGED <<launched, child, holder, reserved, keepalive, childLock, slotLock,
                 reader, output, readCall>>

\* cleanup_on_drop: the last reference is gone.  The tree is killed and waited
\* for once more; if that fails the child, the permit, the keepalives and the
\* tree guard move to the reaper together.
cleanup_on_drop ==
  /\ session.alive /\ session.refs = {}
  /\ \A o \in Owners : teardown[o] = "idle"
  /\ \/ /\ session.final
        /\ session' = NoSession
        /\ UNCHANGED <<child, holder, reserved, keepalive>>
     \/ /\ ~session.final /\ child[launched] \in {"running", "dying", "zombie"}
        /\ child' = [child EXCEPT ![launched] = "reaped"]
        /\ holder' = [holder EXCEPT ![launched] = "nobody"]
        /\ reserved' = reserved - 1
        /\ keepalive' = [keepalive EXCEPT ![launched] = IF @ = "held" THEN "dropped" ELSE @]
        /\ session' = NoSession
     \/ /\ ~session.final /\ child[launched] \in {"running", "dying", "zombie"}
        /\ \E now \in {child[launched], IF child[launched] = "running" THEN "dying"
                                        ELSE child[launched]} :
             child' = [child EXCEPT ![launched] = now]
        /\ holder' = [holder EXCEPT ![launched] = "reaper"]
        /\ keepalive' = [keepalive EXCEPT ![launched] = IF @ = "held" THEN "handed" ELSE @]
        /\ session' = NoSession
        /\ UNCHANGED reserved
  /\ reader' = "absent"
  /\ UNCHANGED <<launched, cleaned, childLock, slotLock, output, readCall, teardown>>

\* run_detached_child_reaper: one exited child; dropping its record runs the
\* keepalive, which runs the cleanup handle.
run_detached_child_reaper(i) ==
  /\ holder[i] = "reaper" /\ child[i] = "zombie"
  /\ child' = [child EXCEPT ![i] = "reaped"]
  /\ holder' = [holder EXCEPT ![i] = "nobody"]
  /\ reserved' = reserved - 1
  /\ keepalive' = [keepalive EXCEPT ![i] = IF @ = "handed" THEN "ran" ELSE @]
  /\ cleaned' = IF keepalive[i] = "handed" THEN cleaned \cup {i} ELSE cleaned
  /\ UNCHANGED <<launched, session, childLock, slotLock, reader, output, readCall, teardown>>

-----------------------------------------------------------------------------
TeardownStep(o) == \/ KillTerminate(o) \/ KillWait(o) \/ KillRelease(o)
                   \/ JoinBegin(o) \/ JoinDone(o) \/ JoinTimesOut(o) \/ TeardownEnds(o)

ProcessNext ==
  \/ LaunchRefused \/ terminate_spawned_child_after_attach_failure
  \/ launch_with_attacher_and_observer \/ spawn_with_keepalive
  \/ ReaderChunk \/ ReaderEof \/ notify_output_change
  \/ run_live_child_watcher
  \/ ReadCheck \/ ReadProbe
  \/ cleanup_on_drop
  \/ \E o \in Owners : KillBegin(o) \/ TeardownStep(o)
  \/ \E i \in Launches : \/ ChildExits(i) \/ finalize_one_shot_process_tree(i)
                           \/ run_detached_child_reaper(i)

\* The threads keep running, a killed child is ended by the kernel, timers
\* fire, mutexes are not starved and the service's worker retries what failed.
ProcessFairness ==
  /\ WF_processVars(ReaderEof) /\ WF_processVars(notify_output_change)
  /\ SF_processVars(ReadProbe)
  /\ WF_processVars(run_live_child_watcher) /\ WF_processVars(cleanup_on_drop)
  /\ WF_processVars(session.retry /\ KillBegin("service"))
  /\ \A o \in Owners : SF_processVars(TeardownStep(o))
  /\ \A i \in Launches : /\ WF_processVars(child[i] = "dying" /\ ChildExits(i))
                         /\ WF_processVars(run_detached_child_reaper(i))

ProcessSpec == ProcessInit /\ [][ProcessNext]_processVars /\ ProcessFairness
-----------------------------------------------------------------------------
\* The variables keep their types.
ProcessTypeOK ==
  /\ launched \in 0..MaxLaunches
  /\ child \in [Launches -> ChildStates]
  /\ holder \in [Launches -> {"nobody", "session", "oneshot", "reaper"}]
  /\ reserved \in 0..ReaperCapacity
  /\ keepalive \in [Launches -> {"none", "held", "handed", "ran", "dropped"}]
  /\ cleaned \subseteq Launches
  /\ session.refs \subseteq Owners
  /\ childLock \in Owners \cup {"free"} /\ slotLock \in Owners \cup {"free"}
  /\ reader \in {"absent", "reading", "chunk", "eof", "done"}
  /\ readCall \in {"idle", "probing", "waiting"}
  /\ teardown \in [Owners -> {"idle", "kill", "wait", "release", "join", "joining",
                              "done", "failed"}]

\* No child is lost: a spawned child that has not been waited for belongs to
\* the live session or to the reaper, and each of them holds one of the
\* reaper's reserved slots for it, so the hand-over can never be refused.
ChildrenOwned ==
  /\ \A i \in Launches : child[i] \in {"running", "dying", "zombie"} =>
       \/ holder[i] \in {"oneshot", "reaper"}
       \/ holder[i] = "session" /\ i = launched /\ session.alive /\ session.permit
  /\ reserved = Cardinality({i \in Launches : holder[i] \in {"oneshot", "reaper"}})
                + (IF session.permit THEN 1 ELSE 0)

\* The cleanup handle (which deletes the package snapshot the child runs from)
\* runs only after the direct child has been waited for, whichever of the
\* userdata, the service and the reaper runs it.
CleanedAfterExit == \A i \in cleaned : child[i] = "reaped"

\* Every byte a child wrote is buffered, was delivered by read() or was
\* counted as dropped, and the buffer keeps its limit.
OutputAccounted ==
  /\ output.total = output.buffered + output.dropped + output.delivered
  /\ output.buffered <= BufferLimit

\* Teardown calls and the reader thread cannot block each other for good,
\* although a read() holding the output-change mutex, a teardown holding the
\* reader slot and the reader thread wait in a circle.
TeardownReturns == \A o \in Owners : []<>(teardown[o] = "idle")
=============================================================================
