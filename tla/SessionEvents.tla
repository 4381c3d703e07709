----------------------------- MODULE SessionEvents -----------------------------
(***************************************************************************)
(* The managed-session event center (managed_session_events.rs): session   *)
(* tokens, the bounded queue of coalesced events, and the wake callback    *)
(* the host registers, which one worker thread invokes outside every lock  *)
(* and retries after failures.  The state mutex and the retry slot's mutex *)
(* are never held together, so an invocation travels through three places: *)
(* the thread that scheduled it, the one-item slot, and the worker.        *)
(***************************************************************************)
EXTENDS Naturals, FiniteSets, Sequences, SequencesExt

CONSTANTS EventTokens,      \* session tokens
          EventKinds,       \* RuntimeManagedSessionEventKind
          MaxEventSessions, \* max_sessions
          Setters,          \* host threads that replace the callback or close
          MaxSequence,      \* bound: events published
          MaxGenerations,   \* bound: callbacks registered
          MaxCallbackFailures \* bound: invocations that fail

ASSUME EventsAssumption == /\ MaxEventSessions \in Nat \ {0} /\ MaxSequence \in Nat
                           /\ MaxGenerations \in Nat /\ MaxCallbackFailures \in Nat

VARIABLES
  registered,     \* registered_sessions
  events,         \* events: [token, kind, seq], oldest first
  sequence,       \* next_sequence
  epoch,          \* nonempty_epoch, 0 for none
  eventsClosed,   \* closed
  callback,       \* registration: generation (0: none) and last notified epoch
  generation,     \* next_callback_generation
  inflight,       \* scheduled and unfinished invocations
  handing,        \* invocations scheduled and not yet put in the slot
  slot,           \* pending of the retry center
  wakeWorker,     \* the worker thread: "idle", "check" or "invoke", and its item
  setter,         \* set_wake_callback and close calls
  callbackFailures \* bound: invocations that failed so far

eventsVars == <<registered, events, sequence, epoch, eventsClosed, callback, generation,
                inflight, handing, slot, wakeWorker, setter, callbackFailures>>

NoItem == [gen |-> 0, epoch |-> 0]
NoSetter == [pc |-> "idle", barrier |-> 0, installed |-> 0]

EventsInit ==
  /\ registered = {} /\ events = <<>> /\ sequence = 0 /\ epoch = 0
  /\ eventsClosed = FALSE
  /\ callback = [gen |-> 0, last |-> 0]
  /\ generation = 0
  /\ inflight = {} /\ handing = {} /\ slot = NoItem
  /\ wakeWorker = [pc |-> "idle", item |-> NoItem]
  /\ setter = [s \in Setters |-> NoSetter]
  /\ callbackFailures = 0

Capacity == MaxEventSessions * Cardinality(EventKinds)

-----------------------------------------------------------------------------
\* Tokens and events

register_session(t) ==
  /\ ~eventsClosed /\ t \notin registered
  /\ Cardinality(registered) < MaxEventSessions
  /\ registered' = registered \cup {t}
  /\ UNCHANGED <<events, sequence, epoch, eventsClosed, callback, generation, inflight,
                 handing, slot, wakeWorker, setter, callbackFailures>>

\* The epoch ends when the queue becomes empty.
EpochOf(queue) == IF queue = <<>> THEN 0 ELSE epoch

unregister_session(t) ==
  /\ t \in registered
  /\ registered' = registered \ {t}
  /\ \E queue \in {SelectSeq(events, LAMBDA e : e.token # t)} :
       events' = queue /\ epoch' = EpochOf(queue)
  /\ UNCHANGED <<sequence, eventsClosed, callback, generation, inflight, handing, slot,
                 wakeWorker, setter, callbackFailures>>

\* schedule_callback_locked: at most one invocation exists at a time.
Schedulable(reg, ep, flying, expected) ==
  /\ ep # 0 /\ reg.gen # 0
  /\ expected = 0 \/ expected = reg.gen
  /\ reg.last # ep
  /\ flying = {}

schedule_callback_locked(reg, ep, flying, expected) ==
  IF Schedulable(reg, ep, flying, expected)
  THEN LET item == [gen |-> reg.gen, epoch |-> ep]
       IN /\ callback' = [reg EXCEPT !.last = ep]
          /\ inflight' = flying \cup {item}
          /\ handing' = handing \cup {item}
  ELSE callback' = reg /\ inflight' = flying /\ UNCHANGED handing

PendingSlot(t, k) == \E i \in 1..Len(events) : events[i].token = t /\ events[i].kind = k

publish(t, k) ==
  /\ ~eventsClosed /\ t \in registered /\ sequence < MaxSequence
  /\ ~PendingSlot(t, k) /\ Len(events) < Capacity
  /\ sequence' = sequence + 1
  /\ events' = Append(events, [token |-> t, kind |-> k, seq |-> sequence'])
  /\ epoch' = IF events = <<>> THEN sequence' ELSE epoch
  /\ schedule_callback_locked(callback, epoch', inflight, 0)
  /\ UNCHANGED <<registered, eventsClosed, generation, slot, wakeWorker, setter,
                 callbackFailures>>

\* poll, and wait when it finds events: at most n of them leave the queue.
drain_events_locked ==
  /\ events # <<>>
  /\ \E n \in 1..Len(events) : \E queue \in {SubSeq(events, n + 1, Len(events))} :
       events' = queue /\ epoch' = EpochOf(queue)
  /\ UNCHANGED <<registered, sequence, eventsClosed, callback, generation, inflight,
                 handing, slot, wakeWorker, setter, callbackFailures>>

-----------------------------------------------------------------------------
\* The slot and the worker

\* enqueue asserts that the slot is empty; an item that failed waits out its
\* delay in the worker, after it left the slot.
enqueue ==
  /\ slot = NoItem
  /\ \E item \in handing : slot' = item /\ handing' = handing \ {item}
  /\ UNCHANGED <<registered, events, sequence, epoch, eventsClosed, callback, generation,
                 inflight, wakeWorker, setter, callbackFailures>>

wait_next_wake ==
  /\ wakeWorker.pc = "idle" /\ slot # NoItem
  /\ wakeWorker' = [pc |-> "check", item |-> slot]
  /\ slot' = NoItem
  /\ UNCHANGED <<registered, events, sequence, epoch, eventsClosed, callback, generation,
                 inflight, handing, setter, callbackFailures>>

Active == callback.gen = wakeWorker.item.gen /\ epoch = wakeWorker.item.epoch

FinishedWithoutCatchUp(item) ==
  /\ inflight' = inflight \ {item}
  /\ UNCHANGED <<callback, handing>>

\* finish_callback_invocation: an epoch that began meanwhile is caught up.
Finished(item) == schedule_callback_locked(callback, epoch, inflight \ {item}, item.gen)

retry_callback_invocation ==
  /\ wakeWorker.pc = "check"
  /\ IF Active
     THEN /\ wakeWorker' = [wakeWorker EXCEPT !.pc = "invoke"]
          /\ UNCHANGED <<callback, inflight, handing>>
     ELSE /\ wakeWorker' = [pc |-> "idle", item |-> NoItem]
          /\ Finished(wakeWorker.item)
  /\ UNCHANGED <<registered, events, sequence, epoch, eventsClosed, generation, slot,
                 setter, callbackFailures>>

\* The callback returned (or panicked), or reported a failure to be retried.
invoke_callback ==
  /\ wakeWorker.pc = "invoke"
  /\ \/ /\ Finished(wakeWorker.item)
        /\ UNCHANGED callbackFailures
     \/ /\ callbackFailures < MaxCallbackFailures
        /\ callbackFailures' = callbackFailures + 1
        /\ handing' = handing \cup {wakeWorker.item}
        /\ UNCHANGED <<callback, inflight>>
  /\ wakeWorker' = [pc |-> "idle", item |-> NoItem]
  /\ UNCHANGED <<registered, events, sequence, epoch, eventsClosed, generation, slot, setter>>

-----------------------------------------------------------------------------
\* Replacing the callback, and closing

\* The callback itself may not call this.  With `new` it installs the next
\* generation, otherwise it clears; then it waits for the retired ones.
set_wake_callback(s, new) ==
  /\ setter[s].pc = "idle"
  /\ new => ~eventsClosed /\ generation < MaxGenerations
  /\ new \/ callback.gen # 0
  /\ callback' = [gen |-> IF new THEN generation + 1 ELSE 0, last |-> 0]
  /\ generation' = IF new THEN generation + 1 ELSE generation
  /\ setter' = [setter EXCEPT ![s] = [pc |-> "waiting", barrier |-> generation,
                                      installed |-> IF new THEN generation + 1 ELSE 0]]
  /\ UNCHANGED <<registered, events, sequence, epoch, eventsClosed, inflight, handing,
                 slot, wakeWorker, callbackFailures>>

close_events(s) ==
  /\ setter[s].pc = "idle" /\ ~eventsClosed
  /\ eventsClosed' = TRUE
  /\ callback' = [gen |-> 0, last |-> 0]
  /\ setter' = [setter EXCEPT ![s] = [pc |-> "waiting", barrier |-> generation, installed |-> 0]]
  /\ UNCHANGED <<registered, events, sequence, epoch, generation, inflight, handing, slot,
                 wakeWorker, callbackFailures>>

QuiescentExceptOwn(barrier) == \A item \in inflight : item.gen >= barrier

\* ~has_inflight_callback_at_or_before
Quiescent(barrier) == \A item \in inflight : item.gen > barrier

\* callback_idle: the retired generations are quiet; a new one is notified of
\* events that are already queued.
SetterReturns(s) ==
  /\ setter[s].pc = "waiting" /\ Quiescent(setter[s].barrier)
  /\ IF setter[s].installed # 0
     THEN schedule_callback_locked(callback, epoch, inflight, setter[s].installed)
     ELSE UNCHANGED <<callback, inflight, handing>>
  /\ setter' = [setter EXCEPT ![s] = NoSetter]
  /\ UNCHANGED <<registered, events, sequence, epoch, eventsClosed, generation, slot,
                 wakeWorker, callbackFailures>>

-----------------------------------------------------------------------------
EventsNext ==
  \/ \E t \in EventTokens : register_session(t) \/ unregister_session(t)
  \/ \E t \in EventTokens, k \in EventKinds : publish(t, k)
  \/ drain_events_locked
  \/ enqueue \/ wait_next_wake \/ retry_callback_invocation \/ invoke_callback
  \/ \E s \in Setters : \/ \E new \in BOOLEAN : set_wake_callback(s, new)
                        \/ close_events(s) \/ SetterReturns(s)

\* Calls that hold no lock go on, the worker thread runs, the callback returns.
EventsFairness ==
  /\ WF_eventsVars(enqueue) /\ WF_eventsVars(wait_next_wake)
  /\ WF_eventsVars(retry_callback_invocation) /\ WF_eventsVars(invoke_callback)
  /\ \A s \in Setters : WF_eventsVars(SetterReturns(s))

-----------------------------------------------------------------------------
\* The variables keep their types.
EventsTypeOK ==
  /\ registered \subseteq EventTokens
  /\ sequence \in 0..MaxSequence /\ epoch \in 0..MaxSequence
  /\ generation \in 0..MaxGenerations /\ callback.gen \in 0..generation
  /\ wakeWorker.pc \in {"idle", "check", "invoke"}
  /\ \A s \in Setters : setter[s].pc \in {"idle", "waiting"}

\* The assertion of the retry slot can never fail, because the threads that
\* scheduled, the slot and the worker hold at most one invocation between
\* them; the host may free a callback once replacing it has returned, since a
\* running callback is the registered one or somebody still waits for it; and
\* the queue holds each slot once, only for registered sessions, in order.
WakeSafe ==
  /\ Cardinality(handing) + (IF slot = NoItem THEN 0 ELSE 1)
       + (IF wakeWorker.pc = "idle" THEN 0 ELSE 1) = Cardinality(inflight)
  /\ Cardinality(inflight) <= 1
  /\ wakeWorker.pc = "invoke" =>
       \/ callback.gen = wakeWorker.item.gen
       \/ \E s \in Setters : setter[s].pc = "waiting" /\ setter[s].barrier >= wakeWorker.item.gen
  /\ \A i \in 1..Len(events) :
       /\ events[i].token \in registered
       /\ \A j \in 1..(i - 1) : /\ events[j].seq < events[i].seq
                                /\ <<events[j].token, events[j].kind>>
                                     # <<events[i].token, events[i].kind>>
  /\ (epoch = 0) = (events = <<>>)

\* A wake is never lost: queued events and a registered callback lead to a
\* completed invocation for the current epoch (or to an empty queue, or to
\* another callback), through failures, replaced callbacks and epochs that
\* begin while the callback runs; and every replacement returns.
WakeReaches ==
  /\ []<>(epoch # 0 /\ callback.gen # 0 => callback.last = epoch /\ inflight = {})
  /\ \A s \in Setters : []<>(setter[s].pc = "idle")
=============================================================================
