----------------------------- MODULE FfiEngines -----------------------------
(***************************************************************************)
(* The engine handles of the C ABI, src/src/ffi.rs (JSON surface) and      *)
(* src/src/ffi_standard.rs (standard surface), and the callbacks the host  *)
(* registers in src/src/host/callbacks.rs and src/src/host/database.rs.    *)
(*                                                                         *)
(* An exported call finds the engine's handle in the process registry,     *)
(* notes the engine among those its thread is inside, locks the handle and *)
(* runs.  While it runs, the engine may call back into the host, and the   *)
(* callback may call any exported function again, on the same thread.      *)
(* Freeing an engine removes it from the registry and waits for the handle *)
(* before taking the engine out of it.                                     *)
(*                                                                         *)
(* A thread is a stack of frames, exported calls and host callbacks in     *)
(* turn.  The exported functions are grouped by what distinguishes their   *)
(* control: whether they take the engine's lock, and which callbacks the   *)
(* engine may make on their behalf.                                        *)
(***************************************************************************)
EXTENDS Integers, Sequences, FiniteSets

CONSTANTS
    FfiThreads,       \* host threads
    MaxEngines,       \* bound: engines ever created
    MaxCallbacks,     \* bound: distinct host callbacks
    MaxFrames         \* bound: nesting of calls and callbacks on a thread

VARIABLES
    handles,       \* engine id -> its slot
    holder,        \* engine id -> the thread that holds its lock
    stack,         \* thread -> the frames it is inside, innermost last
    registered     \* callback kind -> the registered callback, 0 for none

engineVars == <<handles, holder, stack, registered>>

EngineIds == 1 .. MaxEngines

\* "process": host tools, models, skill management, progress and lifecycle
\* notifications, each looked up in a process-wide registry when it is called;
\* "database": the SQLite provider, captured by the engine when it is built.
CallbackKinds == {"process", "database"}

NoThread == "nobody"

-----------------------------------------------------------------------------
(* What the exported functions do: whether they take the engine's lock, and *)
(* the callbacks the engine may make on their behalf.  Each one first       *)
(* checks its inputs (text it can parse, an output slot, the authority some *)
(* demand) and answers a bad one before it looks for the engine, which      *)
(* changes nothing here.                                                    *)

Call(lock, kinds) == [lock |-> lock, kinds |-> kinds]

\* Lua code of a skill may make both kinds of callback.  So may a change of the
\* skills: it reports, and every VM it builds runs the skills' entry factories.
\* The Lua code of a system lease has no database.
Script == {"process", "database"}
SystemScript == {"process"}

JsonLoad == {Call(TRUE, Script)}

\* A query reads tables of the engine, but a help page may be a Lua file.
JsonQueries == {Call(TRUE, kinds) : kinds \in {{}, Script}}

JsonConfigReads == {Call(TRUE, {})}

JsonConfigWrites == {Call(TRUE, {})}

JsonLua == {Call(TRUE, Script)}

\* Creating and evaluating a lease runs Lua; its status, listing and closing do not.
JsonLeases == {Call(TRUE, kinds) : kinds \in {{}, Script}}

JsonSystemLeases == {Call(TRUE, kinds) : kinds \in {{}, SystemScript}}

\* Polling and waiting use the engine's event center alone.
JsonEvents == {Call(FALSE, {})}

\* Enabling, removing, installing and updating reload the skills.
JsonToggles == {Call(TRUE, Script)}

JsonRemovals == {Call(TRUE, Script)}

JsonInstalls == {Call(TRUE, Script)}

JsonUpdates == {Call(TRUE, Script)}

JsonUpdateChecks == {Call(TRUE, {})}

JsonNetworkOptions == {Call(TRUE, {})}

StandardLoad == {Call(TRUE, Script)}

StandardQueries == {Call(TRUE, kinds) : kinds \in {{}, Script}}

StandardConfigReads == {Call(TRUE, {})}

StandardConfigWrites == {Call(TRUE, {})}

StandardConfigEvents == {Call(TRUE, {})}

StandardLua == {Call(TRUE, Script)}

StandardLeases == {Call(TRUE, kinds) : kinds \in {{}, Script}}

StandardSystemLeases == {Call(TRUE, kinds) : kinds \in {{}, SystemScript}}

StandardEvents == {Call(FALSE, {})}

StandardToggles == {Call(TRUE, Script)}

StandardRemovals == {Call(TRUE, Script)}

StandardInstalls == {Call(TRUE, Script)}

StandardUpdates == {Call(TRUE, Script)}

Exports == UNION
    {JsonLoad, JsonQueries, JsonConfigReads, JsonConfigWrites, JsonLua, JsonLeases,
     JsonSystemLeases, JsonEvents, JsonToggles, JsonRemovals, JsonInstalls,
     JsonUpdates, JsonUpdateChecks, JsonNetworkOptions, StandardLoad, StandardQueries,
     StandardConfigReads, StandardConfigWrites, StandardConfigEvents, StandardLua,
     StandardLeases, StandardSystemLeases, StandardEvents, StandardToggles,
     StandardRemovals, StandardInstalls, StandardUpdates}

-----------------------------------------------------------------------------
(* Frames                                                                  *)

CallFrame(kind, e, step) ==
    [kind |-> kind, engine |-> e, step |-> step, kinds |-> {}, callback |-> 0]

TopFrame(t) == stack[t][Len(stack[t])]

Push(t, f) == stack' = [stack EXCEPT ![t] = Append(@, f)]

Pop(t) == stack' = [stack EXCEPT ![t] = SubSeq(@, 1, Len(@) - 1)]

Advance(t, step) == stack' = [stack EXCEPT ![t][Len(stack[t])].step = step]

Inside(t, step) == stack[t] # <<>> /\ TopFrame(t).step = step

\* Host code runs outside every exported call, or in a callback.
HostRuns(t) ==
    /\ stack[t] # <<>> => TopFrame(t).kind = "callback"
    /\ Len(stack[t]) < MaxFrames

NoHandle == [state |-> "none", database |-> 0]

EnginesInit ==
    /\ handles = [e \in EngineIds |-> NoHandle]
    /\ holder = [e \in EngineIds |-> NoThread]
    /\ stack = [t \in FfiThreads |-> <<>>]
    /\ registered = [k \in CallbackKinds |-> 0]

-----------------------------------------------------------------------------
(* Creating and freeing an engine                                          *)

\* LuaEngine::new captures the process's database callbacks; the constructor
\* with explicit providers uses the given one instead.
Construct(t, database) ==
    /\ HostRuns(t)
    /\ \E e \in EngineIds :
        /\ handles[e].state = "none"
        /\ \A f \in EngineIds : f < e => handles[f].state # "none"
        /\ handles' = [handles EXCEPT ![e] = [state |-> "built", database |-> database]]
        /\ Push(t, CallFrame("new", e, "built"))
    /\ UNCHANGED <<holder, registered>>

\* engine_new: a fresh id is taken and the slot becomes reachable.
RegisterEngine(t) ==
    /\ Inside(t, "built")
    /\ handles' = [handles EXCEPT ![TopFrame(t).engine].state = "registered"]
    /\ Pop(t)
    /\ UNCHANGED <<holder, registered>>

\* engine_free, first half: remove_ffi_engine_slot.
RemoveEngine(t, e) ==
    /\ HostRuns(t)
    /\ handles[e].state = "registered"
    /\ handles' = [handles EXCEPT ![e].state = "removed"]
    /\ Push(t, CallFrame("free", e, "removed"))
    /\ UNCHANGED <<holder, registered>>

\* Second half: destroy_removed_ffi_engine_slot waits for the lock, takes the
\* engine out and destroys it after unlocking.
DestroyEngine(t) ==
    /\ Inside(t, "removed")
    /\ holder[TopFrame(t).engine] = NoThread
    /\ handles' = [handles EXCEPT ![TopFrame(t).engine].state = "freed"]
    /\ Pop(t)
    /\ UNCHANGED <<holder, registered>>

-----------------------------------------------------------------------------
(* Using an engine                                                         *)

\* An exported call whose inputs are accepted clones the engine's handle, or
\* its event center, out of the registry; otherwise it only returns an error.
BeginCall(t, export, e) ==
    /\ HostRuns(t)
    /\ handles[e].state = "registered"
    /\ Push(t, [CallFrame("call", e, IF export.lock THEN "cloned" ELSE "events")
                EXCEPT !.kinds = export.kinds])
    /\ UNCHANGED <<handles, holder, registered>>

\* Polling and waiting for events holds neither the registry nor the engine.
EventsReturn(t) ==
    /\ Inside(t, "events")
    /\ Pop(t)
    /\ UNCHANGED <<handles, holder, registered>>

\* ACTIVE_FFI_ENGINE_IDS of the thread.
ActiveIds(t) ==
    {stack[t][i].engine : i \in {j \in 1 .. Len(stack[t]) :
                                    stack[t][j].step \in {"entered", "running"}}}

\* Mutant: the guard forgets what the thread is inside.
NeverActive(t, e) == FALSE

IsActive(t, e) == e \in ActiveIds(t)

\* ActiveFfiEngineGuard::enter refuses an engine the thread is already inside.
EnterGuard(t) ==
    /\ Inside(t, "cloned")
    /\ IF IsActive(t, TopFrame(t).engine) THEN Pop(t) ELSE Advance(t, "entered")
    /\ UNCHANGED <<handles, holder, registered>>

\* with_engine and with_engine_mut: a handle whose engine was taken since is
\* answered as closing.
LockEngine(t) ==
    LET e == TopFrame(t).engine IN
    /\ Inside(t, "entered")
    /\ holder[e] = NoThread
    /\ IF handles[e].state = "freed"
       THEN Pop(t) /\ UNCHANGED holder
       ELSE /\ Advance(t, "running")
            /\ holder' = [holder EXCEPT ![e] = t]
    /\ UNCHANGED <<handles, registered>>

\* The operation ended; the lock and then the guard are dropped.
CallReturns(t) ==
    /\ Inside(t, "running")
    /\ holder' = [holder EXCEPT ![TopFrame(t).engine] = NoThread]
    /\ Pop(t)
    /\ UNCHANGED <<handles, registered>>

-----------------------------------------------------------------------------
(* Host callbacks                                                          *)

\* set_*_callback: the registry is locked for the exchange only, and what was
\* registered before is dropped outside the lock.
SetCallback(t, kind, c) ==
    /\ HostRuns(t)
    /\ c # registered[kind]
    /\ registered' = [registered EXCEPT ![kind] = c]
    /\ UNCHANGED <<handles, holder, stack>>

\* clear_*_callback_if, of the progress and model callbacks: an owner takes back
\* only the callback it registered.
ClearCallbackIf(t, kind, expected) ==
    /\ HostRuns(t)
    /\ registered[kind] = expected
    /\ registered' = [registered EXCEPT ![kind] = 0]
    /\ UNCHANGED <<handles, holder, stack>>

\* An engine calls the database callback it was built with, and for the other
\* kinds the one registered now, cloned so that no lock is held meanwhile.
CallbackFor(kind, e) ==
    IF kind = "database" THEN handles[e].database ELSE registered[kind]

Dispatch(t, kind) ==
    LET e == TopFrame(t).engine IN
    /\ Inside(t, "running")
    /\ kind \in TopFrame(t).kinds
    /\ CallbackFor(kind, e) # 0
    /\ Len(stack[t]) < MaxFrames
    /\ Push(t, [CallFrame("callback", e, kind) EXCEPT !.callback = CallbackFor(kind, e)])
    /\ UNCHANGED <<handles, holder, registered>>

CallbackReturns(t) ==
    /\ stack[t] # <<>> /\ TopFrame(t).kind = "callback"
    /\ Pop(t)
    /\ UNCHANGED <<handles, holder, registered>>

EnginesNext ==
    \E t \in FfiThreads :
        \/ \E d \in {registered["database"], MaxCallbacks} : Construct(t, d)
        \/ RegisterEngine(t)
        \/ \E e \in EngineIds : RemoveEngine(t, e)
        \/ DestroyEngine(t)
        \/ \E export \in Exports, e \in EngineIds : BeginCall(t, export, e)
        \/ EventsReturn(t)
        \/ EnterGuard(t)
        \/ LockEngine(t)
        \/ CallReturns(t)
        \/ \E k \in CallbackKinds, c \in 0 .. MaxCallbacks : SetCallback(t, k, c)
        \/ \E k \in CallbackKinds \ {"database"}, c \in 1 .. MaxCallbacks :
               ClearCallbackIf(t, k, c)
        \/ \E k \in CallbackKinds : Dispatch(t, k)
        \/ CallbackReturns(t)

-----------------------------------------------------------------------------
(* Properties                                                              *)

\* Every variable of the engine-handle model has its type.
EnginesTypeOK ==
    /\ \A e \in EngineIds :
        /\ handles[e].state \in {"none", "built", "registered", "removed", "freed"}
        /\ handles[e].database \in 0 .. MaxCallbacks
        /\ holder[e] \in FfiThreads \cup {NoThread}
    /\ registered \in [CallbackKinds -> 0 .. MaxCallbacks]
    /\ \A t \in FfiThreads : Len(stack[t]) <= MaxFrames

Frames(t) == {stack[t][i] : i \in 1 .. Len(stack[t])}

\* An engine is never used while it is being destroyed or by two calls at
\* once: a call that runs holds the lock of an engine still in its handle, even
\* when it found the handle before another thread freed it; and a callback made
\* on behalf of an engine finds that engine still there.
UsedWhileAlive ==
    \A t \in FfiThreads : \A f \in Frames(t) :
        f.step = "running" \/ f.kind = "callback" =>
            /\ handles[f.engine].state # "freed"
            /\ holder[f.engine] = t

\* A call made from inside a callback of the same engine is answered, it never
\* waits for the lock its own thread holds.  (A free made there does wait: it
\* is not covered by the guard.)
ReentryAnswered ==
    \A t \in FfiThreads :
        Inside(t, "entered") => holder[TopFrame(t).engine] # t

\* Replacing the process-wide database callback does not reach an engine built
\* before: it keeps calling the one it was built with.
CapturedCallbackKept ==
    \A t \in FfiThreads : \A f \in Frames(t) :
        f.kind = "callback" /\ f.step = "database" =>
            f.callback = handles[f.engine].database

\* What a host relies on when several of its threads share engine handles.
HandlesSound == UsedWhileAlive /\ ReentryAnswered /\ CapturedCallbackKept
=============================================================================
