---------------------------- MODULE FfiTransport ----------------------------
(***************************************************************************)
(* The versioned embedded C transport: src/src/ffi_embedded.rs and the     *)
(* modules under src/src/ffi_embedded/.  A transport bounds the responses  *)
(* it owes its host, in buffers and in bytes, and owns runtime slots.  A   *)
(* request first reserves the worst-case response, then runs its command,  *)
(* then publishes the response into the reserved room or gives it back.    *)
(*                                                                         *)
(* A slot is constructed by one request while others may ask to close it,  *)
(* read its status or run operations on it.  No lock is held while foreign *)
(* code runs, so a lease counts every native user, and a slot is released  *)
(* only when it was told to close, nobody uses it and both its core and    *)
(* its storage worker are closed.                                          *)
(*                                                                         *)
(* Every action below is one critical section of the code; a request is a  *)
(* sequence of them, interleaved with those of the other native threads.   *)
(* Of the runtime core and the journal worker behind a slot only what      *)
(* poll_closed tells of them is kept: told to close, they may drain.       *)
(***************************************************************************)
EXTENDS Integers, FiniteSets, FiniteSetsExt

CONSTANTS
    Natives,          \* threads of the host that call the library
    MaxRuntimes,      \* configured number of runtime slots
    MaxBuffers,       \* configured number of unfreed results
    MaxResultBytes,   \* configured bytes of unfreed results
    MaxResponse,      \* configured bytes of one response
    MaxRequests,      \* bound: requests of the whole run
    MaxSlots,         \* bound: slots ever reserved
    MaxCoreFaults     \* bound: failed closes and panicking constructions

\* TransportConfig::try_from: every limit is positive and one response fits.
ASSUME TransportAssumption ==
    /\ {MaxRuntimes, MaxBuffers, MaxResultBytes, MaxResponse} \subseteq Nat \ {0}
    /\ MaxResponse <= MaxResultBytes

VARIABLES
    transport,     \* TransportState and its presence in the registry
    owned,         \* slot id -> RuntimeState, or NoSlot
    inside,        \* native thread -> the request it is inside
    issued,        \* requests admitted so far, the source of allocation ids
    coreFaults     \* faults used up

transportVars == <<transport, owned, inside, issued, coreFaults>>

SlotIds == 1 .. MaxSlots

\* The commands a request may carry; "query" reads a runtime, "submit" admits
\* work to it and "settle" changes it without admitting work.
Commands == {"reserve", "initialize", "status", "close", "free",
             "query", "submit", "settle"}

Phases == {"Reserved", "Initializing", "Ready", "Failed", "Faulted"}

NoSlot == [phase |-> "none", closing |-> FALSE, released |-> FALSE, known |-> FALSE,
           active |-> 0, core |-> "none", store |-> "none", failed |-> FALSE]

NoRequest == [step |-> "outside", command |-> "none", slot |-> 0, alloc |-> 0,
              held |-> FALSE, tell |-> "none", answer |-> "none"]

TransportInit ==
    /\ transport = [registered |-> TRUE, closing |-> FALSE, released |-> FALSE,
                    pending |-> 0, bytes |-> 0, results |-> {}, runtimes |-> {}]
    /\ owned = [s \in SlotIds |-> NoSlot]
    /\ inside = [n \in Natives |-> NoRequest]
    /\ issued = 0
    /\ coreFaults = 0

-----------------------------------------------------------------------------
(* Helpers                                                                 *)

Moves(n, r) == inside' = [inside EXCEPT ![n] = r]

\* Mutant: the identity of a new slot is encoded after it was registered.
PreparedUnlessReserved(command) == command \notin {"query", "status", "reserve"}

\* A lifecycle command encodes its receipt first, mutate a sample of the longest
\* success, and take_host_requests leaves room for its envelope; only then may
\* the command have its effect.  What a query or a status answers is encoded at
\* the end, and so is every error.
PreparedFirst(command) == command \notin {"query", "status"}

\* A command that ended is answered by an envelope.  One that was not encoded
\* before may exceed the declared limit: then the request gives up, whatever
\* the command did, and the host gets a status code only.
Respond(n, answer) ==
    \/ Moves(n, [inside[n] EXCEPT !.step = "respond", !.held = FALSE, !.answer = answer])
    \/ /\ ~(PreparedFirst(inside[n].command) /\ answer = "ok")
       /\ Moves(n, [inside[n] EXCEPT !.step = "give up", !.held = FALSE, !.answer = answer])

InUse(s) == s \in transport.runtimes

\* RuntimeSlot::lease: a native user retains whatever the slot owns.
Leasable(s) == owned[s].core # "none" \/ owned[s].store # "none"

Leased(s) == [owned EXCEPT ![s].active = @ + 1]

\* Drop of a RuntimeLease.
LeaseDropped(s) == [owned EXCEPT ![s].active = @ - 1]

\* runtime.request_close and writer.request_close are idempotent.
Told(state) == IF state = "open" THEN "closing" ELSE state

\* RuntimeSlot::request_close tells the core, which a runtime with a core
\* answers for; the storage alone is told only when there is no core.
CloseTold(s) ==
    IF owned[s].core # "none"
    THEN [owned EXCEPT ![s].core = Told(@)]
    ELSE [owned EXCEPT ![s].store = Told(@)]

\* RuntimeLease::poll_closed and the checks of RuntimeSlot::release: the
\* storage worker is asked to close once the core is closed.
CoreClosed(s) == owned[s].core \in {"none", "closed"}

Polled(s) ==
    IF CoreClosed(s) THEN [owned EXCEPT ![s].store = Told(@)] ELSE owned

StoreClosed(s) == owned[s].store \in {"none", "closed"}

-----------------------------------------------------------------------------
(* Entering and leaving a request                                          *)

\* luaskills_ffi_embedded_request_v1 finds the transport in the registry.
Enter(n, command, s) ==
    /\ inside[n].step = "outside"
    /\ transport.registered
    /\ issued < MaxRequests
    /\ issued' = issued + 1
    /\ Moves(n, [NoRequest EXCEPT !.step = "reserve", !.command = command,
                                 !.slot = s, !.alloc = issued + 1])
    /\ UNCHANGED <<transport, owned, coreFaults>>

Fits ==
    /\ Cardinality(transport.results) + transport.pending < MaxBuffers
    /\ MaxResponse <= MaxResultBytes - transport.bytes

\* Transport::reserve: refused after release and when a worst-case response
\* would not fit; a refusal leaves no trace.
ReserveResponse(n) ==
    /\ inside[n].step = "reserve"
    /\ IF transport.released \/ ~Fits
       THEN Moves(n, NoRequest) /\ UNCHANGED transport
       ELSE /\ Moves(n, [inside[n] EXCEPT !.step = "execute"])
            /\ transport' = [transport EXCEPT !.pending = @ + 1,
                                              !.bytes = @ + MaxResponse]
    /\ UNCHANGED <<owned, issued, coreFaults>>

PublishedBytes(bytes, len) == bytes - (MaxResponse - len)

\* ResponseReservation::publish trims the reservation to the response, by which
\* the host learns the identity of the slot it reserved.
Publish(n, len) ==
    /\ inside[n].step = "respond"
    /\ transport' = [transport EXCEPT
                        !.pending = @ - 1,
                        !.bytes = PublishedBytes(@, len),
                        !.results = @ \cup {[id |-> inside[n].alloc, len |-> len]}]
    /\ owned' = IF inside[n].command = "reserve" /\ inside[n].answer = "ok"
                THEN [owned EXCEPT ![inside[n].slot].known = TRUE] ELSE owned
    /\ Moves(n, NoRequest)
    /\ UNCHANGED <<issued, coreFaults>>

\* An error or panic after the reservation: its Drop returns the whole room.
DropReservation(n) ==
    /\ inside[n].step = "give up"
    /\ transport' = [transport EXCEPT !.pending = @ - 1, !.bytes = @ - MaxResponse]
    /\ Moves(n, NoRequest)
    /\ UNCHANGED <<owned, issued, coreFaults>>

\* luaskills_ffi_embedded_result_free_v1 with a result the host still holds;
\* one it does not hold is NotFound and changes nothing.
FreeResult(r) ==
    /\ transport.registered
    /\ r \in transport.results
    /\ transport' = [transport EXCEPT !.results = @ \ {r}, !.bytes = @ - r.len]
    /\ UNCHANGED <<owned, inside, issued, coreFaults>>

-----------------------------------------------------------------------------
(* Commands                                                                *)

\* RuntimeReserve: the receipt is encoded first, then the slot is registered.
FreshSlots == {s \in SlotIds : owned[s].phase = "none"}

RegisterRuntime(n) ==
    /\ inside[n].step = "execute" /\ inside[n].command = "reserve"
    /\ \/ /\ PreparedFirst("reserve")                    \* receipt does not fit
          /\ Moves(n, [inside[n] EXCEPT !.step = "give up"])
          /\ UNCHANGED <<transport, owned>>
       \/ /\ transport.closing \/ transport.released
             \/ Cardinality(transport.runtimes) >= MaxRuntimes
          /\ Respond(n, "error")
          /\ UNCHANGED <<transport, owned>>
       \/ /\ ~transport.closing /\ ~transport.released
          /\ Cardinality(transport.runtimes) < MaxRuntimes
          /\ FreshSlots # {}
          /\ LET s == Min(FreshSlots) IN
             /\ owned' = [owned EXCEPT ![s] = [NoSlot EXCEPT !.phase = "Reserved"]]
             /\ transport' = [transport EXCEPT !.runtimes = @ \cup {s}]
             /\ \/ Moves(n, [inside[n] EXCEPT !.step = "respond", !.slot = s, !.answer = "ok"])
                \/ /\ ~PreparedFirst("reserve")
                   /\ Moves(n, [inside[n] EXCEPT !.step = "give up", !.slot = s, !.answer = "ok"])
    /\ UNCHANGED <<issued, coreFaults>>

\* The other lifecycle commands encode their receipt, then look the slot up.
Lookup(n) ==
    /\ inside[n].step = "execute" /\ inside[n].command # "reserve"
    /\ \/ /\ inside[n].command \in {"initialize", "close", "free"}
          /\ PreparedFirst(inside[n].command)
          /\ Moves(n, [inside[n] EXCEPT !.step = "give up"])
       \/ ~InUse(inside[n].slot) /\ Respond(n, "error")
       \/ /\ InUse(inside[n].slot)
          /\ Moves(n, [inside[n] EXCEPT !.step = "found"])
    /\ UNCHANGED <<transport, owned, issued, coreFaults>>

\* RuntimeCommand::admits_work: a closing runtime takes no new work.
AdmitsWork(command) == command = "submit"

\* RuntimeSlot::lock refuses a released slot for every command.
Refused(n) ==
    LET s == inside[n].slot  c == inside[n].command IN
    \/ owned[s].released
    \/ c = "initialize" /\ (owned[s].closing \/ owned[s].phase # "Reserved")
    \/ c \in {"query", "submit", "settle"} /\ owned[s].core = "none"
    \/ AdmitsWork(c) /\ owned[s].closing

RefuseCommand(n) ==
    /\ inside[n].step = "found"
    /\ Refused(n)
    /\ Respond(n, "error")
    /\ UNCHANGED <<transport, owned, issued, coreFaults>>

\* initialize_with, first critical section.
BeginInitialize(n) ==
    LET s == inside[n].slot IN
    /\ inside[n].step = "found" /\ inside[n].command = "initialize"
    /\ ~Refused(n)
    /\ owned' = [owned EXCEPT ![s].phase = "Initializing", ![s].active = @ + 1]
    /\ Moves(n, [inside[n] EXCEPT !.step = "construct", !.held = TRUE])
    /\ UNCHANGED <<transport, issued, coreFaults>>

\* The factory opened the journal and its worker and recorded their owner.
OpenPersistence(n) ==
    LET s == inside[n].slot IN
    /\ inside[n].step = "construct"
    /\ owned[s].store = "none"
    /\ owned' = [owned EXCEPT ![s].store = "open"]
    /\ UNCHANGED <<transport, inside, issued, coreFaults>>

\* Mutant: only a failed construction is closed.
MustCloseWhenFailed(closing, phase) == phase = "Failed"

MustClose(closing, phase) == closing \/ phase = "Failed"

\* The factory ended: a core, an error or a panic, recorded in the slot.  A
\* close raised meanwhile, or a failure, is carried out by this thread next.
Constructed(n, phase) ==
    LET s == inside[n].slot IN
    /\ inside[n].step = "construct"
    /\ phase = "Faulted" => coreFaults < MaxCoreFaults
    /\ coreFaults' = IF phase = "Faulted" THEN coreFaults + 1 ELSE coreFaults
    /\ owned' = [owned EXCEPT ![s].phase = phase,
                              ![s].core = IF phase = "Ready" THEN "open" ELSE @,
                              ![s].failed = phase # "Ready"]
    /\ Moves(n, [inside[n] EXCEPT
                   !.step = IF MustClose(owned[s].closing, phase)
                            THEN "tell" ELSE "settle"])
    /\ UNCHANGED <<transport, issued>>

\* The core, or without one its storage worker, is told to close outside the
\* lock.  EmbeddedRuntime::request_close may fail before or after it closed the
\* core's admission; a failing close is recorded by the constructor and answered
\* by the close command.
TellClose(n) ==
    LET s == inside[n].slot IN
    /\ inside[n].step = "tell"
    /\ \/ /\ owned' = CloseTold(s)
          /\ Moves(n, [inside[n] EXCEPT !.step = "settle"])
          /\ UNCHANGED coreFaults
       \/ /\ owned[s].core # "none" /\ coreFaults < MaxCoreFaults
          /\ coreFaults' = coreFaults + 1
          /\ Moves(n, [inside[n] EXCEPT !.step = "settle", !.tell = "failed"])
          /\ owned' \in {owned, CloseTold(s)}
    /\ UNCHANGED <<transport, issued>>

\* Last critical section of initialize_with, and the drop of a close's lease.
SettleSlot(n) ==
    LET s == inside[n].slot  failed == inside[n].tell = "failed" IN
    /\ inside[n].step = "settle"
    /\ owned' = [LeaseDropped(s) EXCEPT
                    ![s].failed = @ \/ (failed /\ inside[n].command = "initialize")]
    /\ Respond(n, IF failed /\ inside[n].command = "close" THEN "error" ELSE "ok")
    /\ UNCHANGED <<transport, issued, coreFaults>>

\* RuntimeSlot::request_close, its critical section: while the slot is being
\* constructed nothing is leased, the constructor will see the flag.
CloseSlot(n) ==
    LET s == inside[n].slot IN
    /\ inside[n].step = "found" /\ inside[n].command = "close"
    /\ ~Refused(n)
    /\ IF owned[s].phase # "Initializing" /\ Leasable(s)
       THEN /\ owned' = [Leased(s) EXCEPT ![s].closing = TRUE]
            /\ Moves(n, [inside[n] EXCEPT !.step = "tell", !.held = TRUE])
       ELSE /\ owned' = [owned EXCEPT ![s].closing = TRUE]
            /\ Respond(n, "ok")
    /\ UNCHANGED <<transport, issued, coreFaults>>

\* RuntimeSlot::snapshot, first half: the answer without a lease.
BeginStatus(n) ==
    LET s == inside[n].slot IN
    /\ inside[n].step = "found" /\ inside[n].command = "status"
    /\ ~Refused(n)
    /\ IF Leasable(s)
       THEN /\ owned' = Leased(s)
            /\ Moves(n, [inside[n] EXCEPT
                  !.step = "poll", !.held = TRUE,
                  !.tell = IF owned[s].closing /\ owned[s].phase \in {"Ready", "Failed"}
                           THEN "poll" ELSE "none"])
       ELSE /\ UNCHANGED owned
            /\ Respond(n, IF owned[s].closing /\ owned[s].phase \in {"Reserved", "Failed"}
                          THEN "closed" ELSE "ok")
    /\ UNCHANGED <<transport, issued, coreFaults>>

\* Second half: what the lease retains is polled outside the lock.  The core or
\* the storage worker may fail to answer, before or after the poll.
PollStatus(n) ==
    LET s == inside[n].slot
        polled == IF inside[n].tell = "poll"
                  THEN [Polled(s) EXCEPT ![s].active = @ - 1] ELSE LeaseDropped(s)
        closed == inside[n].tell = "poll" /\ CoreClosed(s) /\ StoreClosed(s)
    IN
    /\ inside[n].step = "poll"
    /\ \/ owned' = polled /\ Respond(n, IF closed THEN "closed" ELSE "ok")
       \/ owned' \in {polled, LeaseDropped(s)} /\ Respond(n, "error")
    /\ UNCHANGED <<transport, issued, coreFaults>>

Releasable(s) ==
    /\ owned[s].closing /\ owned[s].active = 0
    /\ owned[s].phase \notin {"Initializing", "Faulted"}
    /\ CoreClosed(s) /\ StoreClosed(s)

\* RuntimeSlot::release.  The storage is polled, and so told to close, only
\* when everything before it is satisfied; either poll may fail.
ReleaseSlot(n) ==
    LET s == inside[n].slot
        polls == /\ owned[s].closing /\ owned[s].active = 0
                 /\ owned[s].phase \notin {"Initializing", "Faulted"}
    IN
    /\ inside[n].step = "found" /\ inside[n].command = "free"
    /\ ~owned[s].released
    /\ \/ /\ Releasable(s)
          /\ owned' = [owned EXCEPT ![s].released = TRUE]
          /\ Moves(n, [inside[n] EXCEPT !.step = "remove"])
       \/ /\ polls \/ ~Releasable(s)
          /\ owned' \in IF polls THEN {owned, Polled(s)} ELSE {owned}
          /\ Respond(n, "error")
    /\ UNCHANGED <<transport, issued, coreFaults>>

\* Transport::release_runtime drops the released slot from the transport.
RemoveRuntime(n) ==
    /\ inside[n].step = "remove"
    /\ transport' = [transport EXCEPT !.runtimes = @ \ {inside[n].slot}]
    /\ Respond(n, "ok")
    /\ UNCHANGED <<owned, issued, coreFaults>>

\* control::execute: a runtime command leases the core before it does anything.
Acquire(n) ==
    /\ inside[n].step = "found"
    /\ inside[n].command \in {"query", "submit", "settle"}
    /\ ~Refused(n)
    /\ owned' = Leased(inside[n].slot)
    /\ Moves(n, [inside[n] EXCEPT !.step = "prepare", !.held = TRUE])
    /\ UNCHANGED <<transport, issued, coreFaults>>

\* mutate and take_host_requests: the success is prepared, or the request ends
\* before the command did anything.
Prepare(n) ==
    LET s == inside[n].slot IN
    /\ inside[n].step = "prepare"
    /\ \/ /\ PreparedFirst(inside[n].command)
          /\ Moves(n, [inside[n] EXCEPT !.step = "give up", !.held = FALSE])
          /\ owned' = LeaseDropped(s)
       \/ /\ Moves(n, [inside[n] EXCEPT !.step = "operate"])
          /\ UNCHANGED owned
    /\ UNCHANGED <<transport, issued, coreFaults>>

\* The command itself: a success, an error or a panic, which the boundary turns
\* into a status code.  All of them drop the lease.
Operate(n) ==
    /\ inside[n].step = "operate"
    /\ owned' = LeaseDropped(inside[n].slot)
    /\ \/ \E answer \in {"ok", "error"} : Respond(n, answer)
       \/ Moves(n, [inside[n] EXCEPT !.step = "give up", !.held = FALSE, !.answer = "panic"])
    /\ UNCHANGED <<transport, issued, coreFaults>>

-----------------------------------------------------------------------------
(* The transport's own close and release, and what runs behind a slot      *)

\* Transport::request_close: admission ends; the slots registered at that time
\* are then closed one by one, as a close command would.
CloseTransport(n) ==
    /\ inside[n].step = "outside"
    /\ transport.registered
    /\ transport' = [transport EXCEPT !.closing = TRUE]
    /\ Moves(n, [NoRequest EXCEPT !.step = "sweep", !.slot = 1])
    /\ UNCHANGED <<owned, issued, coreFaults>>

\* The slot whose turn it is: skipped when it was not registered, or already
\* released; told at once when nothing else would; a failure is reported at
\* the end and does not keep the others from being closed.
Sweep(n) ==
    LET s == inside[n].slot
        next == IF s < MaxSlots THEN [inside[n] EXCEPT !.slot = s + 1] ELSE NoRequest
    IN
    /\ inside[n].step = "sweep"
    /\ IF ~InUse(s) \/ owned[s].released
       THEN UNCHANGED owned /\ Moves(n, next)
       ELSE IF owned[s].phase # "Initializing" /\ Leasable(s)
       THEN /\ owned' = [Leased(s) EXCEPT ![s].closing = TRUE]
            /\ Moves(n, [inside[n] EXCEPT !.step = "sweep tell", !.held = TRUE])
       ELSE /\ owned' = [owned EXCEPT ![s].closing = TRUE]
            /\ Moves(n, next)
    /\ UNCHANGED <<transport, issued, coreFaults>>

SweepTell(n) ==
    LET s == inside[n].slot
        next == IF s < MaxSlots
                THEN [inside[n] EXCEPT !.step = "sweep", !.slot = s + 1, !.held = FALSE]
                ELSE NoRequest
    IN
    /\ inside[n].step = "sweep tell"
    /\ \/ /\ owned' = [CloseTold(s) EXCEPT ![s].active = @ - 1]
          /\ UNCHANGED coreFaults
       \/ /\ owned[s].core # "none" /\ coreFaults < MaxCoreFaults
          /\ coreFaults' = coreFaults + 1
          /\ owned' \in {LeaseDropped(s), [CloseTold(s) EXCEPT ![s].active = @ - 1]}
    /\ Moves(n, next)
    /\ UNCHANGED <<transport, issued>>

\* transport::release, with the registry and the transport locked.
ReleaseTransport ==
    /\ transport.registered
    /\ transport.closing /\ transport.pending = 0
    /\ transport.results = {} /\ transport.runtimes = {}
    /\ transport' = [transport EXCEPT !.registered = FALSE, !.released = TRUE]
    /\ UNCHANGED <<owned, inside, issued, coreFaults>>

\* EmbeddedRuntime::poll_closed and OperationJournalWorker::poll_closed would be
\* true from now on: the workers and receipts have drained.
CoreDrains(s) ==
    /\ owned[s].core = "closing"
    /\ owned' = [owned EXCEPT ![s].core = "closed"]
    /\ UNCHANGED <<transport, inside, issued, coreFaults>>

StoreDrains(s) ==
    /\ owned[s].store = "closing"
    /\ owned' = [owned EXCEPT ![s].store = "closed"]
    /\ UNCHANGED <<transport, inside, issued, coreFaults>>

TransportNext ==
    \/ \E n \in Natives :
        \/ \E c \in Commands, s \in SlotIds : Enter(n, c, s)
        \/ ReserveResponse(n)
        \/ \E len \in 1 .. MaxResponse : Publish(n, len)
        \/ DropReservation(n)
        \/ RegisterRuntime(n)
        \/ Lookup(n)
        \/ RefuseCommand(n)
        \/ BeginInitialize(n)
        \/ OpenPersistence(n)
        \/ \E phase \in {"Ready", "Failed", "Faulted"} : Constructed(n, phase)
        \/ TellClose(n)
        \/ SettleSlot(n)
        \/ CloseSlot(n)
        \/ BeginStatus(n)
        \/ PollStatus(n)
        \/ ReleaseSlot(n)
        \/ RemoveRuntime(n)
        \/ Acquire(n)
        \/ Prepare(n)
        \/ Operate(n)
        \/ CloseTransport(n)
        \/ Sweep(n)
        \/ SweepTell(n)
    \/ \E r \in transport.results : FreeResult(r)
    \/ ReleaseTransport
    \/ \E s \in SlotIds : CoreDrains(s) \/ StoreDrains(s)

-----------------------------------------------------------------------------
(* Properties                                                              *)

RequestSteps == {"outside", "reserve", "execute", "found", "construct", "tell", "settle",
          "poll", "remove", "prepare", "operate", "respond", "give up",
          "sweep", "sweep tell"}

Holding == {n \in Natives : inside[n].step \notin
               {"outside", "reserve", "sweep", "sweep tell"}}

\* Every variable of the transport model has its type.
TransportTypeOK ==
    /\ transport \in [registered : BOOLEAN, closing : BOOLEAN, released : BOOLEAN,
                      pending : Nat, bytes : Nat,
                      results : SUBSET [id : 1 .. MaxRequests, len : 1 .. MaxResponse],
                      runtimes : SUBSET SlotIds]
    /\ \A s \in SlotIds :
        /\ owned[s].phase \in Phases \cup {"none"}
        /\ owned[s].active \in Nat
        /\ {owned[s].core, owned[s].store} \subseteq {"none", "open", "closing", "closed"}
    /\ \A n \in Natives :
        /\ inside[n].step \in RequestSteps
        /\ inside[n].command \in Commands \cup {"none"}

\* The worst case is reserved before a command runs and trimmed afterwards, so
\* whatever the threads do, the buffers and bytes recorded are exactly those
\* owed to the host and within the configured limits.
ResponsesAccounted ==
    /\ transport.pending = Cardinality(Holding)
    /\ transport.bytes = transport.pending * MaxResponse
                         + MapThenSumSet(LAMBDA r : r.len, transport.results)
    /\ transport.pending + Cardinality(transport.results) <= MaxBuffers
    /\ transport.bytes <= MaxResultBytes

\* What a host did it learns of: a command that changed something and succeeded
\* is never cut short by a response that does not fit, and every slot of the
\* transport, which only its identity can close and free, was announced to the
\* host or is about to be.
SuccessIsAnswered ==
    /\ \A n \in Natives :
        inside[n].step = "give up" /\ inside[n].answer = "ok" =>
            inside[n].command \in {"query", "status"}
    /\ \A s \in transport.runtimes :
        \/ owned[s].known
        \/ \E n \in Natives : /\ inside[n].command = "reserve" /\ inside[n].slot = s
                              /\ inside[n].step = "respond" /\ inside[n].answer = "ok"

\* Slots live as long as anything native uses them: the leases counted are the
\* ones held; a released slot is used by nobody and its core and storage are
\* closed; a released transport left no slot alive behind it.
SlotsOutliveUse ==
    /\ \A s \in SlotIds :
        /\ owned[s].active =
             Cardinality({n \in Natives : inside[n].held /\ inside[n].slot = s})
        /\ owned[s].released => /\ owned[s].active = 0
                                /\ CoreClosed(s) /\ StoreClosed(s)
    /\ transport.released =>
        \A s \in SlotIds : owned[s].phase # "none" => owned[s].released

\* A close is never swallowed by a construction that races with it: the core
\* of a closing slot is left open only while a thread is about to tell it, or
\* after telling it failed.  A status that answers closed, the host's licence
\* to unload, is given only when both core and storage have ended.
CloseIsCarriedOut ==
    /\ \A s \in SlotIds :
        owned[s].closing /\ owned[s].core = "open" /\ coreFaults = 0 =>
            \E n \in Natives : inside[n].slot = s
                               /\ inside[n].step \in {"tell", "sweep tell"}
    /\ \A n \in Natives :
        inside[n].step = "respond" /\ inside[n].answer = "closed" =>
            CoreClosed(inside[n].slot) /\ StoreClosed(inside[n].slot)

\* What a host relies on when it shares one transport between its threads.
TransportSound ==
    ResponsesAccounted /\ SuccessIsAnswered /\ SlotsOutliveUse /\ CloseIsCarriedOut
=============================================================================
