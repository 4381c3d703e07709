----------------------- MODULE SchedulerTables_proofs -----------------------
(***************************************************************************)
(* Proofs about the scheduler's tables, for any number of pools, plugins,  *)
(* workers and operations: calls, sessions and instances stay linked to    *)
(* each other through every step.  Scheduler_proofs builds on them.        *)
(***************************************************************************)
EXTENDS Scheduler, QueueFacts, WellFoundedInduction

LivePcs == {"queued", "running", "cleaning", "supervised", "publishing", "held", "finalizing", "closing"}
SessionKinds == {"open", "session", "closeSession"}
ClosingKinds == {"closeSession", "closeInstance"}

-----------------------------------------------------------------------------
(* The inductive invariant. *)

\* The types of the state, counters being integers so far.
Receipts == {"none", "pending", "completed"}
SessionShape ==
  [state : {"none", "kept", "forgotten"}, pool : Pools, lease : Lease,
   active : Ops \cup {0}, queued : Int, unfinished : Int, opened : BOOLEAN,
   closing : BOOLEAN, closed : BOOLEAN, retiring : BOOLEAN,
   receipt : Receipts, reservation : Ops \cup {0}]
PoolShape == [state : {"absent", "open", "closed", "forgotten"}, queued : Int, active : Int]
PluginShape == [state : {"open", "closing", "absent"}, queued : Int, operations : Int, reserved : Int]
Shape ==
  /\ call \in [Ops -> Call] /\ session \in [Ops -> SessionShape] /\ instance \in [Ops -> Instance]
  /\ pool \in [Pools -> PoolShape] /\ plugin \in [Plugins -> PluginShape]
  /\ queue \in [Plugins -> SUBSET Ops] /\ rotation \in Seq(Plugins)
  /\ live \in SUBSET Ops /\ queued \in Int /\ cleaning \in Int
  /\ closing \in BOOLEAN /\ shared \in BOOLEAN
  /\ registry \in [next : 1 .. LastOperation + 1, records : Int, reserved : Int]
  /\ workers \in Int /\ failures \in Int
  /\ finalized \in [Ops -> {"raw", "due", "once", "again"}]

\* What a call's record says of itself, by how far the call is.
CallOK(c) ==
  /\ c.pc \in LivePcs \/ c = Blank(c.pc, c.pool)
  /\ c.pc \in LivePcs => c.kind # "none"
  /\ c.kind \in SessionKinds \cup ClosingKinds => c.owner # 0
  /\ c.pc = "queued" => /\ ~c.dispatched /\ c.lease = "none" /\ c.final = "none" /\ c.receipt = "none"
                        /\ ~c.prepared /\ c.kind \notin ClosingKinds
                        /\ c.kind \notin SessionKinds => c.owner = 0
  /\ c.pc = "running" => c.dispatched /\ c.final = "none" /\ c.receipt = "none" /\ ~c.prepared
                         /\ c.lease # "none"
  /\ c.lease # "none" => c.receipt = "none" /\ c.lease \in {"raw", "live", "worn"}
  /\ c.final # "none" => c.dispatched /\ ~c.prepared /\ Plan(c.lease, c.pool)
  /\ c.final = "durable" <=> c.pc \in {"finalizing", "closing"}
  /\ c.prepared => c.receipt = "none"
  /\ c.pc = "publishing" => c.prepared
  /\ c.owner = 0 /\ c.final = "none" /\ c.pc # "running" => c.lease = "none"
  /\ c.kind \in ClosingKinds /\ c.final = "none" => c.lease = "none"
  /\ c.kind \in ClosingKinds => c.dispatched /\ c.pc # "running"
  /\ c.owner # 0 /\ c.kind \notin SessionKinds => c.dispatched
  /\ c.lease = "raw" => c.pc = "running" \/ ~c.dispatched
  /\ c.kind = "closeSession" \/ c.kind = "closeInstance" \/ c.lease # "none" => c.pc \in LivePcs

\* The calls the tables of the scheduler hold.
Tables ==
  /\ live = {o \in Ops : call[o].pc \in LivePcs}
  /\ \A g \in Plugins : queue[g] = {o \in Ops : call[o].pc = "queued" /\ PluginOf(call[o].pool) = g}
  /\ Injective(rotation) /\ Owned(rotation) = {g \in Plugins : queue[g] # {}}

\* Identities are handed out in order.
Fresh ==
  \A o \in Ops :
    /\ o >= registry.next <=> call[o].pc = "free"
    /\ call[o].owner < registry.next
    /\ o >= registry.next => session[o] = NoSession /\ instance[o] = NoInstance

\* A live call belongs to its session or instance, which knows the call it runs.
CallOwned(o) ==
  LET c == call[o]  s == SessionOf(o)  i == InstanceOf(o)
  IN /\ c.kind = "open" => c.owner = o
     /\ s # 0 => /\ session[s].state = "kept" /\ session[s].pool = c.pool
                 /\ s # o => call[s].pc \in {"done", "forgotten"}
                 /\ c.dispatched => session[s].active = o
     /\ i # 0 => instance[i].state = "kept" /\ instance[i].pool = c.pool /\ instance[i].active = o
     /\ c.lease # "none" /\ ~c.dispatched => c.kind = "open" /\ c.pc = "supervised" /\ c.lease = "raw" /\ ~c.prepared
     /\ c.kind = "open" /\ ~c.dispatched /\ c.pc # "queued" => session[o].closing /\ session[o].lease = "none"
     /\ c.lease # "none" /\ Policy[c.pool].finalizer /\ c.kind \notin ClosingKinds =>
          /\ s # 0 => session[s].reservation # 0
          /\ i # 0 => instance[i].reservation # 0
Calls == \A o \in Ops : CallOK(call[o]) /\ CallOwned(o)

\* What holds of sessions and instances alike: `r` has the VM, or the call that runs on it.
OwnerOK(r) ==
  /\ r.active # 0 => r.lease = "none"
  /\ r.active = 0 /\ ~r.closing => r.lease # "none"
  /\ r.lease # "none" => r.lease \in {"raw", "live", "worn"}
  /\ r.receipt # "none" => r.closing /\ r.active = 0 /\ r.lease = "none"
  /\ r.reservation # 0 => call[r.reservation].pc = "reserved" /\ call[r.reservation].pool = r.pool
  /\ r.lease # "none" /\ Policy[r.pool].finalizer => r.reservation # 0

SessionOK(s) ==
  LET r == session[s]
  IN /\ r.state = "none" => r = NoSession
     /\ r.state = "forgotten" => r = [NoSession EXCEPT !.state = "forgotten"]
     /\ r.state # "none" => call[s].pc \in {"done", "forgotten"} \/ call[s].kind = "open"
     /\ r.state # "none" => instance[s].state = "none"
     /\ r.state = "kept" =>
          /\ OwnerOK(r)
          /\ r.active # 0 => call[r.active].pc \in LivePcs /\ call[r.active].dispatched /\ SessionOf(r.active) = s
          /\ r.opened => call[s].pc \in {"done", "forgotten"}
          /\ ~r.opened => r.lease \in {"none", "raw"}
          /\ r.opened => r.lease # "raw"
          /\ r.closed => /\ r.closing /\ r.active = 0 /\ r.lease = "none" /\ r.reservation = 0
                         /\ r.unfinished = 0
Sessions == \A s \in Ops : SessionOK(s)

InstanceOK(i) ==
  LET r == instance[i]
  IN /\ r.state = "none" => r = NoInstance
     /\ r.state = "kept" =>
          /\ OwnerOK(r) /\ r.lease # "raw"
          /\ r.active # 0 => call[r.active].pc \in LivePcs /\ InstanceOf(r.active) = i
          /\ call[i].pc \in {"done", "forgotten"} \/ (call[i].owner = i /\ call[i].kind \notin SessionKinds)
Instances == \A i \in Ops : InstanceOK(i)

\* No two owners share a reservation.
Distinct ==
  /\ \A s, t \in Ops : session[s].reservation = session[t].reservation /\ s # t => session[s].reservation = 0
  /\ \A i, j \in Ops : instance[i].reservation = instance[j].reservation /\ i # j => instance[i].reservation = 0
  /\ \A s, i \in Ops : session[s].reservation = instance[i].reservation => session[s].reservation = 0

\* The structure of calls, sessions and instances.
Owning == Tables /\ Fresh /\ Calls /\ Sessions /\ Instances /\ Distinct

-----------------------------------------------------------------------------
(* The constants and counting. *)

\* The policies and limits have the fields the scheduler reads.
LEMMA ConstantFacts ==
  /\ IsFiniteSet(Ops) /\ Ops \subseteq Nat /\ 0 \notin Ops /\ LastOperation \in Nat
  /\ IsFiniteSet(Pools) /\ IsFiniteSet(Plugins) /\ AnyPool \in Pools
  /\ \A p \in Pools :
       /\ PluginOf(p) \in Plugins /\ Policy[p].finalizer \in BOOLEAN /\ Policy[p].running \in Nat
       /\ Policy[p].queued \in Nat /\ Policy[p].resident \in Nat /\ Policy[p].floor \in Nat
       /\ Policy[p].reuse \in {"none", "reusable", "session"}
  /\ \A g \in Plugins :
       /\ Limits[g].running \in Nat /\ Limits[g].queued \in Nat /\ Limits[g].operations \in Nat
       /\ Limits[g].sessions \in Nat /\ Limits[g].resident \in Nat
  /\ MaxQueued \in Nat /\ MaxOperations \in Nat /\ MaxSessions \in Nat /\ MaxPools \in Nat /\ Workers \in Nat
  /\ MaxFailures \in Nat /\ MaxClosures \in Nat
<1>1. LastOperation \in Nat
  BY SchedulerConstants
<1>2. IsFiniteSet(Ops) /\ Ops \subseteq Nat /\ 0 \notin Ops
  BY <1>1, IntervalSize DEF Ops
<1>3. AnyPool \in Pools
  BY SchedulerConstants DEF AnyPool
<1> QED BY <1>1, <1>2, <1>3, SchedulerConstants DEF PluginOf

\* Identities, and the absence of one, are numbers.
LEMMA OpsInt ==
  ASSUME NEW x \in Ops \cup {0}
  PROVE  x \in Nat
BY ConstantFacts

\* Sets of operations can be counted.
LEMMA Counted ==
  ASSUME NEW S \in SUBSET Ops
  PROVE  IsFiniteSet(S) /\ Cardinality(S) \in Nat /\ (Cardinality(S) = 0 <=> S = {})
  BY ConstantFacts, FS_Subset, FS_CardinalityType, FS_EmptySet

LEMMA CountAdded ==
  ASSUME NEW S \in SUBSET Ops, NEW o \in Ops \ S
  PROVE  Cardinality(S \cup {o}) = Cardinality(S) + 1
  BY Counted, FS_AddElement

LEMMA CountRemoved ==
  ASSUME NEW S \in SUBSET Ops, NEW o \in S
  PROVE  Cardinality(S \ {o}) = Cardinality(S) - 1
  BY Counted, FS_RemoveElement

LEMMA CountLess ==
  ASSUME NEW S \in SUBSET Ops, NEW T \in SUBSET S
  PROVE  Cardinality(T) <= Cardinality(S) /\ Cardinality(S \ T) = Cardinality(S) - Cardinality(T)
BY Counted, FS_Subset, FS_Union, FS_EmptySet

\* Disjoint sets are counted one by one.
LEMMA CountUnion ==
  ASSUME NEW S \in SUBSET Ops, NEW T \in SUBSET Ops, S \cap T = {}
  PROVE  Cardinality(S \cup T) = Cardinality(S) + Cardinality(T)
BY CountLess, Counted

\* A nonempty set of operations has a least one.
LEMMA LeastIn ==
  ASSUME NEW S \in SUBSET Ops, S # {}
  PROVE  Least(S) \in S
<1>1. S \in SUBSET Nat
  BY ConstantFacts
<1>2. PICK x \in S : \A y \in S : ~ (<<y, x>> \in OpToRel(<, Nat))
  BY <1>1, NatLessThanWellFounded, WFMin
<1>3. \A y \in S : ~ (y < x)
  BY <1>1, <1>2 DEF OpToRel
<1>4. \A y \in S : x <= y
  BY <1>1, <1>3
<1> QED BY <1>4 DEF Least

-----------------------------------------------------------------------------
(* Steps that change no table's keys.  Most steps only move a live call on and let owners age:  *)
(* they close, or lose a VM that needs no finalizer.                                            *)

Steps(a, b) ==
  /\ a.pc \in LivePcs /\ b.pc \in LivePcs /\ CallOK(b)
  /\ b.pool = a.pool /\ b.kind = a.kind /\ b.owner = a.owner /\ b.dispatched = a.dispatched
  /\ b.pc = "queued" <=> a.pc = "queued"
  /\ b.lease # "none" => a.lease # "none"
  /\ b.lease # "none" /\ ~b.dispatched => b.pc = "supervised" /\ b.lease = "raw" /\ ~b.prepared

Aged(a, b) ==
  /\ a.state = "kept" /\ b.state = "kept" /\ b.pool = a.pool /\ b.active = a.active
  /\ b.reservation = a.reservation
  /\ a.closing => b.closing
  /\ b.lease = a.lease \/ (b.lease = "none" /\ b.closing)
  /\ b.receipt # "none" => b.closing /\ b.active = 0 /\ b.lease = "none"
AgedSession(a, b) ==
  /\ Aged(a, b) /\ b.queued = a.queued /\ b.unfinished = a.unfinished
  /\ b.opened = a.opened /\ b.closed = a.closed

Quiet ==
  /\ call' \in [Ops -> Call] /\ session' \in [Ops -> SessionShape] /\ instance' \in [Ops -> Instance]
  /\ \A o \in Ops : call'[o] = call[o] \/ Steps(call[o], call'[o])
  /\ \A s \in Ops : session'[s] = session[s] \/ AgedSession(session[s], session'[s])
  /\ \A i \in Ops : instance'[i] = instance[i] \/ Aged(instance[i], instance'[i])
  /\ UNCHANGED <<queue, rotation, live, registry>>

\* Quiet steps keep the structure of calls, sessions and instances.
LEMMA QuietKeeps ==
  ASSUME Shape, Owning, Quiet
  PROVE  Owning'
<1>1. \A o \in Ops : /\ call[o] \in Call /\ call'[o] \in Call
                     /\ session[o] \in SessionShape /\ session'[o] \in SessionShape
                     /\ instance[o] \in Instance /\ instance'[o] \in Instance
  BY DEF Shape, Quiet
<1>2. \A o \in Ops : /\ call'[o].pool = call[o].pool /\ call'[o].kind = call[o].kind
                     /\ call'[o].owner = call[o].owner /\ call'[o].dispatched = call[o].dispatched
                     /\ call'[o].pc = "queued" <=> call[o].pc = "queued"
                     /\ call'[o].pc \in LivePcs <=> call[o].pc \in LivePcs
                     /\ call[o].pc \notin LivePcs => call'[o] = call[o]
                     /\ call'[o].lease # "none" => call[o].lease # "none"
  BY DEF Quiet, Steps
<1>3. \A o \in Ops : /\ SessionOf(o)' = SessionOf(o) /\ InstanceOf(o)' = InstanceOf(o)
                     /\ SessionOf(o) \in Ops \cup {0} /\ InstanceOf(o) \in Ops \cup {0}
  BY <1>1, <1>2 DEF SessionOf, InstanceOf, Call
<1>4. \A s \in Ops : /\ session'[s].state = session[s].state /\ session'[s].pool = session[s].pool
                     /\ session'[s].active = session[s].active
                     /\ session'[s].reservation = session[s].reservation
                     /\ session[s].closing => session'[s].closing
                     /\ session[s].lease = "none" => session'[s].lease = "none"
                     /\ session[s].state # "kept" => session'[s] = session[s]
  BY DEF Quiet, AgedSession, Aged
<1>5. \A i \in Ops : /\ instance'[i].state = instance[i].state /\ instance'[i].pool = instance[i].pool
                     /\ instance'[i].active = instance[i].active
                     /\ instance'[i].reservation = instance[i].reservation
                     /\ instance[i].state # "kept" => instance'[i] = instance[i]
  BY DEF Quiet, Aged
<1>6. UNCHANGED <<queue, rotation, live, registry>>
  BY DEF Quiet
<1>7. Tables'
  BY <1>2, <1>6 DEF Tables, Owning
<1>8. Fresh'
  <2> SUFFICES ASSUME NEW o \in Ops
               PROVE  /\ o >= registry.next <=> call'[o].pc = "free"
                      /\ call'[o].owner < registry.next
                      /\ o >= registry.next => session'[o] = NoSession /\ instance'[o] = NoInstance
    BY <1>6 DEF Fresh
  <2>1. /\ o >= registry.next <=> call[o].pc = "free"
        /\ call[o].owner < registry.next
        /\ o >= registry.next => session[o] = NoSession /\ instance[o] = NoInstance
    BY DEF Owning, Fresh
  <2>2. call'[o].pc = "free" <=> call[o].pc = "free"
    BY <1>2 DEF LivePcs
  <2>3. NoSession.state = "none" /\ NoInstance.state = "none"
    BY DEF NoSession, NoInstance
  <2> QED BY <1>2, <1>4, <1>5, <2>1, <2>2, <2>3
<1>9. Calls'
  <2> SUFFICES ASSUME NEW o \in Ops PROVE CallOK(call'[o]) /\ CallOwned(o)'
    BY DEF Calls
  <2>1. CallOK(call[o]) /\ CallOwned(o)
    BY DEF Owning, Calls
  <2>2. CallOK(call'[o])
    BY <2>1 DEF Quiet, Steps
  <2>3. CallOwned(o)'
    <3>1. PICK s, i : s = SessionOf(o) /\ i = InstanceOf(o)
      OBVIOUS
    <3>2. s \in Ops \cup {0} /\ i \in Ops \cup {0} /\ SessionOf(o)' = s /\ InstanceOf(o)' = i
      BY <1>3, <3>1
    <3>3. call'[o].kind = "open" => call'[o].owner = o
      BY <1>2, <2>1 DEF CallOwned
    <3>4. ASSUME s # 0
          PROVE  /\ session'[s].state = "kept" /\ session'[s].pool = call'[o].pool
                 /\ s # o => call'[s].pc \in {"done", "forgotten"}
                 /\ call'[o].dispatched => session'[s].active = o
      BY <1>2, <1>4, <2>1, <3>1, <3>2, <3>4 DEF CallOwned, LivePcs
    <3>5. i # 0 => instance'[i].state = "kept" /\ instance'[i].pool = call'[o].pool /\ instance'[i].active = o
      BY <1>2, <1>5, <2>1, <3>1, <3>2 DEF CallOwned
    <3>6. ASSUME call'[o].lease # "none", ~call'[o].dispatched
          PROVE  /\ call'[o].kind = "open" /\ call'[o].pc = "supervised"
                 /\ call'[o].lease = "raw" /\ ~call'[o].prepared
      BY <1>2, <2>1, <3>6 DEF CallOwned, Quiet, Steps
    <3>7. ASSUME call'[o].kind = "open", ~call'[o].dispatched, call'[o].pc # "queued"
          PROVE  session'[o].closing /\ session'[o].lease = "none"
      BY <1>2, <1>4, <2>1, <3>7 DEF CallOwned
    <3>8. ASSUME call'[o].lease # "none", Policy[call'[o].pool].finalizer, call'[o].kind \notin ClosingKinds
          PROVE  /\ s # 0 => session'[s].reservation # 0
                 /\ i # 0 => instance'[i].reservation # 0
      BY <1>2, <1>4, <1>5, <2>1, <3>1, <3>2, <3>8 DEF CallOwned
    <3> QED BY <3>2, <3>3, <3>4, <3>5, <3>6, <3>7, <3>8, Zenon DEF CallOwned
  <2> QED BY <2>2, <2>3
<1>10. ASSUME NEW o \in Ops, o # 0, call[o].pc = "reserved"
       PROVE  call'[o] = call[o]
  BY <1>2, <1>10 DEF LivePcs
<1>11. Sessions'
  BY <1>1, <1>2, <1>3, <1>4, <1>5, <1>10 DEF Sessions, Owning, Quiet, SessionOK, LivePcs, AgedSession, Aged,
     SessionShape, OwnerOK
<1>12. Instances'
  BY <1>1, <1>2, <1>3, <1>5, <1>10 DEF Instances, Owning, Quiet, InstanceOK, Aged, Instance, OwnerOK, LivePcs
<1>13. Distinct'
  BY <1>4, <1>5 DEF Owning, Distinct
<1> QED BY <1>7, <1>8, <1>9, <1>11, <1>12, <1>13 DEF Owning

-----------------------------------------------------------------------------
(* The quiet steps. *)

\* What is known of one call.
LEMMA CallFacts ==
  ASSUME Shape, Owning, NEW o \in Ops
  PROVE  /\ call[o] \in Call /\ CallOK(call[o]) /\ CallOwned(o)
         /\ SessionOf(o) \in Ops \cup {0} /\ InstanceOf(o) \in Ops \cup {0} /\ VmOf(o) \in Ops
         /\ SessionOf(o) # 0 => InstanceOf(o) = 0 /\ session[SessionOf(o)] \in SessionShape
         /\ InstanceOf(o) # 0 => instance[InstanceOf(o)] \in Instance
         /\ call[o].owner = 0 <=> SessionOf(o) = 0 /\ InstanceOf(o) = 0
BY ConstantFacts DEF Shape, Owning, Calls, Call, SessionOf, InstanceOf, VmOf

\* An owner that is told to close ages.
LEMMA MarkAges ==
  ASSUME NEW a, a \in SessionShape \/ a \in Instance, a.state = "kept", OwnerOK(a)
  PROVE  /\ Aged(a, [a EXCEPT !.closing = TRUE])
         /\ a \in SessionShape => /\ AgedSession(a, [a EXCEPT !.closing = TRUE])
                                  /\ [a EXCEPT !.closing = TRUE] \in SessionShape
         /\ a \in Instance => [a EXCEPT !.closing = TRUE] \in Instance
BY DEF SessionShape, Instance, Aged, AgedSession, OwnerOK

\* One call moves on, and its owners may be told to close.
LEMMA OneStepQuiet ==
  ASSUME Shape, Owning, NEW o \in Ops, NEW c \in Call, Steps(call[o], c),
         call' = [call EXCEPT ![o] = c],
         session' = session \/ (SessionOf(o) # 0 /\ session' = [session EXCEPT ![SessionOf(o)].closing = TRUE]),
         instance' = instance \/ (InstanceOf(o) # 0 /\ instance' = [instance EXCEPT ![InstanceOf(o)].closing = TRUE]),
         UNCHANGED <<queue, rotation, live, registry>>
  PROVE  Quiet
<1>1. call \in [Ops -> Call] /\ session \in [Ops -> SessionShape] /\ instance \in [Ops -> Instance]
  BY DEF Shape
<1>2. call' \in [Ops -> Call] /\ \A x \in Ops : call'[x] = call[x] \/ Steps(call[x], call'[x])
  BY <1>1
<1>3. session' \in [Ops -> SessionShape] /\ \A s \in Ops : session'[s] = session[s] \/ AgedSession(session[s], session'[s])
  <2>1. CASE session' = session
    BY <1>1, <2>1
  <2>2. CASE SessionOf(o) # 0 /\ session' = [session EXCEPT ![SessionOf(o)].closing = TRUE]
    <3>1. PICK s \in Ops : s = SessionOf(o)
      BY <2>2, CallFacts
    <3>2. session[s] \in SessionShape /\ session[s].state = "kept" /\ OwnerOK(session[s])
      BY <1>1, <2>2, <3>1, CallFacts DEF CallOwned, Owning, Sessions, SessionOK
    <3>3. /\ [session[s] EXCEPT !.closing = TRUE] \in SessionShape
          /\ AgedSession(session[s], [session[s] EXCEPT !.closing = TRUE])
      BY <3>2, MarkAges
    <3>4. session' = [session EXCEPT ![s] = [session[s] EXCEPT !.closing = TRUE]]
      BY <2>2, <3>1
    <3> QED BY <1>1, <3>3, <3>4
  <2> QED BY <2>1, <2>2
<1>4. instance' \in [Ops -> Instance] /\ \A i \in Ops : instance'[i] = instance[i] \/ Aged(instance[i], instance'[i])
  <2>1. CASE instance' = instance
    BY <1>1, <2>1
  <2>2. CASE InstanceOf(o) # 0 /\ instance' = [instance EXCEPT ![InstanceOf(o)].closing = TRUE]
    <3>1. PICK s \in Ops : s = InstanceOf(o)
      BY <2>2, CallFacts
    <3>2. instance[s] \in Instance /\ instance[s].state = "kept" /\ OwnerOK(instance[s])
      BY <1>1, <2>2, <3>1, CallFacts DEF CallOwned, Owning, Instances, InstanceOK
    <3>3. /\ [instance[s] EXCEPT !.closing = TRUE] \in Instance
          /\ Aged(instance[s], [instance[s] EXCEPT !.closing = TRUE])
      BY <3>2, MarkAges
    <3>4. instance' = [instance EXCEPT ![s] = [instance[s] EXCEPT !.closing = TRUE]]
      BY <2>2, <3>1
    <3> QED BY <1>1, <3>3, <3>4
  <2> QED BY <2>1, <2>2
<1> QED BY <1>2, <1>3, <1>4 DEF Quiet

\* The rest of the state, where a step leaves it alone or to the tables.
Frame == /\ pool' \in [Pools -> PoolShape] /\ plugin' \in [Plugins -> PluginShape]
         /\ queued' \in Int /\ cleaning' \in Int /\ closing' \in BOOLEAN /\ shared' \in BOOLEAN
         /\ workers' \in Int /\ failures' \in Int
         /\ finalized' \in [Ops -> {"raw", "due", "once", "again"}]

LEMMA QuietShape ==
  ASSUME Shape, Quiet, Frame
  PROVE  Shape'
  BY DEF Shape, Quiet, Frame

LEMMA InvokeQuiet ==
  ASSUME Shape, Owning, NEW o \in Ops, invoke(o)
  PROVE  Quiet /\ Frame
<1>1. PICK out \in Outcomes(o) :
        LET ok == out[1]  lease == out[2]  p == call[o].pool
            s == SessionOf(o)  i == InstanceOf(o)
            plan == Plan(lease, p)
            final == call[o].owner = 0 /\ plan
            keep == call[o].owner # 0 /\ ((ok /\ lease = "live") \/ plan)
            lost == ~keep \/ ~ok \/ lease # "live"
        IN /\ call' = [call EXCEPT ![o].pc = "cleaning",
                                   ![o].lease = IF final \/ keep THEN lease ELSE "none",
                                   ![o].final = IF final THEN "intent" ELSE "none",
                                   ![o].receipt = IF final \/ keep THEN "none" ELSE Receipt(lease)]
           /\ session' = IF s # 0 /\ lost THEN [session EXCEPT ![s].closing = TRUE] ELSE session
           /\ instance' = IF i # 0 /\ lost THEN [instance EXCEPT ![i].closing = TRUE] ELSE instance
           /\ finalized' = IF plan /\ finalized[VmOf(o)] = "raw"
                           THEN [finalized EXCEPT ![VmOf(o)] = "due"] ELSE finalized
  BY DEF invoke
<1>2. call[o].pc = "running" /\ cleaning' = cleaning + 1
      /\ UNCHANGED <<pool, plugin, queue, rotation, live, queued, closing, shared, registry,
                     supervisor, workers, failures>>
  BY DEF invoke
<1>3. out[2] \in {"raw", "live", "worn", "dead"}
  <2>1. PICK used \in {"worn", "dead"} : \E ok, l : out = <<ok, l>> /\ l \in {"raw", "live", "dead", used}
    BY Zenon DEF Outcomes
  <2> QED BY <2>1
<1> DEFINE lease == out[2]
           plan == Plan(out[2], call[o].pool)
           final == call[o].owner = 0 /\ plan
           keep == call[o].owner # 0 /\ ((out[1] /\ lease = "live") \/ plan)
           c == [call[o] EXCEPT !.pc = "cleaning", !.lease = IF final \/ keep THEN lease ELSE "none",
                                !.final = IF final THEN "intent" ELSE "none",
                                !.receipt = IF final \/ keep THEN "none" ELSE Receipt(lease)]
<1>4. call[o] \in Call /\ CallOK(call[o])
  BY CallFacts
<1>5. plan => lease \in {"live", "worn"}
  BY DEF Plan
<1>6. c \in Call
  <2>1. PICK l, f, r : /\ l = (IF final \/ keep THEN lease ELSE "none") /\ f = (IF final THEN "intent" ELSE "none")
                       /\ r = (IF final \/ keep THEN "none" ELSE Receipt(lease))
    OBVIOUS
  <2>2. l \in Lease /\ f \in {"none", "intent"} /\ r \in Receipts
    BY <1>3, <2>1 DEF Lease, Receipts, Receipt
  <2>3. c = [call[o] EXCEPT !.pc = "cleaning", !.lease = l, !.final = f, !.receipt = r]
    BY <2>1
  <2> HIDE DEF c
  <2> QED BY <1>4, <2>2, <2>3 DEF Call, Receipts
<1>7. Steps(call[o], c)
  <2>1. /\ c.pc = "cleaning" /\ c.lease = (IF final \/ keep THEN lease ELSE "none")
        /\ c.final = (IF final THEN "intent" ELSE "none")
        /\ c.receipt = (IF final \/ keep THEN "none" ELSE Receipt(lease))
        /\ c.pool = call[o].pool /\ c.kind = call[o].kind /\ c.owner = call[o].owner
        /\ c.dispatched = call[o].dispatched /\ c.prepared = call[o].prepared
    BY <1>4 DEF Call
  <2>2. /\ call[o].dispatched /\ call[o].lease # "none" /\ ~call[o].prepared
        /\ call[o].kind \notin ClosingKinds /\ call[o].kind # "none"
        /\ call[o].kind \in SessionKinds \cup ClosingKinds => call[o].owner # 0
    BY <1>2, <1>4 DEF CallOK, LivePcs
  <2>3. CallOK(c)
    <3> HIDE DEF c
    <3> QED BY <1>5, <2>1, <2>2 DEF CallOK, LivePcs, ClosingKinds, Plan
  <2> QED BY <1>2, <2>1, <2>2, <2>3 DEF Steps, LivePcs
<1>8. call' = [call EXCEPT ![o] = c]
  BY <1>1
<1>9. /\ session' = session \/ (SessionOf(o) # 0 /\ session' = [session EXCEPT ![SessionOf(o)].closing = TRUE])
      /\ instance' = instance \/ (InstanceOf(o) # 0 /\ instance' = [instance EXCEPT ![InstanceOf(o)].closing = TRUE])
  BY <1>1
<1>10. Quiet
  <2> HIDE DEF c
  <2> QED BY <1>2, <1>6, <1>7, <1>8, <1>9, OneStepQuiet
<1>11. Frame
  <2>1. finalized' \in [Ops -> {"raw", "due", "once", "again"}]
    BY <1>1 DEF Shape
  <2> QED BY <1>2, <2>1 DEF Shape, Frame
<1> QED BY <1>10, <1>11

\* The VM of a refused opening is retired before anything else happens to its call.
LEMMA RefusedCloses ==
  ASSUME Shape, Owning, NEW o \in Ops, call[o].lease # "none", ~call[o].dispatched
  PROVE  MustClose(o)
BY CallFacts, ConstantFacts DEF CallOwned, CallOK, SessionOf, MustClose, OwnerClosing, Plan

LEMMA AdvanceSteps ==
  ASSUME NEW c \in Call, CallOK(c), c.pc = "supervised", Needs(c), ~c.dispatched => c.lease = "none",
         NEW d, d = c \/ d = [c EXCEPT !.retry = "retrying"]
  PROVE  /\ [d EXCEPT !.pc = "held"] \in Call /\ Steps(c, [d EXCEPT !.pc = "held"])
         /\ Attempted(d) \in Call /\ Steps(c, Attempted(d))
         /\ [Attempted(d) EXCEPT !.retry = "waiting"] \in Call /\ Steps(c, [Attempted(d) EXCEPT !.retry = "waiting"])
         /\ Acknowledged(d) \in Call /\ Steps(c, Acknowledged(d))
<1>1. /\ d \in Call /\ d.pc = c.pc /\ d.kind = c.kind /\ d.pool = c.pool /\ d.owner = c.owner
      /\ d.dispatched = c.dispatched /\ d.started = c.started /\ d.lease = c.lease
      /\ d.final = c.final /\ d.receipt = c.receipt /\ d.prepared = c.prepared
  BY DEF Call
<1>2. CallOK(d)
  BY <1>1 DEF LivePcs, CallOK
<1>3. d.final \in {"none", "intent", "ran"} /\ d.pc \in LivePcs /\ d.pc # "queued"
  BY <1>1, <1>2 DEF CallOK, Call, LivePcs
<1>4. ASSUME NEW e \in Call, e.pc \in {"held", "finalizing", "supervised", "publishing"},
             e.pool = d.pool, e.kind = d.kind, e.owner = d.owner, e.dispatched = d.dispatched,
             e.lease = d.lease \/ e.lease = "none",
             CallOK(e)
      PROVE  Steps(c, e)
  BY <1>1, <1>4 DEF Steps, LivePcs
<1>5. [d EXCEPT !.pc = "held"] \in Call /\ Steps(c, [d EXCEPT !.pc = "held"])
  BY <1>1, <1>2, <1>3, <1>4 DEF Call, CallOK, LivePcs
<1>6. ASSUME NEW w \in {"waiting", d.retry}
      PROVE  [Attempted(d) EXCEPT !.retry = w] \in Call /\ Steps(c, [Attempted(d) EXCEPT !.retry = w])
  <2>1. PICK e : e = [Attempted(d) EXCEPT !.retry = w]
    OBVIOUS
  <2>2. d.retry \in {"none", "waiting", "requested", "retrying"} /\ d.prepared \in BOOLEAN /\ d.receipt \in Receipts
    BY <1>1 DEF Call, Receipts
  <2>3. PICK rc, pr : /\ rc = (IF d.final = "none" /\ d.started THEN "none" ELSE d.receipt)
                      /\ pr = (d.prepared \/ (d.final = "none" /\ d.started))
    OBVIOUS
  <2>4. rc \in Receipts /\ pr \in BOOLEAN
    BY <2>2, <2>3 DEF Receipts
  <2>5. e = [d EXCEPT !.pc = "held", !.receipt = rc, !.prepared = pr, !.retry = w]
    BY <2>1, <2>3 DEF Attempted
  <2>6. /\ e.pc = "held" /\ e.kind = d.kind /\ e.pool = d.pool /\ e.owner = d.owner
        /\ e.dispatched = d.dispatched /\ e.lease = d.lease
        /\ e.final = d.final /\ e.receipt = rc /\ e.prepared = pr
    BY <1>1, <2>5 DEF Call
  <2>7. e \in Call
    <3>1. w \in {"none", "waiting", "requested", "retrying"}
      BY <2>2
    <3>2. [d EXCEPT !.pc = "held", !.receipt = rc] \in Call
      BY <1>1, <2>4 DEF Call, Receipts
    <3>3. [d EXCEPT !.pc = "held", !.receipt = rc, !.prepared = pr] \in Call
      <4>1. PICK f \in Call : f = [d EXCEPT !.pc = "held", !.receipt = rc]
        BY <3>2
      <4>2. [f EXCEPT !.prepared = pr] \in Call
        BY <2>4 DEF Call
      <4> QED BY <4>1, <4>2
    <3>4. PICK f \in Call : f = [d EXCEPT !.pc = "held", !.receipt = rc, !.prepared = pr]
      BY <3>3
    <3>5. [f EXCEPT !.retry = w] \in Call
      BY <3>1 DEF Call
    <3> QED BY <2>5, <3>4, <3>5
  <2>8. CallOK(e)
    BY <1>1, <1>2, <1>3, <2>2, <2>3, <2>6 DEF CallOK, LivePcs
  <2> QED BY <1>4, <2>1, <2>6, <2>7, <2>8
<1>7. Attempted(d) \in Call /\ Steps(c, Attempted(d))
  <2>1. Attempted(d) = [Attempted(d) EXCEPT !.retry = d.retry]
    BY <1>1 DEF Attempted, Call
  <2> QED BY <1>6, <2>1
<1>8. Acknowledged(d) \in Call /\ Steps(c, Acknowledged(d))
  <2>1. PICK e : e = Acknowledged(d)
    OBVIOUS
  <2>2. CASE d.final = "intent"
    <3>1. e = [d EXCEPT !.pc = "finalizing", !.final = "durable", !.started = TRUE, !.retry = "none"]
      BY <2>1, <2>2 DEF Acknowledged
    <3>2. /\ e \in Call /\ e.pc = "finalizing" /\ e.kind = d.kind /\ e.pool = d.pool /\ e.owner = d.owner
          /\ e.dispatched = d.dispatched /\ e.lease = d.lease
          /\ e.final = "durable" /\ e.receipt = d.receipt /\ e.prepared = d.prepared
      BY <1>1, <3>1 DEF Call
    <3>3. CallOK(e)
      BY <1>1, <1>2, <1>3, <2>2, <3>2 DEF CallOK, LivePcs
    <3> QED BY <1>4, <2>1, <3>2, <3>3
  <2>3. CASE d.final = "ran"
    <3>1. e = [d EXCEPT !.final = "none", !.lease = "none", !.receipt = "pending", !.retry = "none"]
      BY <2>1, <2>3 DEF Acknowledged
    <3>2. /\ e \in Call /\ e.pc = "supervised" /\ e.kind = d.kind /\ e.pool = d.pool /\ e.owner = d.owner
          /\ e.dispatched = d.dispatched /\ e.lease = "none"
          /\ e.final = "none" /\ e.receipt = "pending" /\ e.prepared = d.prepared
      <4>1. "none" \in Lease
        BY DEF Lease
      <4> QED BY <1>1, <3>1, <4>1 DEF Call
    <3>3. CallOK(e)
      BY <1>1, <1>2, <1>3, <2>3, <3>2 DEF CallOK, LivePcs
    <3> QED BY <1>4, <2>1, <3>2, <3>3
  <2>4. CASE d.final = "none" /\ ~d.started
    <3>1. e = [d EXCEPT !.started = TRUE, !.retry = "none"]
      BY <2>1, <2>4 DEF Acknowledged
    <3>2. /\ e \in Call /\ e.pc = "supervised" /\ e.kind = d.kind /\ e.pool = d.pool /\ e.owner = d.owner
          /\ e.dispatched = d.dispatched /\ e.lease = d.lease
          /\ e.final = d.final /\ e.receipt = d.receipt /\ e.prepared = d.prepared
      BY <1>1, <3>1 DEF Call
    <3>3. CallOK(e)
      BY <1>1, <1>2, <1>3, <2>4, <3>2 DEF CallOK, LivePcs
    <3> QED BY <1>4, <2>1, <3>2, <3>3
  <2>5. CASE d.final = "none" /\ d.started
    <3>1. e = [d EXCEPT !.pc = "publishing", !.receipt = "none", !.prepared = TRUE]
      BY <2>1, <2>5 DEF Acknowledged
    <3>2. /\ e \in Call /\ e.pc = "publishing" /\ e.kind = d.kind /\ e.pool = d.pool /\ e.owner = d.owner
          /\ e.dispatched = d.dispatched /\ e.lease = d.lease
          /\ e.final = d.final /\ e.receipt = "none" /\ e.prepared
      BY <1>1, <3>1 DEF Call
    <3>3. CallOK(e)
      BY <1>1, <1>2, <1>3, <2>5, <3>2 DEF CallOK, LivePcs
    <3> QED BY <1>4, <2>1, <3>2, <3>3
  <2> QED BY <1>3, <2>2, <2>3, <2>4, <2>5
<1> QED BY <1>5, <1>6, <1>7, <1>8

LEMMA AdvanceQuiet ==
  ASSUME Shape, Owning, NEW o \in Ops, NEW result \in {"pending", "done", "failed"}, advance(o, result)
  PROVE  Quiet /\ Frame
<1>1. PICK c, d : /\ c = call[o]
                  /\ d = IF c.retry = "requested" THEN [c EXCEPT !.retry = "retrying"] ELSE c
  OBVIOUS
<1>2. /\ c.pc = "supervised" /\ ~MustClose(o) /\ Needs(c) /\ failures' \in {failures, failures + 1}
      /\ UNCHANGED <<session, instance, pool, plugin, queue, rotation, live, queued, cleaning,
                     closing, shared, registry, supervisor, workers, finalized>>
  BY <1>1 DEF advance
<1>3. c \in Call /\ CallOK(c) /\ (~c.dispatched => c.lease = "none")
  BY <1>1, <1>2, CallFacts, RefusedCloses
<1>4. d = c \/ d = [c EXCEPT !.retry = "retrying"]
  BY <1>1
<1>5. \E e \in Call : Steps(c, e) /\ call' = [call EXCEPT ![o] = e]
  BY <1>1, <1>2, <1>3, <1>4, AdvanceSteps DEF advance
<1>6. PICK e \in Call : Steps(c, e) /\ call' = [call EXCEPT ![o] = e]
  BY <1>5
<1>7. Quiet
  BY <1>1, <1>2, <1>6, OneStepQuiet
<1>8. Frame
  BY <1>2 DEF Shape, Frame
<1> QED BY <1>7, <1>8

\* A live call whose record changes in what no owner sees.
LEMMA PlainSteps ==
  ASSUME NEW c \in Call, CallOK(c), c.pc \in LivePcs, NEW e \in Call, e.pc \in LivePcs,
         e.kind = c.kind, e.pool = c.pool, e.owner = c.owner, e.dispatched = c.dispatched,
         e.final = c.final, e.prepared = c.prepared, e.lease = c.lease,
         e.receipt = c.receipt \/ (e.lease = "none" /\ c.receipt = "pending"),
         e.pc = c.pc \/ (c.pc \in {"supervised", "held"} /\ e.pc \in {"held", "cleaning"})
                     \/ (c.pc = "finalizing" /\ e.pc = "closing"),
         ~c.dispatched /\ c.lease # "none" => e.pc = "supervised" /\ c.lease = "raw" /\ ~c.prepared
  PROVE  Steps(c, e)
BY DEF CallOK, LivePcs, Steps

LEMMA HoldQuiet ==
  ASSUME Shape, Owning, NEW o \in Ops, hold(o)
  PROVE  Quiet /\ Frame
<1>1. PICK c, e : c = call[o] /\ e = [c EXCEPT !.pc = "held"]
  OBVIOUS
<1>2. c \in Call /\ CallOK(c) /\ c.pc = "supervised" /\ (~c.dispatched => c.lease = "none")
  BY <1>1, CallFacts, RefusedCloses DEF hold
<1>3. /\ e \in Call /\ e.pc = "held" /\ e.kind = c.kind /\ e.pool = c.pool /\ e.owner = c.owner
      /\ e.dispatched = c.dispatched /\ e.final = c.final /\ e.prepared = c.prepared
      /\ e.lease = c.lease /\ e.receipt = c.receipt
  BY <1>1, <1>2 DEF Call
<1>4. Steps(c, e)
  BY <1>2, <1>3, PlainSteps DEF LivePcs
<1>5. call' = [call EXCEPT ![o] = e]
  BY <1>1 DEF hold
<1>6. Quiet
  BY <1>1, <1>3, <1>4, <1>5, OneStepQuiet DEF hold
<1> QED BY <1>6 DEF hold, Shape, Frame

LEMMA BeginQuiet ==
  ASSUME Shape, Owning, NEW o \in Ops, begin_finalization(o)
  PROVE  Quiet /\ Frame
<1>1. PICK c, e : c = call[o] /\ e = [c EXCEPT !.pc = "closing"]
  OBVIOUS
<1>2. c \in Call /\ CallOK(c) /\ c.pc = "finalizing"
  BY <1>1, CallFacts DEF begin_finalization
<1>3. /\ e \in Call /\ e.pc = "closing" /\ e.kind = c.kind /\ e.pool = c.pool /\ e.owner = c.owner
      /\ e.dispatched = c.dispatched /\ e.final = c.final /\ e.prepared = c.prepared
      /\ e.lease = c.lease /\ e.receipt = c.receipt
  BY <1>1, <1>2 DEF Call
<1>4. c.dispatched
  BY <1>2 DEF CallOK
<1>5. Steps(c, e)
  BY <1>2, <1>3, <1>4, PlainSteps DEF LivePcs
<1>6. call' = [call EXCEPT ![o] = e]
  BY <1>1 DEF begin_finalization
<1>7. Quiet
  BY <1>1, <1>3, <1>5, <1>6, OneStepQuiet DEF begin_finalization
<1> QED BY <1>7 DEF begin_finalization, Shape, Frame

LEMMA FinishQuiet ==
  ASSUME Shape, Owning, NEW o \in Ops, finish_finalization(o)
  PROVE  Quiet /\ Frame
BY CallFacts, OneStepQuiet DEF finish_finalization, Call, CallOK, LivePcs, Steps, Shape, Frame

LEMMA CloseRetainedQuiet ==
  ASSUME Shape, Owning, NEW o \in Ops, close_retained(o)
  PROVE  Quiet /\ Frame
<1>1. PICK c, e : /\ c = call[o]
                  /\ e = [c EXCEPT !.pc = "held", !.lease = "none", !.receipt = Receipt(c.lease)]
  OBVIOUS
<1>2. c \in Call /\ CallOK(c) /\ c.pc = "supervised" /\ MustClose(o)
  BY <1>1, CallFacts DEF close_retained
<1>3. c.final = "none" /\ ~c.prepared
  BY <1>1, <1>2 DEF MustClose
<1>4. "none" \in Lease /\ Receipt(c.lease) \in Receipts
  BY DEF Lease, Receipt, Receipts
<1>5. /\ e \in Call /\ e.pc = "held" /\ e.kind = c.kind /\ e.pool = c.pool /\ e.owner = c.owner
      /\ e.dispatched = c.dispatched /\ e.final = c.final /\ e.prepared = c.prepared
      /\ e.lease = "none"
  <2>1. PICK rc \in Receipts : rc = Receipt(c.lease)
    BY <1>4
  <2>2. e = [c EXCEPT !.pc = "held", !.lease = "none", !.receipt = rc]
    BY <1>1, <2>1
  <2> QED BY <1>2, <1>4, <2>2 DEF Call, Receipts
<1>6. CallOK(e)
  BY <1>2, <1>3, <1>5 DEF CallOK, LivePcs
<1>7. Steps(c, e)
  BY <1>2, <1>5, <1>6 DEF Steps, LivePcs
<1>8. call' = [call EXCEPT ![o] = e]
  BY <1>1 DEF close_retained
<1>9. /\ session' = session \/ (SessionOf(o) # 0 /\ session' = [session EXCEPT ![SessionOf(o)].closing = TRUE])
      /\ instance' = instance \/ (InstanceOf(o) # 0 /\ instance' = [instance EXCEPT ![InstanceOf(o)].closing = TRUE])
      /\ UNCHANGED <<pool, plugin, queue, rotation, live, queued, cleaning, closing, shared,
                     registry, supervisor, workers, failures, finalized>>
  BY DEF close_retained
<1>10. Quiet
  BY <1>1, <1>5, <1>7, <1>8, <1>9, OneStepQuiet
<1> QED BY <1>9, <1>10 DEF Shape, Frame

LEMMA FailEvidenceQuiet ==
  ASSUME Shape, Owning, NEW o \in Ops, fail_evidence(o)
  PROVE  Quiet /\ Frame
<1>1. PICK c, e : c = call[o] /\ e = [c EXCEPT !.evidence = TRUE]
  OBVIOUS
<1>2. c \in Call /\ CallOK(c) /\ c.pc = "running"
  BY <1>1, CallFacts DEF fail_evidence
<1>3. /\ e \in Call /\ e.pc = c.pc /\ e.kind = c.kind /\ e.pool = c.pool /\ e.owner = c.owner
      /\ e.dispatched = c.dispatched /\ e.final = c.final /\ e.prepared = c.prepared
      /\ e.lease = c.lease /\ e.receipt = c.receipt
  BY <1>1, <1>2 DEF Call
<1>4. c.dispatched
  BY <1>2 DEF CallOK
<1>5. Steps(c, e)
  BY <1>2, <1>3, <1>4, PlainSteps DEF LivePcs
<1>6. call' = [call EXCEPT ![o] = e]
  BY <1>1 DEF fail_evidence
<1>7. Quiet
  BY <1>1, <1>3, <1>5, <1>6, OneStepQuiet DEF fail_evidence
<1> QED BY <1>7 DEF fail_evidence, Shape, Frame

LEMMA ExpireQuiet ==
  ASSUME Shape, Owning, NEW o \in Ops, expire_call(o)
  PROVE  Quiet /\ Frame
<1>1. PICK c, e : c = call[o] /\ e = [c EXCEPT !.expired = TRUE]
  OBVIOUS
<1>2. c \in Call /\ CallOK(c) /\ c.pc = "queued"
  BY <1>1, CallFacts DEF expire_call
<1>3. /\ e \in Call /\ e.pc = c.pc /\ e.kind = c.kind /\ e.pool = c.pool /\ e.owner = c.owner
      /\ e.dispatched = c.dispatched /\ e.final = c.final /\ e.prepared = c.prepared
      /\ e.lease = c.lease /\ e.receipt = c.receipt
  BY <1>1, <1>2 DEF Call
<1>4. c.lease = "none"
  BY <1>2 DEF CallOK
<1>5. Steps(c, e)
  BY <1>2, <1>3, <1>4, PlainSteps DEF LivePcs
<1>6. call' = [call EXCEPT ![o] = e]
  BY <1>1 DEF expire_call
<1>7. Quiet
  BY <1>1, <1>3, <1>5, <1>6, OneStepQuiet DEF expire_call
<1> QED BY <1>7 DEF expire_call, Shape, Frame

LEMMA RetryQuiet ==
  ASSUME Shape, Owning, NEW o \in Ops, retry_checkpoint(o)
  PROVE  Quiet /\ Frame
<1>1. PICK c, e : /\ c = call[o] /\ call' = [call EXCEPT ![o] = e]
                  /\ e = [c EXCEPT !.retry = "requested"] \/ e = [c EXCEPT !.evidence = FALSE]
  BY DEF retry_checkpoint
<1>2. c \in Call /\ CallOK(c) /\ CallOwned(o) /\ c.pc \in LivePcs
  BY <1>1, CallFacts DEF retry_checkpoint, Owning, Tables
<1>3. /\ e \in Call /\ e.pc = c.pc /\ e.kind = c.kind /\ e.pool = c.pool /\ e.owner = c.owner
      /\ e.dispatched = c.dispatched /\ e.final = c.final /\ e.prepared = c.prepared
      /\ e.lease = c.lease /\ e.receipt = c.receipt
  <2>1. CASE e = [c EXCEPT !.retry = "requested"]
    BY <1>2, <2>1 DEF Call
  <2>2. CASE e = [c EXCEPT !.evidence = FALSE]
    BY <1>2, <2>2 DEF Call
  <2> QED BY <1>1, <2>1, <2>2
<1>4. ~c.dispatched /\ c.lease # "none" => c.pc = "supervised" /\ c.lease = "raw" /\ ~c.prepared
  BY <1>1, <1>2 DEF CallOwned
<1>5. Steps(c, e)
  BY <1>2, <1>3, <1>4, PlainSteps
<1>6. Quiet
  BY <1>1, <1>3, <1>5, OneStepQuiet DEF retry_checkpoint
<1> QED BY <1>6 DEF retry_checkpoint, Shape, Frame

LEMMA RetireQuiet ==
  ASSUME Shape, Owning, NEW o \in Ops, retire(o)
  PROVE  Quiet /\ Frame
<1>1. /\ call \in [Ops -> Call] /\ session \in [Ops -> SessionShape] /\ instance \in [Ops -> Instance]
      /\ UNCHANGED <<pool, plugin, queue, rotation, live, queued, cleaning, closing, shared, registry,
                     supervisor, workers, failures, finalized>>
  BY DEF Shape, retire
<1> SUFFICES Quiet
  BY <1>1 DEF Shape, Frame
<1>2. CASE /\ call[o].receipt = "pending" /\ call' = [call EXCEPT ![o].receipt = "completed"]
           /\ UNCHANGED <<session, instance>>
  <2>1. PICK c, e : c = call[o] /\ e = [c EXCEPT !.receipt = "completed"]
    OBVIOUS
  <2>2. c \in Call /\ CallOK(c) /\ c.receipt = "pending"
    BY <1>2, <2>1, CallFacts
  <2>3. c.pc \in LivePcs /\ c.lease = "none"
    BY <2>2 DEF CallOK, Blank
  <2>4. /\ e \in Call /\ e.pc = c.pc /\ e.kind = c.kind /\ e.pool = c.pool /\ e.owner = c.owner
        /\ e.dispatched = c.dispatched /\ e.final = c.final /\ e.prepared = c.prepared
        /\ e.lease = c.lease
    BY <2>1, <2>2 DEF Call
  <2>5. Steps(c, e)
    BY <2>2, <2>3, <2>4, PlainSteps
  <2>6. call' = [call EXCEPT ![o] = e]
    BY <1>2, <2>1
  <2> QED BY <1>1, <1>2, <2>1, <2>4, <2>5, <2>6, OneStepQuiet
<1>3. CASE /\ session[o].receipt = "pending" /\ session' = [session EXCEPT ![o].receipt = "completed"]
           /\ UNCHANGED <<call, instance>>
  BY <1>1, <1>3 DEF SessionShape, Receipts, Owning, Sessions, SessionOK, NoSession, AgedSession, Aged, OwnerOK, Quiet
<1>4. CASE /\ instance[o].receipt = "pending" /\ instance' = [instance EXCEPT ![o].receipt = "completed"]
           /\ UNCHANGED <<call, session>>
  BY <1>1, <1>4 DEF Instance, Owning, Instances, InstanceOK, NoInstance, Aged, OwnerOK, Quiet
<1> QED BY <1>2, <1>3, <1>4 DEF retire

\* Sessions and instances that are kept are known.
LEMMA KeptFacts ==
  ASSUME Shape, Owning, NEW o \in Ops
  PROVE  /\ session[o] \in SessionShape /\ SessionOK(o)
         /\ instance[o] \in Instance /\ InstanceOK(o)
         /\ session[o].state = "kept" => OwnerOK(session[o])
         /\ instance[o].state = "kept" => OwnerOK(instance[o])
BY DEF Shape, Owning, Sessions, Instances, SessionOK, InstanceOK

LEMMA CloseSessionQuiet ==
  ASSUME Shape, Owning, NEW s \in Ops, close_session(s)
  PROVE  Quiet /\ Frame
BY KeptFacts, MarkAges DEF close_session, Kept, Shape, Frame, Quiet

\* Closing kept instances ages them.
LEMMA ClosingAges ==
  ASSUME Shape, Owning, NEW gone \in SUBSET Kept(instance)
  PROVE  /\ Closing(instance, gone) \in [Ops -> Instance]
         /\ \A i \in Ops : /\ Closing(instance, gone)[i] \in {instance[i], [instance[i] EXCEPT !.closing = TRUE]}
                           /\ \/ Closing(instance, gone)[i] = instance[i]
                              \/ Aged(instance[i], Closing(instance, gone)[i])
BY KeptFacts, MarkAges DEF Shape, Kept, Closing

LEMMA ScanQuiet ==
  ASSUME Shape, Owning, NEW gone \in SUBSET Kept(instance), instance' = Closing(instance, gone),
         UNCHANGED <<call, session, queue, rotation, live, registry>>
  PROVE  Quiet
BY ClosingAges DEF Shape, Quiet

LEMMA NothingQuiet ==
  ASSUME Shape, UNCHANGED <<call, session, instance, queue, rotation, live, registry>>
  PROVE  Quiet
  BY DEF Shape, Quiet

LEMMA ExtendQuiet ==
  ASSUME Shape, Owning, extend
  PROVE  Quiet /\ Frame
<1>1. ASSUME NEW o \in Ops
      PROVE  LET e == IF call[o].pc = "held" THEN [call[o] EXCEPT !.pc = "cleaning"] ELSE call[o]
             IN e \in Call /\ (e = call[o] \/ Steps(call[o], e))
  BY CallFacts, PlainSteps DEF Call, CallOwned, LivePcs
<1>2. /\ call' = [o \in Ops |-> IF call[o].pc = "held" THEN [call[o] EXCEPT !.pc = "cleaning"] ELSE call[o]]
      /\ UNCHANGED <<session, instance, pool, plugin, queue, rotation, live, queued, cleaning, closing,
                     shared, registry, workers, failures, finalized>>
  BY DEF extend
<1>3. call' \in [Ops -> Call] /\ \A o \in Ops : call'[o] = call[o] \/ Steps(call[o], call'[o])
  BY <1>1, <1>2
<1>4. Quiet
  BY <1>2, <1>3 DEF Shape, Quiet
<1> QED BY <1>2, <1>4 DEF Shape, Frame

\* maintain kills an idle VM without a finalizer, or tells its owner to close.
Kills(a, b) ==
  /\ a.state = "kept" /\ a.lease # "none" /\ a.active = 0 /\ ~Plan(a.lease, a.pool)
  /\ b = [a EXCEPT !.closing = TRUE, !.retiring = TRUE, !.lease = "none", !.receipt = Receipt(a.lease)]
Marks(a, b) == a.state = "kept" /\ b = [a EXCEPT !.closing = TRUE]

LEMMA MaintainEffect ==
  ASSUME Shape, Owning, maintain
  PROVE  /\ session' = [s \in Ops |-> session'[s]] /\ instance' = [i \in Ops |-> instance'[i]]
         /\ \A s \in Ops : \/ session'[s] = session[s] \/ Marks(session[s], session'[s])
                           \/ Kills(session[s], session'[s]) /\ session[s].unfinished = 0
         /\ \A i \in Ops : instance'[i] = instance[i] \/ Marks(instance[i], instance'[i]) \/ Kills(instance[i], instance'[i])
         /\ UNCHANGED <<call, pool, plugin, queue, rotation, live, queued, cleaning, closing, registry,
                        workers, failures, finalized>>
<1> DEFINE Ends(r) == r.state = "kept" /\ (r.closing \/ closing \/ pool[r.pool].state = "closed")
           Retires(r) == r.lease # "none" /\ r.active = 0 /\ ~Plan(r.lease, r.pool)
           Kill(r) == [r EXCEPT !.closing = TRUE, !.retiring = TRUE, !.lease = "none", !.receipt = Receipt(r.lease)]
           Mark(r) == [r EXCEPT !.closing = TRUE]
<1>1. PICK elapsed \in Elapsed :
        /\ session' = [s \in Ops |->
             IF ~Ends(session[s]) THEN session[s]
             ELSE IF Retires(session[s]) /\ session[s].unfinished = 0 THEN Kill(session[s])
             ELSE Mark(session[s])]
        /\ instance' = [i \in Ops |->
             LET r == Closing(instance, elapsed)[i]
             IN IF ~Ends(r) THEN r ELSE IF Retires(r) THEN Kill(r) ELSE Mark(r)]
  BY DEF maintain
<1>2. elapsed \in SUBSET Kept(instance)
  BY DEF Elapsed
<1>3. \A s \in Ops : \/ session'[s] = session[s] \/ Marks(session[s], session'[s])
                     \/ Kills(session[s], session'[s]) /\ session[s].unfinished = 0
  BY <1>1 DEF Kills, Marks
<1>4. ASSUME NEW i \in Ops
      PROVE  instance'[i] = instance[i] \/ Marks(instance[i], instance'[i]) \/ Kills(instance[i], instance'[i])
  <2>1. PICK a, r : a = instance[i] /\ r = Closing(instance, elapsed)[i]
    OBVIOUS
  <2>2. a \in Instance /\ (r = a \/ (a.state = "kept" /\ r = [a EXCEPT !.closing = TRUE]))
    BY <1>2, <2>1 DEF Closing, Kept, Shape
  <2>3. instance'[i] = IF ~Ends(r) THEN r ELSE IF Retires(r) THEN Kill(r) ELSE Mark(r)
    BY <1>1, <2>1
  <2>4. /\ r.state = a.state /\ r.lease = a.lease /\ r.active = a.active /\ r.pool = a.pool
        /\ Kill(r) = Kill(a) /\ Mark(r) = Mark(a)
    BY <2>2 DEF Instance
  <2> QED BY <2>1, <2>2, <2>3, <2>4 DEF Kills, Marks
<1>5. UNCHANGED <<call, pool, plugin, queue, rotation, live, queued, cleaning, closing, registry,
                  workers, failures, finalized>>
  BY DEF maintain
<1> HIDE DEF Ends, Retires, Kill, Mark
<1> QED BY <1>1, <1>3, <1>4, <1>5

LEMMA MaintainQuiet ==
  ASSUME Shape, Owning, maintain
  PROVE  Quiet /\ Frame
<1>1. ASSUME NEW s \in Ops
      PROVE  session'[s] \in SessionShape /\ (session'[s] = session[s] \/ AgedSession(session[s], session'[s]))
  <2>1. PICK a, b : a = session[s] /\ b = session'[s]
    OBVIOUS
  <2>2. a \in SessionShape /\ (a.state = "kept" => OwnerOK(a))
    BY <2>1, KeptFacts
  <2>3. CASE Marks(a, b)
    BY <2>1, <2>2, <2>3, MarkAges DEF Marks
  <2>4. CASE Kills(a, b)
    <3>1. Receipt(a.lease) \in Receipts /\ "none" \in Lease
      BY DEF Receipt, Receipts, Lease
    <3>2. b \in SessionShape
      BY <2>2, <2>4, <3>1 DEF Kills, SessionShape
    <3>3. AgedSession(a, b)
      BY <2>2, <2>4 DEF Kills, AgedSession, Aged, SessionShape
    <3> QED BY <2>1, <3>2, <3>3
  <2> QED BY <2>1, <2>2, <2>3, <2>4, MaintainEffect
<1>2. ASSUME NEW i \in Ops
      PROVE  instance'[i] \in Instance /\ (instance'[i] = instance[i] \/ Aged(instance[i], instance'[i]))
  <2>1. PICK a, b : a = instance[i] /\ b = instance'[i]
    OBVIOUS
  <2>2. a \in Instance /\ (a.state = "kept" => OwnerOK(a))
    BY <2>1, KeptFacts
  <2>3. CASE Marks(a, b)
    BY <2>1, <2>2, <2>3, MarkAges DEF Marks
  <2>4. CASE Kills(a, b)
    <3>1. Receipt(a.lease) \in {"none", "pending", "completed"} /\ "none" \in Lease
      BY DEF Receipt, Lease
    <3>2. b \in Instance
      BY <2>2, <2>4, <3>1 DEF Kills, Instance
    <3>3. Aged(a, b)
      BY <2>2, <2>4 DEF Kills, Aged, Instance
    <3> QED BY <2>1, <3>2, <3>3
  <2> QED BY <2>1, <2>2, <2>3, <2>4, MaintainEffect
<1>3. session' \in [Ops -> SessionShape] /\ instance' \in [Ops -> Instance]
  BY <1>1, <1>2, MaintainEffect
<1>4. Quiet
  BY <1>1, <1>2, <1>3, MaintainEffect DEF Shape, Quiet
<1>5. shared' \in BOOLEAN
  BY DEF maintain
<1> QED BY <1>4, <1>5, MaintainEffect DEF Shape, Frame

-----------------------------------------------------------------------------
(* What a step that adds or removes calls leaves alone. *)

LEMMA CallFrame ==
  ASSUME Shape, Owning, NEW o \in Ops, call'[o] = call[o],
         NEW s, s = SessionOf(o), NEW i, i = InstanceOf(o),
         s # 0 => /\ session'[s].state = session[s].state /\ session'[s].pool = session[s].pool
                  /\ session'[s].active = session[s].active
                  /\ session[s].reservation # 0 => session'[s].reservation # 0
                  /\ session[s].closing => session'[s].closing
                  /\ session[s].lease = "none" => session'[s].lease = "none"
                  /\ s # o => call'[s].pc \in {"done", "forgotten"},
         i # 0 => /\ instance'[i].state = instance[i].state /\ instance'[i].pool = instance[i].pool
                  /\ instance'[i].active = instance[i].active
                  /\ instance[i].reservation # 0 => instance'[i].reservation # 0
  PROVE  CallOK(call'[o]) /\ CallOwned(o)'
BY CallFacts, ConstantFacts DEF SessionOf, InstanceOf, CallOwned

LEMMA SessionFrame ==
  ASSUME Shape, Owning, NEW s \in Ops, NEW r, r = session[s],
         NEW q \in SessionShape, q = session'[s],
         /\ q.state = r.state /\ q.pool = r.pool /\ q.lease = r.lease /\ q.active = r.active
         /\ q.opened = r.opened /\ q.closing = r.closing /\ q.closed = r.closed
         /\ q.receipt = r.receipt /\ q.reservation = r.reservation,
         q = r \/ (r.state = "kept" /\ (r.closed => q.unfinished = 0)),
         r.state # "none" => /\ call'[s] = call[s] \/ call'[s].pc \in {"done", "forgotten"}
                             /\ instance'[s].state = instance[s].state,
         r.active # 0 => call'[r.active] = call[r.active],
         r.reservation # 0 => call'[r.reservation] = call[r.reservation]
  PROVE  SessionOK(s)'
BY KeptFacts DEF SessionOK, OwnerOK, SessionOf

LEMMA InstanceFrame ==
  ASSUME Shape, Owning, NEW i \in Ops, NEW r, r = instance[i], instance'[i] = r,
         r.state # "none" => call'[i] = call[i] \/ call'[i].pc \in {"done", "forgotten"},
         r.active # 0 => call'[r.active] = call[r.active],
         r.reservation # 0 => call'[r.reservation] = call[r.reservation]
  PROVE  InstanceOK(i)'
BY KeptFacts DEF SessionOf, InstanceOf, InstanceOK, OwnerOK

\* Nothing knows an identity that was not handed out.
LEMMA FreshFacts ==
  ASSUME Shape, Owning, NEW x \in Ops, x >= registry.next
  PROVE  /\ call[x].pc = "free" /\ x \notin live /\ session[x].state = "none" /\ instance[x].state = "none"
         /\ \A s \in Ops : /\ session[s].active # x /\ session[s].reservation # x
                           /\ instance[s].active # x /\ instance[s].reservation # x /\ call[s].owner # x
         /\ \A g \in Plugins : x \notin queue[g]
<1>1. call[x].pc = "free" /\ session[x] = NoSession /\ instance[x] = NoInstance
  BY DEF Owning, Fresh
<1>2. x \notin live /\ \A g \in Plugins : x \notin queue[g]
  BY <1>1 DEF Owning, Tables, LivePcs
<1>3. x # 0 /\ x \in Nat /\ registry.next \in Nat
  BY ConstantFacts DEF Shape
<1>4. ASSUME NEW s \in Ops
      PROVE  /\ session[s].active # x /\ session[s].reservation # x
             /\ instance[s].active # x /\ instance[s].reservation # x /\ call[s].owner # x
  <2>1. ASSUME session[s].state = "kept" PROVE session[s].active # x /\ session[s].reservation # x
    BY <1>1, <1>3, <2>1, KeptFacts DEF SessionOK, OwnerOK, LivePcs
  <2>2. session[s].state # "kept" => session[s].active = 0 /\ session[s].reservation = 0
    BY KeptFacts DEF SessionOK, SessionShape, NoSession
  <2>3. ASSUME instance[s].state = "kept" PROVE instance[s].active # x /\ instance[s].reservation # x
    BY <1>1, <1>3, <2>3, KeptFacts DEF InstanceOK, OwnerOK, LivePcs
  <2>4. instance[s].state # "kept" => instance[s].active = 0 /\ instance[s].reservation = 0
    BY KeptFacts DEF InstanceOK, Instance, NoInstance
  <2>5. call[s].owner < registry.next /\ call[s].owner \in Int
    BY CallFacts, OpsInt DEF Call, Owning, Fresh
  <2> QED BY <1>3, <2>1, <2>2, <2>3, <2>4, <2>5
<1> QED BY <1>1, <1>2, <1>4 DEF NoSession, NoInstance

LEMMA BlankTyped ==
  ASSUME NEW p \in Pools
  PROVE  \A pc \in {"free", "reserved", "queued", "cleaning", "done", "forgotten"} :
           /\ Blank(pc, p) \in Call /\ Blank(pc, p).pc = pc /\ Blank(pc, p).pool = p
           /\ Blank(pc, p).kind = "none" /\ Blank(pc, p).owner = 0 /\ ~Blank(pc, p).dispatched
           /\ Blank(pc, p).lease = "none" /\ Blank(pc, p).final = "none" /\ Blank(pc, p).receipt = "none"
           /\ ~Blank(pc, p).prepared
  BY DEF Blank, Call, Lease

\* A record nobody uses is in order.
LEMMA BlankOK ==
  ASSUME NEW o \in Ops, NEW p \in Pools, NEW pc \in {"free", "reserved", "done", "forgotten"},
         call'[o] = Blank(pc, p)
  PROVE  CallOK(call'[o]) /\ CallOwned(o)'
BY BlankTyped DEF CallOK, LivePcs, SessionKinds, ClosingKinds, SessionOf, InstanceOf, CallOwned

\* What enqueue leaves: `o` is queued, and a reserved identity precedes it where r = 1.
Enqueued(kind, p, owner, r, o) ==
  /\ o \in Ops /\ o >= registry.next /\ registry.next \in Ops /\ call' \in [Ops -> Call]
  /\ call'[o] = [Blank("queued", p) EXCEPT !.kind = kind, !.owner = owner]
  /\ r = 1 => registry.next # o /\ call'[registry.next] = Blank("reserved", p)
  /\ \A x \in Ops : x # o /\ (x # registry.next \/ r = 0) => call'[x] = call[x]
  /\ \A x \in Ops : x < registry.next => call'[x] = call[x]
  /\ registry'.next = o + 1 /\ registry' \in [next : 1 .. LastOperation + 1, records : Int, reserved : Int]
  /\ live' = live \cup {o} /\ queue' = [queue EXCEPT ![PluginOf(p)] = @ \cup {o}]
  /\ Frame /\ Tables'

LEMMA EnqueueEffect ==
  ASSUME Shape, Owning, NEW p \in Pools, NEW kind \in {"invoke", "prewarm", "open", "session"},
         NEW owner \in Ops \cup {0}, NEW r \in {0, 1}, CanEnqueue(p, r), enqueue(kind, p, owner, r)
  PROVE  Enqueued(kind, p, owner, r, registry.next + r)
<1>0. PICK o : o = registry.next + r
  OBVIOUS
<1>1. registry.next \in 1 .. LastOperation + 1 /\ registry.next + r <= LastOperation /\ LastOperation \in Nat
      /\ registry.records \in Int /\ registry.reserved \in Int
  BY ConstantFacts DEF Shape, CanEnqueue
<1>2. o \in Ops /\ o >= registry.next /\ registry.next \in Ops /\ (r = 1 => registry.next # o) /\ (r = 0 => registry.next = o)
  BY <1>0, <1>1 DEF Ops
<1>3. call' = [x \in Ops |-> IF x = o THEN [Blank("queued", p) EXCEPT !.kind = kind, !.owner = owner]
                             ELSE IF x \in {registry.next} \ {o} THEN Blank("reserved", p) ELSE call[x]]
  BY <1>0 DEF enqueue
<1>4. PICK c : c = [Blank("queued", p) EXCEPT !.kind = kind, !.owner = owner]
  OBVIOUS
<1>5. c \in Call /\ c.pc = "queued" /\ c.pool = p /\ Blank("reserved", p) \in Call /\ Blank("reserved", p).pc = "reserved"
  <2>1. PICK b \in Call : b = Blank("queued", p) /\ b.pc = "queued" /\ b.pool = p
    BY BlankTyped
  <2>2. [b EXCEPT !.kind = kind, !.owner = owner] \in Call
    BY DEF Call
  <2> QED BY <1>4, <2>1, <2>2, BlankTyped DEF Call
<1>6. call' \in [Ops -> Call] /\ call'[o] = c
  BY <1>2, <1>3, <1>4, <1>5 DEF Shape
<1>7. r = 1 => call'[registry.next] = Blank("reserved", p)
  BY <1>2, <1>3
<1>8. \A x \in Ops : x # o /\ (x # registry.next \/ r = 0) => call'[x] = call[x]
  BY <1>2, <1>3
<1>9. \A x \in Ops : x < registry.next => call'[x] = call[x]
  BY <1>1, <1>2, <1>3, ConstantFacts
<1>10. registry' = [next |-> o + 1, records |-> registry.records + 1, reserved |-> registry.reserved + r]
  BY <1>0 DEF enqueue
<1>11. registry'.next = o + 1 /\ registry' \in [next : 1 .. LastOperation + 1, records : Int, reserved : Int]
  BY <1>0, <1>1, <1>2, <1>10
<1>12. PluginOf(p) \in Plugins
  BY ConstantFacts
<1>13. Frame
  <2>1. /\ plugin' = [plugin EXCEPT ![PluginOf(p)].queued = @ + 1, ![PluginOf(p)].operations = @ + 1,
                                    ![PluginOf(p)].reserved = @ + r]
        /\ pool' = [pool EXCEPT ![p].queued = @ + 1] /\ queued' = queued + 1
        /\ UNCHANGED <<cleaning, closing, shared, workers, failures, finalized>>
    BY DEF enqueue
  <2>2. pool' \in [Pools -> PoolShape]
    <3>1. pool \in [Pools -> PoolShape] /\ pool[p] \in PoolShape
      BY DEF Shape
    <3>2. [pool[p] EXCEPT !.queued = @ + 1] \in PoolShape
      BY <3>1 DEF PoolShape
    <3>3. pool' = [pool EXCEPT ![p] = [pool[p] EXCEPT !.queued = @ + 1]]
      BY <2>1
    <3> QED BY <3>1, <3>2, <3>3
  <2>3. plugin' \in [Plugins -> PluginShape]
    <3>1. PICK g \in Plugins : g = PluginOf(p)
      BY <1>12
    <3>2. plugin[g] \in PluginShape
      BY <3>1 DEF Shape
    <3>3. [plugin[g] EXCEPT !.queued = @ + 1, !.operations = @ + 1, !.reserved = @ + r] \in PluginShape
      <4>1. PICK a, b, c1 : a = plugin[g].queued + 1 /\ b = plugin[g].operations + 1 /\ c1 = plugin[g].reserved + r
        OBVIOUS
      <4>2. a \in Int /\ b \in Int /\ c1 \in Int
        BY <3>2, <4>1 DEF PluginShape
      <4>3. [plugin[g] EXCEPT !.queued = a, !.operations = b, !.reserved = c1] \in PluginShape
        BY <3>2, <4>2 DEF PluginShape
      <4> QED BY <4>1, <4>3
    <3>4. plugin' = [plugin EXCEPT ![g] = [plugin[g] EXCEPT !.queued = @ + 1, !.operations = @ + 1, !.reserved = @ + r]]
      BY <2>1, <3>1 DEF Shape
    <3> QED BY <3>3, <3>4 DEF Shape
  <2> QED BY <2>1, <2>2, <2>3 DEF Shape, Frame
<1>14. live' = live \cup {o} /\ queue' = [queue EXCEPT ![PluginOf(p)] = @ \cup {o}]
       /\ rotation' = IF queue[PluginOf(p)] = {} THEN Append(rotation, PluginOf(p)) ELSE rotation
  BY <1>0 DEF enqueue
<1>15. Tables'
  <2> USE <1>2
  <2>0. call[o].pc = "free" /\ call[registry.next].pc = "free" /\ registry.next \in Int
    BY <1>1, FreshFacts
  <2>1. live' = {x \in Ops : call'[x].pc \in LivePcs}
    BY <1>2, <1>5, <1>6, <1>7, <1>8, <1>14, <2>0 DEF LivePcs, Owning, Tables
  <2>2. ASSUME NEW g \in Plugins
        PROVE  queue'[g] = {x \in Ops : call'[x].pc = "queued" /\ PluginOf(call'[x].pool) = g}
    BY <1>2, <1>5, <1>6, <1>7, <1>8, <1>14, <2>0, FreshFacts DEF Owning, Tables, Shape
  <2>3. /\ Injective(rotation) /\ Owned(rotation) = {g \in Plugins : queue[g] # {}}
        /\ rotation \in Seq(Plugins)
    BY DEF Owning, Tables, Shape
  <2>4. {g \in Plugins : queue'[g] # {}} = {g \in Plugins : queue[g] # {}} \cup {PluginOf(p)}
    BY <1>12, <1>14 DEF Shape
  <2>5. Injective(rotation') /\ Owned(rotation') = {g \in Plugins : queue'[g] # {}}
    BY <1>12, <1>14, <2>3, <2>4, AppendOwns
  <2> QED BY <2>1, <2>2, <2>5 DEF Tables
<1>16. Enqueued(kind, p, owner, r, o)
  BY <1>2, <1>4, <1>5, <1>6, <1>7, <1>8, <1>9, <1>11, <1>13, <1>14, <1>15 DEF Enqueued
<1> QED BY <1>0, <1>16

\* What an admission does to the sessions: an opening adds its own, a session call counts.
SessionsAdmit(kind, p, owner, r, o) ==
  /\ owner # 0 <=> kind \in {"open", "session"}
  /\ session' \in [Ops -> SessionShape]
  /\ kind = "open" => owner = o
  /\ owner # 0 => /\ session'[owner].state = "kept" /\ session'[owner].pool = p
                  /\ owner # o => call[owner].pc \in {"done", "forgotten"}
  /\ kind # "open" => r = 0
  /\ kind = "open" => /\ session'[o].reservation = IF r = 1 THEN registry.next ELSE 0
                      /\ SessionOK(o)'
  /\ \A s \in Ops : (kind = "open" /\ s = o) \/
       LET a == session[s]  q == session'[s] IN
         /\ q.state = a.state /\ q.pool = a.pool /\ q.lease = a.lease /\ q.active = a.active
         /\ q.opened = a.opened /\ q.closing = a.closing /\ q.closed = a.closed
         /\ q.receipt = a.receipt /\ q.reservation = a.reservation
         /\ q = a \/ (a.state = "kept" /\ (a.closed => q.unfinished = 0))

LEMMA EnqueueOwns ==
  ASSUME Shape, Owning, NEW p \in Pools, NEW kind \in {"invoke", "prewarm", "open", "session"},
         NEW owner \in Ops \cup {0}, NEW r \in {0, 1}, CanEnqueue(p, r), enqueue(kind, p, owner, r),
         NEW o, o = registry.next + r, SessionsAdmit(kind, p, owner, r, o)
  PROVE  Shape' /\ Owning'
<1> USE DEF SessionsAdmit
<1>1. /\ o \in Ops /\ o >= registry.next /\ registry.next \in Ops /\ call' \in [Ops -> Call]
      /\ call'[o] = [Blank("queued", p) EXCEPT !.kind = kind, !.owner = owner]
      /\ r = 1 => registry.next # o /\ call'[registry.next] = Blank("reserved", p)
      /\ \A x \in Ops : x # o /\ (x # registry.next \/ r = 0) => call'[x] = call[x]
      /\ \A x \in Ops : x < registry.next => call'[x] = call[x]
      /\ registry'.next = o + 1 /\ registry' \in [next : 1 .. LastOperation + 1, records : Int, reserved : Int]
      /\ live' = live \cup {o} /\ queue' = [queue EXCEPT ![PluginOf(p)] = @ \cup {o}]
      /\ Frame /\ Tables'
  <2>1. Enqueued(kind, p, owner, r, registry.next + r)
    BY EnqueueEffect
  <2> QED BY <2>1 DEF Enqueued
<1>2. instance' = instance /\ instance \in [Ops -> Instance]
  BY DEF enqueue, Shape
<1>3. registry.next \in Nat /\ o \in Nat /\ Ops \subseteq Nat /\ o = registry.next + r /\ 0 \notin Ops
  BY <1>1, ConstantFacts
<1>4. \A x \in Ops : x < registry.next <=> call[x].pc # "free"
  BY <1>3 DEF Owning, Fresh
<1>5. \A x \in Ops : x # o /\ (x # registry.next \/ r = 0) /\ x < o => x < registry.next
  BY <1>3
<1>6. Shape'
  <2>1. live' \in SUBSET Ops /\ rotation' \in Seq(Plugins) /\ queue' \in [Plugins -> SUBSET Ops]
    <3>1. PluginOf(p) \in Plugins
      BY ConstantFacts
    <3>2. rotation' = IF queue[PluginOf(p)] = {} THEN Append(rotation, PluginOf(p)) ELSE rotation
      BY DEF enqueue
    <3> QED BY <1>1, <3>1, <3>2, AppendOwns DEF Shape
  <2> QED BY <1>1, <1>2, <2>1 DEF Shape, Frame
<1>7. ASSUME NEW x \in Ops, x >= registry.next
      PROVE  \A s \in Ops : /\ session[s].active # x /\ session[s].reservation # x
                            /\ instance[s].active # x /\ instance[s].reservation # x /\ call[s].owner # x
  BY <1>7, FreshFacts
<1>8. ASSUME NEW s \in Ops
      PROVE  /\ session[s].active \in Ops \cup {0} /\ session[s].reservation \in Ops \cup {0}
             /\ instance[s].active \in Ops \cup {0} /\ instance[s].reservation \in Ops \cup {0}
             /\ call[s].owner \in Ops \cup {0}
             /\ session[s].active # 0 => call'[session[s].active] = call[session[s].active]
             /\ session[s].reservation # 0 => call'[session[s].reservation] = call[session[s].reservation]
             /\ instance[s].active # 0 => call'[instance[s].active] = call[instance[s].active]
             /\ instance[s].reservation # 0 => call'[instance[s].reservation] = call[instance[s].reservation]
             /\ call[s].owner # 0 => call'[call[s].owner] = call[call[s].owner]
  <2>1. /\ session[s].active \in Ops \cup {0} /\ session[s].reservation \in Ops \cup {0}
        /\ instance[s].active \in Ops \cup {0} /\ instance[s].reservation \in Ops \cup {0}
        /\ call[s].owner \in Ops \cup {0}
    BY DEF Shape, Call, SessionShape, Instance
  <2>2. ASSUME NEW x \in Ops, x # o, x # registry.next PROVE call'[x] = call[x]
    BY <1>1, <2>2
  <2>3. /\ session[s].active \notin {o, registry.next} /\ session[s].reservation \notin {o, registry.next}
        /\ instance[s].active \notin {o, registry.next} /\ instance[s].reservation \notin {o, registry.next}
        /\ call[s].owner \notin {o, registry.next}
    BY <1>1, <1>3, <1>7
  <2> QED BY <2>1, <2>2, <2>3
<1>9. ASSUME NEW x \in Ops, x # o, x # registry.next \/ r = 0
      PROVE  call'[x] = call[x] /\ CallOK(call'[x]) /\ CallOwned(x)'
  <2>1. call'[x] = call[x]
    BY <1>1, <1>9
  <2>2. PICK s, i : s = SessionOf(x) /\ i = InstanceOf(x)
    OBVIOUS
  <2>3. s # 0 => s \in Ops /\ s # o /\ (s # x => call'[s].pc \in {"done", "forgotten"})
    BY <1>1, <1>7, <1>8, <2>2, CallFacts DEF SessionOf, CallOwned
  <2>4. i # 0 => i \in Ops
    BY <2>2, CallFacts
  <2>5. s # 0 => /\ session'[s].state = session[s].state /\ session'[s].pool = session[s].pool
                 /\ session'[s].active = session[s].active /\ session'[s].reservation = session[s].reservation
                 /\ session'[s].closing = session[s].closing /\ session'[s].lease = session[s].lease
    BY <2>3
  <2> QED BY <1>2, <2>1, <2>2, <2>3, <2>5, CallFrame
<1>10. Calls'
  <2>1. ASSUME NEW x \in Ops PROVE CallOK(call'[x]) /\ CallOwned(x)'
    <3>1. CASE x = o
      <4>1. owner # 0 /\ owner # o => call'[owner].pc \in {"done", "forgotten"}
        BY <1>1, <1>3, <1>4
      <4>2. call'[o] = [Blank("queued", p) EXCEPT !.kind = kind, !.owner = owner] /\ o \in Ops
        BY <1>1
      <4>3. owner # 0 => /\ session'[owner].state = "kept" /\ session'[owner].pool = p
                         /\ owner # o => call'[owner].pc \in {"done", "forgotten"}
        BY <4>1
      <4>4. CallOK(call'[o]) /\ CallOwned(o)'
        BY <4>2, <4>3 DEF Blank, CallOK, LivePcs, SessionKinds, ClosingKinds, SessionOf, InstanceOf, CallOwned
      <4> QED BY <3>1, <4>4
    <3>2. CASE x # o /\ x = registry.next /\ r = 1
      BY <1>1, <3>2, BlankOK
    <3>3. CASE x # o /\ (x # registry.next \/ r = 0)
      BY <1>9, <3>3
    <3> QED BY <3>1, <3>2, <3>3
  <2> QED BY <2>1 DEF Calls
<1>11. ASSUME NEW s \in Ops, session[s].state # "none" \/ instance[s].state # "none"
       PROVE  s < registry.next /\ call'[s] = call[s]
  BY <1>1, <1>3, <1>11, FreshFacts
<1>12. Sessions'
  BY <1>2, <1>8, <1>11, SessionFrame DEF Sessions
<1>13. Instances'
  BY <1>2, <1>8, <1>11, InstanceFrame DEF Instances
<1>14. Fresh'
  <2>1. ASSUME NEW x \in Ops
        PROVE  /\ x >= registry'.next <=> call'[x].pc = "free"
               /\ call'[x].owner < registry'.next
               /\ x >= registry'.next => session'[x] = NoSession /\ instance'[x] = NoInstance
    <3>1. CASE x = o
      <4>1. call'[x].pc = "queued" /\ call'[x].owner = owner
        BY <1>1, <3>1 DEF Blank
      <4>2. owner < o + 1
        <5>1. CASE owner = 0
          BY <1>3, <5>1
        <5>2. CASE owner # 0 /\ owner # o
          BY <1>3, <1>4, <5>2
        <5>3. CASE owner = o
          BY <1>3, <5>3
        <5> QED BY <5>1, <5>2, <5>3
      <4> QED BY <1>1, <1>3, <3>1, <4>1, <4>2
    <3>2. CASE x # o /\ x = registry.next /\ r = 1
      BY <1>1, <1>3, <3>2 DEF Blank
    <3>3. CASE x # o /\ (x # registry.next \/ r = 0)
      <4>1. call'[x] = call[x]
        BY <1>9, <3>3
      <4>2. x >= registry.next <=> x >= o + 1
        BY <1>3, <3>3
      <4>3. /\ x >= registry.next <=> call[x].pc = "free"
            /\ call[x].owner < registry.next /\ call[x].owner \in Ops \cup {0}
            /\ x >= registry.next => session[x] = NoSession /\ instance[x] = NoInstance
        BY <1>8 DEF Owning, Fresh
      <4>4. x >= registry.next => session'[x] = session[x]
        BY <3>3, <4>3 DEF NoSession
      <4>5. call[x].owner < o + 1
        BY <1>1, <1>3, <4>3, OpsInt
      <4> QED BY <1>1, <1>2, <4>1, <4>2, <4>3, <4>4, <4>5
    <3> QED BY <3>1, <3>2, <3>3
  <2> QED BY <2>1 DEF Fresh
<1>15. Distinct'
  BY <1>1, <1>2, <1>3, <1>7 DEF Owning, Distinct
<1> QED BY <1>1, <1>6, <1>10, <1>12, <1>13, <1>14, <1>15 DEF Owning


LEMMA SubmitOwns ==
  ASSUME Shape, Owning, NEW p \in Pools, submit(p) \/ prewarm_instance(p)
  PROVE  Shape' /\ Owning'
BY EnqueueOwns DEF submit, prewarm_instance, SessionsAdmit, Shape

LEMMA SubmitSessionOwns ==
  ASSUME Shape, Owning, NEW s \in Ops, submit_session(s)
  PROVE  Shape' /\ Owning'
<1>1. PICK p \in Pools : p = session[s].pool
  BY DEF Shape, SessionShape
<1>2. /\ session[s].state = "kept" /\ ~session[s].closed /\ session[s].opened
      /\ CanEnqueue(p, 0) /\ enqueue("session", p, s, 0)
      /\ session' = [session EXCEPT ![s].queued = @ + 1, ![s].unfinished = @ + 1]
  BY <1>1 DEF submit_session, Kept
<1>3. PICK o : o = registry.next + 0
  OBVIOUS
<1>4. session[s] \in SessionShape /\ SessionOK(s) /\ session \in [Ops -> SessionShape] /\ s # 0
  BY KeptFacts, ConstantFacts DEF Shape
<1>5. call[s].pc \in {"done", "forgotten"}
  BY <1>2, <1>4 DEF SessionOK
<1>6. PICK m, n \in Int : m = session[s].queued + 1 /\ n = session[s].unfinished + 1
  BY <1>4 DEF SessionShape
<1>7. session' = [session EXCEPT ![s] = [session[s] EXCEPT !.queued = m, !.unfinished = n]]
  BY <1>2, <1>6
<1>8. [session[s] EXCEPT !.queued = m, !.unfinished = n] \in SessionShape
  BY <1>4 DEF SessionShape
<1>9. SessionsAdmit("session", p, s, 0, o)
  BY <1>1, <1>2, <1>4, <1>5, <1>7, <1>8 DEF SessionShape, SessionsAdmit
<1> QED BY <1>2, <1>3, <1>9, EnqueueOwns

SessionOpening(q, p, k) ==
  /\ q \in SessionShape /\ q.state = "kept" /\ q.pool = p /\ q.lease = "raw" /\ q.queued = 1
  /\ q.unfinished = 1 /\ q.reservation = k /\ q.active = 0 /\ ~q.closing /\ ~q.closed /\ ~q.opened
  /\ q.receipt = "none"

LEMMA NewSession ==
  ASSUME NEW p \in Pools, NEW k \in Ops \cup {0}, NEW q,
         q = [NoSession EXCEPT !.state = "kept", !.pool = p, !.lease = "raw", !.queued = 1,
                               !.unfinished = 1, !.reservation = k]
  PROVE  SessionOpening(q, p, k)
<1>1. AnyPool \in Pools
  BY ConstantFacts
<1>2. PICK a, b, c, d : a = "kept" /\ b = "raw" /\ c = 1 /\ d = 1
  OBVIOUS
<1>3. a \in {"none", "kept", "forgotten"} /\ b \in Lease /\ c \in Int /\ d \in Int /\ "none" \in Lease
  BY <1>2 DEF Lease
<1>4. q = [NoSession EXCEPT !.state = a, !.pool = p, !.lease = b, !.queued = c, !.unfinished = d, !.reservation = k]
  BY <1>2
<1>5. NoSession \in SessionShape
  BY <1>1, <1>3 DEF NoSession, SessionShape, Receipts
<1>6. q \in SessionShape
  BY <1>3, <1>4, <1>5 DEF SessionShape
<1>7. /\ q.state = a /\ q.pool = p /\ q.lease = b /\ q.queued = c /\ q.unfinished = d /\ q.reservation = k
      /\ q.active = 0 /\ ~q.closing /\ ~q.closed /\ ~q.opened /\ q.receipt = "none"
  BY <1>4 DEF NoSession
<1> QED BY <1>2, <1>6, <1>7 DEF SessionOpening

LEMMA OpenSessionOwns ==
  ASSUME Shape, Owning, NEW p \in Pools, open_session(p)
  PROVE  Shape' /\ Owning'
<1>1. PICK r \in {0, 1} : r = IF Policy[p].finalizer THEN 1 ELSE 0
  OBVIOUS
<1>2. PICK o : o = registry.next + r
  OBVIOUS
<1>3. PICK k : k = IF r = 1 THEN registry.next ELSE 0
  OBVIOUS
<1>4. /\ CanEnqueue(p, r) /\ enqueue("open", p, o, r)
      /\ session' = [session EXCEPT ![o] = [NoSession EXCEPT !.state = "kept", !.pool = p, !.lease = "raw",
                                              !.queued = 1, !.unfinished = 1, !.reservation = k]]
  BY <1>1, <1>2, <1>3 DEF open_session
<1>5. o \in Ops /\ registry.next \in Ops /\ k \in Ops \cup {0} /\ o >= registry.next
  <2>1. registry.next \in 1 .. LastOperation + 1 /\ LastOperation \in Nat /\ registry.next + r <= LastOperation
    BY <1>4, ConstantFacts DEF CanEnqueue, Shape
  <2>2. o \in Ops /\ registry.next \in Ops /\ o >= registry.next
    BY <1>2, <2>1 DEF Ops
  <2> QED BY <1>3, <2>2
<1>6. Enqueued("open", p, o, r, o)
  BY <1>2, <1>4, <1>5, EnqueueEffect
<1>7. PICK q : q = [NoSession EXCEPT !.state = "kept", !.pool = p, !.lease = "raw",
                      !.queued = 1, !.unfinished = 1, !.reservation = k]
  OBVIOUS
<1>8. /\ q \in SessionShape /\ q.state = "kept" /\ q.pool = p /\ q.lease = "raw" /\ q.reservation = k
      /\ q.active = 0 /\ ~q.closing /\ ~q.closed /\ ~q.opened /\ q.receipt = "none"
  <2>1. SessionOpening(q, p, k)
    BY <1>5, <1>7, NewSession
  <2> QED BY <2>1 DEF SessionOpening
<1>9. session' \in [Ops -> SessionShape] /\ session'[o] = q /\ \A s \in Ops : s # o => session'[s] = session[s]
  BY <1>4, <1>5, <1>7, <1>8 DEF Shape
<1>10. SessionOK(o)'
  <2>1. call'[o].kind = "open"
    BY <1>6 DEF Enqueued, Blank
  <2>2. instance'[o].state = "none"
    BY <1>4, <1>5, FreshFacts DEF enqueue
  <2>3. k # 0 => call'[k].pc = "reserved" /\ call'[k].pool = p
    BY <1>1, <1>3, <1>6, BlankTyped DEF Enqueued
  <2>4. Policy[p].finalizer => k # 0
    BY <1>1, <1>3, <1>5, ConstantFacts
  <2>5. OwnerOK(q)'
    BY <1>8, <2>3, <2>4 DEF OwnerOK
  <2> QED BY <1>8, <1>9, <2>1, <2>2, <2>5 DEF SessionOK
<1>11. SessionsAdmit("open", p, o, r, o)
  BY <1>3, <1>5, <1>8, <1>9, <1>10, ConstantFacts DEF SessionsAdmit
<1> QED BY <1>2, <1>4, <1>5, <1>11, EnqueueOwns


-----------------------------------------------------------------------------
(* Steps that give up what nobody uses: terminal records, reservations, closed sessions and    *)
(* destroyed instances.                                                                         *)

Idles(s) == \A o \in Ops : SessionOf(o) # s

\* A session rests, ends, or is forgotten.
SessionRests(s, a, q) ==
  \/ /\ q.state = a.state /\ q.pool = a.pool /\ q.lease = a.lease /\ q.active = a.active
     /\ q.queued = a.queued /\ q.unfinished = a.unfinished /\ q.opened = a.opened
     /\ q.closing = a.closing /\ q.receipt = a.receipt
     /\ a.state = "kept" \/ q = a
     /\ \/ q.closed = a.closed /\ q.reservation = a.reservation
        \/ /\ a.closing /\ a.active = 0 /\ a.unfinished = 0 /\ a.lease = "none"
           /\ q.reservation = 0 /\ Idles(s)
  \/ a.state = "kept" /\ a.closed /\ q = [NoSession EXCEPT !.state = "forgotten"] /\ Idles(s)

\* An instance rests or is forgotten.
InstanceRests(a, q) ==
  \/ /\ q.state = a.state /\ q.pool = a.pool /\ q.lease = a.lease /\ q.active = a.active
     /\ q.closing = a.closing /\ q.receipt = a.receipt /\ q.reservation = a.reservation
     /\ a.state = "kept" \/ q = a
  \/ a.state = "kept" /\ a.active = 0 /\ a.lease = "none" /\ q = NoInstance

Spent(a, b) == a.pc \in {"done", "reserved"} /\ b = Blank("forgotten", a.pool)

Rests ==
  /\ session' \in [Ops -> SessionShape] /\ instance' \in [Ops -> Instance] /\ call' \in [Ops -> Call]
  /\ \A o \in Ops : call'[o] = call[o] \/ Spent(call[o], call'[o])
  /\ \A s \in Ops : SessionRests(s, session[s], session'[s]) /\ InstanceRests(instance[s], instance'[s])
  /\ \A s \in Ops :
       /\ session'[s].reservation # 0 => call'[session'[s].reservation] = call[session'[s].reservation]
       /\ instance'[s].reservation # 0 => call'[instance'[s].reservation] = call[instance'[s].reservation]
  /\ registry' \in [next : 1 .. LastOperation + 1, records : Int, reserved : Int]
  /\ registry'.next = registry.next
  /\ UNCHANGED <<queue, rotation, live>>

LEMMA RestsOwns ==
  ASSUME Shape, Owning, Rests
  PROVE  Owning'
<1>1. \A o \in Ops : /\ call[o] \in Call /\ call'[o] \in Call
                     /\ session[o] \in SessionShape /\ session'[o] \in SessionShape
                     /\ instance[o] \in Instance /\ instance'[o] \in Instance
  BY DEF Shape, Rests
<1>2. ASSUME NEW o \in Ops, call'[o] # call[o]
      PROVE  /\ call[o].pc \in {"done", "reserved"} /\ call'[o] = Blank("forgotten", call[o].pool)
             /\ call'[o].pc = "forgotten" /\ call'[o].owner = 0 /\ call[o].pool \in Pools
  BY <1>1, <1>2, BlankTyped DEF Rests, Call, Spent
<1>3. Tables'
  BY <1>2 DEF LivePcs, Rests, Owning, Tables
<1>4. Fresh'
  <2> SUFFICES ASSUME NEW o \in Ops
               PROVE  /\ o >= registry.next <=> call'[o].pc = "free"
                      /\ call'[o].owner < registry.next
                      /\ o >= registry.next => session'[o] = NoSession /\ instance'[o] = NoInstance
    BY DEF Fresh, Rests
  <2>1. /\ o >= registry.next <=> call[o].pc = "free"
        /\ call[o].owner < registry.next
        /\ o >= registry.next => session[o] = NoSession /\ instance[o] = NoInstance
    BY DEF Owning, Fresh
  <2>2. registry.next \in Int /\ registry.next >= 1
    BY DEF Shape
  <2>3. /\ o >= registry.next <=> call'[o].pc = "free"
        /\ call'[o].owner < registry.next
    BY <1>2, <2>1, <2>2
  <2>4. SessionRests(o, session[o], session'[o]) /\ InstanceRests(instance[o], instance'[o])
    BY DEF Rests
  <2>5. o >= registry.next => session'[o] = NoSession /\ instance'[o] = NoInstance
    BY <2>1, <2>4 DEF SessionRests, InstanceRests, NoSession, NoInstance
  <2> QED BY <2>3, <2>5
<1>5. ASSUME NEW s \in Ops
      PROVE  /\ ~Idles(s) => /\ session'[s].state = session[s].state /\ session'[s].pool = session[s].pool
                             /\ session'[s].active = session[s].active /\ session'[s].reservation = session[s].reservation
                             /\ session'[s].closing = session[s].closing /\ session'[s].lease = session[s].lease
             /\ instance[s].active # 0 =>
                             /\ instance'[s].state = instance[s].state /\ instance'[s].pool = instance[s].pool
                             /\ instance'[s].active = instance[s].active
                             /\ instance'[s].reservation = instance[s].reservation
  BY DEF Rests, SessionRests, InstanceRests
<1>6. Calls'
  <2>1. ASSUME NEW o \in Ops PROVE CallOK(call'[o]) /\ CallOwned(o)'
    <3>1. CASE call'[o] # call[o]
      BY <1>2, <3>1, BlankOK
    <3>2. CASE call'[o] = call[o]
      <4>1. PICK s, i : s = SessionOf(o) /\ i = InstanceOf(o)
        OBVIOUS
      <4>2. (s # 0 => s \in Ops /\ ~Idles(s)) /\ (i # 0 => i \in Ops)
        BY <4>1, CallFacts DEF Idles
      <4>3. CallOwned(o)
        BY CallFacts
      <4>4. s # 0 /\ s # o => call'[s].pc \in {"done", "forgotten"}
        BY <1>2, <4>1, <4>2, <4>3 DEF CallOwned
      <4>5. i # 0 => instance[i].active # 0
        BY <4>1, <4>3, ConstantFacts DEF CallOwned
      <4> QED BY <1>5, <3>2, <4>1, <4>2, <4>4, <4>5, CallFrame
    <3> QED BY <3>1, <3>2
  <2> QED BY <2>1 DEF Calls
<1>7. ASSUME NEW x \in Ops, call[x].pc \in LivePcs
      PROVE  call'[x] = call[x] /\ SessionOf(x)' = SessionOf(x) /\ InstanceOf(x)' = InstanceOf(x)
  BY <1>2, <1>7 DEF LivePcs, SessionOf, InstanceOf
<1>8. ASSUME NEW x \in Ops, call[x].pc \in {"done", "forgotten"}
      PROVE  call'[x].pc \in {"done", "forgotten"}
  BY <1>2, <1>8
<1>9. Sessions'
  <2>1. ASSUME NEW s \in Ops PROVE SessionOK(s)'
    <3>1. PICK a, q : a = session[s] /\ q = session'[s]
      OBVIOUS
    <3>2. /\ a \in SessionShape /\ q \in SessionShape /\ SessionRests(s, a, q) /\ SessionOK(s)
          /\ InstanceRests(instance[s], instance'[s])
      BY <1>1, <3>1, KeptFacts DEF Rests
    <3>3. a.state # "none" => /\ call[s].pc \in {"done", "forgotten"} \/ call[s].kind = "open"
                              /\ instance[s].state = "none"
      BY <3>1, <3>2 DEF SessionOK
    <3>4. a.state # "none" => /\ call'[s].pc \in {"done", "forgotten"} \/ call'[s].kind = "open"
                              /\ instance'[s].state = "none"
      BY <1>2, <3>2, <3>3 DEF InstanceRests, NoInstance
    <3>5. CASE a.state = "kept" /\ q = [NoSession EXCEPT !.state = "forgotten"]
      BY <3>1, <3>4, <3>5 DEF NoSession, SessionOK
    <3>6. CASE a.state # "kept" /\ q = a
      BY <3>1, <3>2, <3>4, <3>6 DEF SessionOK
    <3>7. CASE /\ a.state = "kept" /\ q.state = a.state /\ q.pool = a.pool /\ q.lease = a.lease /\ q.active = a.active
               /\ q.unfinished = a.unfinished /\ q.opened = a.opened
               /\ q.closing = a.closing /\ q.receipt = a.receipt
               /\ \/ q.closed = a.closed /\ q.reservation = a.reservation
                  \/ /\ a.closing /\ a.active = 0 /\ a.unfinished = 0 /\ a.lease = "none"
                     /\ q.reservation = 0
      BY <1>7, <1>8, <3>1, <3>2, <3>4, <3>7 DEF SessionOK, Rests, OwnerOK, SessionShape
    <3> QED BY <3>2, <3>5, <3>6, <3>7 DEF SessionRests
  <2> QED BY <2>1 DEF Sessions
<1>10. Instances'
  BY <1>1, <1>2, <1>7, KeptFacts DEF Rests, InstanceOK, NoInstance, OwnerOK, Instance, InstanceRests, Instances
<1>11. Distinct'
  BY DEF Rests, SessionRests, InstanceRests, NoSession, NoInstance, Owning, Distinct
<1> QED BY <1>3, <1>4, <1>6, <1>9, <1>10, <1>11 DEF Owning


\* Who holds a reservation, and that it waits.
LEMMA ReservationFacts ==
  ASSUME Shape, Owning, NEW s \in Ops
  PROVE  /\ session[s].reservation \in Ops \cup {0} /\ instance[s].reservation \in Ops \cup {0}
         /\ session[s].reservation # 0 => /\ call[session[s].reservation].pc = "reserved" /\ session[s].state = "kept"
                                          /\ call[session[s].reservation].pool = session[s].pool
         /\ instance[s].reservation # 0 => /\ call[instance[s].reservation].pc = "reserved" /\ instance[s].state = "kept"
                                           /\ call[instance[s].reservation].pool = instance[s].pool
BY KeptFacts DEF SessionShape, Instance, SessionOK, NoSession, InstanceOK, NoInstance, OwnerOK

LEMMA UnfinishedIdles ==
  ASSUME Shape, Owning, CountsExact, NEW s \in Ops, session[s].state = "kept", session[s].unfinished = 0
  PROVE  Idles(s)
<1>1. PICK S : S = {o \in live : SessionOf(o) = s}
  OBVIOUS
<1>2. S \in SUBSET Ops /\ Cardinality(S) = 0
  BY <1>1 DEF Kept, CountsExact, Shape
<1>3. S = {}
  BY <1>2, Counted
<1>4. ASSUME NEW o \in Ops, SessionOf(o) = s
      PROVE  o \in live
  <2>1. call[o].kind # "none"
    BY <1>4, ConstantFacts DEF SessionOf
  <2>2. CallOK(call[o]) /\ call[o] \in Call
    BY CallFacts
  <2>3. call[o].pool \in Pools /\ call[o].pc \notin LivePcs => call[o].kind = "none"
    BY <2>2 DEF CallOK, Blank
  <2> QED BY <2>1, <2>2, <2>3 DEF Call, Owning, Tables
<1> QED BY <1>1, <1>3, <1>4 DEF Idles

LEMMA UnreservedEffect ==
  ASSUME Shape, NEW ids \in SUBSET Ops, \A o \in ids : call[o].pc = "reserved", Unreserved(ids)
  PROVE  /\ call' \in [Ops -> Call] /\ plugin' \in [Plugins -> PluginShape]
         /\ \A o \in Ops : call'[o] = call[o] \/ Spent(call[o], call'[o])
         /\ \A o \in Ops \ ids : call'[o] = call[o]
         /\ registry' \in [next : 1 .. LastOperation + 1, records : Int, reserved : Int]
         /\ registry'.next = registry.next
<1>1. call' = [o \in Ops |-> IF o \in ids THEN Blank("forgotten", call[o].pool) ELSE call[o]]
  BY DEF Unreserved
<1>2. \A o \in Ops : call[o] \in Call /\ call[o].pool \in Pools /\ Blank("forgotten", call[o].pool) \in Call
  BY BlankTyped DEF Shape, Call
<1>3. call' \in [Ops -> Call] /\ \A o \in Ops \ ids : call'[o] = call[o]
  BY <1>1, <1>2
<1>4. \A o \in Ops : call'[o] = call[o] \/ Spent(call[o], call'[o])
  BY <1>1 DEF Spent
<1>5. plugin' \in [Plugins -> PluginShape]
  <2>1. plugin' = [g \in Plugins |-> [plugin[g] EXCEPT !.reserved = @ - PluginTaken(ids, g)]]
    BY DEF Unreserved
  <2>2. ASSUME NEW g \in Plugins PROVE [plugin[g] EXCEPT !.reserved = @ - PluginTaken(ids, g)] \in PluginShape
    <3>1. PluginTaken(ids, g) \in Nat /\ plugin[g] \in PluginShape
      BY Counted DEF PluginTaken, Shape
    <3>2. PICK n \in Int : n = plugin[g].reserved - PluginTaken(ids, g)
      BY <3>1 DEF PluginShape
    <3>3. [plugin[g] EXCEPT !.reserved = n] \in PluginShape
      BY <3>1 DEF PluginShape
    <3> QED BY <3>2, <3>3
  <2> QED BY <2>1, <2>2
<1>6. /\ registry' \in [next : 1 .. LastOperation + 1, records : Int, reserved : Int]
      /\ registry'.next = registry.next
  <2>1. registry' = [registry EXCEPT !.reserved = @ - Cardinality(ids)] /\ Cardinality(ids) \in Nat
    BY Counted DEF Unreserved
  <2>2. PICK n \in Int : n = registry.reserved - Cardinality(ids)
    BY <2>1 DEF Shape
  <2>3. registry' = [registry EXCEPT !.reserved = n]
    BY <2>1, <2>2
  <2> QED BY <2>3 DEF Shape
<1> QED BY <1>3, <1>4, <1>5, <1>6

LEMMA ForgetOperationRests ==
  ASSUME Shape, Owning, NEW o \in Ops, forget_operation(o)
  PROVE  Rests /\ Frame
<1>1. /\ call[o].pc = "done" /\ call' = [call EXCEPT ![o].pc = "forgotten"]
      /\ registry' = [registry EXCEPT !.records = @ - 1]
      /\ plugin' = [plugin EXCEPT ![PluginOf(call[o].pool)].operations = @ - 1]
      /\ UNCHANGED <<session, instance, pool, queue, rotation, live, queued, cleaning, closing,
                     shared, supervisor, workers, failures, finalized>>
  BY DEF forget_operation
<1>2. PICK p \in Pools : p = call[o].pool
  BY CallFacts DEF Call
<1>3. call[o] = Blank("done", p)
  BY <1>1, <1>2, CallFacts DEF LivePcs, CallOK
<1>4. [call[o] EXCEPT !.pc = "forgotten"] = Blank("forgotten", p)
  <2>1. PICK b \in Call : b = call[o]
    BY CallFacts
  <2>2. [b EXCEPT !.pc = "forgotten"] =
          [pc |-> "forgotten", kind |-> b.kind, pool |-> b.pool, owner |-> b.owner, dispatched |-> b.dispatched,
           started |-> b.started, lease |-> b.lease, final |-> b.final, receipt |-> b.receipt,
           prepared |-> b.prepared, retry |-> b.retry, expired |-> b.expired, evidence |-> b.evidence]
    BY DEF Call
  <2>3. /\ b.kind = "none" /\ b.pool = p /\ b.owner = 0 /\ b.dispatched = FALSE /\ b.started = FALSE
        /\ b.lease = "none" /\ b.final = "none" /\ b.receipt = "none" /\ b.prepared = FALSE
        /\ b.retry = "none" /\ b.expired = FALSE /\ b.evidence = FALSE
    BY <1>3, <2>1 DEF Blank
  <2>4. [b EXCEPT !.pc = "forgotten"] = Blank("forgotten", p)
    BY <2>2, <2>3, Zenon DEF Blank
  <2> QED BY <2>1, <2>4
<1>5. call' = [call EXCEPT ![o] = Blank("forgotten", p)] /\ Blank("forgotten", p) \in Call
  BY <1>1, <1>4, BlankTyped
<1>6. call' \in [Ops -> Call] /\ \A x \in Ops : call'[x] = call[x] \/ Spent(call[x], call'[x])
  BY <1>1, <1>2, <1>5 DEF Shape, Spent
<1>7. \A x \in Ops : call[x].pc = "reserved" => call'[x] = call[x]
  BY <1>1, <1>5 DEF Shape
<1>8. Frame
  <2>1. PICK g \in Plugins : g = PluginOf(call[o].pool)
    BY <1>2, ConstantFacts
  <2>2. plugin[g] \in PluginShape /\ plugin \in [Plugins -> PluginShape]
    BY DEF Shape
  <2>3. PICK n \in Int : n = plugin[g].operations - 1
    BY <2>2 DEF PluginShape
  <2>4. [plugin[g] EXCEPT !.operations = n] \in PluginShape
    BY <2>2 DEF PluginShape
  <2>5. plugin' = [plugin EXCEPT ![g] = [plugin[g] EXCEPT !.operations = n]]
    BY <1>1, <2>1, <2>3
  <2>6. plugin' \in [Plugins -> PluginShape]
    BY <2>2, <2>4, <2>5
  <2> QED BY <1>1, <2>6 DEF Shape, Frame
<1>9. \A s \in Ops : SessionRests(s, session[s], session'[s]) /\ InstanceRests(instance[s], instance'[s])
  BY <1>1 DEF SessionRests, InstanceRests
<1>10. ASSUME NEW s \in Ops
       PROVE  /\ session[s].reservation # 0 => call'[session[s].reservation] = call[session[s].reservation]
              /\ instance[s].reservation # 0 => call'[instance[s].reservation] = call[instance[s].reservation]
  BY <1>7, ReservationFacts
<1>11. /\ registry' \in [next : 1 .. LastOperation + 1, records : Int, reserved : Int]
       /\ registry'.next = registry.next
  BY <1>1 DEF Shape
<1>12. Rests
  BY <1>1, <1>6, <1>9, <1>10, <1>11 DEF Rests, Shape
<1> QED BY <1>8, <1>12

LEMMA ForgetSessionRests ==
  ASSUME Shape, Owning, CountsExact, NEW s \in Ops, forget_session(s)
  PROVE  Rests /\ Frame
<1>1. /\ session[s].state = "kept" /\ session[s].closed
      /\ session' = [session EXCEPT ![s] = [NoSession EXCEPT !.state = "forgotten"]]
      /\ UNCHANGED <<call, instance, pool, plugin, queue, rotation, live, queued, cleaning, closing,
                     shared, registry, supervisor, workers, failures, finalized>>
  BY DEF forget_session, Kept
<1>2. Idles(s)
  BY <1>1, KeptFacts, UnfinishedIdles DEF SessionOK
<1>3. PICK q : q = [NoSession EXCEPT !.state = "forgotten"]
  OBVIOUS
<1>4. q \in SessionShape /\ q.reservation = 0
  <2>1. "none" \in Lease /\ AnyPool \in Pools
    BY ConstantFacts DEF Lease
  <2>2. NoSession \in SessionShape /\ NoSession.reservation = 0
    BY <2>1 DEF NoSession, SessionShape, Receipts
  <2> QED BY <1>3, <2>2 DEF SessionShape
<1>5. session' \in [Ops -> SessionShape] /\ session'[s] = q /\ \A t \in Ops : t # s => session'[t] = session[t]
  BY <1>1, <1>3, <1>4 DEF Shape
<1>6. \A t \in Ops : SessionRests(t, session[t], session'[t]) /\ InstanceRests(instance[t], instance'[t])
  BY <1>1, <1>2, <1>3, <1>5 DEF SessionRests, InstanceRests
<1>7. Rests
  BY <1>1, <1>4, <1>5, <1>6 DEF Rests, Shape
<1>8. Frame
  BY <1>1 DEF Frame, Shape
<1> QED BY <1>7, <1>8


LEMMA NoOwnerTyped ==
  /\ NoSession \in SessionShape /\ NoSession.reservation = 0 /\ NoSession.state = "none"
  /\ NoInstance \in Instance /\ NoInstance.reservation = 0 /\ NoInstance.state = "none"
BY ConstantFacts DEF Lease, NoSession, SessionShape, NoInstance, Instance, Receipts

LEMMA ForgetPoolRests ==
  ASSUME Shape, Owning, NEW p \in Pools, forget_pool(p)
  PROVE  Rests /\ Frame
<1>1. PICK ids : ids = {instance[i].reservation : i \in Pruned} \ {0}
  OBVIOUS
<1>2. /\ pool' = [pool EXCEPT ![p].state = "forgotten"]
      /\ instance' = [i \in Ops |-> IF i \in Pruned THEN NoInstance ELSE instance[i]]
      /\ Unreserved(ids)
      /\ UNCHANGED <<session, queue, rotation, live, queued, cleaning, closing, shared, supervisor,
                     workers, failures, finalized>>
  BY <1>1 DEF forget_pool
<1>3. \A i \in Pruned : /\ i \in Ops /\ instance[i].state = "kept" /\ instance[i].active = 0
                        /\ instance[i].lease = "none"
  BY DEF Pruned, Kept
<1>4. ids \in SUBSET Ops /\ \A o \in ids : call[o].pc = "reserved"
  BY <1>1, <1>3, ReservationFacts
<1>5. /\ call' \in [Ops -> Call] /\ plugin' \in [Plugins -> PluginShape]
      /\ \A o \in Ops : call'[o] = call[o] \/ Spent(call[o], call'[o])
      /\ \A o \in Ops \ ids : call'[o] = call[o]
      /\ registry' \in [next : 1 .. LastOperation + 1, records : Int, reserved : Int]
      /\ registry'.next = registry.next
  BY <1>2, <1>4, UnreservedEffect
<1>6. NoInstance \in Instance /\ NoInstance.reservation = 0
  BY NoOwnerTyped
<1>7. instance' \in [Ops -> Instance]
  BY <1>2, <1>6 DEF Shape
<1>8. \A s \in Ops : SessionRests(s, session[s], session'[s]) /\ InstanceRests(instance[s], instance'[s])
  BY <1>2, <1>3 DEF SessionRests, InstanceRests
<1>9. ASSUME NEW s \in Ops
      PROVE  /\ session'[s].reservation # 0 => call'[session'[s].reservation] = call[session'[s].reservation]
             /\ instance'[s].reservation # 0 => call'[instance'[s].reservation] = call[instance'[s].reservation]
  BY <1>1, <1>2, <1>3, <1>5, <1>6, ReservationFacts DEF Owning, Distinct
<1>10. Rests
  BY <1>2, <1>5, <1>7, <1>8, <1>9 DEF Rests, Shape
<1>11. Frame
  BY <1>2, <1>5 DEF Shape, PoolShape, Frame
<1> QED BY <1>10, <1>11

\* Sessions whose work is over, and instances that have nothing left.
Ended == {s \in Kept(session) : LET r == session[s] IN
            /\ r.closing /\ r.active = 0 /\ r.unfinished = 0 /\ r.lease = "none" /\ r.receipt # "pending"}
GoneInstances == {i \in Kept(instance) : LET r == instance[i] IN
                    /\ r.closing /\ r.active = 0 /\ r.lease = "none" /\ r.receipt # "pending"}

LEMMA FinishMaintainRests ==
  ASSUME Shape, Owning, CountsExact, finish_maintain
  PROVE  Rests /\ Frame
<1>1. PICK ids : ids = ({session[s].reservation : s \in Ended} \cup {instance[i].reservation : i \in GoneInstances}) \ {0}
  OBVIOUS
<1>2. /\ session' = [s \in Ops |->
            IF s \in Ended THEN [[session[s] EXCEPT !.retiring = FALSE] EXCEPT !.closed = TRUE, !.reservation = 0]
            ELSE [session[s] EXCEPT !.retiring = FALSE]]
      /\ instance' = [i \in Ops |-> IF i \in GoneInstances THEN NoInstance ELSE [instance[i] EXCEPT !.retiring = FALSE]]
      /\ Unreserved(ids)
      /\ UNCHANGED <<pool, queue, rotation, live, queued, cleaning, closing, shared, workers,
                     failures, finalized>>
  BY <1>1 DEF finish_maintain, Ended, GoneInstances
<1>3. /\ \A i \in GoneInstances : /\ i \in Ops /\ instance[i].state = "kept" /\ instance[i].active = 0
                                  /\ instance[i].lease = "none"
      /\ \A s \in Ended : /\ s \in Ops /\ session[s].state = "kept" /\ session[s].active = 0 /\ session[s].closing
                          /\ session[s].lease = "none" /\ session[s].unfinished = 0
  BY DEF GoneInstances, Ended, Kept
<1>4. ids \in SUBSET Ops /\ \A o \in ids : call[o].pc = "reserved"
  BY <1>1, <1>3, ReservationFacts
<1>5. /\ call' \in [Ops -> Call] /\ plugin' \in [Plugins -> PluginShape]
      /\ \A o \in Ops : call'[o] = call[o] \/ Spent(call[o], call'[o])
      /\ \A o \in Ops \ ids : call'[o] = call[o]
      /\ registry' \in [next : 1 .. LastOperation + 1, records : Int, reserved : Int]
      /\ registry'.next = registry.next
  BY <1>2, <1>4, UnreservedEffect
<1>6. NoInstance \in Instance /\ NoInstance.reservation = 0
  BY NoOwnerTyped
<1>7. ASSUME NEW i \in Ops
      PROVE  /\ instance'[i] \in Instance /\ InstanceRests(instance[i], instance'[i])
             /\ i \in GoneInstances => instance'[i] = NoInstance
             /\ instance'[i].reservation # 0 => instance'[i].reservation = instance[i].reservation /\ i \notin GoneInstances
  <2>1. PICK a : a = instance[i]
    OBVIOUS
  <2>2. a \in Instance /\ (a.state = "none" => a = NoInstance)
    BY <2>1, KeptFacts DEF InstanceOK
  <2>3. CASE i \in GoneInstances
    BY <1>2, <1>3, <1>6, <2>3 DEF InstanceRests
  <2>4. CASE i \notin GoneInstances
    <3>1. PICK q : q = [a EXCEPT !.retiring = FALSE]
      OBVIOUS
    <3>2. instance'[i] = q
      BY <1>2, <2>1, <2>4, <3>1
    <3>3. q \in Instance
      BY <2>2, <3>1 DEF Instance
    <3>4. /\ q.state = a.state /\ q.pool = a.pool /\ q.lease = a.lease /\ q.active = a.active
          /\ q.closing = a.closing /\ q.receipt = a.receipt /\ q.reservation = a.reservation
      BY <2>2, <3>1 DEF Instance
    <3>5. a.state # "kept" => q = a
      BY <2>2, <3>1 DEF NoInstance, Instance
    <3> QED BY <2>1, <2>4, <3>2, <3>3, <3>4, <3>5 DEF InstanceRests
  <2> QED BY <2>3, <2>4
<1>8. ASSUME NEW s \in Ops
      PROVE  /\ session'[s] \in SessionShape /\ SessionRests(s, session[s], session'[s])
             /\ session'[s].reservation # 0 => session'[s].reservation = session[s].reservation /\ s \notin Ended
  <2>1. PICK a : a = session[s]
    OBVIOUS
  <2>2. /\ a \in SessionShape /\ (a.state = "none" => a = NoSession)
        /\ (a.state = "forgotten" => a = [NoSession EXCEPT !.state = "forgotten"])
    BY <2>1, KeptFacts DEF SessionOK
  <2>3. PICK q : q = [a EXCEPT !.retiring = FALSE]
    OBVIOUS
  <2>4. q \in SessionShape
    BY <2>2, <2>3 DEF SessionShape
  <2>5. /\ q.state = a.state /\ q.pool = a.pool /\ q.lease = a.lease /\ q.active = a.active /\ q.queued = a.queued
        /\ q.unfinished = a.unfinished /\ q.opened = a.opened /\ q.closed = a.closed
        /\ q.closing = a.closing /\ q.receipt = a.receipt /\ q.reservation = a.reservation
    BY <2>2, <2>3 DEF SessionShape
  <2>6. CASE s \in Ended
    BY <1>2, <1>3, <2>1, <2>3, <2>4, <2>5, <2>6, UnfinishedIdles DEF SessionShape, SessionRests
  <2>7. CASE s \notin Ended
    <3>1. session'[s] = q
      BY <1>2, <2>1, <2>3, <2>7
    <3>2. a.state # "kept" => q = a
      BY <2>2, <2>3 DEF NoSession, SessionShape
    <3> QED BY <2>1, <2>4, <2>5, <2>7, <3>1, <3>2 DEF SessionRests
  <2> QED BY <2>6, <2>7
<1>9. session' \in [Ops -> SessionShape] /\ instance' \in [Ops -> Instance]
  BY <1>2, <1>7, <1>8
<1>10. ASSUME NEW s \in Ops
       PROVE  /\ session'[s].reservation # 0 => call'[session'[s].reservation] = call[session'[s].reservation]
              /\ instance'[s].reservation # 0 => call'[instance'[s].reservation] = call[instance'[s].reservation]
  BY <1>1, <1>3, <1>5, <1>7, <1>8, ReservationFacts DEF Owning, Distinct
<1>11. Rests
  BY <1>2, <1>5, <1>7, <1>8, <1>9, <1>10 DEF Rests, Shape
<1>12. Frame
  BY <1>2, <1>5 DEF Shape, Frame
<1> QED BY <1>11, <1>12

LEMMA RestsShape ==
  ASSUME Shape, Rests, Frame
  PROVE  Shape'
  BY DEF Shape, Rests, Frame


-----------------------------------------------------------------------------
(* Steps that move one VM between an owner and a call.                                          *)

\* The call `o` changes, with its session `s` and instance `i` (0: none); the calls in `R` are
\* reserved or give their reservation up; other instances may be told to close.
Moves(o, s, i, R) ==
  /\ call' \in [Ops -> Call] /\ session' \in [Ops -> SessionShape] /\ instance' \in [Ops -> Instance]
  /\ call[o].pc \in LivePcs \cup {"reserved"}
  /\ CallOK(call'[o]) /\ CallOwned(o)'
  /\ \A x \in Ops : x # o /\ x \notin R => call'[x] = call[x]
  /\ \A x \in R : /\ x \in Ops /\ x # o /\ call[x].pc \in {"free", "reserved"}
                  /\ CallOK(call'[x]) /\ CallOwned(x)'
  /\ \A t \in Ops : t # s => session'[t] = session[t]
  /\ \A t \in Ops : t # i => instance'[t] = instance[t] \/ Marks(instance[t], instance'[t])
  /\ s # 0 => s \in Ops /\ SessionOK(s)'
  /\ i # 0 => i \in Ops /\ InstanceOK(i)'
  /\ \A t \in Ops : \A x \in R \cup {o} : /\ t # s => session[t].reservation # x
                                          /\ t # i => instance[t].reservation # x
  /\ \A t \in Ops : t # s => /\ session[t].active # o
                             /\ session[t].state # "none" => /\ t # o \/ call'[o].pc \in {"done", "forgotten"}
                                                             /\ t # i \/ instance'[t].state = "none"
  /\ \A t \in Ops : t # i => /\ instance[t].active # o
                             /\ instance[t].state # "none" => t # o \/ call'[o].pc \in {"done", "forgotten"}
  /\ \A x \in Ops : x # o /\ s # 0 /\ SessionOf(x) = s =>
       /\ call[x].kind # "open" /\ session'[s].state = "kept" /\ session'[s].pool = call[x].pool
       /\ call[x].dispatched => session'[s].active = x
       /\ session[s].reservation # 0 => session'[s].reservation # 0
  /\ \A x \in Ops : x # o /\ i # 0 => InstanceOf(x) # i

LEMMA MovesOwns ==
  ASSUME Shape, Owning, NEW o \in Ops, NEW s, NEW i, NEW R, Moves(o, s, i, R)
  PROVE  Calls' /\ Sessions' /\ Instances'
<1>1. /\ call' \in [Ops -> Call] /\ session' \in [Ops -> SessionShape] /\ instance' \in [Ops -> Instance]
      /\ call[o].pc \in LivePcs \cup {"reserved"}
      /\ CallOK(call'[o]) /\ CallOwned(o)'
      /\ \A x \in Ops : x # o /\ x \notin R => call'[x] = call[x]
      /\ \A x \in R : /\ x \in Ops /\ x # o /\ call[x].pc \in {"free", "reserved"}
                      /\ CallOK(call'[x]) /\ CallOwned(x)'
      /\ \A t \in Ops : t # s => session'[t] = session[t]
      /\ \A t \in Ops : t # i => instance'[t] = instance[t] \/ Marks(instance[t], instance'[t])
      /\ s # 0 => s \in Ops /\ SessionOK(s)'
      /\ i # 0 => i \in Ops /\ InstanceOK(i)'
  BY DEF Moves
<1>2. /\ \A t \in Ops : \A x \in R \cup {o} : /\ t # s => session[t].reservation # x
                                              /\ t # i => instance[t].reservation # x
      /\ \A t \in Ops : t # s => /\ session[t].active # o
                                 /\ session[t].state # "none" => /\ t # o \/ call'[o].pc \in {"done", "forgotten"}
                                                                 /\ t # i \/ instance'[t].state = "none"
      /\ \A t \in Ops : t # i => /\ instance[t].active # o
                                 /\ instance[t].state # "none" => t # o \/ call'[o].pc \in {"done", "forgotten"}
  BY DEF Moves
<1>3. /\ \A x \in Ops : x # o /\ s # 0 /\ SessionOf(x) = s =>
           /\ call[x].kind # "open" /\ session'[s].state = "kept" /\ session'[s].pool = call[x].pool
           /\ call[x].dispatched => session'[s].active = x
           /\ session[s].reservation # 0 => session'[s].reservation # 0
      /\ \A x \in Ops : x # o /\ i # 0 => InstanceOf(x) # i
  BY DEF Moves
<1>4. \A x \in R : call[x].kind = "none" /\ call[x].owner = 0 /\ call[x].pc \notin LivePcs \cup {"done", "forgotten"}
  <2>1. ASSUME NEW x \in R PROVE call[x].kind = "none" /\ call[x].owner = 0 /\ call[x].pc \notin LivePcs \cup {"done", "forgotten"}
    <3>1. x \in Ops /\ call[x].pc \notin LivePcs \cup {"done", "forgotten"}
      BY <1>1 DEF LivePcs
    <3>2. CallOK(call[x])
      BY <3>1, CallFacts
    <3> QED BY <3>1, <3>2 DEF CallOK, Blank
  <2> QED BY <2>1
<1>5. ASSUME NEW x \in Ops, call[x].pc \in LivePcs, x # o
      PROVE  call'[x] = call[x] /\ SessionOf(x)' = SessionOf(x) /\ InstanceOf(x)' = InstanceOf(x)
  BY <1>1, <1>4, <1>5 DEF SessionOf, InstanceOf
<1>6. ASSUME NEW x \in Ops, call[x].pc \in {"done", "forgotten"}
      PROVE  call'[x] = call[x]
  BY <1>1, <1>4, <1>6 DEF LivePcs
<1>7. Calls'
  <2>1. ASSUME NEW x \in Ops PROVE CallOK(call'[x]) /\ CallOwned(x)'
    <3>1. CASE x = o
      BY <1>1, <3>1
    <3>2. CASE x \in R
      BY <1>1, <3>2
    <3>3. CASE x # o /\ x \notin R
      <4>1. PICK t, j : t = SessionOf(x) /\ j = InstanceOf(x)
        OBVIOUS
      <4>2. /\ CallOK(call[x]) /\ CallOwned(x) /\ call'[x] = call[x] /\ (t # 0 => t \in Ops) /\ (j # 0 => j \in Ops)
            /\ SessionOf(x)' = t /\ InstanceOf(x)' = j
        BY <1>1, <3>3, <4>1, CallFacts DEF SessionOf, InstanceOf
      <4>3. t # 0 /\ t # x => call'[t].pc \in {"done", "forgotten"}
        BY <1>6, <4>1, <4>2 DEF CallOwned
      <4>4. /\ j # 0 => j # i /\ instance[j].state = "kept" /\ instance[j].active = x /\ instance[j].pool = call[x].pool
            /\ t # 0 => session[t].state = "kept" /\ session[t].pool = call[x].pool
        BY <1>3, <3>3, <4>1, <4>2 DEF CallOwned
      <4>5. j # 0 => /\ instance'[j].state = "kept" /\ instance'[j].pool = call[x].pool
                     /\ instance'[j].active = x /\ instance'[j].reservation = instance[j].reservation
        BY <1>1, <4>2, <4>4 DEF Shape, Marks, Instance
      <4>6. CASE t # 0 /\ t = s
        <5>1. /\ call[x].kind # "open" /\ session'[t].state = "kept" /\ session'[t].pool = call[x].pool
              /\ call[x].dispatched => session'[t].active = x
              /\ session[t].reservation # 0 => session'[t].reservation # 0
          BY <1>3, <3>3, <4>1, <4>6
        <5> QED BY <4>1, <4>2, <4>3, <4>4, <4>5, <4>6, <5>1 DEF CallOwned
      <4>7. CASE t # 0 /\ t # s
        BY <1>1, <4>1, <4>2, <4>3, <4>4, <4>5, <4>7 DEF CallOwned, SessionOf
      <4>8. CASE t = 0
        BY <4>1, <4>2, <4>4, <4>5, <4>8, ConstantFacts DEF CallOwned, SessionOf
      <4> QED BY <4>6, <4>7, <4>8
    <3> QED BY <3>1, <3>2, <3>3
  <2> QED BY <2>1 DEF Calls
<1>8. ASSUME NEW x \in Ops, x \notin R, x # o PROVE call'[x] = call[x]
  BY <1>1, <1>8
<1>9. Sessions'
  <2>1. ASSUME NEW t \in Ops PROVE SessionOK(t)'
    <3>1. CASE t = s
      BY <1>1, <3>1, ConstantFacts
    <3>2. CASE t # s
      <4>1. PICK a : a = session[t]
        OBVIOUS
      <4>2. session'[t] = a /\ a \in SessionShape /\ SessionOK(t)
        BY <1>1, <3>2, <4>1, KeptFacts
      <4>3. a.state # "none" => /\ call[t].pc \in {"done", "forgotten"} \/ call[t].kind = "open"
                                /\ instance[t].state = "none"
        BY <4>1, <4>2 DEF SessionOK
      <4>4. a.state # "none" => call'[t] = call[t] \/ call'[t].pc \in {"done", "forgotten"}
        BY <1>2, <1>4, <1>8, <3>2, <4>1, <4>3
      <4>5. a.state # "none" => instance'[t].state = "none"
        BY <1>1, <1>2, <3>2, <4>1, <4>3 DEF Marks
      <4>6. a.active # 0 => call'[a.active] = call[a.active]
        BY <1>2, <1>5, <3>2, <4>1, <4>2 DEF SessionOK, NoSession, SessionShape
      <4>7. a.reservation # 0 => call'[a.reservation] = call[a.reservation]
        BY <1>2, <1>8, <3>2, <4>1, ReservationFacts
      <4>8. instance'[t].state = instance[t].state \/ a.state = "none"
        BY <4>3, <4>5
      <4> QED BY <4>1, <4>2, <4>4, <4>6, <4>7, <4>8, SessionFrame
    <3> QED BY <3>1, <3>2
  <2> QED BY <2>1 DEF Sessions
<1>10. Instances'
  <2>1. ASSUME NEW t \in Ops PROVE InstanceOK(t)'
    <3>1. CASE t = i
      BY <1>1, <3>1, ConstantFacts
    <3>2. CASE t # i
      BY <1>1, <1>2, <1>4, <1>5, <1>8, <3>2, KeptFacts, ReservationFacts, ConstantFacts DEF InstanceOK, Marks,
         Instance, OwnerOK
    <3> QED BY <3>1, <3>2
  <2> QED BY <2>1 DEF Instances
<1> QED BY <1>7, <1>9, <1>10


\* A part of a sequence.
LEMMA PartOwns ==
  ASSUME NEW S, NEW s \in Seq(S), NEW m \in Nat, NEW n \in Nat, 1 <= m, m <= n + 1, n <= Len(s)
  PROVE  /\ SubSeq(s, m, n) \in Seq(S)
         /\ Owned(SubSeq(s, m, n)) = {s[k] : k \in m .. n}
<1>1. PICK t : t = SubSeq(s, m, n)
  OBVIOUS
<1>2. /\ t \in Seq(S) /\ Len(t) = n - m + 1 /\ DOMAIN t = 1 .. n - m + 1
      /\ \A k \in 1 .. n - m + 1 : t[k] = s[m + k - 1]
  BY <1>1
<1>3. ASSUME NEW y \in Owned(t) PROVE y \in {s[k] : k \in m .. n}
  BY <1>2, <1>3 DEF Owned
<1>4. ASSUME NEW k \in m .. n PROVE s[k] \in Owned(t)
  <2>1. k - m + 1 \in 1 .. n - m + 1 /\ t[k - m + 1] = s[k]
    BY <1>2
  <2> QED BY <1>2, <2>1 DEF Owned
<1> QED BY <1>1, <1>2, <1>3, <1>4

\* Where an element of a sequence stands.
LEMMA PositionFacts ==
  ASSUME NEW S, NEW s \in Seq(S), NEW x \in Owned(s)
  PROVE  Position(s, x) \in 1 .. Len(s) /\ s[Position(s, x)] = x
BY DEF Owned, Position

LEMMA TurnedOwns ==
  ASSUME rotation \in Seq(Plugins), NEW g \in Owned(rotation)
  PROVE  Turned(g) \in Seq(Plugins) /\ Owned(Turned(g)) = Owned(rotation)
<1>1. PICK k \in 1 .. Len(rotation) : k = Position(rotation, g)
  BY PositionFacts
<1>2. PICK a, b : a = SubSeq(rotation, k + 1, Len(rotation)) /\ b = SubSeq(rotation, 1, k)
  OBVIOUS
<1>3. Len(rotation) \in Nat /\ k \in Nat /\ DOMAIN rotation = 1 .. Len(rotation)
  OBVIOUS
<1>4. a \in Seq(Plugins) /\ Owned(a) = {rotation[j] : j \in k + 1 .. Len(rotation)}
  <2>1. PICK m, n : m = k + 1 /\ n = Len(rotation)
    OBVIOUS
  <2>2. m \in Nat /\ n \in Nat /\ 1 <= m /\ m <= n + 1 /\ n <= Len(rotation)
    BY <1>3, <2>1
  <2>3. SubSeq(rotation, m, n) \in Seq(Plugins) /\ Owned(SubSeq(rotation, m, n)) = {rotation[j] : j \in m .. n}
    BY <2>2, PartOwns
  <2> QED BY <1>2, <2>1, <2>3
<1>5. b \in Seq(Plugins) /\ Owned(b) = {rotation[j] : j \in 1 .. k}
  BY <1>2, <1>3, PartOwns
<1>6. Turned(g) = a \o b
  BY <1>1, <1>2 DEF Turned
<1>7. a \o b \in Seq(Plugins) /\ Owned(a \o b) = Owned(a) \cup Owned(b)
  BY <1>4, <1>5, ConcatOwns
<1>8. 1 .. Len(rotation) = (1 .. k) \cup (k + 1 .. Len(rotation))
  BY <1>3
<1>9. Owned(rotation) = {rotation[j] : j \in 1 .. k} \cup {rotation[j] : j \in k + 1 .. Len(rotation)}
  BY <1>3, <1>8 DEF Owned
<1> QED BY <1>4, <1>5, <1>6, <1>7, <1>9

\* What take_call leaves of the queues and their rotation.
LEMMA TakeCallTables ==
  ASSUME Shape, Owning, NEW taken \in SUBSET Ops, NEW turned \in Seq(Plugins),
         Owned(turned) = Owned(rotation), take_call(taken, turned)
  PROVE  /\ rotation' \in Seq(Plugins) /\ queue' \in [Plugins -> SUBSET Ops] /\ queued' \in Int
         /\ \A g \in Plugins : queue'[g] = queue[g] \ taken
         /\ Injective(rotation') /\ Owned(rotation') = {g \in Plugins : queue'[g] # {}}
<1>1. PICK kept : kept = {g \in Plugins : queue[g] \ taken # {}}
  OBVIOUS
<1>2. /\ queue' = [g \in Plugins |-> queue[g] \ taken]
      /\ rotation' \in Retain(turned, kept)
      /\ queued' = queued - Cardinality(taken)
  BY <1>1 DEF take_call
<1>3. queue' \in [Plugins -> SUBSET Ops] /\ (\A g \in Plugins : queue'[g] = queue[g] \ taken) /\ queued' \in Int
  BY <1>2, Counted DEF Shape
<1>4. kept = {g \in Plugins : queue'[g] # {}} /\ kept \subseteq Plugins /\ IsFiniteSet(kept)
  BY <1>1, <1>3, ConstantFacts, FS_Subset
<1>5. kept \subseteq Owned(turned)
  BY <1>1 DEF Owning, Tables
<1>6. /\ rotation' \in [1 .. Cardinality(kept) -> kept]
      /\ \A i, j \in DOMAIN rotation' : i < j => Position(turned, rotation'[i]) < Position(turned, rotation'[j])
  BY <1>2 DEF Retain
<1>7. Injective(rotation')
  BY <1>5, <1>6, PositionFacts DEF Injective
<1>8. rotation' \in Seq(kept) /\ Owned(rotation') = kept
  BY <1>4, <1>6, <1>7, EnumerationOwns
<1>9. rotation' \in Seq(Plugins)
  BY <1>4, <1>8
<1> QED BY <1>3, <1>4, <1>7, <1>8, <1>9


-----------------------------------------------------------------------------
(* Dispatch. *)

LEMMA IdleFacts ==
  ASSUME NEW p \in Pools, NEW gone
  PROVE  /\ Idle(p, gone) \in SUBSET Ops
         /\ \A i \in Idle(p, gone) : /\ instance[i].state = "kept" /\ instance[i].pool = p /\ ~instance[i].closing
                                     /\ instance[i].active = 0 /\ instance[i].lease # "none" /\ i \notin gone
  BY DEF Idle, Kept

\* A scan closes kept instances only.
LEMMA GoneKept ==
  ASSUME Shape, NEW elapsed \in Elapsed, NEW candidates \in SUBSET Ops, NEW seen
  PROVE  Gone(elapsed, candidates, seen) \in SUBSET Kept(instance)
<1>1. elapsed \in SUBSET Kept(instance)
  BY DEF Elapsed
<1>2. Outlived(elapsed, seen) \in SUBSET Kept(instance)
  BY <1>1 DEF Outlived
<1>3. ASSUME NEW p \in Pools, NEW gone PROVE Victims(p, gone) \in SUBSET Kept(instance)
  <2> DEFINE from == UNION {Idle(q, gone) : q \in {q \in Pools :
                              /\ Cardinality(Idle(q, gone)) > Policy[q].floor
                              /\ ~plugin_allows_allocation(p) => PluginOf(q) = PluginOf(p)}}
  <2>1. Victims(p, gone) = IF from = {} THEN {} ELSE {Least(from)}
    BY DEF Victims
  <2>2. from \in SUBSET Ops /\ from \in SUBSET Kept(instance)
    BY DEF Idle, Kept
  <2> HIDE DEF from
  <2>3. from # {} => Least(from) \in from
    BY <2>2, LeastIn
  <2> QED BY <2>1, <2>2, <2>3
<1>4. \A o \in Reclaimers(elapsed, candidates) : o \in Ops /\ call[o].pool \in Pools
  BY DEF Reclaimers, Shape, Call
<1>5. \A o \in Reclaimers(elapsed, candidates) \cap seen :
        Victims(call[o].pool, Outlived(elapsed, Reached(candidates, o))) \in SUBSET Kept(instance)
  BY <1>3, <1>4
<1> QED BY <1>2, <1>5 DEF Gone

\* select takes the call `o`, closing the instances `gone` on its way.
Selected(o, gone, how) ==
  /\ o \in Candidates /\ gone \in SUBSET Kept(instance)
  /\ how = Prepared(o, gone) /\ how \in {"session", "cached", "fresh", "reject"}
  /\ Dispatched(o, gone, how)
  /\ UNCHANGED <<live, closing, shared, supervisor, workers, failures, finalized>>

Scanned(gone) ==
  /\ gone \in SUBSET Kept(instance) /\ instance' = Closing(instance, gone)
  /\ UNCHANGED <<call, session, pool, plugin, queue, rotation, queued, cleaning, registry>>
  /\ UNCHANGED <<live, closing, shared, supervisor, workers, failures, finalized>>

LEMMA SelectCases ==
  ASSUME Shape, select
  PROVE  \/ \E o \in Ops, gone \in SUBSET Ops, how \in {"session", "cached", "fresh", "reject"} : Selected(o, gone, how)
         \/ \E gone \in SUBSET Ops : Scanned(gone)
<1>1. PICK candidates \in {Candidates}, elapsed \in Elapsed :
        LET Before(o) == Gone(elapsed, candidates, Reached(candidates, o))
            Blocked(o) == Prepared(o, Before(o)) = "blocked"
        IN \/ \E o \in candidates :
                /\ ~Blocked(o) /\ \A x \in Reached(candidates, o) \ {o} : Blocked(x)
                /\ Dispatched(o, Before(o), Prepared(o, Before(o)))
           \/ /\ \A o \in candidates : Blocked(o)
              /\ Gone(elapsed, candidates, candidates) # {}
              /\ instance' = Closing(instance, Gone(elapsed, candidates, candidates))
              /\ UNCHANGED <<call, session, pool, plugin, queue, rotation, queued, cleaning, registry>>
  BY DEF select
<1>2. UNCHANGED <<live, closing, shared, supervisor, workers, failures, finalized>>
  BY DEF select
<1>3. candidates = Candidates /\ candidates \in SUBSET Ops
  BY DEF Candidates
<1>4. Kept(instance) \in SUBSET Ops
  BY DEF Kept
<1>5. CASE \E o \in candidates : LET gone == Gone(elapsed, candidates, Reached(candidates, o))
                                 IN Prepared(o, gone) # "blocked" /\ Dispatched(o, gone, Prepared(o, gone))
  BY <1>2, <1>3, <1>4, <1>5, GoneKept DEF Prepared, Selected
<1>6. CASE /\ instance' = Closing(instance, Gone(elapsed, candidates, candidates))
           /\ UNCHANGED <<call, session, pool, plugin, queue, rotation, queued, cleaning, registry>>
  BY <1>2, <1>3, <1>4, <1>6, GoneKept DEF Scanned
<1> QED BY <1>1, <1>5, <1>6

\* What is known of a candidate.
Choice(o, p, g, s) ==
  /\ p \in Pools /\ p = call[o].pool /\ g \in Plugins /\ g = PluginOf(p) /\ s = SessionOf(o)
  /\ call[o].pc = "queued" /\ o \in live /\ o \in queue[g] /\ g \in Owned(rotation)
  /\ ~call[o].dispatched /\ call[o].lease = "none" /\ call[o].final = "none" /\ call[o].receipt = "none"
  /\ ~call[o].prepared /\ call[o].kind \notin ClosingKinds /\ call[o].kind # "none"
  /\ call[o].kind \notin SessionKinds => call[o].owner = 0
  /\ call[o].kind \in SessionKinds => call[o].owner = s /\ s # 0
  /\ s # 0 => /\ s \in Ops /\ session[s].state = "kept" /\ session[s].pool = p /\ ~session[s].closing
              /\ session[s].active = 0 /\ session[s].lease # "none" /\ ~session[s].closed
              /\ call[o].kind \in SessionKinds
  /\ s = 0 => call[o].owner = 0 /\ session[o].state = "none" /\ call[o].kind \notin SessionKinds
  /\ instance[o].state = "none"
  /\ plugin[g].state = "open" /\ pool[p].state = "open"
  /\ plugin_active(g) < Limits[g].running /\ pool[p].active < Policy[p].running

LEMMA ChoiceFacts ==
  ASSUME Shape, Owning, NEW o \in Candidates, NEW p, p = call[o].pool, NEW g, g = PluginOf(p), NEW s, s = SessionOf(o)
  PROVE  Choice(o, p, g, s)
<1>1. /\ o \in Ops /\ o \in queue[g] /\ plugin[g].state = "open" /\ plugin_active(g) < Limits[g].running
      /\ pool[p].state = "open" /\ pool[p].active < Policy[p].running
      /\ s # 0 => ~session[s].closing /\ session[s].active = 0
  BY DEF Candidates
<1>2. call[o] \in Call /\ CallOK(call[o]) /\ CallOwned(o) /\ s \in Ops \cup {0}
  BY <1>1, CallFacts
<1>3. p \in Pools /\ g \in Plugins
  BY <1>2, ConstantFacts DEF Call
<1>4. call[o].pc = "queued" /\ o \in live /\ g \in Owned(rotation)
  BY <1>1, <1>3 DEF Owning, Tables, LivePcs
<1>5. /\ ~call[o].dispatched /\ call[o].lease = "none" /\ call[o].final = "none" /\ call[o].receipt = "none"
      /\ ~call[o].prepared /\ call[o].kind \notin ClosingKinds /\ call[o].kind # "none"
      /\ call[o].kind \notin SessionKinds => call[o].owner = 0
      /\ call[o].kind \in SessionKinds => call[o].owner # 0
  BY <1>2, <1>4 DEF CallOK, LivePcs
<1>6. /\ call[o].kind \in SessionKinds => call[o].owner = s /\ s # 0
      /\ s # 0 => call[o].kind \in SessionKinds
  BY <1>5 DEF SessionOf, SessionKinds
<1>7. s # 0 => /\ s \in Ops /\ session[s].state = "kept" /\ session[s].pool = p
               /\ session[s].lease # "none" /\ ~session[s].closed
  BY <1>1, <1>2, KeptFacts DEF CallOwned, OwnerOK, SessionOK
<1>8. session[o].state # "none" => call[o].kind = "open"
  BY <1>1, <1>4, KeptFacts DEF SessionOK
<1>9. instance[o].state = "none"
  BY <1>1, <1>4, <1>5, KeptFacts, ConstantFacts DEF InstanceOK, Instance
<1>10. s = 0 => call[o].owner = 0 /\ session[o].state = "none" /\ call[o].kind \notin SessionKinds
  BY <1>5, <1>6, <1>8 DEF SessionKinds
<1> QED BY <1>1, <1>3, <1>4, <1>5, <1>6, <1>7, <1>9, <1>10 DEF Choice

\* What Prepared answers.
LEMMA PreparedFacts ==
  ASSUME NEW o, NEW gone, NEW how, how = Prepared(o, gone), NEW p, p = call[o].pool
  PROVE  /\ how = "session" <=> SessionOf(o) # 0
         /\ how = "cached" => Policy[p].reuse = "reusable" /\ Idle(p, gone) # {}
         /\ how = "fresh" => /\ Allocatable(p)
                             /\ Policy[p].reuse = "reusable" /\ Policy[p].finalizer =>
                                  PluginRetains(PluginOf(p), 1) /\ RegistryRetains(1)
<1> HIDE DEF Allocatable, PluginRetains, RegistryRetains
<1> QED BY DEF Prepared


Run(c, lease, owner) == [c EXCEPT !.pc = "running", !.dispatched = TRUE, !.lease = lease, !.owner = owner]
Turn(c) == [c EXCEPT !.pc = "cleaning", !.dispatched = FALSE, !.lease = "none"]

\* `n` is the call `c` after its dispatch with `lease` for `owner`.
Started(c, n, lease, owner) ==
  /\ n \in Call /\ CallOK(n) /\ n.pc = "running" /\ n.dispatched /\ n.lease = lease /\ n.owner = owner
  /\ n.kind = c.kind /\ n.pool = c.pool /\ n.final = "none" /\ n.receipt = "none" /\ ~n.prepared

LEMMA RunOK ==
  ASSUME NEW c \in Call, c.final = "none", c.receipt = "none", ~c.prepared,
         c.kind \notin ClosingKinds, c.kind # "none", NEW lease \in {"raw", "live", "worn"},
         NEW owner \in Ops \cup {0}, c.kind \in SessionKinds => owner # 0
  PROVE  Started(c, Run(c, lease, owner), lease, owner)
<1>1. PICK n : n = Run(c, lease, owner)
  OBVIOUS
<1>2. lease \in Lease /\ lease # "none"
  BY DEF Lease
<1>3. n \in Call
  BY <1>1, <1>2 DEF Run, Call
<1>4. /\ n.pc = "running" /\ n.dispatched /\ n.lease = lease /\ n.owner = owner
      /\ n.kind = c.kind /\ n.pool = c.pool /\ n.final = "none" /\ n.receipt = "none" /\ ~n.prepared
  BY <1>1 DEF Run, Call
<1>5. CallOK(n)
  BY <1>2, <1>4 DEF CallOK, LivePcs, ClosingKinds, SessionKinds
<1> QED BY <1>1, <1>3, <1>4, <1>5 DEF Started

\* The tables after a dispatch that turned `o` into `n` and reserved `r` identities.
Turns(o, p, n, r) ==
  /\ n \in Call /\ n.pc \in LivePcs \ {"queued"} /\ n.owner \in Nat /\ n.owner < registry.next
  /\ r = 1 => registry.next \in Ops
  /\ call' = [x \in Ops |-> IF x = o THEN n
                            ELSE IF r = 1 /\ x = registry.next THEN Blank("reserved", p) ELSE call[x]]
  /\ \A x \in Ops : x >= registry.next => session'[x] = session[x] /\ instance'[x] = instance[x]

LEMMA TurnsFacts ==
  ASSUME Shape, Owning, NEW o \in Ops, call[o].pc = "queued", NEW p \in Pools, NEW n, NEW r \in {0, 1}, Turns(o, p, n, r)
  PROVE  /\ call' \in [Ops -> Call] /\ call'[o] = n /\ o < registry.next /\ registry.next \in Nat
         /\ \A x \in Ops : x # o /\ (r = 0 \/ x # registry.next) => call'[x] = call[x]
         /\ r = 1 => /\ registry.next \in Ops /\ registry.next # o /\ call'[registry.next] = Blank("reserved", p)
                     /\ call[registry.next].pc = "free"
BY ConstantFacts, BlankTyped DEF Shape, Owning, Fresh, Turns

LEMMA TurnsTables ==
  ASSUME Shape, Owning, NEW o \in Ops, call[o].pc = "queued", NEW p \in Pools, NEW n, NEW r \in {0, 1}, Turns(o, p, n, r),
         live' = live, registry'.next = registry.next + r,
         \A g \in Plugins : queue'[g] = queue[g] \ {o},
         Injective(rotation'), Owned(rotation') = {g \in Plugins : queue'[g] # {}}
  PROVE  Tables' /\ Fresh'
<1>1. /\ call' \in [Ops -> Call] /\ call'[o] = n /\ o < registry.next /\ registry.next \in Nat
      /\ \A x \in Ops : x # o /\ (r = 0 \/ x # registry.next) => call'[x] = call[x]
      /\ r = 1 => /\ registry.next \in Ops /\ registry.next # o /\ call'[registry.next] = Blank("reserved", p)
                  /\ call[registry.next].pc = "free"
  BY TurnsFacts
<1>2. /\ n \in Call /\ n.pc \in LivePcs \ {"queued"} /\ n.owner \in Nat /\ n.owner < registry.next
      /\ \A x \in Ops : x >= registry.next => session'[x] = session[x] /\ instance'[x] = instance[x]
  BY DEF Turns
<1>3. Blank("reserved", p).pc = "reserved" /\ Blank("reserved", p).owner = 0
  BY BlankTyped
<1>4. \A x \in Ops : call'[x].pc \in LivePcs <=> call[x].pc \in LivePcs
  BY <1>1, <1>2, <1>3 DEF LivePcs
<1>5. \A x \in Ops : /\ call'[x].pc = "queued" <=> call[x].pc = "queued" /\ x # o
                     /\ call'[x].pc = "queued" => call'[x] = call[x]
  BY <1>1, <1>2, <1>3
<1>6. Tables'
  BY <1>4, <1>5 DEF Owning, Tables
<1>7. Fresh'
  <2> SUFFICES ASSUME NEW x \in Ops
               PROVE  /\ x >= registry.next + r <=> call'[x].pc = "free"
                      /\ call'[x].owner < registry.next + r
                      /\ x >= registry.next + r => session'[x] = NoSession /\ instance'[x] = NoInstance
    BY DEF Fresh
  <2>0. x \in Nat
    BY ConstantFacts
  <2>1. /\ x >= registry.next <=> call[x].pc = "free"
        /\ call[x].owner < registry.next
        /\ x >= registry.next => session[x] = NoSession /\ instance[x] = NoInstance
    BY DEF Owning, Fresh
  <2>2. x >= registry.next + r => session'[x] = NoSession /\ instance'[x] = NoInstance
    BY <1>1, <1>2, <2>0, <2>1
  <2>3. /\ x >= registry.next + r <=> call'[x].pc = "free"
        /\ call'[x].owner < registry.next + r
    <3>1. CASE x = o
      BY <1>1, <1>2, <2>0, <3>1 DEF LivePcs
    <3>2. CASE x # o /\ r = 1 /\ x = registry.next
      BY <1>1, <1>3, <3>2
    <3>3. CASE x # o /\ (r = 0 \/ x # registry.next)
      <4>1. call'[x] = call[x] /\ call[x].owner \in Nat
        BY <1>1, <3>3, OpsInt DEF Shape, Call
      <4> QED BY <1>1, <2>0, <2>1, <3>3, <4>1
    <3> QED BY <3>1, <3>2, <3>3
  <2> QED BY <2>2, <2>3
<1> QED BY <1>6, <1>7


LEMMA ClosingMarks ==
  ASSUME Shape, NEW gone \in SUBSET Kept(instance)
  PROVE  /\ Closing(instance, gone) \in [Ops -> Instance]
         /\ \A t \in Ops : /\ Closing(instance, gone)[t] = instance[t] \/ Marks(instance[t], Closing(instance, gone)[t])
                           /\ t \notin gone => Closing(instance, gone)[t] = instance[t]
<1>1. \A t \in Ops : instance[t] \in Instance /\ [instance[t] EXCEPT !.closing = TRUE] \in Instance
  <2>1. ASSUME NEW a \in Instance PROVE [a EXCEPT !.closing = TRUE] \in Instance
    BY DEF Instance
  <2> QED BY <2>1 DEF Shape
<1>2. \A t \in gone : t \in Ops /\ instance[t].state = "kept"
  BY DEF Kept
<1> QED BY <1>1, <1>2 DEF Closing, Marks

\* The identities a dispatch reserves.
Reserving(p, how) == IF how = "fresh" /\ Policy[p].reuse = "reusable" /\ Policy[p].finalizer THEN 1 ELSE 0

LEMMA DispatchRest ==
  ASSUME Shape, Owning, NEW o \in Ops, NEW gone, NEW how, Selected(o, gone, how), NEW p, NEW g, NEW s,
         Choice(o, p, g, s), NEW r \in {0, 1}, r = Reserving(p, how)
  PROVE  /\ Frame /\ registry' \in [next : 1 .. LastOperation + 1, records : Int, reserved : Int]
         /\ registry'.next = registry.next + r /\ registry'.records = registry.records
         /\ registry'.reserved = registry.reserved + r
         /\ r = 1 => registry.next \in Ops
         /\ live' = live /\ queue' \in [Plugins -> SUBSET Ops] /\ rotation' \in Seq(Plugins)
         /\ \A h \in Plugins : queue'[h] = queue[h] \ {o}
         /\ Injective(rotation') /\ Owned(rotation') = {h \in Plugins : queue'[h] # {}}
<1>1. p \in Pools /\ g \in Plugins /\ p = call[o].pool /\ g = PluginOf(p) /\ g \in Owned(rotation)
  BY DEF Choice
<1>2. /\ r = 1 => registry.next <= LastOperation
      /\ pool' = [pool EXCEPT ![p].queued = @ - 1, ![p].active = IF how = "reject" THEN @ ELSE @ + 1]
      /\ plugin' = [plugin EXCEPT ![g].queued = @ - 1, ![g].reserved = @ + r]
      /\ registry' = [registry EXCEPT !.next = @ + r, !.reserved = @ + r]
      /\ cleaning' = IF how = "reject" THEN cleaning + 1 ELSE cleaning
      /\ take_call({o}, Turned(g))
  BY <1>1 DEF Selected, Dispatched, Reserving
<1>3. UNCHANGED <<live, closing, shared, supervisor, workers, failures, finalized>>
  BY DEF Selected
<1>4. /\ rotation' \in Seq(Plugins) /\ queue' \in [Plugins -> SUBSET Ops] /\ queued' \in Int
      /\ \A h \in Plugins : queue'[h] = queue[h] \ {o}
      /\ Injective(rotation') /\ Owned(rotation') = {h \in Plugins : queue'[h] # {}}
  BY <1>1, <1>2, TurnedOwns, TakeCallTables DEF Shape
<1>5. pool' \in [Pools -> PoolShape]
  <2>1. pool[p] \in PoolShape /\ pool \in [Pools -> PoolShape]
    BY <1>1 DEF Shape
  <2>2. PICK m, a \in Int : m = pool[p].queued - 1 /\ a = IF how = "reject" THEN pool[p].active ELSE pool[p].active + 1
    BY <2>1 DEF PoolShape
  <2>3. [pool[p] EXCEPT !.queued = m, !.active = a] \in PoolShape
    BY <2>1 DEF PoolShape
  <2>4. pool' = [pool EXCEPT ![p] = [pool[p] EXCEPT !.queued = m, !.active = a]]
    BY <1>1, <1>2, <2>1, <2>2
  <2> QED BY <2>1, <2>3, <2>4
<1>6. plugin' \in [Plugins -> PluginShape]
  <2>1. plugin[g] \in PluginShape /\ plugin \in [Plugins -> PluginShape]
    BY <1>1 DEF Shape
  <2>2. PICK m, a \in Int : m = plugin[g].queued - 1 /\ a = plugin[g].reserved + r
    BY <2>1 DEF PluginShape
  <2>3. [plugin[g] EXCEPT !.queued = m, !.reserved = a] \in PluginShape
    BY <2>1 DEF PluginShape
  <2>4. plugin' = [plugin EXCEPT ![g] = [plugin[g] EXCEPT !.queued = m, !.reserved = a]]
    BY <1>1, <1>2, <2>1, <2>2
  <2> QED BY <2>1, <2>3, <2>4
<1>7. /\ registry' \in [next : 1 .. LastOperation + 1, records : Int, reserved : Int]
      /\ registry'.next = registry.next + r /\ registry'.records = registry.records
      /\ registry'.reserved = registry.reserved + r
      /\ r = 1 => registry.next \in Ops
  <2>1. registry \in [next : 1 .. LastOperation + 1, records : Int, reserved : Int] /\ LastOperation \in Nat
    BY ConstantFacts DEF Shape
  <2>2. PICK m, a \in Int : m = registry.next + r /\ a = registry.reserved + r
    BY <2>1
  <2>3. registry' = [registry EXCEPT !.next = m, !.reserved = a]
    BY <1>2, <2>2
  <2>4. m \in 1 .. LastOperation + 1 /\ (r = 1 => registry.next \in Ops)
    BY <1>2, <2>1, <2>2 DEF Ops
  <2>5. registry'.next = m /\ registry'.reserved = a /\ registry'.records = registry.records
    BY <2>1, <2>3
  <2>6. registry' \in [next : 1 .. LastOperation + 1, records : Int, reserved : Int]
    BY <2>1, <2>3, <2>4
  <2> QED BY <2>2, <2>4, <2>5, <2>6
<1>8. cleaning' \in Int
  BY <1>2 DEF Shape
<1>9. Frame
  BY <1>3, <1>4, <1>5, <1>6, <1>8 DEF Frame, Shape
<1> QED BY <1>3, <1>4, <1>7, <1>9

\* A call of a session takes the session's VM.
DispatchedSession(o, s, n) ==
  /\ n = Run(call[o], session[s].lease, call[o].owner)
  /\ Turns(o, call[o].pool, n, 0) /\ Started(call[o], n, session[s].lease, s)
  /\ session' = [session EXCEPT ![s].lease = "none", ![s].active = o, ![s].queued = @ - 1]

LEMMA SessionDispatchEffect ==
  ASSUME Shape, Owning, NEW o \in Ops, NEW gone, Selected(o, gone, "session"), NEW p, NEW g, NEW s, Choice(o, p, g, s)
  PROVE  s # 0 /\ DispatchedSession(o, s, call'[o]) /\ instance' = Closing(instance, gone)
<1>1. s # 0 /\ s = SessionOf(o)
  BY PreparedFacts DEF Selected, Choice
<1>2. /\ s \in Ops /\ session[s].state = "kept" /\ session[s].lease # "none" /\ p \in Pools /\ p = call[o].pool
      /\ call[o].owner = s /\ call[o].pc = "queued"
  BY <1>1 DEF Choice
<1>3. PICK n : n = Run(call[o], session[s].lease, call[o].owner)
  OBVIOUS
<1>4. /\ call' = [x \in Ops |-> IF x = o THEN n ELSE call[x]]
      /\ session' = [session EXCEPT ![s].lease = "none", ![s].active = o, ![s].queued = @ - 1]
      /\ instance' = Closing(instance, gone)
  <2>1. Dispatched(o, gone, "session")
    BY DEF Selected
  <2>2. PICK a, d, l, w : a = "running" /\ d = TRUE /\ l = session[s].lease /\ w = call[o].owner
    OBVIOUS
  <2>3. n = [call[o] EXCEPT !.pc = a, !.dispatched = d, !.lease = l, !.owner = w]
    BY <1>3, <2>2 DEF Run
  <2>4. call' = [x \in Ops |-> IF x = o THEN [call[o] EXCEPT !.pc = a, !.dispatched = d, !.lease = l, !.owner = w]
                               ELSE call[x]]
    <3>1. call'[o] = [call[o] EXCEPT !.pc = a, !.dispatched = d, !.lease = l, !.owner = w]
      BY <1>1, <2>1, <2>2 DEF Dispatched
    <3>2. \A x \in Ops : x # o => call'[x] = call[x]
      BY <2>1 DEF Dispatched
    <3>3. call' = [x \in Ops |-> call'[x]]
      BY <2>1 DEF Dispatched
    <3> QED BY <3>1, <3>2, <3>3
  <2>5. /\ session' = [session EXCEPT ![s].lease = "none", ![s].active = o, ![s].queued = @ - 1]
        /\ instance' = Closing(instance, gone)
    BY <1>1, <2>1 DEF Dispatched
  <2> QED BY <2>3, <2>4, <2>5
<1>5. session[s].lease \in {"raw", "live", "worn"} /\ OwnerOK(session[s])
  BY <1>2, KeptFacts DEF OwnerOK
<1>6. call[o] \in Call
  BY CallFacts
<1>7. Started(call[o], n, session[s].lease, s)
  BY <1>1, <1>2, <1>3, <1>5, <1>6, RunOK DEF Choice
<1>8. n \in Call /\ n.pc \in LivePcs \ {"queued"} /\ n.owner = s
  BY <1>7 DEF Started, LivePcs
<1>9. s \in Nat /\ s < registry.next
  <2>1. s \in Nat /\ registry.next \in Nat
    BY <1>2, ConstantFacts DEF Shape
  <2> QED BY <1>2, <2>1, FreshFacts
<1>10. \A x \in Ops : x >= registry.next => session'[x] = session[x] /\ instance'[x] = instance[x]
  BY <1>2, <1>4, FreshFacts DEF Shape, Selected, Kept, Closing
<1>11. Turns(o, p, n, 0)
  <2>1. call' = [x \in Ops |-> IF x = o THEN n
                                ELSE IF 0 = 1 /\ x = registry.next THEN Blank("reserved", p) ELSE call[x]]
    BY <1>4
  <2> QED BY <1>8, <1>9, <1>10, <2>1 DEF Turns
<1>12. call'[o] = n
  BY <1>4
<1> QED BY <1>1, <1>2, <1>3, <1>4, <1>7, <1>11, <1>12 DEF DispatchedSession


\* A candidate is nobody's active call and nobody's reservation.
LEMMA QueuedApart ==
  ASSUME Shape, Owning, NEW o \in Ops, call[o].pc = "queued", NEW t \in Ops
  PROVE  /\ session[t].active # o /\ instance[t].active # o
         /\ session[t].reservation # o /\ instance[t].reservation # o
         /\ session[t].state # "none" => t # o \/ SessionOf(o) = t
         /\ instance[t].state # "none" => t # o
<1>1. CallOK(call[o]) /\ CallOwned(o) /\ call[o] \in Call
  BY CallFacts
<1>2. ~call[o].dispatched /\ (call[o].kind \notin SessionKinds => call[o].owner = 0) /\ o # 0
  BY <1>1, ConstantFacts DEF CallOK
<1>3. session[t].reservation # o /\ instance[t].reservation # o
  BY <1>2, ReservationFacts
<1>4. SessionOK(t) /\ session[t] \in SessionShape /\ InstanceOK(t) /\ instance[t] \in Instance
  BY KeptFacts
<1>5. session[t].active # o
  BY <1>2, <1>4 DEF SessionOK, NoSession, SessionShape
<1>6. instance[t].active # o
  BY <1>2, <1>4, ConstantFacts DEF InstanceOK, NoInstance, Instance, InstanceOf, SessionOf, SessionKinds
<1>7. session[t].state # "none" => t # o \/ SessionOf(o) = t
  BY <1>1, <1>4 DEF SessionOK, CallOwned, SessionOf
<1>8. instance[t].state # "none" => t # o
  BY <1>2, <1>4 DEF InstanceOK, Instance
<1> QED BY <1>3, <1>5, <1>6, <1>7, <1>8

LEMMA SessionDispatchOwns ==
  ASSUME Shape, Owning, NEW o \in Ops, NEW gone, Selected(o, gone, "session"), NEW p, NEW g, NEW s, Choice(o, p, g, s)
  PROVE  Shape' /\ Owning'
<1>1. s # 0 /\ DispatchedSession(o, s, call'[o]) /\ instance' = Closing(instance, gone)
  BY SessionDispatchEffect
<1>2. PICK n : n = call'[o]
  OBVIOUS
<1>3. /\ Turns(o, p, n, 0) /\ Started(call[o], n, session[s].lease, s)
      /\ session' = [session EXCEPT ![s].lease = "none", ![s].active = o, ![s].queued = @ - 1]
      /\ p \in Pools /\ call[o].pc = "queued" /\ p = call[o].pool /\ gone \in SUBSET Kept(instance)
  BY <1>1, <1>2 DEF DispatchedSession, Choice, Selected
<1>4. /\ call' \in [Ops -> Call] /\ call'[o] = n
      /\ \A x \in Ops : x # o => call'[x] = call[x]
  BY <1>3, TurnsFacts
<1>5. /\ s \in Ops /\ s = SessionOf(o) /\ session[s].state = "kept" /\ session[s].pool = p /\ ~session[s].closing
      /\ session[s].active = 0 /\ session[s].lease # "none" /\ ~session[s].closed /\ call[o].kind \in SessionKinds
      /\ call[o].owner = s /\ call[o].kind \notin ClosingKinds
  BY <1>1 DEF Choice
<1>6. 0 = Reserving(p, "session")
  BY DEF Reserving
<1>7. /\ Frame /\ registry' \in [next : 1 .. LastOperation + 1, records : Int, reserved : Int]
      /\ registry'.next = registry.next + 0
      /\ live' = live /\ queue' \in [Plugins -> SUBSET Ops] /\ rotation' \in Seq(Plugins)
      /\ \A h \in Plugins : queue'[h] = queue[h] \ {o}
      /\ Injective(rotation') /\ Owned(rotation') = {h \in Plugins : queue'[h] # {}}
  BY <1>6, DispatchRest
<1>8. Tables' /\ Fresh'
  BY <1>3, <1>7, TurnsTables
<1>9. /\ instance' \in [Ops -> Instance]
      /\ \A t \in Ops : instance'[t] = instance[t] \/ Marks(instance[t], instance'[t])
  BY <1>1, <1>3, ClosingMarks
<1>10. PICK a, q : a = session[s] /\ q = session'[s]
  OBVIOUS
<1>11. /\ q \in SessionShape /\ q.lease = "none" /\ q.active = o /\ q.state = "kept" /\ q.pool = p
       /\ ~q.closing /\ ~q.closed /\ q.opened = a.opened /\ q.receipt = a.receipt /\ q.reservation = a.reservation
       /\ session' \in [Ops -> SessionShape] /\ \A t \in Ops : t # s => session'[t] = session[t]
  <2>1. a \in SessionShape /\ session \in [Ops -> SessionShape]
    BY <1>5, <1>10 DEF Shape
  <2>2. PICK m \in Int : m = a.queued - 1
    BY <2>1 DEF SessionShape
  <2>3. PICK l \in Lease : l = "none"
    BY DEF Lease
  <2>4. session' = [session EXCEPT ![s] = [a EXCEPT !.lease = l, !.active = o, !.queued = m]]
    BY <1>3, <1>5, <1>10, <2>1, <2>2, <2>3
  <2>5. PICK e : e = [a EXCEPT !.lease = l, !.active = o, !.queued = m]
    OBVIOUS
  <2>6. e \in SessionShape
    BY <2>1, <2>5 DEF SessionShape
  <2>7. /\ e.lease = l /\ e.active = o /\ e.state = a.state /\ e.pool = a.pool /\ e.closing = a.closing
        /\ e.closed = a.closed /\ e.opened = a.opened /\ e.receipt = a.receipt /\ e.reservation = a.reservation
    BY <2>1, <2>5 DEF SessionShape
  <2>8. q = e /\ session' \in [Ops -> SessionShape] /\ \A t \in Ops : t # s => session'[t] = session[t]
    BY <1>5, <1>10, <2>1, <2>4, <2>5, <2>6
  <2> QED BY <1>5, <1>10, <2>3, <2>6, <2>7, <2>8
<1>12. SessionOK(s) /\ OwnerOK(a)
  BY <1>5, <1>10, KeptFacts
<1>13. /\ n.pc = "running" /\ n.dispatched /\ n.lease = a.lease /\ n.owner = s /\ n.kind = call[o].kind /\ n.pool = p
       /\ CallOK(n) /\ n \in Call /\ n.final = "none" /\ ~n.prepared
  BY <1>3, <1>10 DEF Started
<1>14. SessionOf(o)' = s /\ InstanceOf(o)' = 0
  BY <1>1, <1>4, <1>5, <1>13 DEF SessionOf, InstanceOf, SessionKinds
<1>15. CallOwned(o)'
  BY <1>1, <1>4, <1>5, <1>10, <1>11, <1>12, <1>13, <1>14, CallFacts DEF CallOwned, OwnerOK
<1>16. SessionOK(s)'
  <2>1. call[s].pc \in {"done", "forgotten"} \/ s = o
    BY <1>1, <1>5, CallFacts DEF CallOwned
  <2>2. a.opened => call[s].pc \in {"done", "forgotten"}
    BY <1>5, <1>10, <1>12 DEF SessionOK
  <2>3. a.state # "none" => call[s].pc \in {"done", "forgotten"} \/ call[s].kind = "open"
    BY <1>10, <1>12 DEF SessionOK
  <2>4. call'[s].pc \in {"done", "forgotten"} \/ call'[s].kind = "open"
    BY <1>3, <1>4, <1>5, <1>10, <1>13, <2>3
  <2>5. instance'[s].state = "none"
    BY <1>5, <1>9, <1>12 DEF SessionOK, Marks
  <2>6. a.reservation # 0 => call'[a.reservation].pc = "reserved" /\ call'[a.reservation].pool = p
    BY <1>3, <1>4, <1>5, <1>10, ReservationFacts
  <2>7. a.receipt = "none"
    BY <1>5, <1>10, <1>12 DEF OwnerOK
  <2>8. o # 0
    BY ConstantFacts
  <2>9. OwnerOK(q)'
    BY <1>11, <2>6, <2>7, <2>8 DEF OwnerOK
  <2>10. q.opened => call'[s].pc \in {"done", "forgotten"}
    BY <1>3, <1>4, <1>5, <1>11, <2>2
  <2> QED BY <1>4, <1>10, <1>11, <1>13, <1>14, <2>4, <2>5, <2>9, <2>10 DEF SessionOK, LivePcs
<1>17. Moves(o, s, 0, {})
  <2>1. call[o].pc \in LivePcs
    BY <1>3 DEF LivePcs
  <2>2. \A t \in Ops : /\ session[t].reservation # o /\ instance[t].reservation # o /\ session[t].active # o
                       /\ instance[t].active # o /\ (session[t].state # "none" => t # o \/ s = t)
                       /\ (instance[t].state # "none" => t # o)
    BY <1>3, <1>5, QueuedApart
  <2>3. ASSUME NEW x \in Ops, x # o, SessionOf(x) = s
        PROVE  call[x].kind # "open" /\ p = call[x].pool /\ ~call[x].dispatched
    <3>1. /\ session[s].pool = call[x].pool /\ (call[x].dispatched => session[s].active = x)
          /\ (call[x].kind = "open" => s = x) /\ (s # o => call[s].pc \in {"done", "forgotten"})
          /\ CallOK(call[x])
      BY <1>1, <1>5, <2>3, CallFacts DEF CallOwned, SessionOf
    <3>2. call[s].pc \in {"done", "forgotten"} => call[s].kind = "none"
      <4>1. CallOK(call[s])
        BY <1>5, CallFacts
      <4> QED BY <4>1 DEF CallOK, LivePcs, Blank
    <3> QED BY <1>5, <2>3, <3>1, <3>2, ConstantFacts
  <2>4. 0 \notin Ops
    BY ConstantFacts
  <2> QED BY <1>4, <1>5, <1>9, <1>10, <1>11, <1>13, <1>15, <1>16, <2>1, <2>2, <2>3, <2>4 DEF Moves
<1>18. Calls' /\ Sessions' /\ Instances'
  BY <1>17, MovesOwns
<1>19. Distinct'
  <2>1. \A t \in Ops : session'[t].reservation = session[t].reservation
    BY <1>10, <1>11
  <2>2. \A t \in Ops : instance'[t].reservation = instance[t].reservation
    BY <1>9 DEF Marks, Shape, Instance
  <2> QED BY <2>1, <2>2 DEF Owning, Distinct
<1>20. Shape'
  BY <1>4, <1>7, <1>9, <1>11 DEF Shape, Frame
<1> QED BY <1>8, <1>18, <1>19, <1>20 DEF Owning


\* A call of a reusable pool takes the VM of an idle instance.
DispatchedCached(o, p, i, n) ==
  /\ i \in Ops /\ instance[i].state = "kept" /\ instance[i].pool = p /\ ~instance[i].closing
  /\ instance[i].active = 0 /\ instance[i].lease \in {"live", "worn"} /\ i # o
  /\ n = Run(call[o], instance[i].lease, i)
  /\ Turns(o, p, n, 0) /\ Started(call[o], n, instance[i].lease, i)
  /\ session' = session
  /\ instance' \in [Ops -> Instance]
  /\ instance'[i] = [instance[i] EXCEPT !.active = o, !.lease = "none"]
  /\ \A t \in Ops : t # i => instance'[t] = instance[t] \/ Marks(instance[t], instance'[t])

LEMMA CachedDispatchEffect ==
  ASSUME Shape, Owning, NEW o \in Ops, NEW gone, Selected(o, gone, "cached"), NEW p, NEW g, NEW s, Choice(o, p, g, s)
  PROVE  s = 0 /\ \E i \in Ops : DispatchedCached(o, p, i, call'[o])
<1>1. s = 0 /\ s = SessionOf(o) /\ Idle(p, gone) # {} /\ gone \in SUBSET Kept(instance)
  BY PreparedFacts DEF Selected, Choice
<1>2. p \in Pools /\ p = call[o].pool /\ call[o].owner = 0 /\ call[o].pc = "queued" /\ call[o].kind \notin SessionKinds
      /\ instance[o].state = "none"
  BY <1>1 DEF Choice
<1>3. PICK i : i = Least(Idle(p, gone))
  OBVIOUS
<1>4. /\ i \in Ops /\ instance[i].state = "kept" /\ instance[i].pool = p /\ ~instance[i].closing
      /\ instance[i].active = 0 /\ instance[i].lease # "none" /\ i \notin gone /\ i # o
  BY <1>1, <1>2, <1>3, IdleFacts, LeastIn
<1>5. PICK n : n = Run(call[o], instance[i].lease, i)
  OBVIOUS
<1>6. /\ call' = [x \in Ops |-> IF x = o THEN n ELSE call[x]]
      /\ session' = session
      /\ instance' = [Closing(instance, gone) EXCEPT ![i] = [@ EXCEPT !.active = o, !.lease = "none"]]
  <2>1. Dispatched(o, gone, "cached")
    BY DEF Selected
  <2>2. PICK a, d, l, w : a = "running" /\ d = TRUE /\ l = instance[i].lease /\ w = i
    OBVIOUS
  <2>3. n = [call[o] EXCEPT !.pc = a, !.dispatched = d, !.lease = l, !.owner = w]
    BY <1>5, <2>2 DEF Run
  <2>4. call' = [x \in Ops |-> IF x = o THEN [call[o] EXCEPT !.pc = a, !.dispatched = d, !.lease = l, !.owner = w]
                               ELSE call[x]]
    <3>1. call'[o] = [call[o] EXCEPT !.pc = a, !.dispatched = d, !.lease = l, !.owner = w]
      BY <1>2, <1>3, <2>1, <2>2 DEF Dispatched
    <3>2. \A x \in Ops : x # o => call'[x] = call[x]
      BY <2>1 DEF Dispatched
    <3>3. call' = [x \in Ops |-> call'[x]]
      BY <2>1 DEF Dispatched
    <3> QED BY <3>1, <3>2, <3>3
  <2>5. /\ session' = session
        /\ instance' = [Closing(instance, gone) EXCEPT ![i] = [@ EXCEPT !.active = o, !.lease = "none"]]
    BY <1>1, <1>2, <1>3, <2>1 DEF Dispatched
  <2> QED BY <2>3, <2>4, <2>5
<1>7. instance[i].lease \in {"live", "worn"} /\ instance[i] \in Instance
  BY <1>4, KeptFacts DEF OwnerOK, InstanceOK
<1>8. call[o] \in Call
  BY CallFacts
<1>9. Started(call[o], n, instance[i].lease, i)
  BY <1>2, <1>4, <1>5, <1>7, <1>8, RunOK DEF Choice
<1>10. n \in Call /\ n.pc \in LivePcs \ {"queued"} /\ n.owner = i
  BY <1>9 DEF Started, LivePcs
<1>11. i \in Nat /\ i < registry.next
  <2>1. i \in Nat
    BY <1>4, ConstantFacts
  <2>2. registry.next \in Nat
    BY DEF Shape
  <2> QED BY <1>4, <2>1, <2>2, FreshFacts
<1>12. /\ instance' \in [Ops -> Instance]
       /\ instance'[i] = [instance[i] EXCEPT !.active = o, !.lease = "none"]
       /\ \A t \in Ops : t # i => instance'[t] = Closing(instance, gone)[t]
  <2>1. Closing(instance, gone) \in [Ops -> Instance] /\ Closing(instance, gone)[i] = instance[i]
    BY <1>1, <1>4, ClosingMarks
  <2>2. PICK l \in Lease : l = "none"
    BY DEF Lease
  <2>3. [instance[i] EXCEPT !.active = o, !.lease = l] \in Instance
    BY <1>7 DEF Instance
  <2>4. instance' = [Closing(instance, gone) EXCEPT ![i] = [instance[i] EXCEPT !.active = o, !.lease = l]]
    BY <1>4, <1>6, <2>1, <2>2
  <2> QED BY <1>4, <2>1, <2>2, <2>3, <2>4
<1>13. \A t \in Ops : t # i => instance'[t] = instance[t] \/ Marks(instance[t], instance'[t])
  BY <1>1, <1>12, ClosingMarks
<1>14. \A x \in Ops : x >= registry.next => session'[x] = session[x] /\ instance'[x] = instance[x]
  BY <1>4, <1>6, <1>13, FreshFacts DEF Marks
<1>15. Turns(o, p, n, 0)
  BY <1>6, <1>10, <1>11, <1>14 DEF Turns
<1>16. call'[o] = n
  BY <1>6
<1>17. DispatchedCached(o, p, i, n)
  BY <1>2, <1>4, <1>5, <1>6, <1>7, <1>9, <1>12, <1>13, <1>15 DEF DispatchedCached
<1> QED BY <1>1, <1>4, <1>16, <1>17

LEMMA CachedDispatchOwns ==
  ASSUME Shape, Owning, NEW o \in Ops, NEW gone, Selected(o, gone, "cached"), NEW p, NEW g, NEW s, Choice(o, p, g, s)
  PROVE  Shape' /\ Owning'
<1>1. PICK i \in Ops : s = 0 /\ DispatchedCached(o, p, i, call'[o])
  BY CachedDispatchEffect
<1>2. PICK n : n = call'[o]
  OBVIOUS
<1>3. /\ instance[i].state = "kept" /\ instance[i].pool = p /\ ~instance[i].closing /\ i # o /\ i # 0
      /\ instance[i].active = 0 /\ instance[i].lease \in {"live", "worn"}
      /\ Turns(o, p, n, 0) /\ Started(call[o], n, instance[i].lease, i) /\ session' = session
      /\ instance' \in [Ops -> Instance]
      /\ instance'[i] = [instance[i] EXCEPT !.active = o, !.lease = "none"]
      /\ \A t \in Ops : t # i => instance'[t] = instance[t] \/ Marks(instance[t], instance'[t])
  BY <1>1, <1>2, ConstantFacts DEF DispatchedCached
<1>4. /\ p \in Pools /\ call[o].pc = "queued" /\ p = call[o].pool /\ SessionOf(o) = 0
      /\ call[o].kind \notin SessionKinds /\ call[o].kind \notin ClosingKinds
      /\ session[o].state = "none" /\ instance[o].state = "none"
  BY <1>1 DEF Choice
<1>5. /\ call' \in [Ops -> Call] /\ call'[o] = n
      /\ \A x \in Ops : x # o => call'[x] = call[x]
  BY <1>3, <1>4, TurnsFacts
<1>6. 0 = Reserving(p, "cached")
  BY DEF Reserving
<1>7. /\ Frame /\ registry' \in [next : 1 .. LastOperation + 1, records : Int, reserved : Int]
      /\ registry'.next = registry.next + 0
      /\ live' = live /\ queue' \in [Plugins -> SUBSET Ops] /\ rotation' \in Seq(Plugins)
      /\ \A h \in Plugins : queue'[h] = queue[h] \ {o}
      /\ Injective(rotation') /\ Owned(rotation') = {h \in Plugins : queue'[h] # {}}
  BY <1>6, DispatchRest
<1>8. Tables' /\ Fresh'
  BY <1>3, <1>4, <1>7, TurnsTables
<1>9. PICK a, q : a = instance[i] /\ q = instance'[i]
  OBVIOUS
<1>10. a \in Instance /\ OwnerOK(a) /\ InstanceOK(i)
  BY <1>3, <1>9, KeptFacts
<1>11. /\ q.lease = "none" /\ q.active = o /\ q.state = "kept" /\ q.pool = p /\ ~q.closing
       /\ q.receipt = a.receipt /\ q.reservation = a.reservation
  BY <1>3, <1>9, <1>10 DEF Instance
<1>12. /\ n.pc = "running" /\ n.dispatched /\ n.lease = a.lease /\ n.owner = i /\ n.kind = call[o].kind /\ n.pool = p
       /\ CallOK(n) /\ n \in Call /\ n.final = "none" /\ ~n.prepared
  BY <1>3, <1>4, <1>9 DEF Started
<1>13. SessionOf(o)' = 0 /\ InstanceOf(o)' = i
  BY <1>4, <1>5, <1>12 DEF SessionOf, InstanceOf, SessionKinds
<1>14. CallOwned(o)'
  <2>1. a.lease # "none" /\ Policy[p].finalizer => a.reservation # 0
    BY <1>3, <1>9, <1>10 DEF OwnerOK
  <2>2. n.kind # "open" /\ n.dispatched /\ instance'[i].reservation = a.reservation /\ n.lease = a.lease /\ n.pool = p
    BY <1>4, <1>9, <1>11, <1>12 DEF SessionKinds
  <2>3. instance'[i].state = "kept" /\ instance'[i].pool = n.pool /\ instance'[i].active = o
    BY <1>9, <1>11, <1>12
  <2> QED BY <1>5, <1>13, <2>1, <2>2, <2>3 DEF CallOwned
<1>15. InstanceOK(i)'
  BY <1>3, <1>4, <1>5, <1>9, <1>10, <1>11, <1>12, <1>13, ReservationFacts, ConstantFacts DEF InstanceOK, OwnerOK,
     LivePcs
<1>16. Moves(o, 0, i, {})
  <2>1. call[o].pc \in LivePcs
    BY <1>4 DEF LivePcs
  <2>2. \A t \in Ops : /\ session[t].reservation # o /\ instance[t].reservation # o /\ session[t].active # o
                       /\ instance[t].active # o /\ (session[t].state # "none" => t # o)
                       /\ (instance[t].state # "none" => t # o)
    BY <1>4, QueuedApart
  <2>3. ASSUME NEW x \in Ops, InstanceOf(x) = i PROVE FALSE
    BY <1>3, <2>3, CallFacts, ConstantFacts DEF CallOwned
  <2>4. ASSUME NEW t \in Ops, session[t].state # "none" PROVE t # i
    BY <1>3, <2>4, KeptFacts DEF SessionOK
  <2>5. session' \in [Ops -> SessionShape]
    BY <1>3 DEF Shape
  <2> QED BY <1>3, <1>5, <1>12, <1>14, <1>15, <2>1, <2>2, <2>3, <2>4, <2>5 DEF Moves
<1>17. Calls' /\ Sessions' /\ Instances'
  BY <1>16, MovesOwns
<1>18. Distinct'
  <2>1. ASSUME NEW t \in Ops PROVE instance'[t].reservation = instance[t].reservation
    <3>1. CASE t = i
      BY <1>9, <1>11, <3>1
    <3>2. CASE t # i
      BY <1>3, <3>2 DEF Marks, Shape, Instance
    <3> QED BY <3>1, <3>2
  <2> QED BY <1>3, <2>1 DEF Owning, Distinct
<1>19. Shape'
  BY <1>3, <1>5, <1>7 DEF Shape, Frame
<1> QED BY <1>8, <1>17, <1>18, <1>19 DEF Owning


\* A call allocates a VM, and with it an instance in a reusable pool.
DispatchedFresh(o, p, r, n) ==
  LET reusable == Policy[p].reuse = "reusable"
      k == IF r = 1 THEN registry.next ELSE 0
  IN /\ Turns(o, p, n, r) /\ Started(call[o], n, "raw", IF reusable THEN o ELSE 0)
     /\ r = 1 => reusable /\ Policy[p].finalizer
     /\ reusable /\ Policy[p].finalizer => r = 1
     /\ session' = session
     /\ instance' \in [Ops -> Instance]
     /\ reusable => instance'[o] = [NoInstance EXCEPT !.state = "kept", !.pool = p, !.active = o, !.reservation = k]
     /\ \A t \in Ops : t # o \/ ~reusable => instance'[t] = instance[t] \/ Marks(instance[t], instance'[t])

LEMMA FreshDispatchEffect ==
  ASSUME Shape, Owning, NEW o \in Ops, NEW gone, Selected(o, gone, "fresh"), NEW p, NEW g, NEW s, Choice(o, p, g, s),
         NEW r \in {0, 1}, r = Reserving(p, "fresh")
  PROVE  s = 0 /\ DispatchedFresh(o, p, r, call'[o])
<1>1. s = 0 /\ s = SessionOf(o) /\ gone \in SUBSET Kept(instance)
  BY PreparedFacts DEF Selected, Choice
<1>2. p \in Pools /\ p = call[o].pool /\ call[o].owner = 0 /\ call[o].pc = "queued" /\ call[o].kind \notin SessionKinds
      /\ instance[o].state = "none" /\ session[o].state = "none"
  BY <1>1 DEF Choice
<1>3. PICK w, k : w = (IF Policy[p].reuse = "reusable" THEN o ELSE 0) /\ k = IF r = 1 THEN registry.next ELSE 0
  OBVIOUS
<1>4. PICK n : n = Run(call[o], "raw", w)
  OBVIOUS
<1>5. call[o] \in Call /\ w \in Ops \cup {0}
  BY <1>3, CallFacts
<1>6. Started(call[o], n, "raw", w)
  BY <1>2, <1>4, <1>5, RunOK DEF Choice
<1>7. /\ r = 1 => registry.next \in Ops
      /\ registry.next \in Nat /\ o < registry.next /\ o \in Nat
  BY <1>2, DispatchRest, ConstantFacts DEF Shape, Owning, Fresh
<1>8. n \in Call /\ n.pc \in LivePcs \ {"queued"} /\ n.owner = w /\ w \in Nat /\ w < registry.next
  BY <1>3, <1>6, <1>7 DEF Started, LivePcs
<1>9. Dispatched(o, gone, "fresh")
  BY DEF Selected
<1>10. call' = [x \in Ops |-> IF x = o THEN n
                              ELSE IF r = 1 /\ x = registry.next THEN Blank("reserved", p) ELSE call[x]]
  BY <1>2, <1>3, <1>4, <1>9 DEF Run, Dispatched, Reserving
<1>11. session' = session
  BY <1>1, <1>9 DEF Dispatched
<1>12. PICK e : e = [NoInstance EXCEPT !.state = "kept", !.pool = p, !.active = o, !.reservation = k]
  OBVIOUS
<1>13. e \in Instance
  BY <1>2, <1>3, <1>7, <1>12, NoOwnerTyped DEF Instance
<1>14. instance' = IF Policy[p].reuse = "reusable" THEN [Closing(instance, gone) EXCEPT ![o] = e] ELSE Closing(instance, gone)
  BY <1>2, <1>3, <1>9, <1>12 DEF Dispatched, Reserving
<1>15. /\ Closing(instance, gone) \in [Ops -> Instance]
       /\ \A t \in Ops : Closing(instance, gone)[t] = instance[t] \/ Marks(instance[t], Closing(instance, gone)[t])
  BY <1>1, ClosingMarks
<1>16. /\ instance' \in [Ops -> Instance]
       /\ Policy[p].reuse = "reusable" => instance'[o] = e
       /\ \A t \in Ops : t # o \/ Policy[p].reuse # "reusable" => instance'[t] = instance[t] \/ Marks(instance[t], instance'[t])
  BY <1>13, <1>14, <1>15
<1>17. \A x \in Ops : x >= registry.next => session'[x] = session[x] /\ instance'[x] = instance[x]
  BY <1>7, <1>11, <1>16, FreshFacts DEF Marks
<1>18. Turns(o, p, n, r)
  BY <1>7, <1>8, <1>10, <1>17 DEF Turns
<1>19. call'[o] = n
  BY <1>10
<1>20. DispatchedFresh(o, p, r, n)
  BY <1>3, <1>6, <1>11, <1>12, <1>16, <1>18 DEF DispatchedFresh, Reserving
<1> QED BY <1>1, <1>19, <1>20

LEMMA FreshDispatchOwns ==
  ASSUME Shape, Owning, NEW o \in Ops, NEW gone, Selected(o, gone, "fresh"), NEW p, NEW g, NEW s, Choice(o, p, g, s)
  PROVE  Shape' /\ Owning'
<1>1. PICK r \in {0, 1} : r = Reserving(p, "fresh")
  BY DEF Reserving
<1>2. PICK n : n = call'[o]
  OBVIOUS
<1>3. s = 0 /\ DispatchedFresh(o, p, r, n)
  BY <1>1, <1>2, FreshDispatchEffect
<1>4. PICK i, k : i = (IF Policy[p].reuse = "reusable" THEN o ELSE 0) /\ k = IF r = 1 THEN registry.next ELSE 0
  OBVIOUS
<1>5. /\ Turns(o, p, n, r) /\ Started(call[o], n, "raw", i) /\ session' = session
      /\ r = 1 => i = o /\ Policy[p].finalizer
      /\ i = o /\ Policy[p].finalizer => r = 1
      /\ instance' \in [Ops -> Instance]
      /\ i = o => instance'[o] = [NoInstance EXCEPT !.state = "kept", !.pool = p, !.active = o, !.reservation = k]
      /\ \A t \in Ops : t # i => instance'[t] = instance[t] \/ Marks(instance[t], instance'[t])
  BY <1>3, <1>4, ConstantFacts DEF DispatchedFresh
<1>6. /\ p \in Pools /\ call[o].pc = "queued" /\ p = call[o].pool /\ SessionOf(o) = 0
      /\ call[o].kind \notin SessionKinds /\ call[o].kind \notin ClosingKinds
      /\ session[o].state = "none" /\ instance[o].state = "none"
  BY <1>3 DEF Choice
<1>7. /\ call' \in [Ops -> Call] /\ call'[o] = n
      /\ \A x \in Ops : x # o /\ (r = 0 \/ x # registry.next) => call'[x] = call[x]
      /\ r = 1 => /\ registry.next \in Ops /\ registry.next # o /\ call'[registry.next] = Blank("reserved", p)
                  /\ call[registry.next].pc = "free"
  BY <1>5, <1>6, TurnsFacts
<1>8. /\ Frame /\ registry' \in [next : 1 .. LastOperation + 1, records : Int, reserved : Int]
      /\ registry'.next = registry.next + r
      /\ live' = live /\ queue' \in [Plugins -> SUBSET Ops] /\ rotation' \in Seq(Plugins)
      /\ \A h \in Plugins : queue'[h] = queue[h] \ {o}
      /\ Injective(rotation') /\ Owned(rotation') = {h \in Plugins : queue'[h] # {}}
  BY <1>1, DispatchRest
<1>9. Tables' /\ Fresh'
  BY <1>5, <1>6, <1>8, TurnsTables
<1>10. /\ n.pc = "running" /\ n.dispatched /\ n.lease = "raw" /\ n.owner = i /\ n.kind = call[o].kind /\ n.pool = p
       /\ CallOK(n) /\ n \in Call /\ n.final = "none" /\ ~n.prepared
  BY <1>5, <1>6 DEF Started
<1>11. SessionOf(o)' = 0 /\ InstanceOf(o)' = i
  BY <1>6, <1>7, <1>10 DEF SessionOf, InstanceOf, SessionKinds
<1>12. PICK q : q = instance'[o]
  OBVIOUS
<1>13. i = o => /\ q.lease = "none" /\ q.active = o /\ q.state = "kept" /\ q.pool = p /\ ~q.closing
                /\ q.receipt = "none" /\ q.reservation = k
  <2> SUFFICES ASSUME i = o
               PROVE  /\ q.lease = "none" /\ q.active = o /\ q.state = "kept" /\ q.pool = p /\ ~q.closing
                      /\ q.receipt = "none" /\ q.reservation = k
    OBVIOUS
  <2>1. PICK b \in Instance : b = NoInstance /\ b.lease = "none" /\ b.receipt = "none" /\ b.closing = FALSE
    BY NoOwnerTyped DEF NoInstance
  <2>2. PICK v : v = "kept"
    OBVIOUS
  <2>3. q = [b EXCEPT !.state = v, !.pool = p, !.active = o, !.reservation = k]
    BY <1>5, <1>12, <2>1, <2>2
  <2>4. /\ q.lease = b.lease /\ q.active = o /\ q.state = v /\ q.pool = p /\ q.closing = b.closing
        /\ q.receipt = b.receipt /\ q.reservation = k
    BY <2>1, <2>3 DEF Instance
  <2> QED BY <2>1, <2>2, <2>4
<1>14. 0 \notin Ops /\ o # 0 /\ (i # 0 <=> i = o) /\ registry.next \in Nat /\ (k # 0 <=> r = 1)
  BY <1>4, ConstantFacts DEF Shape
<1>15. CallOwned(o)'
  BY <1>5, <1>6, <1>7, <1>10, <1>11, <1>12, <1>13, <1>14 DEF SessionKinds, CallOwned
<1>16. i = o => InstanceOK(o)'
  BY <1>4, <1>6, <1>7, <1>10, <1>11, <1>12, <1>13, <1>14, BlankTyped DEF OwnerOK, LivePcs, InstanceOK
<1>17. PICK R : R = IF r = 1 THEN {registry.next} ELSE {}
  OBVIOUS
<1>18. Moves(o, 0, i, R)
  BY <1>5, <1>6, <1>7, <1>10, <1>14, <1>15, <1>16, <1>17, QueuedApart, CallFacts, BlankOK, FreshFacts DEF LivePcs,
     CallOwned, Shape, Moves
<1>19. Calls' /\ Sessions' /\ Instances'
  BY <1>18, MovesOwns
<1>20. Distinct'
  <2>1. \A t \in Ops : t # o \/ i # o => instance'[t].reservation = instance[t].reservation
    BY <1>5, <1>14 DEF Marks, Shape, Instance
  <2>2. i = o => instance'[o].reservation = k /\ (k = 0 \/ (k = registry.next /\ k \in Ops))
    BY <1>4, <1>7, <1>12, <1>13
  <2>3. k # 0 => \A t \in Ops : session[t].reservation # k /\ instance[t].reservation # k
    BY <1>4, <1>7, <1>14, FreshFacts
  <2> QED BY <1>5, <2>1, <2>2, <2>3 DEF Owning, Distinct
<1>21. Shape'
  BY <1>5, <1>7, <1>8 DEF Shape, Frame
<1> QED BY <1>9, <1>19, <1>20, <1>21 DEF Owning

\* A call that cannot be prepared goes to the supervisor.
LEMMA RejectDispatchEffect ==
  ASSUME Shape, Owning, NEW o \in Ops, NEW gone, Selected(o, gone, "reject"), NEW p, NEW g, NEW s, Choice(o, p, g, s)
  PROVE  /\ s = 0 /\ call'[o] = Turn(call[o]) /\ Turns(o, p, call'[o], 0) /\ CallOK(call'[o])
         /\ call'[o].pc = "cleaning" /\ ~call'[o].dispatched /\ call'[o].lease = "none" /\ call'[o].owner = 0
         /\ call'[o].kind = call[o].kind /\ call'[o].pool = p /\ call'[o].final = "none" /\ call'[o].receipt = "none"
         /\ session' = session /\ instance' = Closing(instance, gone)
<1>1. s = 0 /\ s = SessionOf(o) /\ gone \in SUBSET Kept(instance)
  BY PreparedFacts DEF Selected, Choice
<1>2. /\ p \in Pools /\ p = call[o].pool /\ call[o].owner = 0 /\ call[o].pc = "queued" /\ call[o].kind \notin SessionKinds
      /\ call[o].kind \notin ClosingKinds /\ call[o].kind # "none" /\ call[o].final = "none" /\ call[o].receipt = "none"
      /\ ~call[o].prepared
  BY <1>1 DEF Choice
<1>3. PICK c, n : c = call[o] /\ n = Turn(c)
  OBVIOUS
<1>4. Dispatched(o, gone, "reject")
  BY DEF Selected
<1>5. c \in Call
  BY <1>3, CallFacts
<1>6. call' = [x \in Ops |-> IF x = o THEN n ELSE call[x]]
  <2>1. PICK a, d, l : a = "cleaning" /\ d = FALSE /\ l = "none"
    OBVIOUS
  <2>2. call'[o] = [call[o] EXCEPT !.pc = a, !.dispatched = d, !.lease = l, !.owner = c.owner]
    BY <1>2, <1>3, <1>4, <2>1 DEF Dispatched
  <2>3. [c EXCEPT !.pc = a, !.dispatched = d, !.lease = l, !.owner = c.owner] = [c EXCEPT !.pc = a, !.dispatched = d, !.lease = l]
    BY <1>5 DEF Call
  <2>4. \A x \in Ops : x # o => call'[x] = call[x]
    BY <1>4 DEF Dispatched
  <2>5. call' = [x \in Ops |-> call'[x]]
    BY <1>4 DEF Dispatched
  <2>6. n = [c EXCEPT !.pc = a, !.dispatched = d, !.lease = l]
    BY <1>3, <2>1 DEF Turn
  <2> QED BY <1>3, <2>2, <2>3, <2>4, <2>5, <2>6
<1>7. session' = session /\ instance' = Closing(instance, gone)
  BY <1>1, <1>4 DEF Dispatched
<1>8. n \in Call
  <2>1. PICK l \in Lease : l = "none"
    BY DEF Lease
  <2>2. PICK b : b = [c EXCEPT !.pc = "cleaning"]
    OBVIOUS
  <2>3. b \in Call
    BY <1>5, <2>2 DEF Call
  <2>4. PICK d : d = [b EXCEPT !.dispatched = FALSE]
    OBVIOUS
  <2>5. d \in Call
    BY <2>3, <2>4 DEF Call
  <2>6. [d EXCEPT !.lease = l] \in Call
    BY <2>5 DEF Call
  <2>7. n = [d EXCEPT !.lease = l]
    BY <1>3, <1>5, <2>1, <2>2, <2>4 DEF Turn, Call
  <2> QED BY <2>6, <2>7
<1>9. /\ n.pc = "cleaning" /\ ~n.dispatched /\ n.lease = "none" /\ n.owner = 0 /\ n.kind = c.kind /\ n.pool = p
      /\ n.final = "none" /\ n.receipt = "none" /\ ~n.prepared
  BY <1>2, <1>3, <1>5 DEF Turn, Call
<1>10. CallOK(n)
  BY <1>2, <1>3, <1>9 DEF CallOK, LivePcs, ClosingKinds, SessionKinds
<1>11. \A x \in Ops : x >= registry.next => session'[x] = session[x] /\ instance'[x] = instance[x]
  BY <1>1, <1>7, FreshFacts DEF Kept, Closing
<1>12. Turns(o, p, n, 0)
  BY <1>6, <1>8, <1>9, <1>11 DEF Shape, Turns, LivePcs
<1>13. call'[o] = n
  BY <1>6
<1> QED BY <1>1, <1>3, <1>7, <1>9, <1>10, <1>12, <1>13

LEMMA RejectDispatchOwns ==
  ASSUME Shape, Owning, NEW o \in Ops, NEW gone, Selected(o, gone, "reject"), NEW p, NEW g, NEW s, Choice(o, p, g, s)
  PROVE  Shape' /\ Owning'
<1>1. PICK n : n = call'[o]
  OBVIOUS
<1>2. /\ s = 0 /\ Turns(o, p, n, 0) /\ CallOK(n) /\ n.pc = "cleaning" /\ ~n.dispatched /\ n.lease = "none" /\ n.owner = 0
      /\ n.kind = call[o].kind /\ session' = session /\ instance' = Closing(instance, gone)
  BY <1>1, RejectDispatchEffect
<1>3. /\ p \in Pools /\ call[o].pc = "queued" /\ SessionOf(o) = 0 /\ call[o].kind \notin SessionKinds
      /\ gone \in SUBSET Kept(instance)
  BY <1>2 DEF Choice, Selected
<1>4. /\ call' \in [Ops -> Call] /\ call'[o] = n /\ \A x \in Ops : x # o => call'[x] = call[x]
  BY <1>2, <1>3, TurnsFacts
<1>5. 0 = Reserving(p, "reject")
  BY DEF Reserving
<1>6. /\ Frame /\ registry' \in [next : 1 .. LastOperation + 1, records : Int, reserved : Int]
      /\ registry'.next = registry.next + 0
      /\ live' = live /\ queue' \in [Plugins -> SUBSET Ops] /\ rotation' \in Seq(Plugins)
      /\ \A h \in Plugins : queue'[h] = queue[h] \ {o}
      /\ Injective(rotation') /\ Owned(rotation') = {h \in Plugins : queue'[h] # {}}
  BY <1>5, DispatchRest
<1>7. Tables' /\ Fresh'
  BY <1>2, <1>3, <1>6, TurnsTables
<1>8. /\ instance' \in [Ops -> Instance]
      /\ \A t \in Ops : instance'[t] = instance[t] \/ Marks(instance[t], instance'[t])
  BY <1>2, <1>3, ClosingMarks
<1>9. SessionOf(o)' = 0 /\ InstanceOf(o)' = 0
  BY <1>2, <1>4 DEF SessionOf, InstanceOf
<1>10. CallOwned(o)'
  BY <1>2, <1>3, <1>4, <1>9 DEF SessionKinds, CallOwned
<1>11. Moves(o, 0, 0, {})
  <2>1. call[o].pc \in LivePcs
    BY <1>3 DEF LivePcs
  <2>2. \A t \in Ops : /\ session[t].reservation # o /\ instance[t].reservation # o /\ session[t].active # o
                       /\ instance[t].active # o /\ (session[t].state # "none" => t # o)
                       /\ (instance[t].state # "none" => t # o)
    BY <1>3, QueuedApart, ConstantFacts
  <2>3. session' \in [Ops -> SessionShape]
    BY <1>2 DEF Shape
  <2>4. 0 \notin Ops
    BY ConstantFacts
  <2> QED BY <1>2, <1>4, <1>8, <1>10, <2>1, <2>2, <2>3, <2>4 DEF Moves
<1>12. Calls' /\ Sessions' /\ Instances'
  BY <1>11, MovesOwns
<1>13. Distinct'
  <2>1. \A t \in Ops : instance'[t].reservation = instance[t].reservation
    BY <1>8 DEF Marks, Shape, Instance
  <2> QED BY <1>2, <2>1 DEF Owning, Distinct
<1>14. Shape'
  BY <1>2, <1>4, <1>6, <1>8 DEF Shape, Frame
<1> QED BY <1>7, <1>12, <1>13, <1>14 DEF Owning


-----------------------------------------------------------------------------
(* Closing operations: a reservation becomes a live operation with the owner's VM. *)

\* A reservation is nobody's call.
LEMMA ReservedApart ==
  ASSUME Shape, Owning, NEW o \in Ops, call[o].pc = "reserved"
  PROVE  /\ SessionOf(o) = 0 /\ InstanceOf(o) = 0 /\ o < registry.next
         /\ \A t \in Ops : /\ session[t].active # o /\ instance[t].active # o
                           /\ session[t].state # "none" => t # o
                           /\ instance[t].state # "none" => t # o
<1>1. call[o] = Blank("reserved", call[o].pool) /\ call[o].pool \in Pools
  BY CallFacts DEF CallOK, LivePcs, Call
<1>2. call[o].kind = "none" /\ call[o].owner = 0 /\ ~call[o].dispatched
  BY <1>1, BlankTyped
<1>3. SessionOf(o) = 0 /\ InstanceOf(o) = 0
  BY <1>2 DEF SessionOf, InstanceOf
<1>4. o < registry.next
  BY ConstantFacts DEF Shape, Owning, Fresh
<1>5. ASSUME NEW t \in Ops
      PROVE  /\ session[t].active # o /\ instance[t].active # o
             /\ session[t].state # "none" => t # o
             /\ instance[t].state # "none" => t # o
  BY <1>2, KeptFacts, ConstantFacts DEF NoSession, NoInstance, SessionOK, LivePcs, SessionShape, InstanceOK, Instance
<1> QED BY <1>3, <1>4, <1>5

Scheduling(kind, w, r, o, n) ==
  /\ n \in Call /\ n.pc = "cleaning" /\ n.kind = kind /\ n.owner = w /\ n.pool = r.pool
  /\ n.dispatched /\ n.lease = r.lease /\ n.final = "intent" /\ CallOK(n)
  /\ call' = [call EXCEPT ![o] = n] /\ live' = live \cup {o}
  /\ UNCHANGED <<queue, rotation>>
  /\ registry' \in [next : 1 .. LastOperation + 1, records : Int, reserved : Int]
  /\ registry'.next = registry.next

LEMMA ScheduledEffect ==
  ASSUME Shape, Owning, NEW kind \in ClosingKinds, NEW w \in Ops, NEW r, NEW o \in Ops, r.reservation = o,
         r.pool \in Pools, r.lease \in {"live", "worn"}, Policy[r.pool].finalizer, Scheduled(kind, w, r)
  PROVE  /\ Frame
         /\ Scheduling(kind, w, r, o, [Blank("cleaning", r.pool) EXCEPT !.kind = kind, !.owner = w,
                                         !.dispatched = TRUE, !.lease = r.lease, !.final = "intent"])
<1>1. PICK b, p, l : b = Blank("cleaning", r.pool) /\ p = r.pool /\ l = r.lease
  OBVIOUS
<1>2. /\ b \in Call /\ b.pc = "cleaning" /\ b.pool = p /\ b.receipt = "none" /\ ~b.prepared /\ p \in Pools
  BY <1>1, BlankTyped
<1>3. PICK n : n = [b EXCEPT !.kind = kind, !.owner = w, !.dispatched = TRUE, !.lease = l, !.final = "intent"]
  OBVIOUS
<1>4. n \in Call
  <2>1. l \in Lease /\ kind \in {"none", "invoke", "prewarm", "open", "session", "closeSession", "closeInstance"}
        /\ w \in Ops \cup {0}
    BY <1>1 DEF Lease, ClosingKinds
  <2>2. PICK m : m = [b EXCEPT !.kind = kind, !.owner = w, !.dispatched = TRUE]
    OBVIOUS
  <2>3. m \in Call
    BY <1>2, <2>1, <2>2 DEF Call
  <2>4. [m EXCEPT !.lease = l, !.final = "intent"] \in Call
    BY <2>1, <2>3 DEF Call
  <2>5. n = [m EXCEPT !.lease = l, !.final = "intent"]
    BY <1>2, <1>3, <2>2 DEF Call
  <2> QED BY <2>4, <2>5
<1>5. /\ n.pc = "cleaning" /\ n.kind = kind /\ n.owner = w /\ n.pool = p /\ n.dispatched /\ n.lease = l
      /\ n.final = "intent" /\ n.receipt = "none" /\ ~n.prepared
  BY <1>2, <1>3 DEF Call
<1>6. CallOK(n)
  BY <1>1, <1>5, ConstantFacts DEF Plan, CallOK, LivePcs, ClosingKinds, SessionKinds
<1>7. /\ call' = [call EXCEPT ![o] = n] /\ live' = live \cup {o}
      /\ UNCHANGED <<queue, rotation, queued, closing, shared, supervisor, workers, failures, finalized>>
  BY <1>1, <1>3 DEF Scheduled
<1>8. /\ registry' = [registry EXCEPT !.reserved = @ - 1, !.records = @ + 1] /\ cleaning' = cleaning + 1
      /\ pool' = [pool EXCEPT ![p].active = @ + 1]
      /\ plugin' = [plugin EXCEPT ![PluginOf(p)].reserved = @ - 1, ![PluginOf(p)].operations = @ + 1]
  BY <1>1 DEF Scheduled
<1>9. /\ registry' \in [next : 1 .. LastOperation + 1, records : Int, reserved : Int]
      /\ registry'.next = registry.next
  <2>1. registry \in [next : 1 .. LastOperation + 1, records : Int, reserved : Int]
    BY DEF Shape
  <2>2. PICK a \in Int, d \in Int : a = registry.reserved - 1 /\ d = registry.records + 1
    BY <2>1
  <2>3. registry' = [registry EXCEPT !.reserved = a, !.records = d]
    BY <1>8, <2>2
  <2> QED BY <2>1, <2>3
<1>10. Frame
  <2>1. PluginOf(p) \in Plugins
    BY <1>2, ConstantFacts
  <2>2. pool' \in [Pools -> PoolShape]
    <3>1. pool[p] \in PoolShape
      BY <1>2 DEF Shape
    <3>2. PICK a \in Int : a = pool[p].active + 1
      BY <3>1 DEF PoolShape
    <3>3. PICK v : v = [pool[p] EXCEPT !.active = a]
      OBVIOUS
    <3>4. v \in PoolShape
      BY <3>1, <3>3 DEF PoolShape
    <3>5. pool' = [pool EXCEPT ![p] = v]
      BY <1>8, <3>2, <3>3
    <3> QED BY <1>2, <3>4, <3>5 DEF Shape
  <2>3. plugin' \in [Plugins -> PluginShape]
    <3>1. PICK g \in Plugins : g = PluginOf(p)
      BY <2>1
    <3>2. plugin[g] \in PluginShape /\ plugin \in [Plugins -> PluginShape]
      BY DEF Shape
    <3>3. PICK a \in Int, d \in Int : a = plugin[g].reserved - 1 /\ d = plugin[g].operations + 1
      BY <3>2 DEF PluginShape
    <3>4. PICK v : v = [plugin[g] EXCEPT !.reserved = a, !.operations = d]
      OBVIOUS
    <3>5. v \in PluginShape
      BY <3>2, <3>4 DEF PluginShape
    <3>6. plugin' = [plugin EXCEPT ![g] = v]
      BY <1>8, <3>1, <3>2, <3>3, <3>4 DEF PluginShape
    <3> QED BY <3>2, <3>5, <3>6
  <2> QED BY <1>7, <1>8, <2>2, <2>3 DEF Frame, Shape
<1>11. Scheduling(kind, w, r, o, n)
  BY <1>1, <1>4, <1>5, <1>6, <1>7, <1>9 DEF Scheduling
<1> QED BY <1>1, <1>3, <1>10, <1>11

LEMMA SchedulingTables ==
  ASSUME Shape, Owning, NEW kind, NEW w \in Ops, NEW r, NEW o \in Ops, NEW n, Scheduling(kind, w, r, o, n),
         call[o].pc = "reserved", w < registry.next,
         \A t \in Ops : t >= registry.next => session'[t] = session[t] /\ instance'[t] = instance[t]
  PROVE  Tables' /\ Fresh' /\ call' \in [Ops -> Call]
BY DEF Scheduling, Shape, Owning, Tables, LivePcs, Fresh


\* The two supervisors' schedulers keep the tables.
LEMMA ScheduleSessionOwns ==
  ASSUME Shape, Owning, CountsExact, NEW s \in Ops, schedule_session(s)
  PROVE  Shape' /\ Owning'
<1>1. PICK r : r = session[s]
  OBVIOUS
<1>2. /\ r.state = "kept" /\ r.closing /\ r.active = 0 /\ r.lease # "none" /\ Plan(r.lease, r.pool) /\ r.unfinished = 0
      /\ Scheduled("closeSession", s, r) /\ instance' = instance
  BY <1>1 DEF schedule_session, Finalizable
<1>3. /\ r \in SessionShape /\ SessionOK(s) /\ OwnerOK(r) /\ r.pool \in Pools /\ Policy[r.pool].finalizer
      /\ r.lease \in {"live", "worn"} /\ r.reservation # 0 /\ r.reservation \in Ops \cup {0}
  BY <1>1, <1>2, KeptFacts DEF OwnerOK, Plan, SessionShape
<1>4. PICK o \in Ops : o = r.reservation /\ call[o].pc = "reserved"
  BY <1>1, <1>2, <1>3, ReservationFacts
<1>5. PICK n : n = [Blank("cleaning", r.pool) EXCEPT !.kind = "closeSession", !.owner = s,
                      !.dispatched = TRUE, !.lease = r.lease, !.final = "intent"]
  OBVIOUS
<1>6. "closeSession" \in ClosingKinds
  BY DEF ClosingKinds
<1>7. Frame /\ Scheduling("closeSession", s, r, o, n)
  BY <1>2, <1>3, <1>4, <1>5, <1>6, ScheduledEffect
<1>8. /\ n \in Call /\ n.pc = "cleaning" /\ n.kind = "closeSession" /\ n.owner = s /\ n.pool = r.pool
      /\ n.dispatched /\ n.lease = r.lease /\ CallOK(n)
      /\ call' = [call EXCEPT ![o] = n] /\ live' = live \cup {o}
      /\ UNCHANGED <<queue, rotation>>
      /\ registry' \in [next : 1 .. LastOperation + 1, records : Int, reserved : Int]
  BY <1>7 DEF Scheduling
<1>9. PICK q : q = [r EXCEPT !.reservation = 0, !.lease = "none", !.unfinished = 1, !.active = o]
  OBVIOUS
<1>10. session' = [session EXCEPT ![s] = q]
  BY <1>1, <1>4, <1>9 DEF schedule_session, Shape, SessionShape
<1>11. q \in SessionShape
  <2>1. PICK l \in Lease : l = "none"
    BY DEF Lease
  <2>2. PICK z \in Ops \cup {0} : z = 0
    OBVIOUS
  <2>3. PICK m : m = [r EXCEPT !.reservation = z, !.lease = l]
    OBVIOUS
  <2>4. m \in SessionShape
    BY <1>3, <2>3 DEF SessionShape
  <2>5. PICK u \in Int, a \in Ops \cup {0} : u = 1 /\ a = o
    OBVIOUS
  <2>6. [m EXCEPT !.unfinished = u, !.active = a] \in SessionShape
    BY <2>4 DEF SessionShape
  <2>7. q = [m EXCEPT !.unfinished = u, !.active = a]
    BY <1>3, <1>9, <2>1, <2>2, <2>3, <2>5 DEF SessionShape
  <2> QED BY <2>6, <2>7
<1>12. /\ q.reservation = 0 /\ q.lease = "none" /\ q.active = o /\ q.state = "kept" /\ q.pool = r.pool
       /\ q.opened = r.opened /\ q.closing /\ q.closed = r.closed /\ q.receipt = r.receipt
  BY <1>2, <1>3, <1>9 DEF SessionShape
<1>13. /\ session' \in [Ops -> SessionShape] /\ session'[s] = q /\ \A t \in Ops : t # s => session'[t] = session[t]
       /\ call' \in [Ops -> Call] /\ call'[o] = n /\ \A x \in Ops : x # o => call'[x] = call[x]
  BY <1>8, <1>10, <1>11 DEF Shape
<1>14. Idles(s)
  BY <1>1, <1>2, UnfinishedIdles
<1>15. /\ SessionOf(o) = 0 /\ InstanceOf(o) = 0
       /\ \A t \in Ops : /\ session[t].active # o /\ instance[t].active # o
                         /\ session[t].state # "none" => t # o
                         /\ instance[t].state # "none" => t # o
  BY <1>4, ReservedApart
<1>16. s # o /\ o # 0 /\ s # 0 /\ 0 \notin Ops
  BY <1>1, <1>2, <1>15, ConstantFacts
<1>17. call[s].pc \in {"done", "forgotten"} /\ call'[s] = call[s]
  BY <1>1, <1>2, <1>3, <1>13, <1>14, <1>16, CallFacts DEF SessionOK, CallOwned, SessionOf, Idles
<1>18. SessionOf(o)' = s /\ InstanceOf(o)' = 0
  BY <1>8, <1>13, <1>16 DEF SessionOf, InstanceOf
<1>19. CallOwned(o)'
  BY <1>8, <1>12, <1>13, <1>17, <1>18 DEF ClosingKinds, CallOwned
<1>20. SessionOK(s)'
  BY <1>1, <1>2, <1>3, <1>8, <1>12, <1>13, <1>16, <1>17, <1>18 DEF OwnerOK, SessionOK, LivePcs
<1>21. \A t \in Ops : (t # s => session[t].reservation # o) /\ instance[t].reservation # o
  BY <1>1, <1>4, <1>16 DEF Owning, Distinct
<1>22. Moves(o, s, 0, {})
  BY <1>2, <1>4, <1>8, <1>13, <1>14, <1>15, <1>16, <1>19, <1>20, <1>21 DEF Shape, Idles, Moves
<1>23. Calls' /\ Sessions' /\ Instances'
  BY <1>22, MovesOwns
<1>24. Distinct'
  BY <1>2, <1>12, <1>13 DEF Owning, Distinct
<1>25. Tables' /\ Fresh'
  <2>1. registry.next \in Nat
    BY DEF Shape
  <2>2. s \in Nat /\ (s >= registry.next => session[s].state = "none")
    BY FreshFacts, ConstantFacts
  <2>3. s < registry.next
    BY <1>1, <1>2, <2>1, <2>2
  <2>4. \A t \in Ops : t >= registry.next => session'[t] = session[t] /\ instance'[t] = instance[t]
    BY <1>2, <1>13, <2>1, <2>2, <2>3
  <2> QED BY <1>4, <1>7, <2>3, <2>4, SchedulingTables
<1>26. Shape'
  BY <1>2, <1>7, <1>8, <1>13 DEF Shape, Frame
<1> QED BY <1>23, <1>24, <1>25, <1>26 DEF Owning

LEMMA ScheduleInstanceOwns ==
  ASSUME Shape, Owning, NEW i \in Ops, schedule_instance(i)
  PROVE  Shape' /\ Owning'
<1>1. PICK r : r = instance[i]
  OBVIOUS
<1>2. /\ r.state = "kept" /\ r.closing /\ r.active = 0 /\ r.lease # "none" /\ Plan(r.lease, r.pool)
      /\ Scheduled("closeInstance", i, r) /\ session' = session
  BY <1>1 DEF schedule_instance, Finalizable
<1>3. /\ r \in Instance /\ InstanceOK(i) /\ OwnerOK(r) /\ r.pool \in Pools /\ Policy[r.pool].finalizer
      /\ r.lease \in {"live", "worn"} /\ r.reservation # 0 /\ r.reservation \in Ops \cup {0}
  BY <1>1, <1>2, KeptFacts DEF OwnerOK, Plan, Instance
<1>4. PICK o \in Ops : o = r.reservation /\ call[o].pc = "reserved"
  BY <1>1, <1>2, <1>3, ReservationFacts
<1>5. PICK n : n = [Blank("cleaning", r.pool) EXCEPT !.kind = "closeInstance", !.owner = i,
                      !.dispatched = TRUE, !.lease = r.lease, !.final = "intent"]
  OBVIOUS
<1>6. "closeInstance" \in ClosingKinds
  BY DEF ClosingKinds
<1>7. Frame /\ Scheduling("closeInstance", i, r, o, n)
  BY <1>2, <1>3, <1>4, <1>5, <1>6, ScheduledEffect
<1>8. /\ n \in Call /\ n.pc = "cleaning" /\ n.kind = "closeInstance" /\ n.owner = i /\ n.pool = r.pool
      /\ n.dispatched /\ n.lease = r.lease /\ CallOK(n)
      /\ call' = [call EXCEPT ![o] = n] /\ live' = live \cup {o}
      /\ UNCHANGED <<queue, rotation>>
      /\ registry' \in [next : 1 .. LastOperation + 1, records : Int, reserved : Int]
  BY <1>7 DEF Scheduling
<1>9. PICK q : q = [r EXCEPT !.reservation = 0, !.lease = "none", !.active = o]
  OBVIOUS
<1>10. instance' = [instance EXCEPT ![i] = q]
  BY <1>1, <1>4, <1>9 DEF schedule_instance, Shape, Instance
<1>11. q \in Instance
  BY <1>3, <1>9 DEF Lease, Instance
<1>12. /\ q.reservation = 0 /\ q.lease = "none" /\ q.active = o /\ q.state = "kept" /\ q.pool = r.pool
       /\ q.closing /\ q.receipt = r.receipt
  BY <1>2, <1>3, <1>9 DEF Instance
<1>13. /\ instance' \in [Ops -> Instance] /\ instance'[i] = q /\ \A t \in Ops : t # i => instance'[t] = instance[t]
       /\ call' \in [Ops -> Call] /\ call'[o] = n /\ \A x \in Ops : x # o => call'[x] = call[x]
  BY <1>8, <1>10, <1>11 DEF Shape
<1>15. /\ SessionOf(o) = 0 /\ InstanceOf(o) = 0
       /\ \A t \in Ops : /\ session[t].active # o /\ instance[t].active # o
                         /\ session[t].state # "none" => t # o
                         /\ instance[t].state # "none" => t # o
  BY <1>4, ReservedApart
<1>16. i # o /\ o # 0 /\ i # 0 /\ 0 \notin Ops /\ call'[i] = call[i]
  BY <1>1, <1>2, <1>13, <1>15, ConstantFacts
<1>18. SessionOf(o)' = 0 /\ InstanceOf(o)' = i
  BY <1>8, <1>13, <1>16 DEF SessionOf, InstanceOf
<1>19. CallOwned(o)'
  BY <1>8, <1>12, <1>13, <1>18 DEF ClosingKinds, CallOwned
<1>20. InstanceOK(i)'
  BY <1>1, <1>2, <1>3, <1>8, <1>12, <1>13, <1>16, <1>18 DEF OwnerOK, InstanceOK, LivePcs
<1>21. \A t \in Ops : (t # i => instance[t].reservation # o) /\ session[t].reservation # o
  BY <1>1, <1>4, <1>16 DEF Owning, Distinct
<1>22. Moves(o, 0, i, {})
  BY <1>1, <1>2, <1>4, <1>8, <1>13, <1>15, <1>16, <1>19, <1>20, <1>21, CallFacts, KeptFacts DEF Shape, CallOwned,
     SessionOK, Moves
<1>23. Calls' /\ Sessions' /\ Instances'
  BY <1>22, MovesOwns
<1>24. Distinct'
  BY <1>2, <1>12, <1>13 DEF Owning, Distinct
<1>25. Tables' /\ Fresh'
  <2>1. registry.next \in Nat
    BY DEF Shape
  <2>2. i \in Nat /\ (i >= registry.next => instance[i].state = "none")
    BY FreshFacts, ConstantFacts
  <2>3. i < registry.next
    BY <1>1, <1>2, <2>1, <2>2
  <2>4. \A t \in Ops : t >= registry.next => session'[t] = session[t] /\ instance'[t] = instance[t]
    BY <1>2, <1>13, <2>1, <2>2, <2>3
  <2> QED BY <1>4, <1>7, <2>3, <2>4, SchedulingTables
<1>26. Shape'
  BY <1>2, <1>7, <1>8, <1>13 DEF Shape, Frame
<1> QED BY <1>23, <1>24, <1>25, <1>26 DEF Owning


-----------------------------------------------------------------------------
(* Publication: the call ends and its owner gets the VM back or loses it. *)

\* The record of a call that can be published, and its owner.
Publishable(o, p, s, i) ==
  LET c == call[o]
  IN /\ p = c.pool /\ p \in Pools /\ s = SessionOf(o) /\ i = InstanceOf(o) /\ c.pc = "publishing"
     /\ s \in Ops \cup {0} /\ i \in Ops \cup {0} /\ (s # 0 => i = 0) /\ c.kind # "none"
     /\ c.lease # "none" => /\ c.dispatched /\ c.lease \in {"live", "worn"} /\ c.kind \notin ClosingKinds
     /\ c.lease \in Lease
     /\ s # 0 => /\ session[s].state = "kept" /\ session[s].pool = p
                 /\ s # o => call[s].pc \in {"done", "forgotten"}
                 /\ c.dispatched => session[s].active = o
                 /\ c.lease # "none" /\ Policy[p].finalizer => session[s].reservation # 0
     /\ i # 0 => /\ instance[i].state = "kept" /\ instance[i].pool = p /\ instance[i].active = o
                 /\ c.lease # "none" /\ Policy[p].finalizer => instance[i].reservation # 0
     /\ c.kind = "open" /\ ~c.dispatched => s = o /\ session[o].lease = "none"
     /\ c.kind # "open" => s # o

LEMMA PublishFacts ==
  ASSUME Shape, Owning, NEW o \in Ops, call[o].pc = "publishing"
  PROVE  Publishable(o, call[o].pool, SessionOf(o), InstanceOf(o))
BY CallFacts, ConstantFacts, KeptFacts DEF CallOK, LivePcs, Call, CallOwned, SessionOf, SessionOK, Publishable

\* What publication does to the tables.
Published(o, p, s, i, res) ==
  /\ call' \in [Ops -> Call] /\ call'[o] = Blank("done", p)
  /\ res \in SUBSET Ops /\ o \notin res
  /\ \A x \in res : call[x].pc = "reserved" /\ call'[x] = Blank("forgotten", p)
  /\ \A x \in Ops : x # o /\ x \notin res => call'[x] = call[x]
  /\ live' = live \ {o} /\ UNCHANGED <<queue, rotation>>
  /\ registry' \in [next : 1 .. LastOperation + 1, records : Int, reserved : Int]
  /\ registry'.next = registry.next
  /\ i # 0 /\ call[o].lease = "none" => res = {instance[i].reservation} \ {0}
  /\ i = 0 \/ call[o].lease # "none" => res = {}

LEMMA PublishEffect ==
  ASSUME Shape, Owning, NEW o \in Ops, NEW p, NEW s, NEW i, Publishable(o, p, s, i), publish_completion(o),
         NEW res, res = IF i # 0 /\ call[o].lease = "none" THEN {instance[i].reservation} \ {0} ELSE {}
  PROVE  Published(o, p, s, i, res) /\ Frame
<1>1. /\ p = call[o].pool /\ p \in Pools /\ s = SessionOf(o) /\ i = InstanceOf(o) /\ call[o].pc = "publishing"
      /\ i \in Ops \cup {0}
  BY DEF Publishable
<1>2. res \in SUBSET Ops /\ o \notin res /\ \A x \in res : call[x].pc = "reserved"
  BY <1>1, ReservationFacts
<1>3. call' = [x \in Ops |-> IF x = o THEN Blank("done", p)
                             ELSE IF x \in res THEN Blank("forgotten", p) ELSE call[x]]
  BY <1>1 DEF publish_completion
<1>4. Blank("done", p) \in Call /\ Blank("forgotten", p) \in Call
  BY <1>1, BlankTyped
<1>5. /\ call' \in [Ops -> Call] /\ call'[o] = Blank("done", p)
      /\ \A x \in res : call'[x] = Blank("forgotten", p)
      /\ \A x \in Ops : x # o /\ x \notin res => call'[x] = call[x]
  BY <1>2, <1>3, <1>4 DEF Shape
<1>6. /\ live' = live \ {o} /\ cleaning' = cleaning - 1
      /\ pool' = IF call[o].dispatched THEN [pool EXCEPT ![p].active = @ - 1] ELSE pool
      /\ plugin' = [plugin EXCEPT ![PluginOf(p)].reserved = @ - Cardinality(res)]
      /\ registry' = [registry EXCEPT !.reserved = @ - Cardinality(res)]
      /\ UNCHANGED <<queue, rotation, queued, closing, shared, supervisor, workers, failures, finalized>>
  BY <1>1 DEF publish_completion
<1>7. PICK k \in Nat : k = Cardinality(res)
  BY <1>2, Counted
<1>8. /\ registry' \in [next : 1 .. LastOperation + 1, records : Int, reserved : Int]
      /\ registry'.next = registry.next
  <2>1. registry \in [next : 1 .. LastOperation + 1, records : Int, reserved : Int]
    BY DEF Shape
  <2>2. PICK a \in Int : a = registry.reserved - k
    BY <2>1
  <2>3. registry' = [registry EXCEPT !.reserved = a]
    BY <1>6, <1>7, <2>2
  <2> QED BY <2>1, <2>3
<1>9. pool' \in [Pools -> PoolShape]
  <2>1. pool[p] \in PoolShape
    BY <1>1 DEF Shape
  <2>2. PICK a \in Int : a = pool[p].active - 1
    BY <2>1 DEF PoolShape
  <2>3. PICK v : v = [pool[p] EXCEPT !.active = a]
    OBVIOUS
  <2>4. v \in PoolShape
    BY <2>1, <2>3 DEF PoolShape
  <2>5. pool' = pool \/ pool' = [pool EXCEPT ![p] = v]
    BY <1>6, <2>2, <2>3
  <2> QED BY <1>1, <2>4, <2>5 DEF Shape
<1>10. plugin' \in [Plugins -> PluginShape]
  <2>1. PICK g \in Plugins : g = PluginOf(p)
    BY <1>1, ConstantFacts
  <2>2. plugin[g] \in PluginShape /\ plugin \in [Plugins -> PluginShape]
    BY DEF Shape
  <2>3. PICK a \in Int : a = plugin[g].reserved - k
    BY <2>2 DEF PluginShape
  <2>4. PICK v : v = [plugin[g] EXCEPT !.reserved = a]
    OBVIOUS
  <2>5. v \in PluginShape
    BY <2>2, <2>4 DEF PluginShape
  <2>6. plugin' = [plugin EXCEPT ![g] = v]
    BY <1>6, <1>7, <2>1, <2>3, <2>4
  <2> QED BY <2>2, <2>5, <2>6
<1>11. Published(o, p, s, i, res)
  BY <1>2, <1>5, <1>6, <1>8 DEF Published
<1>12. Frame
  BY <1>6, <1>9, <1>10 DEF Shape, Frame
<1> QED BY <1>11, <1>12


\* What a published call leaves with its session and its instance.
SessionSettled(o, s) ==
  LET r == session[s]  q == session'[s]
  IN /\ q.queued = r.queued /\ q.unfinished = r.unfinished - 1 /\ q.receipt = r.receipt
     /\ q.lease = IF call[o].lease # "none" THEN call[o].lease ELSE r.lease
InstanceSettled(o, i) ==
  \/ call[o].lease = "none" /\ instance'[i] = NoInstance
  \/ /\ call[o].lease # "none" /\ instance'[i].state = "kept" /\ instance'[i].pool = instance[i].pool
     /\ instance'[i].lease = call[o].lease /\ instance'[i].receipt = instance[i].receipt

\* The session of a published call.
LEMMA PublishSession ==
  ASSUME Shape, Owning, CountsExact, NEW o \in Ops, NEW p, NEW s \in Ops, NEW i, Publishable(o, p, s, i),
         publish_completion(o), NEW res, Published(o, p, s, i, res)
  PROVE  /\ session' \in [Ops -> SessionShape] /\ \A t \in Ops : t # s => session'[t] = session[t]
         /\ SessionOK(s)' /\ session'[s].state = "kept" /\ session'[s].pool = p
         /\ session'[s].reservation = session[s].reservation
         /\ ~call[o].dispatched => session'[s].active = session[s].active
         /\ session'[s].active # o /\ instance' = instance /\ SessionSettled(o, s)
<1>1. PICK c, r : c = call[o] /\ r = session[s]
  OBVIOUS
<1>2. s # 0 /\ 0 \notin Ops /\ o # 0
  BY ConstantFacts
<1>3. /\ p \in Pools /\ s = SessionOf(o) /\ i = InstanceOf(o) /\ i = 0 /\ c.pc = "publishing"
      /\ c.lease # "none" => /\ c.dispatched /\ c.lease \in {"live", "worn"}
      /\ c.lease \in Lease /\ r.state = "kept" /\ r.pool = p
      /\ s # o => call[s].pc \in {"done", "forgotten"}
      /\ c.dispatched => r.active = o
      /\ c.lease # "none" /\ Policy[p].finalizer => r.reservation # 0
      /\ c.kind = "open" /\ ~c.dispatched => r.lease = "none"
  BY <1>1, <1>2 DEF Publishable
<1>4. /\ call' \in [Ops -> Call] /\ call'[o] = Blank("done", p) /\ \A x \in Ops : x # o => call'[x] = call[x]
  BY <1>3 DEF Published
<1>5. r \in SessionShape /\ SessionOK(s) /\ OwnerOK(r) /\ session \in [Ops -> SessionShape]
  BY <1>1, <1>3, KeptFacts DEF Shape
<1>6. PICK u \in Int : u = r.unfinished - 1
  BY <1>5 DEF SessionShape
<1>7. instance' = instance
  BY <1>3 DEF publish_completion
<1>8. PICK q : q = IF c.dispatched /\ c.lease # "none"
                   THEN [r EXCEPT !.unfinished = u, !.active = 0, !.lease = c.lease, !.opened = TRUE]
                   ELSE IF c.dispatched THEN [r EXCEPT !.unfinished = u, !.active = 0, !.closing = TRUE]
                   ELSE IF c.kind = "open" THEN [r EXCEPT !.unfinished = u, !.closing = TRUE]
                   ELSE [r EXCEPT !.unfinished = u]
  OBVIOUS
<1>9. session' = [session EXCEPT ![s] = q]
  BY <1>1, <1>2, <1>3, <1>5, <1>6, <1>8 DEF publish_completion, SessionShape
<1>10. /\ q \in SessionShape /\ q.state = "kept" /\ q.pool = p /\ q.reservation = r.reservation /\ q.closed = r.closed
       /\ q.receipt = r.receipt /\ q.queued = r.queued /\ q.unfinished = u
       /\ c.dispatched /\ c.lease # "none" => q.active = 0 /\ q.lease = c.lease /\ q.opened /\ q.closing = r.closing
       /\ c.dispatched /\ c.lease = "none" => q.active = 0 /\ q.lease = r.lease /\ q.opened = r.opened /\ q.closing
       /\ ~c.dispatched => /\ q.active = r.active /\ q.lease = r.lease /\ q.opened = r.opened
                           /\ (q.closing = r.closing \/ q.closing)
  BY <1>3, <1>5, <1>8 DEF SessionShape
<1>11. session' \in [Ops -> SessionShape] /\ session'[s] = q /\ \A t \in Ops : t # s => session'[t] = session[t]
  BY <1>5, <1>9, <1>10
<1>12. ~r.closed
  BY <1>1, <1>3, <1>5, UnfinishedIdles DEF SessionOK, Idles
<1>13. call'[s].pc \in {"done", "forgotten"}
  BY <1>3, <1>4, BlankTyped
<1>14. r.active # o => call'[r.active] = call[r.active] \/ r.active = 0
  BY <1>4, <1>5 DEF SessionShape
<1>15. ~c.dispatched => r.active # o
  BY <1>1, <1>2, <1>3, <1>5 DEF SessionOK
<1>16. r.reservation # 0 => call'[r.reservation].pc = "reserved" /\ call'[r.reservation].pool = p
  BY <1>1, <1>3, <1>4, ReservationFacts
<1>17. OwnerOK(q)'
  BY <1>2, <1>3, <1>5, <1>10, <1>16 DEF OwnerOK
<1>18. instance'[s].state = "none"
  BY <1>1, <1>3, <1>5, <1>7 DEF SessionOK
<1>19. q.active # 0 => call'[q.active].pc \in LivePcs /\ call'[q.active].dispatched /\ SessionOf(q.active)' = s
  <2>1. q.active # 0 => q.active = r.active /\ call'[r.active] = call[r.active]
    BY <1>10, <1>14, <1>15
  <2>2. r.active # 0 => call[r.active].pc \in LivePcs /\ call[r.active].dispatched /\ SessionOf(r.active) = s
    BY <1>1, <1>3, <1>5 DEF SessionOK
  <2> QED BY <2>1, <2>2 DEF SessionOf
<1>20. (~q.opened => q.lease \in {"none", "raw"}) /\ (q.opened => q.lease # "raw")
  BY <1>1, <1>3, <1>5, <1>10 DEF SessionOK
<1>21. SessionOK(s)'
  BY <1>10, <1>11, <1>12, <1>13, <1>17, <1>18, <1>19, <1>20 DEF SessionOK
<1>22. q.active # o
  BY <1>2, <1>10, <1>15
<1>23. SessionSettled(o, s)
  BY <1>1, <1>3, <1>6, <1>10, <1>11 DEF SessionSettled
<1> QED BY <1>1, <1>7, <1>10, <1>11, <1>21, <1>22, <1>23

\* The instance of a published call.
LEMMA PublishInstance ==
  ASSUME Shape, Owning, NEW o \in Ops, NEW p, NEW s, NEW i \in Ops, Publishable(o, p, s, i),
         publish_completion(o), NEW res, Published(o, p, s, i, res)
  PROVE  /\ instance' \in [Ops -> Instance] /\ \A t \in Ops : t # i => instance'[t] = instance[t]
         /\ InstanceOK(i)' /\ session' = session /\ InstanceSettled(o, i)
         /\ instance'[i].reservation = instance[i].reservation \/ instance'[i].reservation = 0
<1>1. PICK c, r : c = call[o] /\ r = instance[i]
  OBVIOUS
<1>2. i # 0 /\ 0 \notin Ops /\ o # 0
  BY ConstantFacts
<1>3. /\ p \in Pools /\ s = SessionOf(o) /\ i = InstanceOf(o) /\ s = 0 /\ c.pc = "publishing"
      /\ c.lease # "none" => /\ c.dispatched /\ c.lease \in {"live", "worn"}
      /\ c.lease \in Lease /\ r.state = "kept" /\ r.pool = p /\ r.active = o
      /\ c.lease # "none" /\ Policy[p].finalizer => r.reservation # 0
  BY <1>1, <1>2 DEF Publishable
<1>4. session' = session
  BY <1>3 DEF publish_completion
<1>5. r \in Instance /\ InstanceOK(i) /\ OwnerOK(r) /\ instance \in [Ops -> Instance]
  BY <1>1, <1>3, KeptFacts DEF Shape
<1>6. CASE c.lease = "none"
  BY <1>1, <1>2, <1>3, <1>4, <1>5, <1>6, NoOwnerTyped DEF publish_completion, NoInstance, InstanceOK, InstanceSettled
<1>7. CASE c.lease # "none"
  BY <1>1, <1>2, <1>3, <1>4, <1>5, <1>7, ReservationFacts, BlankTyped DEF publish_completion, Instance, Published,
     OwnerOK, InstanceOK, InstanceSettled
<1> QED BY <1>6, <1>7


LEMMA PublishOwns ==
  ASSUME Shape, Owning, CountsExact, NEW o \in Ops, publish_completion(o)
  PROVE  Shape' /\ Owning'
<1>1. PICK p, s, i : p = call[o].pool /\ s = SessionOf(o) /\ i = InstanceOf(o)
  OBVIOUS
<1>2. PICK res : res = IF i # 0 /\ call[o].lease = "none" THEN {instance[i].reservation} \ {0} ELSE {}
  OBVIOUS
<1>3. Publishable(o, p, s, i)
  BY <1>1, PublishFacts DEF publish_completion
<1>4. Published(o, p, s, i, res) /\ Frame
  BY <1>2, <1>3, PublishEffect
<1>5. /\ call' \in [Ops -> Call] /\ call'[o] = Blank("done", p)
      /\ res \in SUBSET Ops /\ o \notin res
      /\ \A x \in res : call[x].pc = "reserved" /\ call'[x] = Blank("forgotten", p)
      /\ \A x \in Ops : x # o /\ x \notin res => call'[x] = call[x]
      /\ live' = live \ {o} /\ UNCHANGED <<queue, rotation>>
      /\ registry' \in [next : 1 .. LastOperation + 1, records : Int, reserved : Int]
      /\ registry'.next = registry.next
  BY <1>4 DEF Published
<1>6. /\ p \in Pools /\ call[o].pc = "publishing" /\ s \in Ops \cup {0} /\ i \in Ops \cup {0} /\ (s # 0 => i = 0)
      /\ s # 0 => session[s].state = "kept" /\ (s # o => call[s].pc \in {"done", "forgotten"})
                  /\ (call[o].dispatched => session[s].active = o)
      /\ i # 0 => instance[i].state = "kept" /\ instance[i].active = o
  BY <1>3 DEF Publishable
<1>7. /\ s = 0 /\ session' = session
      \/ /\ s \in Ops /\ session' \in [Ops -> SessionShape] /\ \A t \in Ops : t # s => session'[t] = session[t]
         /\ SessionOK(s)' /\ session'[s].state = "kept" /\ session'[s].pool = session[s].pool
         /\ session'[s].reservation = session[s].reservation
         /\ ~call[o].dispatched => session'[s].active = session[s].active
  <2>1. CASE s = 0
    BY <1>1, <2>1 DEF publish_completion
  <2>2. CASE s # 0
    BY <1>3, <1>4, <1>6, <2>2, PublishSession DEF Publishable
  <2> QED BY <2>1, <2>2
<1>8. /\ i = 0 /\ instance' = instance
      \/ /\ i \in Ops /\ instance' \in [Ops -> Instance] /\ \A t \in Ops : t # i => instance'[t] = instance[t]
         /\ InstanceOK(i)'
         /\ instance'[i].reservation = instance[i].reservation \/ instance'[i].reservation = 0
  BY <1>1, <1>3, <1>4, <1>6, PublishInstance DEF publish_completion
<1>9. session' \in [Ops -> SessionShape] /\ instance' \in [Ops -> Instance]
  BY <1>7, <1>8 DEF Shape
<1>10. 0 \notin Ops /\ o # 0 /\ call'[o].pc = "done" /\ call'[o].owner = 0 /\ \A x \in res : call'[x].pc = "forgotten" /\ call'[x].owner = 0
  BY <1>5, <1>6, ConstantFacts, BlankTyped
<1>11. CallOK(call'[o]) /\ CallOwned(o)'
  BY <1>5, <1>6, BlankOK
<1>12. ASSUME NEW x \in res PROVE CallOK(call'[x]) /\ CallOwned(x)'
  BY <1>5, <1>6, BlankOK
<1>13. ASSUME NEW t \in Ops, NEW x \in res \cup {o}
       PROVE  /\ session[t].reservation # x
              /\ t # i => instance[t].reservation # x
  BY <1>2, <1>6, <1>10, ReservationFacts DEF Owning, Distinct
<1>14. ASSUME NEW t \in Ops
       PROVE  (t # s => session[t].active # o) /\ (t # i => instance[t].active # o)
  BY <1>1, <1>10, KeptFacts DEF NoSession, NoInstance, SessionShape, Instance, SessionOK, InstanceOK
<1>15. ASSUME NEW x \in Ops, x # o, s # 0, SessionOf(x) = s
       PROVE  /\ call[x].kind # "open" /\ session'[s].state = "kept" /\ session'[s].pool = call[x].pool
              /\ call[x].dispatched => session'[s].active = x
              /\ session[s].reservation # 0 => session'[s].reservation # 0
  BY <1>6, <1>7, <1>15, CallFacts, BlankTyped DEF CallOwned, SessionOf, CallOK, LivePcs, Call
<1>16. ASSUME NEW x \in Ops, x # o, i # 0, InstanceOf(x) = i PROVE FALSE
  BY <1>6, <1>16, CallFacts DEF CallOwned
<1>17. ASSUME NEW t \in Ops, session[t].state # "none" PROVE t # i
  BY <1>6, <1>10, <1>17, KeptFacts DEF SessionOK
<1>18. Moves(o, s, i, res)
  BY <1>5, <1>6, <1>7, <1>8, <1>9, <1>10, <1>11, <1>12, <1>13, <1>14, <1>15, <1>16, <1>17 DEF LivePcs, Moves
<1>19. Calls' /\ Sessions' /\ Instances'
  BY <1>18, MovesOwns
<1>20. Distinct'
  BY <1>7, <1>8 DEF Owning, Distinct
<1>21. Tables'
  BY <1>5, <1>6, <1>10 DEF Owning, Tables, LivePcs
<1>22. Fresh'
  <2>1. ASSUME NEW x \in Ops
        PROVE  /\ x >= registry.next <=> call'[x].pc = "free"
               /\ call'[x].owner < registry.next
               /\ x >= registry.next => session'[x] = NoSession /\ instance'[x] = NoInstance
    <3>1. /\ x >= registry.next <=> call[x].pc = "free"
          /\ call[x].owner < registry.next
          /\ x >= registry.next => session[x] = NoSession /\ instance[x] = NoInstance
      BY DEF Owning, Fresh
    <3>2. 0 < registry.next
      BY DEF Shape
    <3>3. call'[x].owner < registry.next
      BY <1>5, <1>10, <3>1, <3>2
    <3>4. call'[x].pc = "free" <=> call[x].pc = "free"
      BY <1>5, <1>6, <1>10
    <3>5. NoSession.state = "none" /\ NoInstance.state = "none"
      BY DEF NoSession, NoInstance
    <3>6. ASSUME x >= registry.next PROVE session'[x] = session[x] /\ instance'[x] = instance[x]
      BY <1>6, <1>7, <1>8, <1>10, <3>1, <3>5, <3>6
    <3> QED BY <3>1, <3>3, <3>4, <3>6
  <2> QED BY <1>5, <2>1 DEF Fresh
<1>23. Shape'
  BY <1>4, <1>5, <1>9 DEF Shape, Frame
<1> QED BY <1>19, <1>20, <1>21, <1>22, <1>23 DEF Owning


-----------------------------------------------------------------------------
(* The queued calls that are refused leave the queues together. *)

Expired ==
  {o \in live : /\ call[o].pc = "queued"
                /\ \/ call[o].expired \/ closing \/ pool[call[o].pool].state = "closed"
                   \/ SessionOf(o) # 0 /\ session[SessionOf(o)].closing}
Openings == {o \in Expired : call[o].kind = "open"}

\* What happens to a call and to a session.
CallRefused(o) ==
  LET c == call[o]  n == call'[o]
  IN /\ n \in Call /\ n.kind = c.kind /\ n.pool = c.pool /\ n.owner = c.owner /\ n.dispatched = c.dispatched
     /\ n.final = c.final /\ n.receipt = c.receipt /\ n.prepared = c.prepared
     /\ o \notin Openings => n.lease = c.lease
     /\ o \in Openings => n.lease = session[o].lease
     /\ n = c \/ (n.pc = "supervised" /\ c.pc = "cleaning") \/ (n.pc = "supervised" /\ o \in Expired)
     /\ o \in Expired => n.pc = "supervised"
SessionRefuses(s) ==
  LET a == session[s]  q == session'[s]
  IN /\ q \in SessionShape /\ q.state = a.state /\ q.pool = a.pool /\ q.active = a.active /\ q.unfinished = a.unfinished
     /\ q.opened = a.opened /\ q.closed = a.closed /\ q.receipt = a.receipt /\ q.reservation = a.reservation
     /\ s \notin Openings => q.closing = a.closing /\ q.lease = a.lease /\ q = [a EXCEPT !.queued = q.queued]
                             /\ q.queued = a.queued - SessionTaken(Expired, s)
     /\ s \in Openings => q.closing /\ q.lease = "none" /\ q.queued = a.queued - 1

LEMMA RejectEffect ==
  ASSUME Shape, Owning, reject_expired
  PROVE  /\ \A o \in Ops : CallRefused(o) /\ SessionRefuses(o)
         /\ call' \in [Ops -> Call] /\ session' \in [Ops -> SessionShape]
         /\ instance' = instance /\ live' = live /\ registry' = registry
         /\ take_call(Expired, rotation) /\ Expired \in SUBSET Ops
<1>1. /\ call' = [o \in Ops |->
          IF o \in Openings THEN [call[o] EXCEPT !.pc = "supervised", !.lease = session[o].lease]
          ELSE IF o \in Expired \/ call[o].pc = "cleaning" THEN [call[o] EXCEPT !.pc = "supervised"]
          ELSE call[o]]
      /\ session' = [s \in Ops |->
          IF s \in Openings THEN OpeningRefused(session[s])
          ELSE [session[s] EXCEPT !.queued = @ - SessionTaken(Expired, s)]]
      /\ take_call(Expired, rotation) /\ UNCHANGED <<instance, live, closing, shared, registry, workers, failures, finalized>>
  BY Zenon DEF reject_expired, Expired, Openings
<1>2. Expired \in SUBSET Ops /\ Openings \in SUBSET Expired
  BY DEF Expired, Openings, Shape
<1>3. ASSUME NEW o \in Ops PROVE CallRefused(o)
  <2>1. call[o] \in Call /\ session[o] \in SessionShape
    BY DEF Shape
  <2>2. PICK l \in Lease : l = session[o].lease
    BY <2>1 DEF SessionShape
  <2>3. CASE o \in Openings
    BY <1>1, <1>2, <2>1, <2>2, <2>3 DEF Call, CallRefused
  <2>4. CASE o \notin Openings /\ (o \in Expired \/ call[o].pc = "cleaning")
    BY <1>1, <2>1, <2>4 DEF Call, CallRefused
  <2>5. CASE o \notin Expired /\ call[o].pc # "cleaning"
    BY <1>1, <1>2, <2>1, <2>5 DEF CallRefused
  <2> QED BY <2>3, <2>4, <2>5
<1>4. ASSUME NEW s \in Ops PROVE SessionRefuses(s)
  <2>1. session[s] \in SessionShape
    BY DEF Shape
  <2>2. CASE s \in Openings
    <3>1. PICK l \in Lease : l = "none"
      BY DEF Lease
    <3>2. PICK k \in Int : k = session[s].queued - 1
      BY <2>1 DEF SessionShape
    <3>3. session'[s] = [session[s] EXCEPT !.closing = TRUE, !.lease = l, !.queued = k]
      BY <1>1, <2>2, <3>1, <3>2 DEF OpeningRefused
    <3>4. session'[s] \in SessionShape
      BY <2>1, <3>3 DEF SessionShape
    <3> QED BY <2>1, <2>2, <3>1, <3>2, <3>3, <3>4 DEF SessionShape, SessionRefuses
  <2>3. CASE s \notin Openings
    <3>1. SessionTaken(Expired, s) \in Nat
      BY <1>2, Counted DEF SessionTaken
    <3>2. PICK k \in Int : k = session[s].queued - SessionTaken(Expired, s)
      BY <2>1, <3>1 DEF SessionShape
    <3>3. session'[s] = [session[s] EXCEPT !.queued = k]
      BY <1>1, <2>3, <3>2
    <3>4. session'[s] \in SessionShape /\ session'[s].queued = k
      BY <2>1, <3>3 DEF SessionShape
    <3> QED BY <2>1, <2>3, <3>2, <3>3, <3>4 DEF SessionShape, SessionRefuses
  <2> QED BY <2>2, <2>3
<1>5. call' \in [Ops -> Call]
  BY <1>1, <1>3 DEF CallRefused
<1>6. session' \in [Ops -> SessionShape]
  BY <1>1, <1>4 DEF SessionRefuses
<1> QED BY <1>1, <1>2, <1>3, <1>4, <1>5, <1>6

\* The counters keep their types.
LEMMA RejectFrame ==
  ASSUME Shape, Owning, reject_expired
  PROVE  Frame
<1>1. /\ pool' = [p \in Pools |-> [pool[p] EXCEPT !.queued = @ - PoolTaken(Expired, p)]]
      /\ plugin' = [g \in Plugins |-> [plugin[g] EXCEPT !.queued = @ - PluginTaken(Expired, g)]]
      /\ cleaning' = cleaning + Cardinality(Expired) /\ queued' = queued - Cardinality(Expired)
      /\ UNCHANGED <<closing, shared, workers, failures, finalized>>
  BY Zenon DEF reject_expired, Expired, take_call
<1>2. Expired \in SUBSET Ops
  BY DEF Expired, Shape
<1>3. pool' \in [Pools -> PoolShape]
  <2>1. ASSUME NEW p \in Pools PROVE [pool[p] EXCEPT !.queued = @ - PoolTaken(Expired, p)] \in PoolShape
    <3>1. {o \in Expired : call[o].pool = p} \in SUBSET Ops
      BY <1>2
    <3>2. PoolTaken(Expired, p) \in Nat /\ pool[p] \in PoolShape
      BY <3>1, Counted DEF PoolTaken, Shape
    <3> QED BY <3>2 DEF PoolShape
  <2> QED BY <1>1, <2>1
<1>4. plugin' \in [Plugins -> PluginShape]
  <2>1. ASSUME NEW g \in Plugins PROVE [plugin[g] EXCEPT !.queued = @ - PluginTaken(Expired, g)] \in PluginShape
    <3>1. {o \in Expired : PluginOf(call[o].pool) = g} \in SUBSET Ops
      BY <1>2
    <3>2. PluginTaken(Expired, g) \in Nat /\ plugin[g] \in PluginShape
      BY <3>1, Counted DEF PluginTaken, Shape
    <3> QED BY <3>2 DEF PluginShape
  <2> QED BY <1>1, <2>1
<1>5. cleaning' \in Int /\ queued' \in Int
  BY <1>1, <1>2, Counted DEF Shape
<1> QED BY <1>1, <1>3, <1>4, <1>5 DEF Frame, Shape


\* A refused opening is the only call of its session.
LEMMA OpeningFacts ==
  ASSUME Shape, Owning, NEW o \in Ops, call[o].pc = "queued", call[o].kind = "open"
  PROVE  /\ SessionOf(o) = o /\ session[o].state = "kept" /\ session[o].active = 0 /\ ~session[o].opened
         /\ session[o].lease \in {"none", "raw"} /\ session[o].pool = call[o].pool
         /\ \A x \in Ops : x # o => SessionOf(x) # o
BY CallFacts, ConstantFacts, KeptFacts DEF CallOK, CallOwned, SessionOf, SessionOK, SessionShape

LEMMA RejectOwns ==
  ASSUME Shape, Owning, reject_expired
  PROVE  Shape' /\ Owning'
<1>1. /\ \A o \in Ops : CallRefused(o) /\ SessionRefuses(o)
      /\ call' \in [Ops -> Call] /\ session' \in [Ops -> SessionShape]
      /\ instance' = instance /\ live' = live /\ registry' = registry
      /\ take_call(Expired, rotation) /\ Expired \in SUBSET Ops
  BY RejectEffect
<1>2. \A o \in Expired : call[o].pc = "queued" /\ o \in Ops
  BY <1>1 DEF Expired
<1>3. /\ \A o \in Openings : call[o].pc = "queued" /\ call[o].kind = "open" /\ o \in Expired /\ o \in Ops
      /\ \A o \in Expired : call[o].kind = "open" => o \in Openings
  BY <1>2 DEF Openings
<1>4. ASSUME NEW o \in Ops
      PROVE  /\ call'[o].kind = call[o].kind /\ call'[o].pool = call[o].pool /\ call'[o].owner = call[o].owner
             /\ call'[o].dispatched = call[o].dispatched
             /\ call'[o].pc \in LivePcs <=> call[o].pc \in LivePcs
             /\ call[o].pc \notin LivePcs => call'[o] = call[o]
             /\ call'[o].pc = "free" <=> call[o].pc = "free"
             /\ call'[o].pc = "queued" <=> call[o].pc = "queued" /\ o \notin Expired
             /\ SessionOf(o)' = SessionOf(o) /\ InstanceOf(o)' = InstanceOf(o)
  BY <1>1, <1>2 DEF CallRefused, LivePcs, SessionOf, InstanceOf
<1>5. Shape'
  BY <1>1, RejectFrame, TakeCallTables DEF Shape, Frame
<1>6. Tables'
  <2>1. rotation \in Seq(Plugins)
    BY DEF Shape
  <2>2. /\ \A g \in Plugins : queue'[g] = queue[g] \ Expired
        /\ Injective(rotation') /\ Owned(rotation') = {g \in Plugins : queue'[g] # {}}
    BY <1>1, <2>1, TakeCallTables
  <2>3. live' = {x \in Ops : call'[x].pc \in LivePcs}
    BY <1>1, <1>4 DEF Owning, Tables
  <2>4. \A g \in Plugins : queue'[g] = {x \in Ops : call'[x].pc = "queued" /\ PluginOf(call'[x].pool) = g}
    BY <1>4, <2>2 DEF Owning, Tables
  <2> QED BY <2>2, <2>3, <2>4 DEF Tables
<1>7. Distinct'
  BY <1>1 DEF SessionRefuses, Owning, Distinct
<1>8. ASSUME NEW o \in Ops PROVE CallOK(call'[o])
  BY <1>1, <1>2, <1>3, CallFacts, OpeningFacts DEF CallOK, CallRefused, SessionKinds, LivePcs, ClosingKinds
<1>9. ASSUME NEW o \in Ops, NEW s \in Ops, SessionOf(o) = s, o \notin Openings
      PROVE  s \notin Openings
  BY <1>3, <1>9, OpeningFacts
<1>10. ASSUME NEW o \in Ops PROVE CallOwned(o)'
  <2>1. CallOwned(o) /\ CallRefused(o) /\ CallOK(call[o]) /\ SessionOf(o) \in Ops \cup {0} /\ InstanceOf(o) \in Ops \cup {0}
    BY <1>1, CallFacts
  <2>2. PICK s, i : s = SessionOf(o) /\ i = InstanceOf(o)
    OBVIOUS
  <2>3. /\ SessionOf(o)' = s /\ InstanceOf(o)' = i /\ call'[o].kind = call[o].kind /\ call'[o].pool = call[o].pool
        /\ call'[o].owner = call[o].owner /\ call'[o].dispatched = call[o].dispatched
    BY <1>4, <2>2
  <2>4. call[o].kind = "open" => call'[o].owner = o
    BY <2>1, <2>3 DEF CallOwned
  <2>5. s # 0 => /\ session'[s].state = "kept" /\ session'[s].pool = call'[o].pool
                 /\ s # o => call'[s].pc \in {"done", "forgotten"}
                 /\ call'[o].dispatched => session'[s].active = o
    BY <1>1, <1>4, <2>1, <2>2, <2>3 DEF CallOwned, LivePcs, SessionRefuses
  <2>6. i # 0 => instance'[i].state = "kept" /\ instance'[i].pool = call'[o].pool /\ instance'[i].active = o
    BY <1>1, <2>1, <2>2, <2>3 DEF CallOwned
  <2>7. /\ call'[o].lease # "none" /\ ~call'[o].dispatched =>
             call'[o].kind = "open" /\ call'[o].pc = "supervised" /\ call'[o].lease = "raw" /\ ~call'[o].prepared
        /\ call'[o].kind = "open" /\ ~call'[o].dispatched /\ call'[o].pc # "queued" => session'[o].closing /\ session'[o].lease = "none"
        /\ call'[o].lease # "none" /\ Policy[call'[o].pool].finalizer /\ call'[o].kind \notin ClosingKinds =>
             /\ s # 0 => session'[s].reservation # 0
             /\ i # 0 => instance'[i].reservation # 0
    BY <1>1, <1>2, <1>3, <1>4, <2>1, <2>2, <2>3, OpeningFacts, KeptFacts, ConstantFacts DEF CallRefused, CallOK,
       SessionRefuses, InstanceOf, OwnerOK, CallOwned
  <2> QED BY <2>3, <2>4, <2>5, <2>6, <2>7 DEF CallOwned
<1>11. ASSUME NEW x \in Ops, call[x].pc = "reserved" PROVE call'[x] = call[x]
  BY <1>4, <1>11 DEF LivePcs
<1>12. ASSUME NEW s \in Ops PROVE SessionOK(s)'
  <2>1. SessionOK(s) /\ SessionRefuses(s) /\ session[s] \in SessionShape /\ (session[s].state = "kept" => OwnerOK(session[s]))
    BY <1>1, KeptFacts
  <2>2. CASE session[s].state # "kept"
    <3>1. s \notin Openings
      BY <1>3, <2>2, OpeningFacts
    <3>2. \A x \in Expired : SessionOf(x) # s
      <4>1. ASSUME NEW x \in Expired, SessionOf(x) = s PROVE FALSE
        <5>1. x \in Ops /\ s # 0
          BY <1>2, ConstantFacts
        <5>2. session[s].state = "kept"
          BY <4>1, <5>1, CallFacts DEF CallOwned
        <5> QED BY <2>2, <5>2
      <4> QED BY <4>1
    <3>3. SessionTaken(Expired, s) = 0
      BY <3>2, FS_EmptySet DEF SessionTaken
    <3>4. session'[s] = session[s]
      BY <2>1, <3>1, <3>3 DEF SessionRefuses, SessionShape
    <3>5. session[s].state # "none" => call'[s].pc \in {"done", "forgotten"} \/ call'[s].kind = "open"
      BY <1>4, <2>1 DEF SessionOK, LivePcs
    <3> QED BY <1>1, <2>1, <2>2, <3>4, <3>5 DEF SessionOK
  <2>3. CASE session[s].state = "kept"
    BY <1>1, <1>4, <1>11, <2>1, <2>3, ReservationFacts DEF SessionRefuses, OwnerOK, SessionOK, SessionShape, LivePcs
  <2> QED BY <2>2, <2>3
<1>13. ASSUME NEW i \in Ops PROVE InstanceOK(i)'
  <2>1. InstanceOK(i) /\ instance[i] \in Instance /\ (instance[i].state = "kept" => OwnerOK(instance[i]))
    BY KeptFacts
  <2>2. PICK r : r = instance[i] /\ r = instance'[i]
    BY <1>1
  <2>3. CASE r.state # "kept"
    BY <2>1, <2>2, <2>3 DEF InstanceOK
  <2>4. CASE r.state = "kept"
    <3>1. r.reservation # 0 => call'[r.reservation].pc = "reserved" /\ call'[r.reservation].pool = r.pool
      <4>1. r.reservation # 0 => r.reservation \in Ops /\ call[r.reservation].pc = "reserved" /\ call[r.reservation].pool = r.pool
        BY <2>2, ReservationFacts
      <4> QED BY <1>11, <4>1
    <3>2. OwnerOK(r)'
      BY <2>1, <2>2, <2>4, <3>1 DEF OwnerOK
    <3>3. r.active # 0 => call'[r.active].pc \in LivePcs /\ InstanceOf(r.active)' = i
      BY <1>4, <2>1, <2>2, <2>4 DEF InstanceOK, Instance
    <3>4. call'[i].pc \in {"done", "forgotten"} \/ (call'[i].owner = i /\ call'[i].kind \notin SessionKinds)
      BY <1>4, <2>1, <2>2, <2>4 DEF InstanceOK, LivePcs
    <3>5. r.lease # "raw"
      BY <2>1, <2>2, <2>4 DEF InstanceOK
    <3> QED BY <2>2, <2>4, <3>2, <3>3, <3>4, <3>5 DEF InstanceOK
  <2> QED BY <2>3, <2>4
<1>14. Fresh'
  BY <1>1, <1>4, <1>12 DEF Owning, Fresh, SessionRefuses, NoSession, SessionOK
<1> QED BY <1>5, <1>6, <1>7, <1>8, <1>10, <1>12, <1>13, <1>14 DEF Owning, Calls, Sessions, Instances


-----------------------------------------------------------------------------
(* Every step. *)

LEMMA SelectOwns ==
  ASSUME Shape, Owning, select
  PROVE  Shape' /\ Owning'
<1>1. CASE \E o \in Ops, gone \in SUBSET Ops, how \in {"session", "cached", "fresh", "reject"} : Selected(o, gone, how)
  BY <1>1, ChoiceFacts, SessionDispatchOwns, CachedDispatchOwns, FreshDispatchOwns, RejectDispatchOwns DEF Selected
<1>2. CASE \E gone \in SUBSET Ops : Scanned(gone)
  BY <1>2, ScanQuiet, QuietShape, QuietKeeps DEF Scanned, Frame, Shape
<1> QED BY <1>1, <1>2, SelectCases

\* The steps that only move live calls on and let owners age.
QuietStep ==
  \/ \E o \in Ops : \/ invoke(o) \/ hold(o) \/ begin_finalization(o) \/ finish_finalization(o) \/ close_retained(o)
                    \/ fail_evidence(o) \/ expire_call(o) \/ retry_checkpoint(o) \/ retire(o) \/ close_session(o)
                    \/ \E result \in {"pending", "done", "failed"} : advance(o, result)
  \/ extend \/ maintain

LEMMA QuietSteps ==
  ASSUME Shape, Owning, QuietStep
  PROVE  Quiet /\ Frame
  BY InvokeQuiet, HoldQuiet, BeginQuiet, FinishQuiet, CloseRetainedQuiet, FailEvidenceQuiet, ExpireQuiet, RetryQuiet,
     RetireQuiet, CloseSessionQuiet, AdvanceQuiet, ExtendQuiet, MaintainQuiet DEF QuietStep

\* The steps that touch neither calls nor owners.
HostStep ==
  \/ \E p \in Pools : register_pool(p) \/ close_pool(p)
  \/ \E g \in Plugins : close_plugin(g) \/ forget_plugin(g)
  \/ request_close \/ exit_worker

LEMMA HostSteps ==
  ASSUME Shape, HostStep
  PROVE  Quiet /\ Frame /\ UNCHANGED <<call, session, instance, queue, rotation, live, queued, cleaning, registry, finalized>>
<1>1. UNCHANGED <<call, session, instance, queue, rotation, live, queued, cleaning, registry, finalized, shared, failures>>
  BY DEF HostStep, register_pool, close_pool, close_plugin, forget_plugin, request_close, exit_worker
<1>2. Quiet
  BY <1>1, NothingQuiet
<1>3. /\ pool \in [Pools -> PoolShape] /\ plugin \in [Plugins -> PluginShape] /\ workers \in Int /\ closing \in BOOLEAN
  BY DEF Shape
<1>4. ASSUME NEW p \in Pools, NEW v \in {"open", "closed"} PROVE [pool EXCEPT ![p].state = v] \in [Pools -> PoolShape]
  BY <1>3 DEF PoolShape
<1>5. ASSUME NEW g \in Plugins, NEW v \in {"closing", "absent"} PROVE [plugin EXCEPT ![g].state = v] \in [Plugins -> PluginShape]
  BY <1>3 DEF PluginShape
<1>6. pool' \in [Pools -> PoolShape]
  <2>1. CASE \E p \in Pools : register_pool(p) \/ close_pool(p)
    BY <1>4, <2>1 DEF register_pool, close_pool
  <2>2. CASE \E g \in Plugins : close_plugin(g)
    BY <1>3, <2>2 DEF PoolShape, close_plugin
  <2>3. CASE pool' = pool
    BY <1>3, <2>3
  <2> QED BY <2>1, <2>2, <2>3 DEF HostStep, forget_plugin, request_close, exit_worker
<1>7. plugin' \in [Plugins -> PluginShape]
  BY <1>3, <1>5 DEF HostStep, register_pool, close_pool, close_plugin, forget_plugin, request_close, exit_worker
<1>8. workers' \in Int /\ closing' \in BOOLEAN
  <2>1. workers' = workers \/ workers' = workers - 1
    BY DEF HostStep, register_pool, close_pool, close_plugin, forget_plugin, request_close, exit_worker
  <2>2. closing' = closing \/ closing' = TRUE
    BY DEF HostStep, register_pool, close_pool, close_plugin, forget_plugin, request_close, exit_worker
  <2>3. workers' \in Int
    BY <1>3, <2>1
  <2>4. closing' \in BOOLEAN
    BY <1>3, <2>2, Zenon
  <2> QED BY <2>3, <2>4
<1>9. Frame
  BY <1>1, <1>6, <1>7, <1>8 DEF Frame, Shape
<1> QED BY <1>1, <1>2, <1>9

\* All steps, grouped.
LEMMA NextCases ==
  ASSUME Next
  PROVE  \/ QuietStep \/ HostStep \/ select \/ finish_maintain \/ reject_expired
         \/ \E p \in Pools : submit(p) \/ prewarm_instance(p) \/ open_session(p) \/ forget_pool(p)
         \/ \E o \in Ops : \/ submit_session(o) \/ forget_session(o) \/ forget_operation(o)
                           \/ schedule_session(o) \/ schedule_instance(o) \/ publish_completion(o)
  BY Zenon DEF Next, Host, Worker, Supervise, QuietStep, HostStep

\* The structure of calls, sessions and instances is kept by every step.
LEMMA StructureKept ==
  ASSUME Shape, Owning, CountsExact, Next
  PROVE  Shape' /\ Owning'
BY QuietSteps, QuietShape, QuietKeeps, HostSteps, SelectOwns, FinishMaintainRests, RestsShape, RestsOwns, RejectOwns,
   SubmitOwns, OpenSessionOwns, ForgetPoolRests, SubmitSessionOwns, ForgetSessionRests, ForgetOperationRests,
   ScheduleSessionOwns, ScheduleInstanceOwns, PublishOwns, NextCases
=============================================================================
