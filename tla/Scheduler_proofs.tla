-------------------------- MODULE Scheduler_proofs --------------------------
(***************************************************************************)
(* Theorems about the scheduler, for any number of pools, plugins, workers *)
(* and operations.  SchedulerTables_proofs shows that calls, sessions and  *)
(* instances stay linked; here the counts, the VMs and the limits that are *)
(* kept beside those tables are added, and the properties follow.          *)
(***************************************************************************)
EXTENDS SchedulerTables_proofs

-----------------------------------------------------------------------------
(* What the counters count. *)

QueuedCalls == {o \in Ops : call[o].pc = "queued"}
CleanCalls == {o \in Ops : call[o].pc \in LivePcs \ {"queued", "running"}}
RetainedCalls == {o \in Ops : call[o].pc \in LivePcs \cup {"done"}}
ReservedCalls == {o \in Ops : call[o].pc = "reserved"}
PluginQueued(g) == {o \in Ops : call[o].pc = "queued" /\ PluginOf(call[o].pool) = g}
PluginRetained(g) == {o \in Ops : call[o].pc \in LivePcs \cup {"done"} /\ PluginOf(call[o].pool) = g}
PluginReserved(g) == {o \in Ops : call[o].pc = "reserved" /\ PluginOf(call[o].pool) = g}
PoolQueued(p) == {o \in Ops : call[o].pc = "queued" /\ call[o].pool = p}
PoolActive(p) == {o \in Ops : call[o].pc \in LivePcs /\ call[o].pool = p /\ call[o].dispatched}
SessionQueued(s) == {o \in Ops : call[o].pc = "queued" /\ SessionOf(o) = s}
SessionLive(s) == {o \in Ops : call[o].pc \in LivePcs /\ SessionOf(o) = s}

PluginBooks(g) ==
  /\ plugin[g].queued = Cardinality(PluginQueued(g))
  /\ plugin[g].operations = Cardinality(PluginRetained(g))
  /\ plugin[g].reserved = Cardinality(PluginReserved(g))
PoolBooks(p) ==
  /\ pool[p].queued = Cardinality(PoolQueued(p))
  /\ pool[p].active = Cardinality(PoolActive(p))
SessionBooks(s) ==
  session[s].state = "kept" =>
    /\ session[s].queued = Cardinality(SessionQueued(s))
    /\ session[s].unfinished = Cardinality(SessionLive(s))
TotalBooks ==
  /\ queued = Cardinality(QueuedCalls)
  /\ cleaning = Cardinality(CleanCalls)
  /\ registry.records = Cardinality(RetainedCalls) /\ registry.reserved = Cardinality(ReservedCalls)
Books ==
  /\ TotalBooks
  /\ \A g \in Plugins : PluginBooks(g)
  /\ \A p \in Pools : PoolBooks(p)
  /\ \A s \in Ops : SessionBooks(s)

\* Given the tables, the counts that the property lists are those.
LEMMA BooksAreExact ==
  ASSUME Shape, Owning
  PROVE  CountsExact <=> Books
<1>1. /\ live = {o \in Ops : call[o].pc \in LivePcs}
      /\ \A g \in Plugins : queue[g] = {o \in Ops : call[o].pc = "queued" /\ PluginOf(call[o].pool) = g}
      /\ Injective(rotation) /\ Owned(rotation) = {g \in Plugins : queue[g] # {}}
  BY DEF Owning, Tables
<1>2. \A o \in Ops : call[o].pc \in LivePcs \cup {"free", "reserved", "done", "forgotten"}
  BY DEF Shape, Call, LivePcs
<1>3. Retained = RetainedCalls /\ live = Retained \ In({"done"})
  BY <1>1, <1>2 DEF Retained, In, RetainedCalls, LivePcs
<1>4. /\ In({"queued"}) = QueuedCalls /\ In({"reserved"}) = ReservedCalls
      /\ live \ In({"queued", "running"}) = CleanCalls
  BY <1>1 DEF In, QueuedCalls, ReservedCalls, CleanCalls
<1>5. ASSUME NEW g \in Plugins
      PROVE  /\ queue[g] = {o \in In({"queued"}) : PluginOf(call[o].pool) = g} /\ queue[g] = PluginQueued(g)
             /\ {o \in Retained : PluginOf(call[o].pool) = g} = PluginRetained(g)
             /\ {o \in In({"reserved"}) : PluginOf(call[o].pool) = g} = PluginReserved(g)
             /\ Cardinality({k \in DOMAIN rotation : rotation[k] = g}) = IF queue[g] = {} THEN 0 ELSE 1
  <2>1. /\ queue[g] = {o \in In({"queued"}) : PluginOf(call[o].pool) = g} /\ queue[g] = PluginQueued(g)
    BY <1>1 DEF In, PluginQueued
  <2>2. {o \in Retained : PluginOf(call[o].pool) = g} = PluginRetained(g)
    BY <1>3 DEF RetainedCalls, PluginRetained
  <2>3. {o \in In({"reserved"}) : PluginOf(call[o].pool) = g} = PluginReserved(g)
    BY DEF In, PluginReserved
  <2>4. CASE queue[g] = {}
    <3>1. g \notin Owned(rotation)
      BY <1>1, <2>4
    <3>2. {k \in DOMAIN rotation : rotation[k] = g} = {}
      BY <3>1 DEF Owned
    <3>3. Cardinality({k \in DOMAIN rotation : rotation[k] = g}) = 0
      BY <3>2, FS_EmptySet, Zenon
    <3> QED BY <2>1, <2>2, <2>3, <2>4, <3>3
  <2>5. CASE queue[g] # {}
    <3>1. g \in Owned(rotation)
      BY <1>1, <2>5
    <3>2. PICK k \in DOMAIN rotation : rotation[k] = g
      BY <3>1 DEF Owned
    <3>3. {j \in DOMAIN rotation : rotation[j] = g} = {k}
      BY <1>1, <3>2 DEF Injective
    <3>4. Cardinality({k}) = 1
      BY FS_Singleton
    <3>5. Cardinality({j \in DOMAIN rotation : rotation[j] = g}) = 1
      BY <3>3, <3>4, Zenon
    <3> QED BY <2>1, <2>2, <2>3, <2>5, <3>5
  <2> QED BY <2>4, <2>5
<1>6. ASSUME NEW p \in Pools
      PROVE  /\ {o \in In({"queued"}) : call[o].pool = p} = PoolQueued(p)
             /\ {o \in live : call[o].pool = p /\ call[o].dispatched} = PoolActive(p)
  BY <1>1 DEF In, PoolQueued, PoolActive
<1>7. ASSUME NEW s \in Ops
      PROVE  /\ {o \in In({"queued"}) : SessionOf(o) = s} = SessionQueued(s)
             /\ {o \in live : SessionOf(o) = s} = SessionLive(s)
  BY <1>1 DEF In, SessionQueued, SessionLive
<1>8. /\ Cardinality(In({"queued"})) = Cardinality(QueuedCalls)
      /\ Cardinality(live \ In({"queued", "running"})) = Cardinality(CleanCalls)
      /\ Cardinality(Retained) = Cardinality(RetainedCalls)
      /\ Cardinality(In({"reserved"})) = Cardinality(ReservedCalls)
  BY <1>3, <1>4, Zenon
<1>9. ASSUME NEW g \in Plugins
      PROVE  /\ Cardinality(queue[g]) = Cardinality(PluginQueued(g))
             /\ Cardinality({o \in Retained : PluginOf(call[o].pool) = g}) = Cardinality(PluginRetained(g))
             /\ Cardinality({o \in In({"reserved"}) : PluginOf(call[o].pool) = g}) = Cardinality(PluginReserved(g))
  BY <1>5, Zenon
<1>10. ASSUME NEW p \in Pools
       PROVE  /\ Cardinality({o \in In({"queued"}) : call[o].pool = p}) = Cardinality(PoolQueued(p))
              /\ Cardinality({o \in live : call[o].pool = p /\ call[o].dispatched}) = Cardinality(PoolActive(p))
  BY <1>6, Zenon
<1>11. ASSUME NEW s \in Ops
       PROVE  /\ Cardinality({o \in In({"queued"}) : SessionOf(o) = s}) = Cardinality(SessionQueued(s))
              /\ Cardinality({o \in live : SessionOf(o) = s}) = Cardinality(SessionLive(s))
  BY <1>7, Zenon
<1>12. CountsExact => Books
  <2>1. ASSUME CountsExact PROVE TotalBooks
    BY <1>8, <2>1 DEF CountsExact, TotalBooks
  <2>2. ASSUME CountsExact, NEW g \in Plugins PROVE PluginBooks(g)
    BY <1>9, <2>2 DEF CountsExact, PluginBooks
  <2>3. ASSUME CountsExact, NEW p \in Pools PROVE PoolBooks(p)
    BY <1>10, <2>3 DEF CountsExact, PoolBooks
  <2>4. ASSUME CountsExact, NEW s \in Ops PROVE SessionBooks(s)
    <3>1. SUFFICES ASSUME session[s].state = "kept"
                   PROVE  /\ session[s].queued = Cardinality(SessionQueued(s))
                          /\ session[s].unfinished = Cardinality(SessionLive(s))
      BY DEF SessionBooks
    <3>2. s \in Kept(session)
      BY <3>1 DEF Kept
    <3>3. /\ session[s].queued = Cardinality({o \in In({"queued"}) : SessionOf(o) = s})
          /\ session[s].unfinished = Cardinality({o \in live : SessionOf(o) = s})
      BY <2>4, <3>2, Zenon DEF CountsExact
    <3> QED BY <1>11, <3>3
  <2> QED BY <2>1, <2>2, <2>3, <2>4 DEF Books
<1>13. Books => CountsExact
  BY <1>3, <1>5, <1>8, <1>9, <1>10, <1>11 DEF Books, TotalBooks, PluginBooks, PoolBooks, Kept, SessionBooks,
     CountsExact
<1> QED BY <1>12, <1>13


-----------------------------------------------------------------------------
(* Counting through a step. *)

One(b) == IF b THEN 1 ELSE 0

\* Sets that differ in one member.
LEMMA CountStep ==
  ASSUME NEW S \in SUBSET Ops, NEW T \in SUBSET Ops, NEW o \in Ops, \A x \in Ops : x # o => (x \in T <=> x \in S)
  PROVE  Cardinality(T) = Cardinality(S) + One(o \in T) - One(o \in S)
<1>1. Cardinality(S) \in Nat /\ Cardinality(T) \in Nat
  BY Counted
<1>2. CASE o \in T /\ o \notin S
  BY <1>1, <1>2, CountAdded DEF One
<1>3. CASE o \notin T /\ o \in S
  BY <1>1, <1>3, CountRemoved DEF One
<1>4. CASE (o \in T <=> o \in S)
  BY <1>1, <1>4 DEF One
<1> QED BY <1>2, <1>3, <1>4

\* Calls that no count but the reservations' sees.
Unseen(c) == c.pc \in {"free", "reserved", "forgotten"}

\* One call changes; other calls change only out of sight.
Alone(o) ==
  /\ call' \in [Ops -> Call]
  /\ \A x \in Ops : x # o => call'[x] = call[x] \/ (Unseen(call[x]) /\ Unseen(call'[x]))

\* What the change of the call `o` means for every count.
AloneTotals(o) ==
  LET c == call[o]  n == call'[o]
  IN /\ Cardinality(QueuedCalls') = Cardinality(QueuedCalls) + One(n.pc = "queued") - One(c.pc = "queued")
     /\ Cardinality(CleanCalls') = Cardinality(CleanCalls) + One(n.pc \in LivePcs \ {"queued", "running"})
                                     - One(c.pc \in LivePcs \ {"queued", "running"})
     /\ Cardinality(RetainedCalls') = Cardinality(RetainedCalls) + One(n.pc \in LivePcs \cup {"done"})
                                        - One(c.pc \in LivePcs \cup {"done"})
AlonePlugin(o, g) ==
  LET c == call[o]  n == call'[o]
  IN /\ Cardinality(PluginQueued(g)') = Cardinality(PluginQueued(g)) + One(n.pc = "queued" /\ PluginOf(n.pool) = g)
                                          - One(c.pc = "queued" /\ PluginOf(c.pool) = g)
     /\ Cardinality(PluginRetained(g)') = Cardinality(PluginRetained(g))
                                            + One(n.pc \in LivePcs \cup {"done"} /\ PluginOf(n.pool) = g)
                                            - One(c.pc \in LivePcs \cup {"done"} /\ PluginOf(c.pool) = g)
AlonePool(o, p) ==
  LET c == call[o]  n == call'[o]
  IN /\ Cardinality(PoolQueued(p)') = Cardinality(PoolQueued(p)) + One(n.pc = "queued" /\ n.pool = p)
                                        - One(c.pc = "queued" /\ c.pool = p)
     /\ Cardinality(PoolActive(p)') = Cardinality(PoolActive(p)) + One(n.pc \in LivePcs /\ n.pool = p /\ n.dispatched)
                                        - One(c.pc \in LivePcs /\ c.pool = p /\ c.dispatched)
AloneSession(o, s) ==
  LET c == call[o]  n == call'[o]
  IN /\ Cardinality(SessionQueued(s)') = Cardinality(SessionQueued(s)) + One(n.pc = "queued" /\ SessionOf(o)' = s)
                                           - One(c.pc = "queued" /\ SessionOf(o) = s)
     /\ Cardinality(SessionLive(s)') = Cardinality(SessionLive(s)) + One(n.pc \in LivePcs /\ SessionOf(o)' = s)
                                         - One(c.pc \in LivePcs /\ SessionOf(o) = s)

LEMMA AloneCounts ==
  ASSUME Shape, NEW o \in Ops, Alone(o)
  PROVE  /\ AloneTotals(o) /\ \A g \in Plugins : AlonePlugin(o, g)
         /\ \A p \in Pools : AlonePool(o, p)
         /\ \A s \in Ops : AloneSession(o, s)
<1>1. ASSUME NEW x \in Ops, x # o
      PROVE  \/ call'[x] = call[x]
             \/ call'[x].pc \notin LivePcs \cup {"done"} /\ call[x].pc \notin LivePcs \cup {"done"}
  BY <1>1 DEF Alone, Unseen, LivePcs
<1>2. "queued" \in LivePcs
  BY DEF LivePcs
<1>3. AloneTotals(o)
  BY <1>1, <1>2, CountStep DEF QueuedCalls, CleanCalls, RetainedCalls, AloneTotals
<1>4. ASSUME NEW g \in Plugins PROVE AlonePlugin(o, g)
  BY <1>1, <1>2, CountStep DEF PluginQueued, PluginRetained, AlonePlugin
<1>5. ASSUME NEW p \in Pools PROVE AlonePool(o, p)
  BY <1>1, <1>2, CountStep DEF PoolQueued, PoolActive, AlonePool
<1>6. ASSUME NEW s \in Ops PROVE AloneSession(o, s)
  BY <1>1, <1>2, CountStep DEF SessionOf, SessionQueued, SessionLive, AloneSession
<1> QED BY <1>3, <1>4, <1>5, <1>6


\* The reservations differ in one identity, or not at all.
AloneReserved(k) ==
  LET Has(c, g) == c.pc = "reserved" /\ PluginOf(c.pool) = g
  IN /\ Cardinality(ReservedCalls') = Cardinality(ReservedCalls) + One(call'[k].pc = "reserved") - One(call[k].pc = "reserved")
     /\ \A g \in Plugins : Cardinality(PluginReserved(g)') = Cardinality(PluginReserved(g))
                             + One(Has(call'[k], g)) - One(Has(call[k], g))

LEMMA ReservedCounts ==
  ASSUME Shape, NEW k \in Ops,
         \A x \in Ops : x # k => call'[x] = call[x] \/ (call[x].pc # "reserved" /\ call'[x].pc # "reserved")
  PROVE  AloneReserved(k)
BY CountStep DEF ReservedCalls, PluginReserved, AloneReserved

\* Every count is a number.
LEMMA CountsNat ==
  /\ Cardinality(QueuedCalls) \in Nat /\ Cardinality(CleanCalls) \in Nat
  /\ Cardinality(RetainedCalls) \in Nat /\ Cardinality(ReservedCalls) \in Nat
  /\ \A g \in Plugins : /\ Cardinality(PluginQueued(g)) \in Nat /\ Cardinality(PluginRetained(g)) \in Nat
                        /\ Cardinality(PluginReserved(g)) \in Nat
  /\ \A p \in Pools : Cardinality(PoolQueued(p)) \in Nat /\ Cardinality(PoolActive(p)) \in Nat
  /\ \A s \in Ops : Cardinality(SessionQueued(s)) \in Nat /\ Cardinality(SessionLive(s)) \in Nat
BY Counted DEF QueuedCalls, CleanCalls, RetainedCalls, ReservedCalls, PluginQueued, PluginRetained, PluginReserved,
   PoolQueued, PoolActive, SessionQueued, SessionLive

-----------------------------------------------------------------------------
(* Admission. *)

SessionsCount(kind, owner, o) ==
  \A s \in Ops : session'[s].state = "kept" =>
    \/ /\ session[s].state = "kept"
       /\ session'[s].queued = session[s].queued + One(owner = s) /\ session'[s].unfinished = session[s].unfinished + One(owner = s)
    \/ s = o /\ owner = o /\ session'[s].queued = 1 /\ session'[s].unfinished = 1

LEMMA EnqueueBooks ==
  ASSUME Shape, Owning, Books, NEW p \in Pools, NEW kind \in {"invoke", "prewarm", "open", "session"},
         NEW owner \in Ops \cup {0}, NEW r \in {0, 1}, CanEnqueue(p, r), enqueue(kind, p, owner, r),
         owner # 0 <=> kind \in {"open", "session"},
         NEW o, o = registry.next + r, SessionsCount(kind, owner, o)
  PROVE  Books'
<1>1. Enqueued(kind, p, owner, r, o)
  BY EnqueueEffect
<1>2. /\ o \in Ops /\ o >= registry.next /\ registry.next \in Ops /\ call' \in [Ops -> Call]
      /\ call'[o] = [Blank("queued", p) EXCEPT !.kind = kind, !.owner = owner]
      /\ r = 1 => registry.next # o /\ call'[registry.next] = Blank("reserved", p)
      /\ \A x \in Ops : x # o /\ (x # registry.next \/ r = 0) => call'[x] = call[x]
  BY <1>1 DEF Enqueued
<1>3. /\ call[o].pc = "free" /\ call[registry.next].pc = "free" /\ \A x \in Ops : call[x].owner # o
  BY <1>2, ConstantFacts, FreshFacts
<1>4. /\ call'[o].pc = "queued" /\ call'[o].pool = p /\ ~call'[o].dispatched /\ call'[o].kind = kind /\ call'[o].owner = owner
  BY <1>2, BlankTyped DEF Call
<1>5. SessionOf(o)' = owner
  BY <1>4 DEF SessionOf
<1>6. r = 1 => call'[registry.next].pc = "reserved" /\ call'[registry.next].pool = p
  BY <1>2, BlankTyped
<1>7. Alone(o)
  BY <1>2, <1>3, <1>6 DEF Unseen, Alone
<1>8. AloneTotals(o) /\ (\A g \in Plugins : AlonePlugin(o, g)) /\ (\A q \in Pools : AlonePool(o, q))
      /\ (\A s \in Ops : AloneSession(o, s))
  BY <1>2, <1>7, AloneCounts
<1>9. "queued" \in LivePcs /\ "queued" \notin LivePcs \ {"queued", "running"} /\ "free" \notin LivePcs \cup {"done"}
  BY DEF LivePcs
<1>10. AloneReserved(registry.next)
  BY <1>2, <1>3, <1>4, ReservedCounts
<1>11. call'[registry.next].pc = "reserved" <=> r = 1
  <2>1. r = 0 => registry.next = o
    BY <1>2, ConstantFacts
  <2> QED BY <1>4, <1>6, <2>1
<1>12. /\ plugin' = [plugin EXCEPT ![PluginOf(p)].queued = @ + 1, ![PluginOf(p)].operations = @ + 1,
                                   ![PluginOf(p)].reserved = @ + r]
       /\ pool' = [pool EXCEPT ![p].queued = @ + 1] /\ queued' = queued + 1 /\ cleaning' = cleaning
       /\ registry' = [next |-> o + 1, records |-> registry.records + 1, reserved |-> registry.reserved + r]
  BY DEF enqueue
<1>13. TotalBooks'
  BY <1>3, <1>4, <1>8, <1>9, <1>10, <1>11, <1>12, CountsNat DEF Books, AloneTotals, One, AloneReserved, TotalBooks
<1>14. ASSUME NEW g \in Plugins PROVE PluginBooks(g)'
  <2>1. PluginBooks(g) /\ AlonePlugin(o, g) /\ PluginOf(p) \in Plugins
    BY <1>8, ConstantFacts DEF Books
  <2>2. /\ plugin'[g].queued = plugin[g].queued + One(PluginOf(p) = g)
        /\ plugin'[g].operations = plugin[g].operations + One(PluginOf(p) = g)
        /\ plugin'[g].reserved = plugin[g].reserved + (IF PluginOf(p) = g THEN r ELSE 0)
    <3>1. plugin \in [Plugins -> PluginShape] /\ plugin[g] \in PluginShape
      BY DEF Shape
    <3>2. CASE PluginOf(p) = g
      BY <1>12, <3>1, <3>2 DEF PluginShape, One
    <3>3. CASE PluginOf(p) # g
      BY <1>12, <3>1, <3>3 DEF PluginShape, One
    <3> QED BY <3>2, <3>3
  <2>3. /\ Cardinality(PluginQueued(g)') = Cardinality(PluginQueued(g)) + One(PluginOf(p) = g)
        /\ Cardinality(PluginRetained(g)') = Cardinality(PluginRetained(g)) + One(PluginOf(p) = g)
    BY <1>3, <1>4, <1>9, <2>1, CountsNat DEF AlonePlugin, One
  <2>4. Cardinality(PluginReserved(g)') = Cardinality(PluginReserved(g)) + (IF PluginOf(p) = g THEN r ELSE 0)
    BY <1>3, <1>6, <1>10, <1>11, CountsNat DEF AloneReserved, One
  <2> QED BY <2>1, <2>2, <2>3, <2>4 DEF PluginBooks
<1>15. ASSUME NEW q \in Pools PROVE PoolBooks(q)'
  <2>1. PoolBooks(q) /\ AlonePool(o, q)
    BY <1>8 DEF Books
  <2>2. pool'[q].queued = pool[q].queued + One(p = q) /\ pool'[q].active = pool[q].active
    BY <1>12 DEF Shape, PoolShape, One
  <2>3. /\ Cardinality(PoolQueued(q)') = Cardinality(PoolQueued(q)) + One(p = q)
        /\ Cardinality(PoolActive(q)') = Cardinality(PoolActive(q))
    BY <1>3, <1>4, <1>9, <2>1, CountsNat DEF AlonePool, One
  <2> QED BY <2>1, <2>2, <2>3 DEF PoolBooks
<1>16. ASSUME NEW s \in Ops PROVE SessionBooks(s)'
  <2>1. SessionBooks(s) /\ AloneSession(o, s)
    BY <1>8 DEF Books
  <2>2. /\ Cardinality(SessionQueued(s)') = Cardinality(SessionQueued(s)) + One(owner = s)
        /\ Cardinality(SessionLive(s)') = Cardinality(SessionLive(s)) + One(owner = s)
    BY <1>3, <1>4, <1>5, <1>9, <2>1, CountsNat DEF AloneSession, One
  <2>3. CASE session[s].state = "kept" /\ session'[s].state = "kept" /\ (s # o \/ owner # o)
    BY <2>1, <2>2, <2>3 DEF SessionsCount, SessionBooks
  <2>4. CASE s = o /\ owner = o /\ session'[s].state = "kept"
    <3>1. session[s].state # "kept"
      BY <1>2, <2>4, FreshFacts
    <3>2. session'[s].queued = 1 /\ session'[s].unfinished = 1
      BY <2>4, <3>1 DEF SessionsCount
    <3>3. SessionQueued(s) = {} /\ SessionLive(s) = {}
      BY <1>3, <2>4, ConstantFacts DEF SessionOf, SessionQueued, SessionLive
    <3>4. Cardinality(SessionQueued(s)) = 0 /\ Cardinality(SessionLive(s)) = 0
      BY <3>3, FS_EmptySet, Zenon
    <3> QED BY <2>2, <2>4, <3>2, <3>4 DEF SessionBooks, One
  <2>5. CASE session'[s].state # "kept"
    BY <2>5 DEF SessionBooks
  <2> QED BY <2>3, <2>4, <2>5 DEF SessionsCount
<1> QED BY <1>13, <1>14, <1>15, <1>16 DEF Books


LEMMA SubmitBooks ==
  ASSUME Shape, Owning, Books, NEW p \in Pools, submit(p) \/ prewarm_instance(p)
  PROVE  Books'
<1>1. PICK kind \in {"invoke", "prewarm"} : CanEnqueue(p, 0) /\ enqueue(kind, p, 0, 0) /\ session' = session
  BY DEF submit, prewarm_instance
<1>2. PICK o : o = registry.next + 0
  OBVIOUS
<1>3. SessionsCount(kind, 0, o)
  BY <1>1, ConstantFacts DEF SessionsCount, One, Shape, SessionShape
<1> QED BY <1>1, <1>2, <1>3, EnqueueBooks

LEMMA SubmitSessionBooks ==
  ASSUME Shape, Owning, Books, NEW s \in Ops, submit_session(s)
  PROVE  Books'
<1>1. PICK p : p = session[s].pool
  OBVIOUS
<1>2. /\ s \in Kept(session) /\ CanEnqueue(p, 0) /\ enqueue("session", p, s, 0)
      /\ session' = [session EXCEPT ![s].queued = @ + 1, ![s].unfinished = @ + 1]
  BY <1>1 DEF submit_session
<1>3. session[s].state = "kept" /\ p \in Pools /\ s # 0
  BY <1>1, <1>2, ConstantFacts DEF Kept, Shape, SessionShape
<1>4. PICK o : o = registry.next + 0
  OBVIOUS
<1>5. SessionsCount("session", s, o)
  BY <1>2 DEF Shape, SessionShape, One, SessionsCount
<1> QED BY <1>2, <1>3, <1>4, <1>5, EnqueueBooks

LEMMA OpenSessionBooks ==
  ASSUME Shape, Owning, Books, NEW p \in Pools, open_session(p)
  PROVE  Books'
<1>1. PICK r \in {0, 1} : r = IF Policy[p].finalizer THEN 1 ELSE 0
  OBVIOUS
<1>2. PICK o : o = registry.next + r
  OBVIOUS
<1>3. /\ CanEnqueue(p, r) /\ enqueue("open", p, o, r)
      /\ session' = [session EXCEPT ![o] =
                      [NoSession EXCEPT !.state = "kept", !.pool = p, !.lease = "raw", !.queued = 1,
                       !.unfinished = 1, !.reservation = IF r = 1 THEN registry.next ELSE 0]]
  BY <1>1, <1>2 DEF open_session
<1>4. o \in Ops /\ o # 0
  <2>1. registry.next \in Nat
    BY DEF Shape
  <2>2. o <= LastOperation
    BY <1>2, <1>3 DEF CanEnqueue
  <2>3. registry.next >= 1
    BY DEF Shape
  <2> QED BY <1>2, <2>1, <2>2, <2>3, ConstantFacts DEF Ops
<1>5. SessionsCount("open", o, o)
  BY <1>3, <1>4 DEF Shape, NoSession, SessionsCount, SessionShape, One
<1> QED BY <1>2, <1>3, <1>4, <1>5, EnqueueBooks

-----------------------------------------------------------------------------
(* Steps that leave the counts alone. *)

\* Nothing a counter sees has changed.
LEMMA SameBooks ==
  ASSUME Shape, Books, call' \in [Ops -> Call],
         \A o \in Ops : /\ call'[o].pool = call[o].pool /\ call'[o].kind = call[o].kind /\ call'[o].owner = call[o].owner
                        /\ call'[o].dispatched = call[o].dispatched
                        /\ \A S \in {{"queued"}, {"reserved"}, LivePcs, LivePcs \ {"queued", "running"}, LivePcs \cup {"done"}} :
                             call'[o].pc \in S <=> call[o].pc \in S,
         \A s \in Ops : session'[s].state = "kept" =>
           /\ session[s].state = "kept" /\ session'[s].queued = session[s].queued /\ session'[s].unfinished = session[s].unfinished,
         \A p \in Pools : pool'[p].queued = pool[p].queued /\ pool'[p].active = pool[p].active,
         \A g \in Plugins : /\ plugin'[g].queued = plugin[g].queued /\ plugin'[g].operations = plugin[g].operations
                            /\ plugin'[g].reserved = plugin[g].reserved,
         UNCHANGED <<queued, cleaning>>, registry'.records = registry.records, registry'.reserved = registry.reserved
  PROVE  Books'
<1>1. ASSUME NEW o \in Ops
      PROVE  /\ call'[o].pool = call[o].pool /\ SessionOf(o)' = SessionOf(o) /\ call'[o].dispatched = call[o].dispatched
             /\ call'[o].pc = "queued" <=> call[o].pc = "queued"
             /\ call'[o].pc = "reserved" <=> call[o].pc = "reserved"
             /\ call'[o].pc \in LivePcs <=> call[o].pc \in LivePcs
             /\ call'[o].pc \in LivePcs \ {"queued", "running"} <=> call[o].pc \in LivePcs \ {"queued", "running"}
             /\ call'[o].pc \in LivePcs \cup {"done"} <=> call[o].pc \in LivePcs \cup {"done"}
  BY DEF SessionOf
<1>2. QueuedCalls' = QueuedCalls /\ CleanCalls' = CleanCalls /\ RetainedCalls' = RetainedCalls /\ ReservedCalls' = ReservedCalls
  BY <1>1 DEF QueuedCalls, CleanCalls, RetainedCalls, ReservedCalls
<1>3. TotalBooks'
  BY <1>2 DEF TotalBooks, Books
<1>4. ASSUME NEW g \in Plugins PROVE PluginBooks(g)'
  <2>1. PluginQueued(g)' = PluginQueued(g) /\ PluginRetained(g)' = PluginRetained(g) /\ PluginReserved(g)' = PluginReserved(g)
    BY <1>1 DEF PluginQueued, PluginRetained, PluginReserved
  <2> QED BY <2>1 DEF PluginBooks, Books
<1>5. ASSUME NEW p \in Pools PROVE PoolBooks(p)'
  <2>1. PoolQueued(p)' = PoolQueued(p) /\ PoolActive(p)' = PoolActive(p)
    BY <1>1 DEF PoolQueued, PoolActive
  <2> QED BY <2>1 DEF PoolBooks, Books
<1>6. ASSUME NEW s \in Ops PROVE SessionBooks(s)'
  <2>1. SessionQueued(s)' = SessionQueued(s) /\ SessionLive(s)' = SessionLive(s)
    BY <1>1 DEF SessionQueued, SessionLive
  <2> QED BY <2>1 DEF SessionBooks, Books
<1> QED BY <1>3, <1>4, <1>5, <1>6 DEF Books

\* The supervisor's and the workers' steps move no call into or out of execution, except invoke.
LEMMA CalmBooks ==
  ASSUME Shape, Books, Quiet, \A o \in Ops : call'[o].pc = "running" <=> call[o].pc = "running",
         \A p \in Pools : pool'[p].queued = pool[p].queued /\ pool'[p].active = pool[p].active,
         \A g \in Plugins : /\ plugin'[g].queued = plugin[g].queued /\ plugin'[g].operations = plugin[g].operations
                            /\ plugin'[g].reserved = plugin[g].reserved,
         UNCHANGED <<queued, cleaning>>
  PROVE  Books'
BY SameBooks DEF Quiet, Steps, LivePcs, AgedSession, Aged

\* Only invoke ends an execution.
Calm ==
  /\ UNCHANGED <<pool, plugin, queued, cleaning>>
  /\ \A o \in Ops : call'[o].pc = "running" <=> call[o].pc = "running"

LEMMA CalmSteps ==
  ASSUME Shape, QuietStep
  PROVE  Calm \/ \E o \in Ops : invoke(o)
<1> SUFFICES ASSUME \A o \in Ops : ~invoke(o) PROVE Calm
  OBVIOUS
<1>0. call \in [Ops -> Call]
  BY DEF Shape
<1>1. ASSUME NEW o \in Ops, hold(o) \/ begin_finalization(o) \/ finish_finalization(o) PROVE Calm
  <2>1. UNCHANGED <<pool, plugin, queued, cleaning>> /\ call[o].pc \in {"supervised", "finalizing", "closing"}
    BY <1>1 DEF hold, begin_finalization, finish_finalization
  <2>2. PICK pc \in {"held", "closing", "cleaning"} : \E final : call' = [call EXCEPT ![o].pc = pc, ![o].final = final]
    <3>1. CASE hold(o) \/ begin_finalization(o)
      <4>1. PICK to \in {"held", "closing"} : call' = [call EXCEPT ![o].pc = to]
        BY <3>1 DEF hold, begin_finalization
      <4>2. call' = [call EXCEPT ![o].pc = to, ![o].final = call[o].final]
        BY <1>0, <4>1 DEF Call
      <4> QED BY <4>2
    <3>2. CASE finish_finalization(o)
      BY <3>2 DEF finish_finalization
    <3> QED BY <1>1, <3>1, <3>2
  <2>3. call'[o].pc = pc /\ \A x \in Ops : x # o => call'[x] = call[x]
    BY <1>0, <2>2 DEF Call
  <2> QED BY <2>1, <2>2, <2>3 DEF Calm
<1>2. ASSUME NEW o \in Ops, close_retained(o) PROVE Calm
  BY <1>0, <1>2 DEF close_retained, Calm
<1>3. ASSUME NEW o \in Ops, fail_evidence(o) \/ expire_call(o) \/ retry_checkpoint(o) \/ retire(o) \/ close_session(o) PROVE Calm
  BY <1>0, <1>3 DEF fail_evidence, expire_call, retry_checkpoint, retire, close_session, Call, Calm
<1>5. ASSUME NEW o \in Ops, NEW result \in {"pending", "done", "failed"}, advance(o, result) PROVE Calm
  BY <1>0, <1>5 DEF advance, Call, Attempted, Acknowledged, Calm
<1>6. ASSUME extend PROVE Calm
  BY <1>0, <1>6 DEF extend, Call, Calm
<1>7. ASSUME maintain PROVE Calm
  BY <1>7 DEF maintain, Calm
<1> QED BY <1>1, <1>2, <1>3, <1>5, <1>6, <1>7, Zenon DEF QuietStep

LEMMA InvokeBooks ==
  ASSUME Shape, Owning, Books, NEW o \in Ops, invoke(o)
  PROVE  Books'
<1>1. Quiet /\ CallOK(call[o])
  BY InvokeQuiet, CallFacts
<1>2. /\ call[o].pc = "running" /\ cleaning' = cleaning + 1 /\ UNCHANGED <<pool, plugin, queued, registry>>
      /\ call'[o].pc = "cleaning" /\ \A x \in Ops : x # o => call'[x] = call[x]
  BY DEF invoke, Shape
<1>3. /\ call' \in [Ops -> Call] /\ call'[o] # call[o]
      /\ \A s \in Ops : session'[s] = session[s] \/ AgedSession(session[s], session'[s])
      /\ Steps(call[o], call'[o])
  BY <1>1, <1>2 DEF Quiet
<1>4. call'[o].pool = call[o].pool /\ call'[o].dispatched = call[o].dispatched /\ SessionOf(o)' = SessionOf(o)
  BY <1>3 DEF Steps, SessionOf
<1>5. Alone(o)
  BY <1>2, <1>3 DEF Alone
<1>6. AloneTotals(o) /\ (\A g \in Plugins : AlonePlugin(o, g)) /\ (\A q \in Pools : AlonePool(o, q))
      /\ (\A s \in Ops : AloneSession(o, s))
  BY <1>5, AloneCounts
<1>7. /\ "running" \in LivePcs /\ "running" \notin LivePcs \ {"queued", "running"} /\ "cleaning" \in LivePcs
      /\ "cleaning" \in LivePcs \ {"queued", "running"}
  BY DEF LivePcs
<1>8. AloneReserved(o)
  BY <1>2, ReservedCounts
<1>9. TotalBooks'
  BY <1>2, <1>6, <1>7, <1>8, CountsNat DEF AloneTotals, One, AloneReserved, TotalBooks, Books
<1>10. ASSUME NEW g \in Plugins PROVE PluginBooks(g)'
  BY <1>2, <1>4, <1>6, <1>7, <1>8, CountsNat DEF AlonePlugin, One, AloneReserved, PluginBooks, Books
<1>11. ASSUME NEW p \in Pools PROVE PoolBooks(p)'
  BY <1>2, <1>4, <1>6, <1>7, CountsNat DEF AlonePool, One, PoolBooks, Books
<1>12. ASSUME NEW s \in Ops PROVE SessionBooks(s)'
  BY <1>2, <1>3, <1>4, <1>6, <1>7, CountsNat DEF AloneSession, One, SessionBooks, Books, AgedSession, Aged
<1> QED BY <1>9, <1>10, <1>11, <1>12 DEF Books

LEMMA QuietBooks ==
  ASSUME Shape, Owning, Books, QuietStep
  PROVE  Books'
BY QuietSteps, CalmBooks, CalmSteps, InvokeBooks DEF Calm

LEMMA HostBooks ==
  ASSUME Shape, Books, HostStep
  PROVE  Books'
<1>1. Quiet /\ UNCHANGED <<call, queued, cleaning>>
  BY HostSteps
<1>2. ASSUME NEW p \in Pools PROVE pool'[p].queued = pool[p].queued /\ pool'[p].active = pool[p].active
  <2>1. pool'[p] = pool[p] \/ \E state : pool'[p] = [pool[p] EXCEPT !.state = state]
    <3>1. \/ pool' = pool \/ \E q \in Pools : \E state : pool' = [pool EXCEPT ![q].state = state]
          \/ \E S : pool' = [q \in Pools |-> IF q \in S THEN [pool[q] EXCEPT !.state = "closed"] ELSE pool[q]]
      BY DEF register_pool, close_pool, close_plugin, forget_plugin, request_close, exit_worker, HostStep
    <3> QED BY <3>1 DEF Shape
  <2> QED BY <2>1 DEF Shape, PoolShape
<1>3. ASSUME NEW g \in Plugins
      PROVE  /\ plugin'[g].queued = plugin[g].queued /\ plugin'[g].operations = plugin[g].operations
             /\ plugin'[g].reserved = plugin[g].reserved
  <2>1. plugin'[g] = plugin[g] \/ \E state : plugin'[g] = [plugin[g] EXCEPT !.state = state]
    <3>1. plugin' = plugin \/ \E h \in Plugins : \E state : plugin' = [plugin EXCEPT ![h].state = state]
      BY DEF register_pool, close_pool, close_plugin, forget_plugin, request_close, exit_worker, HostStep
    <3> QED BY <3>1 DEF Shape
  <2> QED BY <2>1 DEF Shape, PluginShape
<1> QED BY <1>1, <1>2, <1>3, CalmBooks

LEMMA ScannedBooks ==
  ASSUME Shape, Owning, Books, NEW gone \in SUBSET Ops, Scanned(gone)
  PROVE  Books'
BY ScanQuiet, CalmBooks DEF Scanned

-----------------------------------------------------------------------------
(* Dispatch. *)

\* How the dispatched call and the sessions look to the counts.
Dispatching(o, p, s, how, r) ==
  LET n == call'[o]
  IN /\ Turns(o, p, n, r) /\ n.pool = p /\ SessionOf(o)' = s
     /\ how = "reject" => n.pc = "cleaning" /\ ~n.dispatched
     /\ how # "reject" => n.pc = "running" /\ n.dispatched
     /\ \A t \in Ops : session'[t].state = "kept" =>
          /\ session[t].state = "kept" /\ session'[t].queued = session[t].queued - One(s = t)
          /\ session'[t].unfinished = session[t].unfinished

LEMMA DispatchBooks ==
  ASSUME Shape, Owning, Books, NEW o \in Ops, NEW gone, NEW how, Selected(o, gone, how), NEW p, NEW g, NEW s,
         Choice(o, p, g, s), NEW r \in {0, 1}, r = Reserving(p, how), Dispatching(o, p, s, how, r)
  PROVE  Books'
<1>1. /\ p \in Pools /\ p = call[o].pool /\ g \in Plugins /\ g = PluginOf(p) /\ s = SessionOf(o)
      /\ call[o].pc = "queued" /\ ~call[o].dispatched
  BY DEF Choice
<1>2. PICK n : n = call'[o]
  OBVIOUS
<1>3. /\ Turns(o, p, n, r) /\ n.pool = p /\ SessionOf(o)' = s
      /\ how = "reject" => n.pc = "cleaning" /\ ~n.dispatched
      /\ how # "reject" => n.pc = "running" /\ n.dispatched
  BY <1>2, Zenon DEF Dispatching
<1>4. /\ call' \in [Ops -> Call] /\ registry.next \in Nat
      /\ \A x \in Ops : x # o /\ (r = 0 \/ x # registry.next) => call'[x] = call[x]
      /\ r = 1 => /\ registry.next \in Ops /\ registry.next # o /\ call'[registry.next] = Blank("reserved", p)
                  /\ call[registry.next].pc = "free"
  BY <1>1, <1>3, TurnsFacts
<1>5. r = 1 => call'[registry.next].pc = "reserved" /\ call'[registry.next].pool = p
  BY <1>1, <1>4, BlankTyped
<1>6. /\ registry'.records = registry.records /\ registry'.reserved = registry.reserved + r
  BY DispatchRest
<1>7. /\ pool' = [pool EXCEPT ![p].queued = @ - 1, ![p].active = IF how = "reject" THEN @ ELSE @ + 1]
      /\ plugin' = [plugin EXCEPT ![g].queued = @ - 1, ![g].reserved = @ + r]
      /\ cleaning' = IF how = "reject" THEN cleaning + 1 ELSE cleaning
      /\ queued' = queued - Cardinality({o})
  BY <1>1 DEF Selected, Dispatched, Reserving, take_call
<1>8. queued' = queued - 1
  BY <1>7, FS_Singleton
<1>9. Alone(o)
  BY <1>4, <1>5 DEF Alone, Unseen
<1>10. AloneTotals(o) /\ (\A h \in Plugins : AlonePlugin(o, h)) /\ (\A q \in Pools : AlonePool(o, q))
       /\ (\A t \in Ops : AloneSession(o, t))
  BY <1>9, AloneCounts
<1>11. /\ "queued" \in LivePcs /\ "queued" \notin LivePcs \ {"queued", "running"} /\ "cleaning" \in LivePcs
       /\ "cleaning" \in LivePcs \ {"queued", "running"}
       /\ "running" \in LivePcs /\ "running" \notin LivePcs \ {"queued", "running"}
  BY DEF LivePcs
<1>12. n.pc # "queued" /\ n.pc \in LivePcs /\ n.pc # "reserved"
  BY <1>3, <1>11
<1>13. TotalBooks'
  <2>1. /\ Cardinality(QueuedCalls') = Cardinality(QueuedCalls) - 1
        /\ Cardinality(CleanCalls') = Cardinality(CleanCalls) + One(how = "reject")
        /\ Cardinality(RetainedCalls') = Cardinality(RetainedCalls)
    BY <1>1, <1>2, <1>3, <1>10, <1>11, <1>12, CountsNat DEF AloneTotals, One
  <2>2. Cardinality(ReservedCalls') = Cardinality(ReservedCalls) + r
    BY <1>1, <1>2, <1>4, <1>5, <1>12, ReservedCounts, CountsNat DEF AloneReserved, One
  <2>3. TotalBooks
    BY DEF Books
  <2>4. cleaning' = cleaning + One(how = "reject")
    BY <1>7 DEF One, Shape
  <2> QED BY <1>6, <1>8, <2>1, <2>2, <2>3, <2>4 DEF TotalBooks
<1>14. ASSUME NEW h \in Plugins PROVE PluginBooks(h)'
  <2>1. PluginBooks(h) /\ AlonePlugin(o, h)
    BY <1>10 DEF Books
  <2>2. /\ plugin'[h].queued = plugin[h].queued - One(g = h) /\ plugin'[h].operations = plugin[h].operations
        /\ plugin'[h].reserved = plugin[h].reserved + (IF g = h THEN r ELSE 0)
    BY <1>7 DEF Shape, PluginShape, One
  <2>3. /\ Cardinality(PluginQueued(h)') = Cardinality(PluginQueued(h)) - One(g = h)
        /\ Cardinality(PluginRetained(h)') = Cardinality(PluginRetained(h))
    BY <1>1, <1>2, <1>3, <1>11, <1>12, <2>1, CountsNat DEF AlonePlugin, One
  <2>4. Cardinality(PluginReserved(h)') = Cardinality(PluginReserved(h)) + (IF g = h THEN r ELSE 0)
    BY <1>1, <1>2, <1>4, <1>5, <1>12, ReservedCounts, CountsNat DEF AloneReserved, One
  <2> QED BY <2>1, <2>2, <2>3, <2>4 DEF PluginBooks
<1>15. ASSUME NEW q \in Pools PROVE PoolBooks(q)'
  <2>1. PoolBooks(q) /\ AlonePool(o, q)
    BY <1>10 DEF Books
  <2>2. /\ pool'[q].queued = pool[q].queued - One(p = q)
        /\ pool'[q].active = pool[q].active + (IF p = q /\ how # "reject" THEN 1 ELSE 0)
    BY <1>7 DEF Shape, PoolShape, One
  <2>3. /\ Cardinality(PoolQueued(q)') = Cardinality(PoolQueued(q)) - One(p = q)
        /\ Cardinality(PoolActive(q)') = Cardinality(PoolActive(q)) + (IF p = q /\ how # "reject" THEN 1 ELSE 0)
    BY <1>1, <1>2, <1>3, <1>11, <1>12, <2>1, CountsNat DEF AlonePool, One
  <2> QED BY <2>1, <2>2, <2>3 DEF PoolBooks
<1>16. ASSUME NEW t \in Ops PROVE SessionBooks(t)'
  BY <1>1, <1>2, <1>3, <1>10, <1>11, <1>12, CountsNat DEF Books, AloneSession, One, Dispatching, SessionBooks
<1> QED BY <1>13, <1>14, <1>15, <1>16 DEF Books

\* A dispatch without a session leaves the sessions alone.
LEMMA UnsessionedDispatch ==
  ASSUME Shape, session' = session, NEW t \in Ops, session'[t].state = "kept"
  PROVE  /\ session[t].state = "kept" /\ session'[t].queued = session[t].queued - One(0 = t)
         /\ session'[t].unfinished = session[t].unfinished
BY ConstantFacts DEF One, Shape, SessionShape

LEMMA SelectBooks ==
  ASSUME Shape, Owning, Books, select
  PROVE  Books'
<1>1. ASSUME NEW o \in Ops, NEW gone \in SUBSET Ops, NEW how \in {"session", "cached", "fresh", "reject"}, Selected(o, gone, how)
      PROVE  Books'
  <2>1. PICK p, g, s : p = call[o].pool /\ g = PluginOf(p) /\ s = SessionOf(o)
    OBVIOUS
  <2>2. Choice(o, p, g, s)
    BY <1>1, <2>1, ChoiceFacts DEF Selected
  <2>3. PICK r \in {0, 1} : r = Reserving(p, how)
    BY DEF Reserving
  <2>4. /\ call[o].kind \notin SessionKinds => call[o].owner = 0
        /\ call[o].kind \in SessionKinds => call[o].owner = s /\ s # 0
        /\ s = 0 => call[o].kind \notin SessionKinds
        /\ s # 0 => s \in Ops /\ call[o].kind \in SessionKinds
    BY <2>2 DEF Choice
  <2>5. CASE how = "session"
    <3>1. s # 0 /\ DispatchedSession(o, s, call'[o])
      BY <1>1, <2>2, <2>5, SessionDispatchEffect
    <3>2. r = 0
      BY <2>3, <2>5 DEF Reserving
    <3>3. PICK n : n = call'[o]
      OBVIOUS
    <3>4. Turns(o, p, n, r) /\ Started(call[o], n, session[s].lease, s)
      BY <2>1, <3>1, <3>2, <3>3 DEF DispatchedSession
    <3>5. n.pool = p /\ n.pc = "running" /\ n.dispatched /\ n.kind = call[o].kind /\ n.owner = s
      BY <2>1, <3>4 DEF Started
    <3>6. SessionOf(o)' = s
      BY <2>4, <3>1, <3>3, <3>5 DEF SessionOf, SessionKinds
    <3>7. session' = [session EXCEPT ![s].lease = "none", ![s].active = o, ![s].queued = @ - 1]
      BY <3>1 DEF DispatchedSession
    <3>8. ASSUME NEW t \in Ops, session'[t].state = "kept"
          PROVE  /\ session[t].state = "kept" /\ session'[t].queued = session[t].queued - One(s = t)
                 /\ session'[t].unfinished = session[t].unfinished
      BY <3>7, <3>8 DEF Shape, SessionShape, One
    <3>9. Dispatching(o, p, s, how, r)
      BY <2>5, <3>3, <3>4, <3>5, <3>6, <3>8 DEF Dispatching
    <3> QED BY <1>1, <2>2, <2>3, <3>9, DispatchBooks
  <2>6. CASE how = "cached"
    <3>1. s = 0 /\ \E i \in Ops : DispatchedCached(o, p, i, call'[o])
      BY <1>1, <2>2, <2>6, CachedDispatchEffect
    <3>2. r = 0
      BY <2>3, <2>6 DEF Reserving
    <3>3. PICK n : n = call'[o]
      OBVIOUS
    <3>4. PICK i \in Ops : DispatchedCached(o, p, i, n)
      BY <3>1, <3>3
    <3>5. Turns(o, p, n, r) /\ Started(call[o], n, instance[i].lease, i) /\ session' = session
      BY <3>2, <3>4 DEF DispatchedCached
    <3>6. n.pool = p /\ n.pc = "running" /\ n.dispatched /\ n.kind = call[o].kind
      BY <2>1, <3>5 DEF Started
    <3>7. SessionOf(o)' = s
      BY <2>4, <3>1, <3>3, <3>6 DEF SessionOf, SessionKinds
    <3>8. Dispatching(o, p, s, how, r)
      BY <2>6, <3>1, <3>3, <3>5, <3>6, <3>7, UnsessionedDispatch DEF Dispatching
    <3> QED BY <1>1, <2>2, <2>3, <3>8, DispatchBooks
  <2>7. CASE how = "fresh"
    <3>1. s = 0 /\ DispatchedFresh(o, p, r, call'[o])
      BY <1>1, <2>2, <2>3, <2>7, FreshDispatchEffect
    <3>3. PICK n : n = call'[o]
      OBVIOUS
    <3>5. Turns(o, p, n, r) /\ Started(call[o], n, "raw", IF Policy[p].reuse = "reusable" THEN o ELSE 0) /\ session' = session
      BY <3>1, <3>3 DEF DispatchedFresh
    <3>6. n.pool = p /\ n.pc = "running" /\ n.dispatched /\ n.kind = call[o].kind
      BY <2>1, <3>5 DEF Started
    <3>7. SessionOf(o)' = s
      BY <2>4, <3>1, <3>3, <3>6 DEF SessionOf, SessionKinds
    <3>8. Dispatching(o, p, s, how, r)
      BY <2>7, <3>1, <3>3, <3>5, <3>6, <3>7, UnsessionedDispatch DEF Dispatching
    <3> QED BY <1>1, <2>2, <2>3, <3>8, DispatchBooks
  <2>8. CASE how = "reject"
    BY <1>1, <2>2, <2>3, <2>4, <2>8, RejectDispatchEffect, UnsessionedDispatch, DispatchBooks DEF Reserving,
       SessionOf, SessionKinds, Dispatching
  <2> QED BY <2>5, <2>6, <2>7, <2>8
<1> QED BY <1>1, SelectCases, ScannedBooks

-----------------------------------------------------------------------------
(* Closing operations. *)

\* A reservation becomes a live operation; `w` is the session it closes, or 0.
LEMMA ScheduledBooks ==
  ASSUME Shape, Owning, Books, NEW kind \in ClosingKinds, NEW w \in Ops, NEW r, NEW o \in Ops, NEW n, r.reservation = o,
         r.pool \in Pools, call[o].pc = "reserved", call[o].pool = r.pool, Scheduled(kind, w, r), Scheduling(kind, w, r, o, n),
         NEW s \in Ops \cup {0}, s = IF kind = "closeSession" THEN w ELSE 0,
         \A t \in Ops : session'[t].state = "kept" =>
           /\ session[t].state = "kept" /\ session'[t].queued = session[t].queued
           /\ session'[t].unfinished = session[t].unfinished + One(s = t)
  PROVE  Books'
<1>1. PICK p, g : p = r.pool /\ g = PluginOf(p)
  OBVIOUS
<1>2. p \in Pools /\ g \in Plugins /\ call[o].pool = p
  BY <1>1, ConstantFacts
<1>3. /\ n \in Call /\ n.pc = "cleaning" /\ n.kind = kind /\ n.owner = w /\ n.pool = p /\ n.dispatched
      /\ call' = [call EXCEPT ![o] = n]
  BY <1>1 DEF Scheduling
<1>4. /\ plugin' = [plugin EXCEPT ![g].reserved = @ - 1, ![g].operations = @ + 1]
      /\ registry' = [registry EXCEPT !.reserved = @ - 1, !.records = @ + 1]
      /\ pool' = [pool EXCEPT ![p].active = @ + 1] /\ cleaning' = cleaning + 1 /\ queued' = queued
  BY <1>1 DEF Scheduled
<1>5. call \in [Ops -> Call] /\ call' \in [Ops -> Call] /\ call'[o] = n /\ \A x \in Ops : x # o => call'[x] = call[x]
  BY <1>3 DEF Shape
<1>6. Alone(o)
  BY <1>5 DEF Alone
<1>7. AloneTotals(o) /\ (\A h \in Plugins : AlonePlugin(o, h)) /\ (\A q \in Pools : AlonePool(o, q))
       /\ (\A t \in Ops : AloneSession(o, t))
  BY <1>6, AloneCounts
<1>8. AloneReserved(o)
  BY <1>5, ReservedCounts
<1>9. /\ "cleaning" \in LivePcs /\ "cleaning" \in LivePcs \ {"queued", "running"} /\ "reserved" \notin LivePcs \cup {"done"}
  BY DEF LivePcs
<1>10. TotalBooks'
  <2>1. /\ Cardinality(QueuedCalls') = Cardinality(QueuedCalls) /\ Cardinality(CleanCalls') = Cardinality(CleanCalls) + 1
        /\ Cardinality(RetainedCalls') = Cardinality(RetainedCalls) + 1
    BY <1>3, <1>5, <1>7, <1>9, CountsNat DEF AloneTotals, One
  <2>2. Cardinality(ReservedCalls') = Cardinality(ReservedCalls) - 1
    BY <1>3, <1>5, <1>8, CountsNat DEF AloneReserved, One
  <2>3. registry'.records = registry.records + 1 /\ registry'.reserved = registry.reserved - 1
    BY <1>4 DEF Shape
  <2>4. TotalBooks
    BY DEF Books
  <2> QED BY <1>4, <2>1, <2>2, <2>3, <2>4 DEF TotalBooks
<1>11. ASSUME NEW h \in Plugins PROVE PluginBooks(h)'
  <2>1. PluginBooks(h) /\ AlonePlugin(o, h)
    BY <1>7 DEF Books
  <2>2. /\ plugin'[h].queued = plugin[h].queued /\ plugin'[h].operations = plugin[h].operations + One(g = h)
        /\ plugin'[h].reserved = plugin[h].reserved - One(g = h)
    BY <1>4 DEF Shape, PluginShape, One
  <2>3. /\ Cardinality(PluginQueued(h)') = Cardinality(PluginQueued(h))
        /\ Cardinality(PluginRetained(h)') = Cardinality(PluginRetained(h)) + One(g = h)
    BY <1>1, <1>3, <1>5, <1>9, <2>1, CountsNat DEF AlonePlugin, One
  <2>4. Cardinality(PluginReserved(h)') = Cardinality(PluginReserved(h)) - One(g = h)
    BY <1>1, <1>2, <1>3, <1>5, <1>8, CountsNat DEF AloneReserved, One
  <2> QED BY <2>1, <2>2, <2>3, <2>4 DEF PluginBooks
<1>12. ASSUME NEW q \in Pools PROVE PoolBooks(q)'
  <2>1. PoolBooks(q) /\ AlonePool(o, q)
    BY <1>7 DEF Books
  <2>2. pool'[q].queued = pool[q].queued /\ pool'[q].active = pool[q].active + One(p = q)
    BY <1>4 DEF Shape, PoolShape, One
  <2>3. /\ Cardinality(PoolQueued(q)') = Cardinality(PoolQueued(q))
        /\ Cardinality(PoolActive(q)') = Cardinality(PoolActive(q)) + One(p = q)
    BY <1>3, <1>5, <1>9, <2>1, CountsNat DEF AlonePool, One
  <2> QED BY <2>1, <2>2, <2>3 DEF PoolBooks
<1>13. ASSUME NEW t \in Ops PROVE SessionBooks(t)'
  BY <1>3, <1>5, <1>7, <1>9, CountsNat DEF Books, SessionOf, ClosingKinds, AloneSession, One, SessionBooks
<1> QED BY <1>10, <1>11, <1>12, <1>13 DEF Books

LEMMA ScheduleSessionBooks ==
  ASSUME Shape, Owning, Books, NEW s \in Ops, schedule_session(s)
  PROVE  Books'
<1>1. PICK r : r = session[s]
  OBVIOUS
<1>2. /\ r.state = "kept" /\ r.lease # "none" /\ Plan(r.lease, r.pool) /\ r.unfinished = 0
      /\ Scheduled("closeSession", s, r)
  BY <1>1 DEF schedule_session, Finalizable
<1>3. /\ r \in SessionShape /\ OwnerOK(r) /\ r.pool \in Pools /\ Policy[r.pool].finalizer
      /\ r.lease \in {"live", "worn"} /\ r.reservation # 0 /\ r.reservation \in Ops \cup {0}
  BY <1>1, <1>2, KeptFacts DEF OwnerOK, Plan, SessionShape
<1>4. PICK o \in Ops : o = r.reservation /\ call[o].pc = "reserved" /\ call[o].pool = r.pool
  BY <1>1, <1>2, <1>3, ReservationFacts
<1>5. PICK n : n = [Blank("cleaning", r.pool) EXCEPT !.kind = "closeSession", !.owner = s,
                      !.dispatched = TRUE, !.lease = r.lease, !.final = "intent"]
  OBVIOUS
<1>6. "closeSession" \in ClosingKinds
  BY DEF ClosingKinds
<1>7. Scheduling("closeSession", s, r, o, n)
  BY <1>2, <1>3, <1>4, <1>5, <1>6, ScheduledEffect
<1>8. ASSUME NEW t \in Ops, session'[t].state = "kept"
      PROVE  /\ session[t].state = "kept" /\ session'[t].queued = session[t].queued
             /\ session'[t].unfinished = session[t].unfinished + One(s = t)
  BY <1>1, <1>2, <1>8 DEF schedule_session, Shape, SessionShape, One
<1> QED BY <1>2, <1>3, <1>4, <1>6, <1>7, <1>8, ScheduledBooks

LEMMA ScheduleInstanceBooks ==
  ASSUME Shape, Owning, Books, NEW i \in Ops, schedule_instance(i)
  PROVE  Books'
<1>1. PICK r : r = instance[i]
  OBVIOUS
<1>2. /\ r.state = "kept" /\ r.lease # "none" /\ Plan(r.lease, r.pool)
      /\ Scheduled("closeInstance", i, r) /\ session' = session
  BY <1>1 DEF schedule_instance, Finalizable
<1>3. /\ r \in Instance /\ OwnerOK(r) /\ r.pool \in Pools /\ Policy[r.pool].finalizer
      /\ r.lease \in {"live", "worn"} /\ r.reservation # 0 /\ r.reservation \in Ops \cup {0}
  BY <1>1, <1>2, KeptFacts DEF OwnerOK, Plan, Instance
<1>4. PICK o \in Ops : o = r.reservation /\ call[o].pc = "reserved" /\ call[o].pool = r.pool
  BY <1>1, <1>2, <1>3, ReservationFacts
<1>5. PICK n : n = [Blank("cleaning", r.pool) EXCEPT !.kind = "closeInstance", !.owner = i,
                      !.dispatched = TRUE, !.lease = r.lease, !.final = "intent"]
  OBVIOUS
<1>6. "closeInstance" \in ClosingKinds /\ "closeInstance" # "closeSession"
  BY DEF ClosingKinds
<1>7. Scheduling("closeInstance", i, r, o, n)
  BY <1>2, <1>3, <1>4, <1>5, <1>6, ScheduledEffect
<1>8. ASSUME NEW t \in Ops, session'[t].state = "kept"
      PROVE  /\ session[t].state = "kept" /\ session'[t].queued = session[t].queued
             /\ session'[t].unfinished = session[t].unfinished + One(0 = t)
  BY <1>2, <1>8, ConstantFacts DEF Shape, SessionShape, One
<1> QED BY <1>2, <1>3, <1>4, <1>6, <1>7, <1>8, ScheduledBooks

-----------------------------------------------------------------------------
(* Publication and forgetting. *)

LEMMA PublishBooks ==
  ASSUME Shape, Owning, Books, NEW o \in Ops, publish_completion(o)
  PROVE  Books'
<1>1. PICK p, s, i : p = call[o].pool /\ s = SessionOf(o) /\ i = InstanceOf(o)
  OBVIOUS
<1>2. PICK res : res = IF i # 0 /\ call[o].lease = "none" THEN {instance[i].reservation} \ {0} ELSE {}
  OBVIOUS
<1>3. Publishable(o, p, s, i)
  BY <1>1, PublishFacts DEF publish_completion
<1>4. Published(o, p, s, i, res)
  BY <1>2, <1>3, PublishEffect
<1>5. /\ call' \in [Ops -> Call] /\ call'[o] = Blank("done", p)
      /\ res \in SUBSET Ops /\ o \notin res
      /\ \A x \in res : call[x].pc = "reserved" /\ call'[x] = Blank("forgotten", p)
      /\ \A x \in Ops : x # o /\ x \notin res => call'[x] = call[x]
  BY <1>4 DEF Published
<1>6. /\ p \in Pools /\ call[o].pc = "publishing" /\ s \in Ops \cup {0} /\ i \in Ops \cup {0}
      /\ s # 0 => session[s].state = "kept"
      /\ i # 0 => instance[i].state = "kept" /\ instance[i].pool = p
  BY <1>3 DEF Publishable
<1>7. /\ call'[o].pc = "done" /\ call'[o].pool = p /\ ~call'[o].dispatched /\ SessionOf(o)' = 0
      /\ \A x \in res : call'[x].pc = "forgotten"
  BY <1>5, <1>6, BlankTyped DEF SessionOf
<1>8. PICK g : g = PluginOf(p)
  OBVIOUS
<1>9. g \in Plugins
  BY <1>6, <1>8, ConstantFacts
<1>10. /\ cleaning' = cleaning - 1 /\ queued' = queued
       /\ pool' = IF call[o].dispatched THEN [pool EXCEPT ![p].active = @ - 1] ELSE pool
       /\ plugin' = [plugin EXCEPT ![g].reserved = @ - Cardinality(res)]
       /\ registry' = [registry EXCEPT !.reserved = @ - Cardinality(res)]
  BY <1>1, <1>2, <1>8 DEF publish_completion
<1>11. Alone(o)
  BY <1>5, <1>7 DEF Alone, Unseen
<1>12. AloneTotals(o) /\ (\A h \in Plugins : AlonePlugin(o, h)) /\ (\A q \in Pools : AlonePool(o, q))
       /\ (\A t \in Ops : AloneSession(o, t))
  BY <1>11, AloneCounts
<1>13. /\ "publishing" \in LivePcs /\ "publishing" \in LivePcs \ {"queued", "running"} /\ "done" \notin LivePcs
  BY DEF LivePcs
<1>14. PICK c \in Nat : c = Cardinality(res)
  BY <1>5, Counted
<1>15. /\ Cardinality(ReservedCalls') = Cardinality(ReservedCalls) - c
       /\ \A h \in Plugins : Cardinality(PluginReserved(h)') = Cardinality(PluginReserved(h)) - (IF g = h THEN c ELSE 0)
  <2>1. CASE res = {}
    BY <1>5, <1>6, <1>7, <1>14, <2>1, FS_EmptySet, ReservedCounts, CountsNat DEF AloneReserved, One
  <2>2. CASE res # {}
    <3>1. i # 0 /\ res = {instance[i].reservation} \ {0}
      BY <1>2, <2>2
    <3>2. PICK k \in Ops : k = instance[i].reservation /\ res = {k}
      BY <1>5, <2>2, <3>1
    <3>3. c = 1
      BY <1>14, <3>2, FS_Singleton
    <3>4. call[k].pc = "reserved" /\ call[k].pool = p /\ call'[k].pc = "forgotten"
      BY <1>5, <1>6, <1>7, <3>1, <3>2, ConstantFacts, ReservationFacts
    <3>5. AloneReserved(k)
      BY <1>5, <1>6, <1>7, <3>2, ReservedCounts
    <3> QED BY <1>8, <3>3, <3>4, <3>5, CountsNat DEF AloneReserved, One
  <2> QED BY <2>1, <2>2
<1>16. TotalBooks'
  BY <1>6, <1>7, <1>10, <1>12, <1>13, <1>14, <1>15, CountsNat DEF AloneTotals, One, Shape, Books, TotalBooks
<1>17. ASSUME NEW h \in Plugins PROVE PluginBooks(h)'
  <2>1. PluginBooks(h) /\ AlonePlugin(o, h)
    BY <1>12 DEF Books
  <2>2. /\ plugin'[h].queued = plugin[h].queued /\ plugin'[h].operations = plugin[h].operations
        /\ plugin'[h].reserved = plugin[h].reserved - (IF g = h THEN c ELSE 0)
    BY <1>10, <1>14 DEF Shape, PluginShape
  <2>3. /\ Cardinality(PluginQueued(h)') = Cardinality(PluginQueued(h))
        /\ Cardinality(PluginRetained(h)') = Cardinality(PluginRetained(h))
    BY <1>1, <1>6, <1>7, <1>13, <2>1, CountsNat DEF AlonePlugin, One
  <2> QED BY <1>15, <2>1, <2>2, <2>3 DEF PluginBooks
<1>18. ASSUME NEW q \in Pools PROVE PoolBooks(q)'
  <2>1. PoolBooks(q) /\ AlonePool(o, q)
    BY <1>12 DEF Books
  <2>2. /\ pool'[q].queued = pool[q].queued
        /\ pool'[q].active = pool[q].active - (IF p = q /\ call[o].dispatched THEN 1 ELSE 0)
    BY <1>10 DEF Shape, PoolShape
  <2>3. /\ Cardinality(PoolQueued(q)') = Cardinality(PoolQueued(q))
        /\ Cardinality(PoolActive(q)') = Cardinality(PoolActive(q)) - (IF p = q /\ call[o].dispatched THEN 1 ELSE 0)
    BY <1>1, <1>6, <1>7, <1>13, <2>1, CountsNat DEF AlonePool, One
  <2> QED BY <2>1, <2>2, <2>3 DEF PoolBooks
<1>19. ASSUME NEW t \in Ops PROVE SessionBooks(t)'
  <2>1. SessionBooks(t) /\ AloneSession(o, t)
    BY <1>12 DEF Books
  <2>2. /\ Cardinality(SessionQueued(t)') = Cardinality(SessionQueued(t))
        /\ Cardinality(SessionLive(t)') = Cardinality(SessionLive(t)) - One(s = t)
    BY <1>1, <1>6, <1>7, <1>13, <2>1, CountsNat DEF AloneSession, One
  <2>3. CASE s = 0
    BY <1>1, <2>1, <2>2, <2>3, ConstantFacts, CountsNat DEF publish_completion, SessionBooks, One
  <2>4. CASE s # 0
    BY <1>3, <1>4, <1>6, <2>1, <2>2, <2>4, PublishSession, BooksAreExact, CountsNat DEF SessionBooks, SessionSettled,
       One
  <2> QED BY <2>3, <2>4
<1> QED BY <1>16, <1>17, <1>18, <1>19 DEF Books

LEMMA ForgetOperationBooks ==
  ASSUME Shape, Owning, Books, NEW o \in Ops, forget_operation(o)
  PROVE  Books'
<1>1. PICK g : g = PluginOf(call[o].pool)
  OBVIOUS
<1>2. /\ call[o].pc = "done" /\ call' = [call EXCEPT ![o].pc = "forgotten"] /\ registry' = [registry EXCEPT !.records = @ - 1]
      /\ plugin' = [plugin EXCEPT ![g].operations = @ - 1] /\ UNCHANGED <<session, pool, queued, cleaning>>
  BY <1>1 DEF forget_operation
<1>3. call' \in [Ops -> Call] /\ call'[o].pc = "forgotten" /\ \A x \in Ops : x # o => call'[x] = call[x]
  <2>1. Rests
    BY ForgetOperationRests
  <2> QED BY <1>2, <2>1 DEF Rests, Shape
<1>4. Alone(o) /\ AloneReserved(o)
  BY <1>3, ReservedCounts DEF Alone
<1>5. AloneTotals(o) /\ (\A h \in Plugins : AlonePlugin(o, h)) /\ (\A q \in Pools : AlonePool(o, q))
       /\ (\A t \in Ops : AloneSession(o, t))
  BY <1>4, AloneCounts
<1>6. "done" \notin LivePcs /\ "forgotten" \notin LivePcs \cup {"done"}
  BY DEF LivePcs
<1>7. TotalBooks'
  BY <1>2, <1>3, <1>4, <1>5, <1>6, CountsNat DEF AloneTotals, One, AloneReserved, Shape, Books, TotalBooks
<1>8. ASSUME NEW h \in Plugins PROVE PluginBooks(h)'
  <2>1. PluginBooks(h) /\ AlonePlugin(o, h)
    BY <1>5 DEF Books
  <2>2. /\ plugin'[h].queued = plugin[h].queued /\ plugin'[h].operations = plugin[h].operations - One(g = h)
        /\ plugin'[h].reserved = plugin[h].reserved
    BY <1>2 DEF Shape, PluginShape, One
  <2>3. /\ Cardinality(PluginQueued(h)') = Cardinality(PluginQueued(h))
        /\ Cardinality(PluginRetained(h)') = Cardinality(PluginRetained(h)) - One(g = h)
    BY <1>1, <1>2, <1>3, <1>6, <2>1, CountsNat DEF AlonePlugin, One
  <2>4. Cardinality(PluginReserved(h)') = Cardinality(PluginReserved(h))
    BY <1>2, <1>3, <1>4, CountsNat DEF AloneReserved, One
  <2> QED BY <2>1, <2>2, <2>3, <2>4 DEF PluginBooks
<1>9. ASSUME NEW q \in Pools PROVE PoolBooks(q)'
  BY <1>2, <1>3, <1>5, <1>6, CountsNat DEF Books, AlonePool, One, PoolBooks
<1>10. ASSUME NEW t \in Ops PROVE SessionBooks(t)'
  BY <1>2, <1>3, <1>5, <1>6, CountsNat DEF Books, AloneSession, One, SessionBooks
<1> QED BY <1>7, <1>8, <1>9, <1>10 DEF Books

LEMMA ForgetSessionBooks ==
  ASSUME Shape, Books, NEW s \in Ops, forget_session(s)
  PROVE  Books'
BY SameBooks DEF forget_session, Shape, NoSession

\* Reservations that return leave every other count alone.
LEMMA UnreservedBooks ==
  ASSUME Shape, Books, NEW ids \in SUBSET Ops, \A o \in ids : call[o].pc = "reserved", Unreserved(ids),
         \A s \in Ops : session'[s].state = "kept" =>
           /\ session[s].state = "kept" /\ session'[s].queued = session[s].queued /\ session'[s].unfinished = session[s].unfinished,
         \A p \in Pools : pool'[p].queued = pool[p].queued /\ pool'[p].active = pool[p].active,
         UNCHANGED <<queued, cleaning>>
  PROVE  Books'
<1>1. /\ call' = [o \in Ops |-> IF o \in ids THEN Blank("forgotten", call[o].pool) ELSE call[o]]
      /\ plugin' = [g \in Plugins |-> [plugin[g] EXCEPT !.reserved = @ - PluginTaken(ids, g)]]
      /\ registry' = [registry EXCEPT !.reserved = @ - Cardinality(ids)]
  BY DEF Unreserved
<1>2. ASSUME NEW o \in Ops
      PROVE  /\ o \in ids => call[o].pc = "reserved" /\ call'[o].pc = "forgotten"
             /\ o \notin ids => call'[o] = call[o]
  BY <1>1, BlankTyped DEF Shape, Call
<1>3. "reserved" \notin LivePcs \cup {"done"} /\ "forgotten" \notin LivePcs \cup {"done"} /\ "queued" \in LivePcs
  BY DEF LivePcs
<1>4. ASSUME NEW o \in Ops
      PROVE  /\ call'[o].pc \in LivePcs \cup {"done"} <=> call[o].pc \in LivePcs \cup {"done"}
             /\ call[o].pc \in LivePcs \cup {"done"} => call'[o] = call[o] /\ SessionOf(o)' = SessionOf(o)
  BY <1>2, <1>3 DEF SessionOf
<1>5. QueuedCalls' = QueuedCalls /\ CleanCalls' = CleanCalls /\ RetainedCalls' = RetainedCalls
  BY <1>3, <1>4 DEF QueuedCalls, CleanCalls, RetainedCalls
<1>6. TotalBooks'
  <2>1. ReservedCalls' = ReservedCalls \ ids /\ ids \in SUBSET ReservedCalls /\ ReservedCalls \in SUBSET Ops
    BY <1>2 DEF ReservedCalls
  <2>2. Cardinality(ReservedCalls \ ids) = Cardinality(ReservedCalls) - Cardinality(ids)
    BY <2>1, CountLess
  <2>3. Cardinality(ReservedCalls') = Cardinality(ReservedCalls) - Cardinality(ids)
    BY <2>1, <2>2, Zenon
  <2>4. PICK c : c = Cardinality(ids)
    OBVIOUS
  <2>5. registry'.records = registry.records /\ registry'.reserved = registry.reserved - c
    BY <1>1, <2>4 DEF Shape
  <2> QED BY <1>5, <2>3, <2>4, <2>5 DEF TotalBooks, Books
<1>7. ASSUME NEW g \in Plugins PROVE PluginBooks(g)'
  <2>1. PICK T : T = {o \in ids : PluginOf(call[o].pool) = g}
    OBVIOUS
  <2>2. PluginReserved(g)' = PluginReserved(g) \ T /\ T \in SUBSET PluginReserved(g) /\ PluginReserved(g) \in SUBSET Ops
    BY <1>2, <2>1 DEF PluginReserved
  <2>3. Cardinality(PluginReserved(g) \ T) = Cardinality(PluginReserved(g)) - Cardinality(T)
    BY <2>2, CountLess
  <2>4. Cardinality(PluginReserved(g)') = Cardinality(PluginReserved(g)) - Cardinality(T)
    BY <2>2, <2>3, Zenon
  <2>5. PluginTaken(ids, g) = Cardinality(T)
    BY <2>1 DEF PluginTaken
  <2>6. PICK c : c = Cardinality(T)
    OBVIOUS
  <2>7. /\ plugin'[g].queued = plugin[g].queued /\ plugin'[g].operations = plugin[g].operations
        /\ plugin'[g].reserved = plugin[g].reserved - c
    BY <1>1, <2>5, <2>6 DEF Shape, PluginShape
  <2>8. PluginQueued(g)' = PluginQueued(g) /\ PluginRetained(g)' = PluginRetained(g)
    BY <1>3, <1>4 DEF PluginQueued, PluginRetained
  <2> QED BY <2>4, <2>6, <2>7, <2>8 DEF PluginBooks, Books
<1>8. ASSUME NEW p \in Pools PROVE PoolBooks(p)'
  <2>1. PoolQueued(p)' = PoolQueued(p) /\ PoolActive(p)' = PoolActive(p)
    BY <1>3, <1>4 DEF PoolQueued, PoolActive
  <2> QED BY <2>1 DEF PoolBooks, Books
<1>9. ASSUME NEW s \in Ops PROVE SessionBooks(s)'
  BY <1>3, <1>4 DEF SessionQueued, SessionLive, SessionBooks, Books
<1> QED BY <1>6, <1>7, <1>8, <1>9 DEF Books

LEMMA ForgetPoolBooks ==
  ASSUME Shape, Owning, Books, NEW p \in Pools, forget_pool(p)
  PROVE  Books'
<1>1. PICK ids : ids = {instance[i].reservation : i \in Pruned} \ {0}
  OBVIOUS
<1>2. /\ Unreserved(ids) /\ pool' = [pool EXCEPT ![p].state = "forgotten"]
      /\ session' = session /\ queued' = queued /\ cleaning' = cleaning
  BY <1>1 DEF forget_pool
<1>3. Pruned \in SUBSET Ops
  BY DEF Pruned, Kept
<1>4. ids \in SUBSET Ops /\ \A o \in ids : call[o].pc = "reserved"
  BY <1>1, <1>3, ReservationFacts
<1>5. \A q \in Pools : pool'[q].queued = pool[q].queued /\ pool'[q].active = pool[q].active
  BY <1>2 DEF Shape, PoolShape
<1> QED BY <1>2, <1>4, <1>5, UnreservedBooks

LEMMA FinishMaintainBooks ==
  ASSUME Shape, Owning, Books, finish_maintain
  PROVE  Books'
<1>1. PICK ids : ids = ({session[s].reservation : s \in Ended} \cup {instance[i].reservation : i \in GoneInstances}) \ {0}
  OBVIOUS
<1>2. Unreserved(ids) /\ pool' = pool /\ queued' = queued /\ cleaning' = cleaning
  BY <1>1 DEF finish_maintain, Ended, GoneInstances
<1>3. Ended \in SUBSET Ops /\ GoneInstances \in SUBSET Ops
  BY DEF Ended, GoneInstances, Kept
<1>4. ids \in SUBSET Ops /\ \A o \in ids : call[o].pc = "reserved"
  BY <1>1, <1>3, ReservationFacts
<1>5. Rests
  BY FinishMaintainRests, BooksAreExact
<1>6. ASSUME NEW s \in Ops, session'[s].state = "kept"
      PROVE  session[s].state = "kept" /\ session'[s].queued = session[s].queued /\ session'[s].unfinished = session[s].unfinished
  BY <1>5, <1>6 DEF Rests, NoSession, SessionRests
<1> QED BY <1>2, <1>4, <1>6, UnreservedBooks

LEMMA RejectBooks ==
  ASSUME Shape, Owning, Books, reject_expired
  PROVE  Books'
<1>1. /\ \A o \in Ops : CallRefused(o) /\ SessionRefuses(o)
      /\ call' \in [Ops -> Call] /\ registry' = registry /\ take_call(Expired, rotation) /\ Expired \in SUBSET Ops
  BY RejectEffect
<1>2. PICK E : E = Expired
  OBVIOUS
<1>3. E \in SUBSET Ops /\ \A o \in E : call[o].pc = "queued"
  BY <1>1, <1>2 DEF Expired
<1>4. /\ pool' = [p \in Pools |-> [pool[p] EXCEPT !.queued = @ - PoolTaken(E, p)]]
      /\ plugin' = [g \in Plugins |-> [plugin[g] EXCEPT !.queued = @ - PluginTaken(E, g)]]
      /\ cleaning' = cleaning + Cardinality(E)
  BY <1>2 DEF reject_expired, Expired
<1>5. queued' = queued - Cardinality(E)
  BY <1>1, <1>2 DEF take_call
<1>6. ASSUME NEW o \in Ops
      PROVE  /\ call'[o].pool = call[o].pool /\ SessionOf(o)' = SessionOf(o) /\ call'[o].dispatched = call[o].dispatched
             /\ o \in E => call'[o].pc = "supervised"
             /\ o \notin E => call'[o].pc = call[o].pc \/ (call'[o].pc = "supervised" /\ call[o].pc = "cleaning")
  BY <1>1, <1>2 DEF CallRefused, SessionOf
<1>7. /\ "supervised" \in LivePcs \ {"queued", "running"} /\ "cleaning" \in LivePcs \ {"queued", "running"}
      /\ "queued" \in LivePcs
  BY DEF LivePcs
<1>8. ASSUME NEW o \in Ops
      PROVE  /\ call'[o].pc = "queued" <=> call[o].pc = "queued" /\ o \notin E
             /\ call'[o].pc = "reserved" <=> call[o].pc = "reserved"
             /\ call'[o].pc \in LivePcs <=> call[o].pc \in LivePcs
             /\ call'[o].pc \in LivePcs \cup {"done"} <=> call[o].pc \in LivePcs \cup {"done"}
             /\ call'[o].pc \in LivePcs \ {"queued", "running"} <=> call[o].pc \in LivePcs \ {"queued", "running"} \/ o \in E
  BY <1>3, <1>6, <1>7
<1>9. TotalBooks'
  <2>1. /\ QueuedCalls' = QueuedCalls \ E /\ E \in SUBSET QueuedCalls /\ QueuedCalls \in SUBSET Ops
        /\ CleanCalls' = CleanCalls \cup E /\ CleanCalls \cap E = {} /\ CleanCalls \in SUBSET Ops
        /\ RetainedCalls' = RetainedCalls /\ ReservedCalls' = ReservedCalls
    BY <1>3, <1>8 DEF QueuedCalls, CleanCalls, RetainedCalls, ReservedCalls
  <2>2. /\ Cardinality(QueuedCalls \ E) = Cardinality(QueuedCalls) - Cardinality(E)
        /\ Cardinality(CleanCalls \cup E) = Cardinality(CleanCalls) + Cardinality(E)
    BY <1>3, <2>1, CountLess, CountUnion
  <2>3. /\ Cardinality(QueuedCalls') = Cardinality(QueuedCalls) - Cardinality(E)
        /\ Cardinality(CleanCalls') = Cardinality(CleanCalls) + Cardinality(E)
    BY <2>1, <2>2, Zenon
  <2> QED BY <1>1, <1>4, <1>5, <2>1, <2>3 DEF TotalBooks, Books
<1>10. ASSUME NEW g \in Plugins PROVE PluginBooks(g)'
  <2>1. PICK T : T = {o \in E : PluginOf(call[o].pool) = g}
    OBVIOUS
  <2>2. /\ PluginQueued(g)' = PluginQueued(g) \ T /\ T \in SUBSET PluginQueued(g) /\ PluginQueued(g) \in SUBSET Ops
        /\ PluginRetained(g)' = PluginRetained(g) /\ PluginReserved(g)' = PluginReserved(g)
    BY <1>3, <1>6, <1>8, <2>1 DEF PluginQueued, PluginRetained, PluginReserved
  <2>3. Cardinality(PluginQueued(g) \ T) = Cardinality(PluginQueued(g)) - Cardinality(T)
    BY <2>2, CountLess
  <2>4. Cardinality(PluginQueued(g)') = Cardinality(PluginQueued(g)) - Cardinality(T)
    BY <2>2, <2>3, Zenon
  <2>5. PICK c : c = Cardinality(T)
    OBVIOUS
  <2>6. PluginTaken(E, g) = c
    BY <2>1, <2>5 DEF PluginTaken
  <2>7. /\ plugin'[g].queued = plugin[g].queued - c /\ plugin'[g].operations = plugin[g].operations
        /\ plugin'[g].reserved = plugin[g].reserved
    BY <1>4, <2>6 DEF Shape, PluginShape
  <2> QED BY <2>2, <2>4, <2>5, <2>7 DEF PluginBooks, Books
<1>11. ASSUME NEW p \in Pools PROVE PoolBooks(p)'
  <2>1. PICK T : T = {o \in E : call[o].pool = p}
    OBVIOUS
  <2>2. /\ PoolQueued(p)' = PoolQueued(p) \ T /\ T \in SUBSET PoolQueued(p) /\ PoolQueued(p) \in SUBSET Ops
        /\ PoolActive(p)' = PoolActive(p)
    BY <1>3, <1>6, <1>8, <2>1 DEF PoolQueued, PoolActive
  <2>3. Cardinality(PoolQueued(p) \ T) = Cardinality(PoolQueued(p)) - Cardinality(T)
    BY <2>2, CountLess
  <2>4. Cardinality(PoolQueued(p)') = Cardinality(PoolQueued(p)) - Cardinality(T)
    BY <2>2, <2>3, Zenon
  <2>5. PICK c : c = Cardinality(T)
    OBVIOUS
  <2>6. PoolTaken(E, p) = c
    BY <2>1, <2>5 DEF PoolTaken
  <2>7. pool'[p].queued = pool[p].queued - c /\ pool'[p].active = pool[p].active
    BY <1>4, <2>6 DEF Shape, PoolShape
  <2> QED BY <2>2, <2>4, <2>5, <2>7 DEF PoolBooks, Books
<1>12. ASSUME NEW s \in Ops PROVE SessionBooks(s)'
  <2>0. SessionBooks(s) /\ SessionRefuses(s)
    BY <1>1 DEF Books
  <2>1. PICK T : T = {o \in E : SessionOf(o) = s}
    OBVIOUS
  <2>2. /\ SessionQueued(s)' = SessionQueued(s) \ T /\ T \in SUBSET SessionQueued(s) /\ SessionQueued(s) \in SUBSET Ops
        /\ SessionLive(s)' = SessionLive(s)
    BY <1>3, <1>6, <1>8, <2>1 DEF SessionQueued, SessionLive
  <2>3. Cardinality(SessionQueued(s) \ T) = Cardinality(SessionQueued(s)) - Cardinality(T)
    BY <2>2, CountLess
  <2>4. Cardinality(SessionQueued(s)') = Cardinality(SessionQueued(s)) - Cardinality(T)
    BY <2>2, <2>3, Zenon
  <2>5. PICK c : c = Cardinality(T)
    OBVIOUS
  <2>6. SessionTaken(E, s) = c
    BY <2>1, <2>5 DEF SessionTaken
  <2>7. session'[s].queued = session[s].queued - c
    <3>1. CASE s \notin Openings
      BY <1>2, <2>0, <2>6, <3>1 DEF SessionRefuses
    <3>2. CASE s \in Openings
      <4>1. s \in E /\ call[s].pc = "queued" /\ call[s].kind = "open"
        BY <1>2, <1>3, <3>2 DEF Openings
      <4>2. SessionOf(s) = s /\ \A x \in Ops : x # s => SessionOf(x) # s
        BY <4>1, OpeningFacts
      <4>3. T = {s}
        BY <1>3, <2>1, <4>1, <4>2
      <4>4. c = 1
        BY <2>5, <4>3, FS_Singleton
      <4> QED BY <2>0, <3>2, <4>4 DEF SessionRefuses
    <3> QED BY <3>1, <3>2
  <2>8. session'[s].state = session[s].state /\ session'[s].unfinished = session[s].unfinished
    BY <2>0 DEF SessionRefuses
  <2> QED BY <2>0, <2>2, <2>4, <2>5, <2>7, <2>8 DEF SessionBooks
<1> QED BY <1>9, <1>10, <1>11, <1>12 DEF Books

\* Every step keeps every count.
LEMMA BooksKept ==
  ASSUME Shape, Owning, Books, Next
  PROVE  Books'
  BY NextCases, QuietBooks, HostBooks, SelectBooks, FinishMaintainBooks, RejectBooks, SubmitBooks, OpenSessionBooks,
     ForgetPoolBooks, SubmitSessionBooks, ForgetSessionBooks, ForgetOperationBooks, ScheduleSessionBooks,
     ScheduleInstanceBooks, PublishBooks

-----------------------------------------------------------------------------
(* The theorems about the tables and their counts. *)

LEMMA InitStructure ==
  ASSUME Init
  PROVE  Shape /\ Owning /\ Books
<1>1. /\ call = [o \in Ops |-> Blank("free", AnyPool)]
      /\ session = [o \in Ops |-> NoSession] /\ instance = [o \in Ops |-> NoInstance]
      /\ pool = [p \in Pools |-> [state |-> "absent", queued |-> 0, active |-> 0]]
      /\ plugin = [g \in Plugins |-> [state |-> "open", queued |-> 0, operations |-> 0, reserved |-> 0]]
      /\ queue = [g \in Plugins |-> {}] /\ rotation = <<>> /\ live = {} /\ queued = 0 /\ cleaning = 0
      /\ registry = [next |-> 1, records |-> 0, reserved |-> 0]
  BY DEF Init
<1>2. closing = FALSE /\ shared = FALSE /\ workers = Workers /\ failures = 0 /\ finalized = [o \in Ops |-> "raw"]
  BY DEF Init
<1>3. /\ Blank("free", AnyPool) \in Call /\ Blank("free", AnyPool).pc = "free" /\ Blank("free", AnyPool).pool = AnyPool
      /\ Blank("free", AnyPool).owner = 0 /\ Blank("free", AnyPool).kind = "none" /\ Blank("free", AnyPool).lease = "none"
      /\ AnyPool \in Pools
  BY ConstantFacts, BlankTyped
<1>4. \A o \in Ops : /\ call[o] = Blank("free", AnyPool) /\ session[o] = NoSession /\ instance[o] = NoInstance
                     /\ call[o].pc = "free" /\ call[o].owner = 0 /\ SessionOf(o) = 0 /\ InstanceOf(o) = 0
  BY <1>1, <1>3 DEF SessionOf, InstanceOf
<1>5. Shape
  <2>1. call \in [Ops -> Call] /\ session \in [Ops -> SessionShape] /\ instance \in [Ops -> Instance]
    BY <1>1, <1>3, NoOwnerTyped
  <2>2. pool \in [Pools -> PoolShape] /\ plugin \in [Plugins -> PluginShape] /\ queue \in [Plugins -> SUBSET Ops]
    BY <1>1 DEF PoolShape, PluginShape
  <2>3. rotation \in Seq(Plugins) /\ live \in SUBSET Ops /\ queued \in Int /\ cleaning \in Int
    BY <1>1
  <2>4. registry \in [next : 1 .. LastOperation + 1, records : Int, reserved : Int]
    BY <1>1, ConstantFacts
  <2>5. workers \in Int /\ failures \in Int /\ finalized \in [Ops -> {"raw", "due", "once", "again"}]
    BY <1>2, ConstantFacts
  <2>6. closing \in BOOLEAN /\ shared \in BOOLEAN
    BY <1>2, Zenon
  <2> QED BY <2>1, <2>2, <2>3, <2>4, <2>5, <2>6 DEF Shape
<1>6. Tables
  BY <1>1, <1>4 DEF Injective, Owned, LivePcs, Tables
<1>7. Fresh
  BY <1>1, <1>4, ConstantFacts DEF Ops, Fresh
<1>8. Calls
  BY <1>3, <1>4, BlankTyped DEF CallOK, LivePcs, SessionKinds, ClosingKinds, CallOwned, Calls
<1>9. Sessions
  BY <1>4, NoOwnerTyped DEF SessionOK, Sessions
<1>10. Instances
  BY <1>4, NoOwnerTyped DEF InstanceOK, Instances
<1>11. Distinct
  BY <1>4, NoOwnerTyped DEF Distinct
<1>12. Owning
  BY <1>6, <1>7, <1>8, <1>9, <1>10, <1>11 DEF Owning
<1>13. Books
  BY <1>1, <1>4, FS_EmptySet, NoOwnerTyped DEF QueuedCalls, CleanCalls, RetainedCalls, ReservedCalls, PluginQueued,
     PluginRetained, PluginReserved, PoolQueued, PoolActive, LivePcs, TotalBooks, PluginBooks, PoolBooks,
     SessionBooks, Books
<1> QED BY <1>5, <1>12, <1>13

\* The inductive invariant of the tables.
Structure == Shape /\ Owning /\ Books

LEMMA StructureInductive ==
  ASSUME Structure, [Next]_vars
  PROVE  Structure'
BY BooksAreExact, StructureKept, BooksKept, NothingQuiet, QuietKeeps, CalmBooks DEF Structure, vars, Shape

\* Calls, sessions, instances, queues and reservations stay linked to each other, and every
\* count beside them stays the count of what it stands for, whatever the threads' order.
THEOREM StructureAlways == Spec => []Structure
<1>1. Init => Structure
  BY InitStructure DEF Structure
<1>2. Structure /\ [Next]_vars => Structure'
  BY StructureInductive
<1> QED BY <1>1, <1>2, PTL DEF Spec

LEMMA StructureTyped ==
  ASSUME Structure
  PROVE  SchedulerTypeOK
<1>1. Shape /\ Owning /\ Books
  BY DEF Structure
<1>2. call \in [Ops -> Call] /\ instance \in [Ops -> Instance] /\ live \subseteq Ops
  BY <1>1 DEF Shape
<1>3. ASSUME NEW p \in Pools
      PROVE  pool[p] \in [state : {"absent", "open", "closed", "forgotten"}, queued : Nat, active : Nat]
  BY <1>1, CountsNat DEF Books, PoolBooks, Shape, PoolShape
<1>4. ASSUME NEW g \in Plugins
      PROVE  plugin[g] \in [state : {"open", "closing", "absent"}, queued : Nat, operations : Nat, reserved : Nat]
  BY <1>1, CountsNat DEF Books, PluginBooks, Shape, PluginShape
<1>5. ASSUME NEW s \in Ops PROVE session[s] \in Session
  BY <1>1, KeptFacts, CountsNat DEF Books, SessionBooks, SessionOK, NoSession, SessionShape, Session, Receipts
<1>6. /\ pool \in [Pools -> [state : {"absent", "open", "closed", "forgotten"}, queued : Nat, active : Nat]]
      /\ plugin \in [Plugins -> [state : {"open", "closing", "absent"}, queued : Nat, operations : Nat, reserved : Nat]]
      /\ session \in [Ops -> Session]
  BY <1>1, <1>3, <1>4, <1>5 DEF Shape
<1> QED BY <1>2, <1>6 DEF SchedulerTypeOK

\* The variables keep their types: no counter of enqueue, take_call, publish or the reservations
\* ever falls below zero.
THEOREM SchedulerTyped == Spec => []SchedulerTypeOK
  BY StructureAlways, StructureTyped, PTL

\* A live call that has the VM `o` is the call its owner runs, or an unowned one.
HolderOf(o, x) ==
  \/ session[o].state = "kept" /\ session[o].active = x /\ instance[o].state = "none"
  \/ /\ call[x].kind = "open" /\ x = o /\ session[o].state = "kept" /\ session[o].lease = "none"
     /\ session[o].active = 0 /\ instance[o].state = "none" /\ ~call[o].dispatched
  \/ instance[o].state = "kept" /\ instance[o].active = x /\ session[o].state = "none"
  \/ x = o /\ call[o].owner = 0 /\ session[o].state = "none" /\ instance[o].state = "none"

LEMMA HolderKnown ==
  ASSUME Shape, Owning, NEW o \in Ops, NEW x \in Ops, call[x].pc \in LivePcs, call[x].lease # "none", VmOf(x) = o
  PROVE  HolderOf(o, x)
BY ConstantFacts, CallFacts, KeptFacts DEF LivePcs, VmOf, CallOK, SessionKinds, ClosingKinds, SessionOK, InstanceOK,
   Instance, HolderOf, SessionOf, CallOwned, SessionShape, Call, InstanceOf

LEMMA StructureHolds ==
  ASSUME Structure
  PROVE  OneHolder
<1>1. Shape /\ Owning /\ Tables
  BY DEF Structure, Owning
<1>2. live = {x \in Ops : call[x].pc \in LivePcs}
  BY <1>1 DEF Tables
<1> SUFFICES ASSUME NEW o \in Ops, NEW with, with = {x \in live : VmOf(x) = o /\ call[x].lease # "none"}
             PROVE  /\ \A r \in {session[o], instance[o]} :
                         r.state = "kept" =>
                           /\ r.active = 0 /\ ~r.closing => r.lease # "none"
                           /\ r.lease # "none" => r.active = 0 /\ with = {}
                           /\ r.active # 0 => r.active \in live /\ VmOf(r.active) = o
                    /\ Cardinality(with) <= 1
  BY DEF OneHolder
<1>3. 0 \notin Ops /\ o # 0
  BY ConstantFacts
<1>4. ASSUME NEW x \in with
      PROVE  x \in Ops /\ call[x].pc \in LivePcs /\ call[x].lease # "none" /\ HolderOf(o, x)
  BY <1>1, <1>2, <1>4, HolderKnown
<1>5. Cardinality(with) <= 1
  <2>1. CASE with = {}
    BY <2>1, FS_EmptySet
  <2>2. CASE with # {}
    BY <1>3, <1>4, <2>2, FS_Singleton DEF HolderOf
  <2> QED BY <2>1, <2>2
<1>6. ASSUME session[o].state = "kept"
      PROVE  LET r == session[o]
             IN /\ r.active = 0 /\ ~r.closing => r.lease # "none"
                /\ r.lease # "none" => r.active = 0 /\ with = {}
                /\ r.active # 0 => r.active \in live /\ VmOf(r.active) = o
  BY <1>1, <1>2, <1>3, <1>4, <1>6, KeptFacts DEF OwnerOK, HolderOf, SessionShape, SessionOK, VmOf, SessionOf
<1>7. ASSUME instance[o].state = "kept"
      PROVE  LET r == instance[o]
             IN /\ r.active = 0 /\ ~r.closing => r.lease # "none"
                /\ r.lease # "none" => r.active = 0 /\ with = {}
                /\ r.active # 0 => r.active \in live /\ VmOf(r.active) = o
  BY <1>1, <1>2, <1>3, <1>4, <1>7, KeptFacts DEF OwnerOK, HolderOf, Instance, InstanceOK, VmOf, InstanceOf
<1> QED BY <1>5, <1>6, <1>7

-----------------------------------------------------------------------------
(* Nothing that is still needed is forgotten. *)

Registering(p) == pool[p].state \in {"open", "closed"}
\* Owners, queued and dispatched calls have a registered pool; operations have a plugin.
Needing(c) == c.pc = "queued" \/ (c.pc \in LivePcs /\ c.dispatched)
Owing(c) == c.pc \in LivePcs \cup {"done", "reserved"}
Registered ==
  /\ \A s \in Ops : session[s].state = "kept" => Registering(session[s].pool)
  /\ \A i \in Ops : instance[i].state = "kept" => Registering(instance[i].pool)
  /\ \A o \in Ops : Needing(call[o]) => Registering(call[o].pool)
  /\ \A o \in Ops : Owing(call[o]) => plugin[PluginOf(call[o].pool)].state # "absent"

\* What is registered stays so, and what is new is registered.
Registers ==
  /\ \A p \in Pools : Registering(p) => pool'[p].state \in {"open", "closed"}
  /\ \A g \in Plugins : plugin[g].state # "absent" => plugin'[g].state # "absent"
  /\ \A s \in Ops : session'[s].state = "kept" =>
       (session[s].state = "kept" /\ session'[s].pool = session[s].pool) \/ pool'[session'[s].pool].state = "open"
  /\ \A i \in Ops : instance'[i].state = "kept" =>
       (instance[i].state = "kept" /\ instance'[i].pool = instance[i].pool) \/ pool'[instance'[i].pool].state = "open"
  /\ \A o \in Ops : Needing(call'[o]) =>
       (Needing(call[o]) /\ call'[o].pool = call[o].pool) \/ pool'[call'[o].pool].state \in {"open", "closed"}
  /\ \A o \in Ops : Owing(call'[o]) =>
       (Owing(call[o]) /\ call'[o].pool = call[o].pool) \/ plugin'[PluginOf(call'[o].pool)].state # "absent"

LEMMA RegistersKeeps ==
  ASSUME Shape, Registered, Registers
  PROVE  Registered'
<1>1. \A s \in Ops : session[s].pool \in Pools /\ instance[s].pool \in Pools /\ call[s].pool \in Pools
                     /\ PluginOf(call[s].pool) \in Plugins
  BY ConstantFacts DEF Shape, SessionShape, Instance, Call
<1>2. \A s \in Ops : session'[s].state = "kept" => pool'[session'[s].pool].state \in {"open", "closed"}
  BY <1>1 DEF Registers, Registered
<1>3. \A i \in Ops : instance'[i].state = "kept" => pool'[instance'[i].pool].state \in {"open", "closed"}
  BY <1>1 DEF Registers, Registered
<1>4. \A o \in Ops : Needing(call'[o]) => pool'[call'[o].pool].state \in {"open", "closed"}
  BY <1>1 DEF Registers, Registered
<1>5. \A o \in Ops : Owing(call'[o]) => plugin'[PluginOf(call'[o].pool)].state # "absent"
  BY <1>1 DEF Registers, Registered
<1> QED BY <1>2, <1>3, <1>4, <1>5 DEF Registered, Registering, Needing, Owing

\* Calls and owners of a quiet step stay where they are.
LEMMA QuietRegisters ==
  ASSUME Shape, Quiet
  PROVE  /\ \A s \in Ops : session'[s].state = session[s].state /\ session'[s].pool = session[s].pool
         /\ \A i \in Ops : instance'[i].state = instance[i].state /\ instance'[i].pool = instance[i].pool
         /\ \A o \in Ops : /\ call'[o].pool = call[o].pool /\ (Needing(call'[o]) <=> Needing(call[o]))
                           /\ Owing(call'[o]) <=> Owing(call[o])
BY DEF Steps, Needing, Owing, Quiet, AgedSession, Aged

LEMMA QuietStepRegisters ==
  ASSUME Shape, Owning, Registered, QuietStep
  PROVE  Registered'
BY QuietSteps, CalmSteps, QuietRegisters, RegistersKeeps DEF invoke, Calm, Registers, Registering

LEMMA HostRegisters ==
  ASSUME Shape, Owning, Books, Registered, HostStep
  PROVE  Registered'
<1>1. Quiet /\ UNCHANGED <<call, session, instance>>
  BY HostSteps
<1>2. ASSUME NEW g \in Plugins, forget_plugin(g) PROVE Registered'
  <2>1. /\ plugin[g].operations = 0 /\ plugin[g].reserved = 0 /\ pool' = pool
        /\ plugin' = [plugin EXCEPT ![g].state = "absent"]
    BY <1>2 DEF forget_plugin
  <2>2. Cardinality(PluginRetained(g)) = 0 /\ Cardinality(PluginReserved(g)) = 0
    BY <2>1 DEF Books, PluginBooks
  <2>3. PluginRetained(g) \in SUBSET Ops /\ PluginReserved(g) \in SUBSET Ops
    BY DEF PluginRetained, PluginReserved
  <2>4. PluginRetained(g) = {} /\ PluginReserved(g) = {}
    BY <2>2, <2>3, Counted
  <2>5. ASSUME NEW o \in Ops, Owing(call[o]) PROVE PluginOf(call[o].pool) # g
    BY <2>4, <2>5 DEF PluginRetained, PluginReserved, Owing
  <2>6. \A h \in Plugins : h # g => plugin'[h] = plugin[h]
    BY <2>1 DEF Shape
  <2>7. \A o \in Ops : PluginOf(call[o].pool) \in Plugins
    BY ConstantFacts DEF Shape, Call
  <2>8. \A o \in Ops : Owing(call[o]) => plugin'[PluginOf(call[o].pool)].state # "absent"
    BY <2>5, <2>6, <2>7 DEF Registered
  <2> QED BY <1>1, <2>1, <2>8 DEF Registered, Registering, Needing, Owing
<1>3. ASSUME ~\E g \in Plugins : forget_plugin(g) PROVE Registers
  <2>1. \A p \in Pools : Registering(p) => pool'[p].state \in {"open", "closed"}
    <3>1. pool \in [Pools -> PoolShape]
      BY DEF Shape
    <3>2. ASSUME NEW q \in Pools, register_pool(q) \/ close_pool(q), NEW p \in Pools, Registering(p)
          PROVE  pool'[p].state \in {"open", "closed"}
      BY <3>1, <3>2 DEF register_pool, close_pool, PoolShape, Registering
    <3>3. ASSUME NEW g \in Plugins, close_plugin(g), NEW p \in Pools, Registering(p)
          PROVE  pool'[p].state \in {"open", "closed"}
      BY <3>1, <3>3 DEF close_plugin, PoolShape, Registering
    <3>4. ASSUME request_close \/ exit_worker PROVE pool' = pool
      BY <3>4 DEF request_close, exit_worker
    <3> QED BY <1>3, <3>2, <3>3, <3>4 DEF HostStep, Registering
  <2>2. \A g \in Plugins : plugin[g].state # "absent" => plugin'[g].state # "absent"
    <3>1. plugin \in [Plugins -> PluginShape]
      BY DEF Shape
    <3>2. ASSUME NEW q \in Pools, register_pool(q) \/ close_pool(q) PROVE plugin' = plugin
      BY <3>2 DEF register_pool, close_pool
    <3>3. ASSUME NEW g \in Plugins, close_plugin(g), NEW h \in Plugins, plugin[h].state # "absent"
          PROVE  plugin'[h].state # "absent"
      BY <3>1, <3>3 DEF close_plugin, PluginShape
    <3>4. ASSUME request_close \/ exit_worker PROVE plugin' = plugin
      BY <3>4 DEF request_close, exit_worker
    <3> QED BY <1>3, <3>2, <3>3, <3>4 DEF HostStep
  <2> QED BY <1>1, <2>1, <2>2, QuietRegisters DEF Registers
<1> QED BY <1>2, <1>3, RegistersKeeps

LEMMA EnqueueRegisters ==
  ASSUME Shape, Owning, Registered, NEW p \in Pools, NEW kind \in {"invoke", "prewarm", "open", "session"},
         NEW owner \in Ops \cup {0}, NEW r \in {0, 1}, CanEnqueue(p, r), enqueue(kind, p, owner, r),
         \A s \in Ops : session'[s].state = "kept" =>
           (session[s].state = "kept" /\ session'[s].pool = session[s].pool) \/ session'[s].pool = p
  PROVE  Registered'
<1>1. PICK o : o = registry.next + r
  OBVIOUS
<1>2. Enqueued(kind, p, owner, r, o)
  BY <1>1, EnqueueEffect
<1>3. /\ o \in Ops /\ call'[o] = [Blank("queued", p) EXCEPT !.kind = kind, !.owner = owner]
      /\ r = 1 => call'[registry.next] = Blank("reserved", p)
      /\ \A x \in Ops : x # o /\ (x # registry.next \/ r = 0) => call'[x] = call[x]
  BY <1>2 DEF Enqueued
<1>4. call'[o].pool = p /\ (r = 1 => call'[registry.next].pool = p)
  BY <1>3, BlankTyped DEF Blank
<1>5. \A x \in Ops : call'[x] = call[x] \/ call'[x].pool = p
  BY <1>3, <1>4
<1>6. pool[p].state = "open" /\ plugin[PluginOf(p)].state = "open" /\ PluginOf(p) \in Plugins
  BY ConstantFacts DEF CanEnqueue
<1>7. \A q \in Pools : pool'[q].state = pool[q].state
  BY DEF enqueue, Shape, PoolShape
<1>8. \A g \in Plugins : plugin'[g].state = plugin[g].state
  BY DEF enqueue, Shape, PluginShape
<1>9. instance' = instance
  BY DEF enqueue
<1>10. \A x \in Ops : Needing(call'[x]) =>
         (Needing(call[x]) /\ call'[x].pool = call[x].pool) \/ pool'[call'[x].pool].state \in {"open", "closed"}
  BY <1>5, <1>6, <1>7
<1>11. \A x \in Ops : Owing(call'[x]) =>
         (Owing(call[x]) /\ call'[x].pool = call[x].pool) \/ plugin'[PluginOf(call'[x].pool)].state # "absent"
  BY <1>5, <1>6, <1>8
<1>12. Registers
  BY <1>6, <1>7, <1>8, <1>9, <1>10, <1>11 DEF Registers, Registering
<1> QED BY <1>12, RegistersKeeps

LEMMA AdmissionRegisters ==
  ASSUME Shape, Owning, Registered,
         \/ \E p \in Pools : submit(p) \/ prewarm_instance(p) \/ open_session(p)
         \/ \E s \in Ops : submit_session(s)
  PROVE  Registered'
<1>1. ASSUME NEW p \in Pools, submit(p) \/ prewarm_instance(p) PROVE Registered'
  BY <1>1, EnqueueRegisters DEF submit, prewarm_instance
<1>2. ASSUME NEW p \in Pools, open_session(p) PROVE Registered'
  <2>1. PICK r \in {0, 1} : r = IF Policy[p].finalizer THEN 1 ELSE 0
    OBVIOUS
  <2>2. PICK o, q : o = registry.next + r /\ q = [NoSession EXCEPT !.state = "kept", !.pool = p, !.lease = "raw", !.queued = 1,
                                      !.unfinished = 1, !.reservation = IF r = 1 THEN registry.next ELSE 0]
    OBVIOUS
  <2>3. /\ CanEnqueue(p, r) /\ enqueue("open", p, o, r) /\ session' = [session EXCEPT ![o] = q]
    BY <1>2, <2>1, <2>2 DEF open_session
  <2>4. q.pool = p
    BY <2>2 DEF NoSession
  <2>5. o \in Ops
    <3>1. registry.next \in Nat /\ registry.next >= 1
      BY DEF Shape
    <3>2. o <= LastOperation
      BY <2>2, <2>3 DEF CanEnqueue
    <3> QED BY <2>2, <3>1, <3>2, ConstantFacts DEF Ops
  <2>6. \A s \in Ops : session'[s] = session[s] \/ session'[s].pool = p
    BY <2>3, <2>4, <2>5 DEF Shape
  <2> QED BY <2>3, <2>5, <2>6, EnqueueRegisters
<1>3. ASSUME NEW s \in Ops, submit_session(s) PROVE Registered'
  <2>1. PICK p : p = session[s].pool
    OBVIOUS
  <2>2. /\ CanEnqueue(p, 0) /\ enqueue("session", p, s, 0)
        /\ session' = [session EXCEPT ![s].queued = @ + 1, ![s].unfinished = @ + 1]
    BY <1>3, <2>1 DEF submit_session
  <2>3. p \in Pools
    BY <2>1 DEF Shape, SessionShape
  <2>4. ASSUME NEW t \in Ops PROVE session'[t].state = session[t].state /\ session'[t].pool = session[t].pool
    BY <2>2 DEF Shape, SessionShape
  <2> QED BY <2>2, <2>3, <2>4, EnqueueRegisters
<1> QED BY <1>1, <1>2, <1>3


-----------------------------------------------------------------------------
(* Who holds a VM.  The steps that are not quiet hand one VM from its owner to a call or back, or *)
(* allocate one, and leave every other holder alone.                                              *)

Vacant(c) ==
  /\ c.pc \in {"free", "reserved", "done", "forgotten"} /\ c.owner = 0
  /\ c.lease = "none" /\ c.receipt = "none" /\ c.final = "none"
Keeps(a, b) == b.state = a.state /\ b.pool = a.pool /\ b.lease = a.lease /\ b.receipt = a.receipt

\* Only the call `o`, the session `s` and the instance `i` change what they hold.
Elsewhere(o, s, i) ==
  /\ \A x \in Ops : x # o => call'[x] = call[x] \/ (Vacant(call[x]) /\ Vacant(call'[x]) /\ call'[x].pc # "free")
  /\ \A t \in Ops : t # s => Keeps(session[t], session'[t])
  /\ \A t \in Ops : t # i => Keeps(instance[t], instance'[t])

\* The owner `w`, from `a` to `b`, gives its VM to the call `o`.
Gives(o, w, a, b) ==
  /\ a.state = "kept" /\ b.state = "kept" /\ b.pool = a.pool
  /\ a.lease # "none" /\ b.lease = "none" /\ a.receipt = "none" /\ b.receipt = "none"
  /\ call[o].lease = "none" /\ call[o].receipt = "none" /\ call[o].final = "none" /\ call'[o].pc # "free"
  /\ call'[o].lease = a.lease /\ call'[o].receipt = "none" /\ call'[o].pool = a.pool
  /\ call'[o].owner = w /\ call'[o].final # "ran"
\* The call `o` returns it.
Returns(o, w, a, b) ==
  /\ a.state = "kept" /\ b.state = "kept" /\ b.pool = a.pool
  /\ a.lease = "none" /\ b.lease # "none" /\ a.receipt = "none" /\ b.receipt = "none"
  /\ call[o].owner = w /\ call[o].pool = a.pool /\ call[o].final = "none" /\ call[o].receipt = "none"
  /\ b.lease = call[o].lease /\ b.lease # "raw" /\ Vacant(call'[o]) /\ call'[o].pc # "free"
\* The call `o` gets a VM of its own.
Allocates(o, p) ==
  LET a == instance[o]  b == instance'[o]
  IN /\ call[o].pc = "queued" /\ call[o].owner = 0 /\ call[o].pool = p
     /\ call[o].lease = "none" /\ call[o].receipt = "none" /\ call[o].final = "none"
     /\ call'[o].lease = "raw" /\ call'[o].receipt = "none" /\ call'[o].final = "none" /\ call'[o].pool = p
     /\ call'[o].pc = "running" /\ call'[o].owner \in {0, o}
     /\ Keeps(a, b) \/ (a.lease = "none" /\ a.receipt = "none" /\ b.lease = "none" /\ b.receipt = "none" /\ b.pool = p)

\* What select does when it dispatches `o`.
Dispatches(o, p) ==
  /\ Choice(o, p, PluginOf(p), SessionOf(o))
  /\ \A x \in Ops : call'[x] = call[x] \/ call'[x].pool = p
  /\ \A t \in Ops : session'[t].state = session[t].state /\ session'[t].pool = session[t].pool
  /\ \A t \in Ops : instance'[t].state = "kept" =>
       (instance[t].state = "kept" /\ instance'[t].pool = instance[t].pool) \/ instance'[t].pool = p
  /\ \/ \E w \in Ops : Elsewhere(o, w, 0) /\ Gives(o, w, session[w], session'[w])
     \/ \E w \in Ops : Elsewhere(o, 0, w) /\ Gives(o, w, instance[w], instance'[w])
     \/ Elsewhere(o, 0, o) /\ Allocates(o, p) /\ Allocatable(p)
     \/ /\ Elsewhere(o, 0, 0) /\ call'[o].lease = "none" /\ call'[o].receipt = "none" /\ call'[o].final = "none"
        /\ call'[o].pc = "cleaning"

LEMMA MarksKeeps ==
  ASSUME NEW a, NEW b, b = a \/ Marks(a, b), a \in Instance
  PROVE  Keeps(a, b)
  BY DEF Keeps, Marks, Instance

\* The other calls of a dispatch.
LEMMA TurnsElsewhere ==
  ASSUME Shape, Owning, NEW o \in Ops, call[o].pc = "queued", NEW p \in Pools, NEW n, n.pool = p, NEW r \in {0, 1}, Turns(o, p, n, r)
  PROVE  /\ \A x \in Ops : x # o => call'[x] = call[x] \/ (Vacant(call[x]) /\ Vacant(call'[x]) /\ call'[x].pc # "free")
         /\ \A x \in Ops : call'[x] = call[x] \/ call'[x].pool = p
<1>1. /\ call'[o] = n /\ \A x \in Ops : x # o /\ (r = 0 \/ x # registry.next) => call'[x] = call[x]
      /\ r = 1 => /\ registry.next \in Ops /\ registry.next # o /\ call'[registry.next] = Blank("reserved", p)
                  /\ call[registry.next].pc = "free"
  BY TurnsFacts
<1>2. r = 1 => Vacant(call[registry.next])
  BY <1>1, CallFacts, BlankTyped DEF CallOK, LivePcs, Shape, Call, Vacant
<1>3. r = 1 => Vacant(call'[registry.next]) /\ call'[registry.next].pc # "free" /\ call'[registry.next].pool = p
  BY <1>1, BlankTyped DEF Vacant
<1> QED BY <1>1, <1>2, <1>3


LEMMA SelectPasses ==
  ASSUME Shape, Owning, select
  PROVE  \/ \E o \in Ops, p \in Pools : Dispatches(o, p) /\ \E gone, how : Selected(o, gone, how)
         \/ \E gone \in SUBSET Ops : Scanned(gone)
<1>1. ASSUME NEW o \in Ops, NEW gone \in SUBSET Ops, NEW how \in {"session", "cached", "fresh", "reject"}, Selected(o, gone, how)
      PROVE  Dispatches(o, call[o].pool) /\ call[o].pool \in Pools
  <2>1. PICK p, g, s : p = call[o].pool /\ g = PluginOf(p) /\ s = SessionOf(o)
    OBVIOUS
  <2>2. Choice(o, p, g, s)
    BY <1>1, <2>1, ChoiceFacts DEF Selected
  <2>3. PICK r \in {0, 1} : r = Reserving(p, how)
    BY DEF Reserving
  <2>4. /\ p \in Pools /\ call[o].pc = "queued" /\ call[o].lease = "none" /\ call[o].receipt = "none" /\ call[o].final = "none"
        /\ s = 0 => call[o].owner = 0
        /\ s # 0 => s \in Ops /\ session[s].state = "kept" /\ session[s].pool = p /\ session[s].lease # "none"
        /\ instance[o].state = "none"
    BY <2>2 DEF Choice
  <2>5. \A t \in Ops : session[t] \in SessionShape /\ instance[t] \in Instance
    BY DEF Shape
  <2>6. \A t \in Ops : Keeps(session[t], session[t])
    BY DEF Keeps
  <2>7. gone \in SUBSET Kept(instance)
    BY <1>1 DEF Selected
  <2>8. CASE how = "session"
    <3>1. s # 0 /\ DispatchedSession(o, s, call'[o]) /\ instance' = Closing(instance, gone)
      BY <1>1, <2>2, <2>8, SessionDispatchEffect
    <3>2. PICK n : n = call'[o]
      OBVIOUS
    <3>3. Turns(o, p, n, 0) /\ Started(call[o], n, session[s].lease, s)
      BY <2>1, <3>1, <3>2 DEF DispatchedSession
    <3>4. /\ n.pool = p /\ n.pc = "running" /\ n.owner = s /\ n.lease = session[s].lease /\ n.receipt = "none" /\ n.final = "none"
      BY <2>1, <3>3 DEF Started
    <3>5. session' = [session EXCEPT ![s].lease = "none", ![s].active = o, ![s].queued = @ - 1]
      BY <3>1 DEF DispatchedSession
    <3>6. /\ \A t \in Ops : t # s => session'[t] = session[t]
          /\ session'[s] = [session[s] EXCEPT !.lease = "none", !.active = o, !.queued = @ - 1]
      BY <2>4, <3>1, <3>5 DEF Shape
    <3>7. PICK a, b : a = session[s] /\ b = session'[s]
      OBVIOUS
    <3>8. a \in SessionShape /\ OwnerOK(a) /\ b = [a EXCEPT !.lease = "none", !.active = o, !.queued = @ - 1]
      BY <2>4, <3>1, <3>6, <3>7, KeptFacts
    <3>9. /\ a.state = "kept" /\ a.pool = p /\ a.lease # "none" /\ a.receipt = "none"
          /\ b.state = a.state /\ b.pool = a.pool /\ b.lease = "none" /\ b.receipt = a.receipt
      BY <2>4, <3>1, <3>7, <3>8 DEF OwnerOK, SessionShape
    <3>10. Gives(o, s, session[s], session'[s])
      BY <2>4, <3>2, <3>4, <3>7, <3>9 DEF Gives
    <3>11. \A t \in Ops : instance'[t] = instance[t] \/ Marks(instance[t], instance'[t])
      BY <2>7, <3>1, ClosingMarks
    <3>12. \A t \in Ops : Keeps(instance[t], instance'[t])
      BY <2>5, <3>11, MarksKeeps
    <3>13. /\ \A x \in Ops : x # o => call'[x] = call[x] \/ (Vacant(call[x]) /\ Vacant(call'[x]) /\ call'[x].pc # "free")
           /\ \A x \in Ops : call'[x] = call[x] \/ call'[x].pool = p
      BY <2>4, <3>3, <3>4, TurnsElsewhere
    <3>14. Elsewhere(o, s, 0)
      BY <2>6, <3>6, <3>12, <3>13 DEF Elsewhere
    <3>15. \A t \in Ops : session'[t].state = session[t].state /\ session'[t].pool = session[t].pool
      BY <3>6, <3>7, <3>9
    <3> QED BY <2>1, <2>2, <2>4, <3>1, <3>10, <3>12, <3>13, <3>14, <3>15 DEF Dispatches, Keeps
  <2>9. CASE how = "cached"
    <3>1. s = 0 /\ \E i \in Ops : DispatchedCached(o, p, i, call'[o])
      BY <1>1, <2>2, <2>9, CachedDispatchEffect
    <3>2. PICK n : n = call'[o]
      OBVIOUS
    <3>3. PICK i \in Ops : DispatchedCached(o, p, i, n)
      BY <3>1, <3>2
    <3>4. /\ Turns(o, p, n, 0) /\ Started(call[o], n, instance[i].lease, i) /\ session' = session
          /\ instance[i].state = "kept" /\ instance[i].pool = p /\ instance[i].lease \in {"live", "worn"}
          /\ instance'[i] = [instance[i] EXCEPT !.active = o, !.lease = "none"]
          /\ \A t \in Ops : t # i => instance'[t] = instance[t] \/ Marks(instance[t], instance'[t])
      BY <3>3 DEF DispatchedCached
    <3>5. /\ n.pool = p /\ n.pc = "running" /\ n.owner = i /\ n.lease = instance[i].lease /\ n.receipt = "none" /\ n.final = "none"
      BY <2>1, <3>4 DEF Started
    <3>6. PICK a, b : a = instance[i] /\ b = instance'[i]
      OBVIOUS
    <3>7. a \in Instance /\ OwnerOK(a) /\ b = [a EXCEPT !.active = o, !.lease = "none"]
      BY <3>4, <3>6, KeptFacts
    <3>8. /\ a.state = "kept" /\ a.pool = p /\ a.lease # "none" /\ a.receipt = "none"
          /\ b.state = a.state /\ b.pool = a.pool /\ b.lease = "none" /\ b.receipt = a.receipt
      BY <3>4, <3>6, <3>7 DEF OwnerOK, Instance
    <3>9. Gives(o, i, instance[i], instance'[i])
      BY <2>4, <3>2, <3>5, <3>6, <3>8 DEF Gives
    <3>10. \A t \in Ops : t # i => Keeps(instance[t], instance'[t])
      BY <2>5, <3>4, MarksKeeps
    <3>11. /\ \A x \in Ops : x # o => call'[x] = call[x] \/ (Vacant(call[x]) /\ Vacant(call'[x]) /\ call'[x].pc # "free")
           /\ \A x \in Ops : call'[x] = call[x] \/ call'[x].pool = p
      BY <2>4, <3>4, <3>5, TurnsElsewhere
    <3>12. Elsewhere(o, 0, i)
      BY <2>6, <3>4, <3>10, <3>11 DEF Elsewhere
    <3>13. \A t \in Ops : instance'[t].state = instance[t].state /\ instance'[t].pool = instance[t].pool
      BY <3>6, <3>8, <3>10 DEF Keeps
    <3> QED BY <2>1, <2>2, <2>4, <3>4, <3>9, <3>11, <3>12, <3>13 DEF Dispatches
  <2>10. CASE how = "fresh"
    <3>1. s = 0 /\ DispatchedFresh(o, p, r, call'[o])
      BY <1>1, <2>2, <2>3, <2>10, FreshDispatchEffect
    <3>2. PICK n, w : n = call'[o] /\ w = IF Policy[p].reuse = "reusable" THEN o ELSE 0
      OBVIOUS
    <3>3. PICK k : k = IF r = 1 THEN registry.next ELSE 0
      OBVIOUS
    <3>4. /\ Turns(o, p, n, r) /\ Started(call[o], n, "raw", w) /\ session' = session
          /\ Policy[p].reuse = "reusable" =>
               instance'[o] = [NoInstance EXCEPT !.state = "kept", !.pool = p, !.active = o, !.reservation = k]
          /\ \A t \in Ops : t # o \/ ~(Policy[p].reuse = "reusable") => instance'[t] = instance[t] \/ Marks(instance[t], instance'[t])
      BY <3>1, <3>2, <3>3, Zenon DEF DispatchedFresh
    <3>5. /\ n.pool = p /\ n.pc = "running" /\ n.owner = w /\ n.lease = "raw" /\ n.receipt = "none" /\ n.final = "none"
      BY <2>1, <3>4 DEF Started
    <3>6. \A t \in Ops : t # o => Keeps(instance[t], instance'[t])
      BY <2>5, <3>4, MarksKeeps
    <3>7. PICK a, b : a = instance[o] /\ b = instance'[o]
      OBVIOUS
    <3>8. a = NoInstance
      BY <2>4, <3>7, KeptFacts DEF InstanceOK
    <3>9. Keeps(a, b) \/ (a.lease = "none" /\ a.receipt = "none" /\ b.lease = "none" /\ b.receipt = "none" /\ b.pool = p)
      <4>1. CASE Policy[p].reuse = "reusable"
        BY <3>4, <3>7, <3>8, <4>1 DEF NoInstance
      <4>2. CASE ~(Policy[p].reuse = "reusable")
        BY <2>5, <3>4, <3>7, <4>2, MarksKeeps
      <4> QED BY <4>1, <4>2
    <3>10. Allocates(o, p)
      BY <2>1, <2>4, <3>1, <3>2, <3>5, <3>7, <3>9 DEF Allocates
    <3>11. /\ \A x \in Ops : x # o => call'[x] = call[x] \/ (Vacant(call[x]) /\ Vacant(call'[x]) /\ call'[x].pc # "free")
           /\ \A x \in Ops : call'[x] = call[x] \/ call'[x].pool = p
      BY <2>4, <3>4, <3>5, TurnsElsewhere
    <3>12. Elsewhere(o, 0, o)
      BY <2>6, <3>4, <3>6, <3>11 DEF Elsewhere
    <3>13. \A t \in Ops : instance'[t].state = "kept" =>
             (instance[t].state = "kept" /\ instance'[t].pool = instance[t].pool) \/ instance'[t].pool = p
      BY <3>6, <3>7, <3>9 DEF Keeps
    <3>14. Allocatable(p)
      BY <1>1, <2>1, <2>10, PreparedFacts DEF Selected
    <3> QED BY <2>1, <2>2, <2>4, <3>4, <3>10, <3>11, <3>12, <3>13, <3>14 DEF Dispatches
  <2>11. CASE how = "reject"
    BY <1>1, <2>1, <2>2, <2>4, <2>5, <2>6, <2>7, <2>11, RejectDispatchEffect, ClosingMarks, MarksKeeps, TurnsElsewhere
       DEF Elsewhere, Dispatches, Keeps
  <2> QED BY <2>1, <2>4, <2>8, <2>9, <2>10, <2>11
<1> QED BY <1>1, SelectCases


\* What scheduling the closing operation `o` does.
Schedules(o, p) ==
  /\ call[o].pc = "reserved" /\ call[o].pool = p /\ call'[o].pool = p /\ call'[o].pc = "cleaning"
  /\ \A x \in Ops : x # o => call'[x] = call[x]
  /\ \A t \in Ops : session'[t].state = session[t].state /\ session'[t].pool = session[t].pool
  /\ \A t \in Ops : instance'[t].state = instance[t].state /\ instance'[t].pool = instance[t].pool
  /\ pool[p].active < Policy[p].running /\ plugin_active(PluginOf(p)) < Limits[PluginOf(p)].running
  /\ \/ \E w \in Ops : Elsewhere(o, w, 0) /\ Gives(o, w, session[w], session'[w]) /\ session[w].pool = p
     \/ \E w \in Ops : Elsewhere(o, 0, w) /\ Gives(o, w, instance[w], instance'[w]) /\ instance[w].pool = p
  /\ \E kind, w, r : Scheduled(kind, w, r) /\ r.pool = p

LEMMA ScheduledPasses ==
  ASSUME Shape, Owning, NEW kind \in ClosingKinds, NEW w \in Ops, NEW r, NEW o \in Ops, NEW n, r.reservation = o,
         r.pool \in Pools, call[o].pc = "reserved", call[o].pool = r.pool, Scheduling(kind, w, r, o, n),
         r.state = "kept", r.lease # "none", OwnerOK(r),
         NEW b, b.state = "kept", b.pool = r.pool, b.lease = "none", b.receipt = r.receipt
  PROVE  /\ call'[o].pool = r.pool /\ call'[o].pc = "cleaning" /\ \A x \in Ops : x # o => call'[x] = call[x]
         /\ Gives(o, w, r, b)
<1>1. /\ n \in Call /\ n.pc = "cleaning" /\ n.owner = w /\ n.pool = r.pool /\ n.lease = r.lease /\ n.final = "intent" /\ CallOK(n)
      /\ call' = [call EXCEPT ![o] = n]
  BY DEF Scheduling
<1>2. call'[o] = n /\ \A x \in Ops : x # o => call'[x] = call[x]
  BY <1>1 DEF Shape
<1>3. n.receipt = "none"
  BY <1>1 DEF CallOK
<1>4. call[o].lease = "none" /\ call[o].receipt = "none" /\ call[o].final = "none"
  BY CallFacts, BlankTyped DEF CallOK, LivePcs
<1>5. r.receipt = "none"
  BY DEF OwnerOK
<1> QED BY <1>1, <1>2, <1>3, <1>4, <1>5 DEF Gives

LEMMA SchedulePasses ==
  ASSUME Shape, Owning, NEW w \in Ops, schedule_session(w) \/ schedule_instance(w)
  PROVE  \E o \in Ops, p \in Pools : Schedules(o, p)
<1>1. \A t \in Ops : session[t] \in SessionShape /\ instance[t] \in Instance /\ Keeps(session[t], session[t]) /\ Keeps(instance[t], instance[t])
  BY DEF Shape, Keeps
<1>2. CASE schedule_session(w)
  <2>1. PICK r, q : r = session[w] /\ q = session'[w]
    OBVIOUS
  <2>2. /\ r.state = "kept" /\ r.lease # "none" /\ Plan(r.lease, r.pool) /\ Scheduled("closeSession", w, r) /\ instance' = instance
        /\ pool[r.pool].active < Policy[r.pool].running /\ plugin_active(PluginOf(r.pool)) < Limits[PluginOf(r.pool)].running
    BY <1>2, <2>1 DEF schedule_session, Finalizable
  <2>3. /\ r \in SessionShape /\ OwnerOK(r) /\ r.pool \in Pools /\ Policy[r.pool].finalizer
        /\ r.lease \in {"live", "worn"} /\ r.reservation # 0 /\ r.reservation \in Ops \cup {0}
    BY <2>1, <2>2, KeptFacts DEF OwnerOK, Plan, SessionShape
  <2>4. PICK o \in Ops : o = r.reservation /\ call[o].pc = "reserved" /\ call[o].pool = r.pool
    BY <2>1, <2>2, <2>3, ReservationFacts
  <2>5. PICK n : n = [Blank("cleaning", r.pool) EXCEPT !.kind = "closeSession", !.owner = w,
                        !.dispatched = TRUE, !.lease = r.lease, !.final = "intent"]
    OBVIOUS
  <2>6. "closeSession" \in ClosingKinds
    BY DEF ClosingKinds
  <2>7. Scheduling("closeSession", w, r, o, n)
    BY <2>2, <2>3, <2>4, <2>5, <2>6, ScheduledEffect
  <2>8. session' = [session EXCEPT ![w].reservation = 0, ![w].lease = "none", ![w].unfinished = 1,
                                   ![w].active = session[w].reservation]
    BY <1>2 DEF schedule_session
  <2>9. /\ \A t \in Ops : t # w => session'[t] = session[t]
        /\ q = [r EXCEPT !.reservation = 0, !.lease = "none", !.unfinished = 1, !.active = o]
    BY <2>1, <2>4, <2>8 DEF Shape
  <2>10. q.state = "kept" /\ q.pool = r.pool /\ q.lease = "none" /\ q.receipt = r.receipt
    BY <2>2, <2>3, <2>9 DEF SessionShape
  <2>11. /\ call'[o].pool = r.pool /\ call'[o].pc = "cleaning" /\ \A x \in Ops : x # o => call'[x] = call[x]
         /\ Gives(o, w, session[w], session'[w])
    BY <2>1, <2>2, <2>3, <2>4, <2>6, <2>7, <2>10, ScheduledPasses
  <2>12. Elsewhere(o, w, 0)
    BY <1>1, <2>2, <2>9, <2>11 DEF Elsewhere
  <2>13. \A t \in Ops : session'[t].state = session[t].state /\ session'[t].pool = session[t].pool
    BY <2>1, <2>2, <2>9, <2>10
  <2>14. Schedules(o, r.pool)
    BY <2>1, <2>2, <2>4, <2>11, <2>12, <2>13 DEF Schedules
  <2> QED BY <2>3, <2>14
<1>3. CASE schedule_instance(w)
  <2>1. PICK r, q : r = instance[w] /\ q = instance'[w]
    OBVIOUS
  <2>2. /\ r.state = "kept" /\ r.lease # "none" /\ Plan(r.lease, r.pool) /\ Scheduled("closeInstance", w, r) /\ session' = session
        /\ pool[r.pool].active < Policy[r.pool].running /\ plugin_active(PluginOf(r.pool)) < Limits[PluginOf(r.pool)].running
    BY <1>3, <2>1 DEF schedule_instance, Finalizable
  <2>3. /\ r \in Instance /\ OwnerOK(r) /\ r.pool \in Pools /\ Policy[r.pool].finalizer
        /\ r.lease \in {"live", "worn"} /\ r.reservation # 0 /\ r.reservation \in Ops \cup {0}
    BY <2>1, <2>2, KeptFacts DEF OwnerOK, Plan, Instance
  <2>4. PICK o \in Ops : o = r.reservation /\ call[o].pc = "reserved" /\ call[o].pool = r.pool
    BY <2>1, <2>2, <2>3, ReservationFacts
  <2>5. PICK n : n = [Blank("cleaning", r.pool) EXCEPT !.kind = "closeInstance", !.owner = w,
                        !.dispatched = TRUE, !.lease = r.lease, !.final = "intent"]
    OBVIOUS
  <2>6. "closeInstance" \in ClosingKinds
    BY DEF ClosingKinds
  <2>7. Scheduling("closeInstance", w, r, o, n)
    BY <2>2, <2>3, <2>4, <2>5, <2>6, ScheduledEffect
  <2>8. instance' = [instance EXCEPT ![w].reservation = 0, ![w].lease = "none", ![w].active = instance[w].reservation]
    BY <1>3 DEF schedule_instance
  <2>9. /\ \A t \in Ops : t # w => instance'[t] = instance[t]
        /\ q = [r EXCEPT !.reservation = 0, !.lease = "none", !.active = o]
    BY <2>1, <2>4, <2>8 DEF Shape
  <2>10. q.state = "kept" /\ q.pool = r.pool /\ q.lease = "none" /\ q.receipt = r.receipt
    BY <2>2, <2>3, <2>9 DEF Instance
  <2>11. /\ call'[o].pool = r.pool /\ call'[o].pc = "cleaning" /\ \A x \in Ops : x # o => call'[x] = call[x]
         /\ Gives(o, w, instance[w], instance'[w])
    BY <2>1, <2>2, <2>3, <2>4, <2>6, <2>7, <2>10, ScheduledPasses
  <2>12. Elsewhere(o, 0, w)
    BY <1>1, <2>2, <2>9, <2>11 DEF Elsewhere
  <2>13. \A t \in Ops : instance'[t].state = instance[t].state /\ instance'[t].pool = instance[t].pool
    BY <2>1, <2>2, <2>9, <2>10
  <2>14. Schedules(o, r.pool)
    BY <2>1, <2>2, <2>4, <2>11, <2>12, <2>13 DEF Schedules
  <2> QED BY <2>3, <2>14
<1> QED BY <1>2, <1>3

\* What publishing the call `o` does.
Publishes(o) ==
  /\ call[o].pc = "publishing" /\ call'[o].pool = call[o].pool /\ call'[o].pc = "done"
  /\ \A x \in Ops : x # o => call'[x] = call[x] \/ (call[x].pc = "reserved" /\ call'[x].pc = "forgotten" /\ call'[x].pool = call[x].pool)
  /\ \A t \in Ops : session'[t].state = session[t].state /\ session'[t].pool = session[t].pool
  /\ \A t \in Ops : instance'[t].state = "kept" => instance[t].state = "kept" /\ instance'[t].pool = instance[t].pool
  /\ \/ \E w \in Ops : Elsewhere(o, w, 0) /\ Returns(o, w, session[w], session'[w])
     \/ \E w \in Ops : Elsewhere(o, 0, w) /\ Returns(o, w, instance[w], instance'[w])
     \/ \E w \in Ops : /\ Elsewhere(o, 0, w) /\ instance[w].lease = "none" /\ instance[w].receipt = "none"
                       /\ instance'[w].lease = "none" /\ instance'[w].receipt = "none"
                       /\ call[o].lease = "none" /\ call[o].receipt = "none" /\ Vacant(call'[o])
     \/ Elsewhere(o, 0, 0) /\ call[o].lease = "none" /\ call[o].receipt = "none" /\ Vacant(call'[o])

LEMMA PublishPasses ==
  ASSUME Shape, Owning, Books, NEW o \in Ops, publish_completion(o)
  PROVE  Publishes(o)
<1>1. PICK p, s, i : p = call[o].pool /\ s = SessionOf(o) /\ i = InstanceOf(o)
  OBVIOUS
<1>2. PICK res : res = IF i # 0 /\ call[o].lease = "none" THEN {instance[i].reservation} \ {0} ELSE {}
  OBVIOUS
<1>3. Publishable(o, p, s, i)
  BY <1>1, PublishFacts DEF publish_completion
<1>4. Published(o, p, s, i, res)
  BY <1>2, <1>3, PublishEffect
<1>5. /\ call'[o] = Blank("done", p) /\ res \in SUBSET Ops
      /\ \A x \in res : call[x].pc = "reserved" /\ call'[x] = Blank("forgotten", p)
      /\ \A x \in Ops : x # o /\ x \notin res => call'[x] = call[x]
  BY <1>4 DEF Published
<1>6. /\ p \in Pools /\ call[o].pc = "publishing" /\ s \in Ops \cup {0} /\ i \in Ops \cup {0} /\ (s # 0 => i = 0)
      /\ call[o].lease # "none" => call[o].dispatched /\ call[o].lease \in {"live", "worn"}
      /\ s # 0 => session[s].state = "kept" /\ session[s].pool = p /\ (call[o].dispatched => session[s].active = o)
      /\ i # 0 => instance[i].state = "kept" /\ instance[i].pool = p /\ instance[i].active = o
  BY <1>3 DEF Publishable
<1>7. call[o].receipt = "none" /\ call[o].final = "none"
  BY <1>6, CallFacts DEF CallOK, LivePcs
<1>8. /\ call'[o].pc = "done" /\ call'[o].pool = p /\ Vacant(call'[o])
  BY <1>5, <1>6, BlankTyped DEF Vacant
<1>9. ASSUME NEW x \in res
      PROVE  /\ call[x].pc = "reserved" /\ call'[x].pc = "forgotten" /\ call'[x].pool = call[x].pool
             /\ Vacant(call[x]) /\ Vacant(call'[x])
  BY <1>2, <1>5, <1>6, <1>9, ReservationFacts, BlankTyped, CallFacts DEF Vacant, CallOK, LivePcs
<1>10. /\ \A x \in Ops : x # o => call'[x] = call[x] \/ (Vacant(call[x]) /\ Vacant(call'[x]) /\ call'[x].pc # "free")
       /\ \A x \in Ops : x # o => call'[x] = call[x] \/ (call[x].pc = "reserved" /\ call'[x].pc = "forgotten" /\ call'[x].pool = call[x].pool)
  BY <1>5, <1>9
<1>11. \A t \in Ops : Keeps(session[t], session[t]) /\ Keeps(instance[t], instance[t])
  BY DEF Keeps
<1>12. o # 0
  BY ConstantFacts
<1>13. CASE s # 0
  <2>1. s \in Ops
    BY <1>6, <1>13
  <2>2. /\ \A t \in Ops : t # s => session'[t] = session[t]
        /\ session'[s].state = "kept" /\ session'[s].pool = p /\ instance' = instance /\ SessionSettled(o, s)
    BY <1>3, <1>4, <2>1, PublishSession, BooksAreExact
  <2>3. PICK r, q : r = session[s] /\ q = session'[s]
    OBVIOUS
  <2>4. /\ r.state = "kept" /\ r.pool = p /\ q.state = "kept" /\ q.pool = p /\ q.receipt = r.receipt
        /\ q.lease = IF call[o].lease # "none" THEN call[o].lease ELSE r.lease
    BY <1>6, <1>13, <2>2, <2>3 DEF SessionSettled
  <2>5. \A t \in Ops : session'[t].state = session[t].state /\ session'[t].pool = session[t].pool
    BY <2>2, <2>3, <2>4
  <2>6. CASE call[o].lease # "none"
    <3>1. r.active = o /\ OwnerOK(r)
      BY <1>6, <1>13, <2>1, <2>3, <2>4, <2>6, KeptFacts
    <3>2. r.lease = "none" /\ r.receipt = "none"
      BY <1>12, <3>1 DEF OwnerOK
    <3>3. call[o].owner = s
      BY <1>1, <1>13 DEF SessionOf
    <3>4. Returns(o, s, session[s], session'[s])
      BY <1>1, <1>6, <1>7, <1>8, <2>3, <2>4, <2>6, <3>2, <3>3 DEF Returns
    <3>5. Elsewhere(o, s, 0)
      BY <1>10, <1>11, <2>2 DEF Elsewhere
    <3> QED BY <1>1, <1>6, <1>8, <1>10, <2>1, <2>2, <2>5, <3>4, <3>5 DEF Publishes
  <2>7. CASE call[o].lease = "none"
    BY <1>1, <1>6, <1>7, <1>8, <1>10, <1>11, <2>2, <2>3, <2>4, <2>5, <2>7 DEF Keeps, Elsewhere, Publishes
  <2> QED BY <2>6, <2>7
<1>14. CASE i # 0
  BY <1>1, <1>3, <1>4, <1>6, <1>7, <1>8, <1>10, <1>11, <1>12, <1>14, PublishInstance, KeptFacts DEF OwnerOK,
     Elsewhere, InstanceSettled, InstanceOf, Returns, Publishes, NoInstance
<1>15. CASE s = 0 /\ i = 0
  <2>1. session' = session /\ instance' = instance
    BY <1>1, <1>15 DEF publish_completion
  <2>2. call[o].lease = "none"
    <3>1. call[o].owner = 0
      BY <1>1, <1>15, CallFacts
    <3> QED BY <1>6, <1>7, <3>1, CallFacts DEF CallOK
  <2>3. Elsewhere(o, 0, 0)
    BY <1>10, <1>11, <2>1 DEF Elsewhere
  <2> QED BY <1>1, <1>6, <1>7, <1>8, <1>10, <2>1, <2>2, <2>3 DEF Publishes
<1> QED BY <1>13, <1>14, <1>15


-----------------------------------------------------------------------------
(* The registered pools and plugins, continued. *)

\* Steps that change no pool's and no plugin's state.
Standing ==
  /\ \A q \in Pools : pool'[q].state = pool[q].state
  /\ \A g \in Plugins : plugin'[g].state = plugin[g].state

LEMMA ScannedRegisters ==
  ASSUME Shape, Owning, Registered, NEW gone \in SUBSET Ops, Scanned(gone)
  PROVE  Registered'
BY ScanQuiet, QuietRegisters, RegistersKeeps DEF Scanned, Registers, Registering

LEMMA SelectStanding ==
  ASSUME Shape, NEW o \in Ops, NEW gone, NEW how, Selected(o, gone, how), NEW p \in Pools, p = call[o].pool
  PROVE  Standing
<1>1. PICK g : g = PluginOf(p)
  OBVIOUS
<1>2. g \in Plugins
  BY <1>1, ConstantFacts
<1>3. PICK r : plugin' = [plugin EXCEPT ![g].queued = @ - 1, ![g].reserved = @ + r]
  BY <1>1 DEF Selected, Dispatched
<1>4. pool' = [pool EXCEPT ![p].queued = @ - 1, ![p].active = IF how = "reject" THEN @ ELSE @ + 1]
  BY DEF Selected, Dispatched
<1>5. ASSUME NEW q \in Pools PROVE pool'[q].state = pool[q].state
  BY <1>4 DEF Shape, PoolShape
<1>6. ASSUME NEW h \in Plugins PROVE plugin'[h].state = plugin[h].state
  BY <1>2, <1>3 DEF Shape, PluginShape
<1> QED BY <1>5, <1>6 DEF Standing

LEMMA SelectRegisters ==
  ASSUME Shape, Owning, Registered, select
  PROVE  Registered'
BY SelectStanding, RegistersKeeps, SelectPasses, ScannedRegisters DEF Dispatches, Choice, Registers, Registering,
   Standing

LEMMA ScheduledStanding ==
  ASSUME Shape, NEW kind, NEW w, NEW r, r.pool \in Pools, Scheduled(kind, w, r)
  PROVE  Standing
<1>1. PICK p, g : p = r.pool /\ g = PluginOf(p)
  OBVIOUS
<1>2. p \in Pools /\ g \in Plugins
  BY <1>1, ConstantFacts
<1>3. /\ plugin' = [plugin EXCEPT ![g].reserved = @ - 1, ![g].operations = @ + 1]
      /\ pool' = [pool EXCEPT ![p].active = @ + 1]
  BY <1>1 DEF Scheduled
<1>4. ASSUME NEW h \in Plugins PROVE plugin'[h].state = plugin[h].state
  BY <1>2, <1>3 DEF Shape, PluginShape
<1>5. \A q \in Pools : pool'[q].state = pool[q].state
  BY <1>2, <1>3 DEF Shape, PoolShape
<1> QED BY <1>4, <1>5 DEF Standing

LEMMA ScheduleRegisters ==
  ASSUME Shape, Owning, Registered, NEW w \in Ops, schedule_session(w) \/ schedule_instance(w)
  PROVE  Registered'
BY SchedulePasses, ScheduledStanding, ConstantFacts, RegistersKeeps DEF Schedules, Gives, Registered, Owing, Standing,
   Registering, Registers

LEMMA PublishStanding ==
  ASSUME Shape, NEW o \in Ops, publish_completion(o)
  PROVE  Standing
<1>1. PICK p, g, c : p = call[o].pool /\ g = PluginOf(p) /\ pool' = (IF call[o].dispatched THEN [pool EXCEPT ![p].active = @ - 1] ELSE pool)
                     /\ plugin' = [plugin EXCEPT ![g].reserved = @ - c]
  BY DEF publish_completion
<1>2. p \in Pools /\ g \in Plugins
  BY <1>1, ConstantFacts DEF Shape, Call
<1> QED BY <1>1, <1>2 DEF Shape, PoolShape, PluginShape, Standing

LEMMA PublishRegisters ==
  ASSUME Shape, Owning, Books, Registered, NEW o \in Ops, publish_completion(o)
  PROVE  Registered'
BY PublishPasses, PublishStanding, RegistersKeeps DEF Publishes, Needing, Owing, LivePcs, Registers, Registering,
   Standing

LEMMA RejectRegisters ==
  ASSUME Shape, Owning, Registered, reject_expired
  PROVE  Registered'
<1>1. (\A o \in Ops : CallRefused(o) /\ SessionRefuses(o)) /\ instance' = instance
  BY RejectEffect
<1>2. /\ pool' = [p \in Pools |-> [pool[p] EXCEPT !.queued = @ - PoolTaken(Expired, p)]]
      /\ plugin' = [g \in Plugins |-> [plugin[g] EXCEPT !.queued = @ - PluginTaken(Expired, g)]]
  BY DEF reject_expired, Expired
<1>3. Standing
  BY <1>2 DEF Shape, PoolShape, PluginShape, Standing
<1>4. ASSUME NEW x \in Ops
      PROVE  /\ call'[x].pool = call[x].pool
             /\ Needing(call'[x]) => Needing(call[x])
             /\ Owing(call'[x]) => Owing(call[x])
  BY <1>1 DEF Expired, CallRefused, Needing, Owing, LivePcs
<1>5. \A t \in Ops : session'[t].state = session[t].state /\ session'[t].pool = session[t].pool
  BY <1>1 DEF SessionRefuses
<1>6. Registers
  BY <1>1, <1>3, <1>4, <1>5 DEF Registers, Registering, Standing
<1> QED BY <1>6, RegistersKeeps

\* Forgetting and resting give nothing new to own.
LEMMA RestsFewer ==
  ASSUME Shape, Rests
  PROVE  /\ \A t \in Ops : session'[t].state = "kept" => session[t].state = "kept" /\ session'[t].pool = session[t].pool
         /\ \A t \in Ops : instance'[t].state = "kept" => instance[t].state = "kept" /\ instance'[t].pool = instance[t].pool
         /\ \A x \in Ops : /\ call'[x].pool = call[x].pool
                           /\ Needing(call'[x]) => Needing(call[x])
                           /\ Owing(call'[x]) => Owing(call[x])
BY NoOwnerTyped, BlankTyped DEF Rests, NoSession, SessionRests, InstanceRests, Spent, Shape, Call, Needing, Owing,
   LivePcs

LEMMA RestsRegisters ==
  ASSUME Shape, Registered, Rests, Standing
  PROVE  Registered'
BY RestsFewer, RegistersKeeps DEF Registers, Registering, Standing

LEMMA UnreservedStanding ==
  ASSUME Shape, NEW ids, Unreserved(ids)
  PROVE  \A g \in Plugins : plugin'[g].state = plugin[g].state
  BY DEF Unreserved, Shape, PluginShape

LEMMA ForgetPoolRegisters ==
  ASSUME Shape, Owning, Books, Registered, NEW p \in Pools, forget_pool(p)
  PROVE  Registered'
<1>1. Rests
  BY ForgetPoolRests
<1>2. /\ pool[p].queued = 0 /\ pool[p].active = 0 /\ \A s \in Kept(session) : session[s].pool # p
      /\ \A i \in Kept(instance) \ Pruned : instance[i].pool # p
      /\ pool' = [pool EXCEPT ![p].state = "forgotten"]
      /\ instance' = [i \in Ops |-> IF i \in Pruned THEN NoInstance ELSE instance[i]] /\ session' = session
      /\ \E ids : Unreserved(ids)
  BY DEF forget_pool
<1>3. PoolQueued(p) \in SUBSET Ops /\ PoolActive(p) \in SUBSET Ops
  BY DEF PoolQueued, PoolActive
<1>4. Cardinality(PoolQueued(p)) = 0 /\ Cardinality(PoolActive(p)) = 0
  BY <1>2 DEF Books, PoolBooks
<1>5. PoolQueued(p) = {} /\ PoolActive(p) = {}
  BY <1>3, <1>4, Counted
<1>6. \A x \in Ops : Needing(call[x]) => call[x].pool # p
  BY <1>5 DEF PoolQueued, PoolActive, Needing
<1>7. \A q \in Pools : q # p => pool'[q] = pool[q]
  BY <1>2 DEF Shape
<1>8. \A g \in Plugins : plugin'[g].state = plugin[g].state
  BY <1>2, UnreservedStanding
<1>9. \A x \in Ops : session[x].pool \in Pools /\ instance[x].pool \in Pools /\ call[x].pool \in Pools
                     /\ PluginOf(call[x].pool) \in Plugins
  BY ConstantFacts DEF Shape, SessionShape, Instance, Call
<1>10. \A s \in Ops : session'[s].state = "kept" => pool'[session'[s].pool].state \in {"open", "closed"}
  BY <1>2, <1>7, <1>9 DEF Registered, Registering, Kept
<1>11. ASSUME NEW i \in Ops, instance'[i].state = "kept" PROVE pool'[instance'[i].pool].state \in {"open", "closed"}
  BY <1>2, <1>7, <1>9, <1>11, NoOwnerTyped DEF Registered, Registering, Kept
<1>12. \A x \in Ops : Needing(call'[x]) => pool'[call'[x].pool].state \in {"open", "closed"}
  BY <1>1, <1>6, <1>7, <1>9, RestsFewer DEF Registered, Registering
<1>13. \A x \in Ops : Owing(call'[x]) => plugin'[PluginOf(call'[x].pool)].state # "absent"
  BY <1>1, <1>8, <1>9, RestsFewer DEF Registered
<1> QED BY <1>10, <1>11, <1>12, <1>13 DEF Registered, Registering, Needing, Owing

LEMMA FinishMaintainRegisters ==
  ASSUME Shape, Owning, Books, Registered, finish_maintain
  PROVE  Registered'
BY FinishMaintainRests, BooksAreExact, UnreservedStanding, RestsRegisters DEF finish_maintain, Standing

LEMMA ForgetOneRegisters ==
  ASSUME Shape, Owning, Books, Registered, NEW o \in Ops, forget_operation(o) \/ forget_session(o)
  PROVE  Registered'
<1>1. Rests
  BY ForgetOperationRests, ForgetSessionRests, BooksAreExact
<1>2. pool' = pool /\ (plugin' = plugin \/ plugin' = [plugin EXCEPT ![PluginOf(call[o].pool)].operations = @ - 1])
  BY DEF forget_operation, forget_session
<1>3. PluginOf(call[o].pool) \in Plugins
  BY ConstantFacts DEF Shape, Call
<1>4. \A g \in Plugins : plugin'[g].state = plugin[g].state
  <2>1. CASE plugin' = plugin
    BY <2>1
  <2>2. CASE plugin' = [plugin EXCEPT ![PluginOf(call[o].pool)].operations = @ - 1]
    BY <1>3, <2>2 DEF Shape, PluginShape
  <2> QED BY <1>2, <2>1, <2>2
<1>5. Standing
  BY <1>2, <1>4 DEF Standing
<1> QED BY <1>1, <1>5, RestsRegisters

LEMMA RegisteredKept ==
  ASSUME Shape, Owning, Books, Registered, Next
  PROVE  Registered'
  BY NextCases, QuietStepRegisters, HostRegisters, SelectRegisters, FinishMaintainRegisters, RejectRegisters, AdmissionRegisters,
     ForgetPoolRegisters, ForgetOneRegisters, ScheduleRegisters, PublishRegisters


-----------------------------------------------------------------------------
(* No thread leaves too early. *)

\* The threads and the host's closing request through one step.
LEMMA ThreadSteps ==
  ASSUME Next
  PROVE  /\ closing => closing'
         /\ workers' = workers \/ Drained
         /\ supervisor' = supervisor \/ supervisor' # "exited" \/ Drained
<1>1. ASSUME QuietStep
      PROVE  closing' = closing /\ workers' = workers /\ (supervisor' = supervisor \/ supervisor' # "exited" \/ Drained)
  <2>1. ASSUME NEW o \in Ops, \/ invoke(o) \/ hold(o) \/ begin_finalization(o) \/ finish_finalization(o) \/ close_retained(o)
                              \/ fail_evidence(o) \/ expire_call(o) \/ retry_checkpoint(o) \/ retire(o) \/ close_session(o)
                              \/ \E result \in {"pending", "done", "failed"} : advance(o, result)
        PROVE  closing' = closing /\ workers' = workers /\ supervisor' = supervisor
    BY <2>1 DEF invoke, hold, begin_finalization, finish_finalization, close_retained, fail_evidence, expire_call,
       retry_checkpoint, retire, close_session, advance
  <2>2. ASSUME extend PROVE closing' = closing /\ workers' = workers /\ (supervisor' # "exited" \/ Drained)
    BY <2>2 DEF extend
  <2>3. ASSUME maintain PROVE closing' = closing /\ workers' = workers /\ supervisor' # "exited"
    BY <2>3 DEF maintain
  <2> QED BY <1>1, <2>1, <2>2, <2>3 DEF QuietStep
<1>2. ASSUME HostStep PROVE (closing => closing') /\ (workers' = workers \/ Drained) /\ supervisor' = supervisor
  <2>1. ASSUME NEW p \in Pools, register_pool(p) \/ close_pool(p) PROVE closing' = closing /\ workers' = workers /\ supervisor' = supervisor
    BY <2>1 DEF register_pool, close_pool
  <2>2. ASSUME NEW g \in Plugins, close_plugin(g) \/ forget_plugin(g) PROVE closing' = closing /\ workers' = workers /\ supervisor' = supervisor
    BY <2>2 DEF close_plugin, forget_plugin
  <2>3. ASSUME request_close PROVE closing' /\ workers' = workers /\ supervisor' = supervisor
    BY <2>3 DEF request_close
  <2>4. ASSUME exit_worker PROVE closing' = closing /\ Drained /\ supervisor' = supervisor
    BY <2>4 DEF exit_worker
  <2>5. CASE \/ \E p \in Pools : register_pool(p) \/ close_pool(p)
             \/ \E g \in Plugins : close_plugin(g) \/ forget_plugin(g)
    BY <2>1, <2>2, <2>5
  <2>6. CASE request_close
    BY <2>3, <2>6
  <2>7. CASE exit_worker
    BY <2>4, <2>7
  <2> QED BY <1>2, <2>5, <2>6, <2>7, Zenon DEF HostStep
<1>3. ASSUME select PROVE closing' = closing /\ workers' = workers /\ supervisor' = supervisor
  BY <1>3 DEF select
<1>4. ASSUME finish_maintain PROVE closing' = closing /\ workers' = workers /\ supervisor' # "exited"
  BY <1>4 DEF finish_maintain
<1>5. ASSUME reject_expired PROVE closing' = closing /\ workers' = workers /\ supervisor' # "exited"
  BY <1>5 DEF reject_expired
<1>6. ASSUME NEW p \in Pools, submit(p) \/ prewarm_instance(p) \/ open_session(p) \/ forget_pool(p)
      PROVE  closing' = closing /\ workers' = workers /\ supervisor' = supervisor
  BY <1>6 DEF submit, prewarm_instance, open_session, forget_pool, enqueue
<1>7. ASSUME NEW o \in Ops, submit_session(o) \/ forget_session(o) \/ forget_operation(o)
      PROVE  closing' = closing /\ workers' = workers /\ supervisor' = supervisor
  BY <1>7 DEF submit_session, forget_session, forget_operation, enqueue
<1>8. ASSUME NEW o \in Ops, schedule_session(o) \/ schedule_instance(o) \/ publish_completion(o)
      PROVE  closing' = closing /\ workers' = workers /\ supervisor' = supervisor
  BY <1>8 DEF schedule_session, schedule_instance, publish_completion, Scheduled
<1> QED BY <1>1, <1>2, <1>3, <1>4, <1>5, <1>6, <1>7, <1>8, NextCases

\* A drained runtime admits, runs and finalizes nothing more.
LEMMA DrainedStays ==
  ASSUME Shape, Owning, Books, Drained, Next
  PROVE  Drained'
<1>1. /\ closing /\ closing' /\ live = {} /\ (\A s \in Ops : session[s].state = "kept" => session[s].closed)
      /\ \A i \in Ops : instance[i].state # "kept"
  BY ThreadSteps DEF Drained, Kept
<1>2. \A o \in Ops : call[o].pc \notin LivePcs
  BY <1>1 DEF Owning, Tables
<1>3. SUFFICES /\ live' = {} /\ (\A s \in Ops : session'[s].state = "kept" => session'[s].closed)
               /\ \A i \in Ops : instance'[i].state # "kept"
  BY <1>1 DEF Drained, Kept
<1>4. ASSUME Quiet
      PROVE  /\ live' = {} /\ (\A s \in Ops : session'[s].state = "kept" => session'[s].closed)
             /\ \A i \in Ops : instance'[i].state # "kept"
  BY <1>1, <1>4 DEF Quiet, AgedSession, Aged
<1>6. CASE QuietStep \/ HostStep
  BY <1>4, <1>6, QuietSteps, HostSteps
<1>7. CASE select \/ (\E p \in Pools : submit(p) \/ prewarm_instance(p) \/ open_session(p)) \/ \E o \in Ops : submit_session(o)
  BY <1>1, <1>7 DEF select, submit, prewarm_instance, open_session, submit_session, CanEnqueue
<1>8. CASE finish_maintain
  <2>1. Rests
    BY <1>8, FinishMaintainRests, BooksAreExact
  <2>2. session' = [s \in Ops |->
          IF s \in Ended THEN [[session[s] EXCEPT !.retiring = FALSE] EXCEPT !.closed = TRUE, !.reservation = 0]
          ELSE [session[s] EXCEPT !.retiring = FALSE]]
    BY <1>8 DEF finish_maintain, Ended
  <2>3. ASSUME NEW s \in Ops, session'[s].state = "kept" PROVE session'[s].closed
    <3>1. session[s].closed /\ session[s] \in SessionShape
      BY <1>1, <2>1, <2>3, RestsFewer DEF Shape
    <3>2. \/ session'[s] = [[session[s] EXCEPT !.retiring = FALSE] EXCEPT !.closed = TRUE, !.reservation = 0]
          \/ session'[s] = [session[s] EXCEPT !.retiring = FALSE]
      BY <2>2
    <3> QED BY <3>1, <3>2 DEF SessionShape
  <2> QED BY <1>1, <2>1, <2>3, RestsFewer DEF Rests
<1>9. CASE reject_expired
  BY <1>1, <1>9, RejectEffect DEF SessionRefuses
<1>10. CASE \E p \in Pools : forget_pool(p)
  BY <1>1, <1>10, ForgetPoolRests, RestsFewer DEF forget_pool, Rests
<1>11. CASE \E o \in Ops : forget_session(o) \/ forget_operation(o)
  BY <1>1, <1>11, ForgetOperationRests, ForgetSessionRests, BooksAreExact, RestsFewer DEF forget_session,
     forget_operation, NoSession, Shape, Rests
<1>12. CASE \E o \in Ops : schedule_session(o) \/ schedule_instance(o)
  BY <1>1, <1>12, SchedulePasses, KeptFacts DEF Schedules, Gives, SessionOK
<1>13. CASE \E o \in Ops : publish_completion(o)
  BY <1>2, <1>13 DEF publish_completion, LivePcs
<1> QED BY <1>6, <1>7, <1>8, <1>9, <1>10, <1>11, <1>12, <1>13, NextCases

Threads == supervisor = "exited" \/ workers < Workers => Drained

LEMMA ThreadsKept ==
  ASSUME Shape, Owning, Books, Threads, Next
  PROVE  Threads'
BY DrainedStays, ThreadSteps DEF Threads

\* What is registered and owned is what OwnersRetained asks for.
LEMMA RegisteredRetains ==
  ASSUME Structure, Registered, Threads
  PROVE  OwnersRetained
BY KeptFacts, CallFacts DEF Structure, Owning, Tables, Kept, OwnerOK, Plan, Registered, Registering, Shape, Needing,
   CallOwned, Retained, In, Owing, LivePcs, Call, OwnersRetained, Threads


-----------------------------------------------------------------------------
(* The VMs of a pool through a step. *)

\* `r` has a VM of the pool `q`, or one that is not destroyed yet.
Holds(r, q) == r.pool = q /\ (r.lease # "none" \/ r.receipt = "pending")
CallsHolding(q) == {o \in Ops : Holds(call[o], q)}
SessionsHolding(q) == {o \in Ops : Holds(session[o], q)}
InstancesHolding(q) == {o \in Ops : Holds(instance[o], q)}

LEMMA ResidentCount ==
  ASSUME NEW q
  PROVE  /\ Resident(q) = Cardinality(CallsHolding(q)) + Cardinality(SessionsHolding(q)) + Cardinality(InstancesHolding(q))
         /\ Resident(q)' = Cardinality(CallsHolding(q)') + Cardinality(SessionsHolding(q)') + Cardinality(InstancesHolding(q)')
         /\ CallsHolding(q) \in SUBSET Ops /\ SessionsHolding(q) \in SUBSET Ops /\ InstancesHolding(q) \in SUBSET Ops
         /\ CallsHolding(q)' \in SUBSET Ops /\ SessionsHolding(q)' \in SUBSET Ops /\ InstancesHolding(q)' \in SUBSET Ops
BY DEF Resident, CallsHolding, SessionsHolding, InstancesHolding, Holds

LEMMA ResidentNat ==
  ASSUME NEW q
  PROVE  /\ Resident(q) \in Nat /\ Resident(q)' \in Nat
         /\ Cardinality(CallsHolding(q)) \in Nat /\ Cardinality(SessionsHolding(q)) \in Nat
         /\ Cardinality(InstancesHolding(q)) \in Nat
         /\ Cardinality(CallsHolding(q)') \in Nat /\ Cardinality(SessionsHolding(q)') \in Nat
         /\ Cardinality(InstancesHolding(q)') \in Nat
BY ResidentCount, Counted

\* What the change of one record means for a pool's VMs.
Change(a, b, q) == One(Holds(b, q)) - One(Holds(a, q))

LEMMA ElsewhereResident ==
  ASSUME NEW o \in Ops, NEW s \in Ops \cup {0}, NEW i \in Ops \cup {0}, Elsewhere(o, s, i), NEW q
  PROVE  Resident(q)' = Resident(q) + Change(call[o], call'[o], q)
                          + (IF s = 0 THEN 0 ELSE Change(session[s], session'[s], q))
                          + (IF i = 0 THEN 0 ELSE Change(instance[i], instance'[i], q))
<1>1. Cardinality(CallsHolding(q)') = Cardinality(CallsHolding(q)) + Change(call[o], call'[o], q)
  BY ResidentCount, CountStep, ResidentNat DEF Elsewhere, Vacant, CallsHolding, Holds, Change, One
<1>2. Cardinality(SessionsHolding(q)') = Cardinality(SessionsHolding(q)) + (IF s = 0 THEN 0 ELSE Change(session[s], session'[s], q))
  <2>1. \A x \in Ops : x # s => (x \in SessionsHolding(q)' <=> x \in SessionsHolding(q))
    BY DEF Elsewhere, Keeps, SessionsHolding, Holds
  <2>2. CASE s = 0
    <3>1. SessionsHolding(q)' = SessionsHolding(q)
      BY <2>1, <2>2, ConstantFacts, ResidentCount
    <3>2. Cardinality(SessionsHolding(q)') = Cardinality(SessionsHolding(q))
      BY <3>1, Zenon
    <3> QED BY <2>2, <3>2, ResidentNat
  <2>3. CASE s # 0
    BY <2>1, <2>3, ResidentCount, CountStep, ResidentNat DEF SessionsHolding, Holds, Change, One
  <2> QED BY <2>2, <2>3
<1>3. Cardinality(InstancesHolding(q)') = Cardinality(InstancesHolding(q)) + (IF i = 0 THEN 0 ELSE Change(instance[i], instance'[i], q))
  <2>1. \A x \in Ops : x # i => (x \in InstancesHolding(q)' <=> x \in InstancesHolding(q))
    BY DEF Elsewhere, Keeps, InstancesHolding, Holds
  <2>2. CASE i = 0
    <3>1. InstancesHolding(q)' = InstancesHolding(q)
      BY <2>1, <2>2, ConstantFacts, ResidentCount
    <3>2. Cardinality(InstancesHolding(q)') = Cardinality(InstancesHolding(q))
      BY <3>1, Zenon
    <3> QED BY <2>2, <3>2, ResidentNat
  <2>3. CASE i # 0
    BY <2>1, <2>3, ResidentCount, CountStep, ResidentNat DEF InstancesHolding, Holds, Change, One
  <2> QED BY <2>2, <2>3
<1>4. /\ Change(call[o], call'[o], q) \in Int
      /\ (IF s = 0 THEN 0 ELSE Change(session[s], session'[s], q)) \in Int
      /\ (IF i = 0 THEN 0 ELSE Change(instance[i], instance'[i], q)) \in Int
  BY DEF Change, One
<1> QED BY <1>1, <1>2, <1>3, <1>4, ResidentCount, ResidentNat

\* Passing a VM on creates none.
Shrinks == \A q \in Pools : Resident(q)' <= Resident(q)
Grows(p) ==
  /\ Allocatable(p) /\ Resident(p)' = Resident(p) + 1
  /\ \A q \in Pools : q # p => Resident(q)' = Resident(q)

LEMMA PassesShrinks ==
  ASSUME NEW o \in Ops, NEW w \in Ops,
         \/ Elsewhere(o, w, 0) /\ (Gives(o, w, session[w], session'[w]) \/ Returns(o, w, session[w], session'[w]))
         \/ Elsewhere(o, 0, w) /\ (Gives(o, w, instance[w], instance'[w]) \/ Returns(o, w, instance[w], instance'[w]))
  PROVE  Shrinks
<1>0. w # 0
  BY ConstantFacts
<1>1. ASSUME NEW a, NEW b, Gives(o, w, a, b) \/ Returns(o, w, a, b), NEW q
      PROVE  Change(call[o], call'[o], q) + Change(a, b, q) = 0 /\ Change(a, b, q) \in Int /\ Change(call[o], call'[o], q) \in Int
  BY <1>1 DEF Gives, Change, One, Holds, Returns, Vacant
<1>2. ASSUME NEW q \in Pools PROVE Resident(q)' = Resident(q)
  <2>1. CASE Elsewhere(o, w, 0) /\ (Gives(o, w, session[w], session'[w]) \/ Returns(o, w, session[w], session'[w]))
    BY <1>0, <1>1, <2>1, ElsewhereResident, ResidentNat
  <2>2. CASE Elsewhere(o, 0, w) /\ (Gives(o, w, instance[w], instance'[w]) \/ Returns(o, w, instance[w], instance'[w]))
    <3>1. Resident(q)' = Resident(q) + Change(call[o], call'[o], q) + 0 + Change(instance[w], instance'[w], q)
      BY <1>0, <2>2, ElsewhereResident
    <3> QED BY <1>1, <2>2, <3>1, ResidentNat
  <2> QED BY <2>1, <2>2
<1> QED BY <1>2, ResidentNat DEF Shrinks

LEMMA AllocatesGrows ==
  ASSUME NEW o \in Ops, NEW p \in Pools, Elsewhere(o, 0, o), Allocates(o, p), Allocatable(p)
  PROVE  Grows(p)
BY ConstantFacts, ElsewhereResident, ResidentNat DEF Allocates, Change, One, Holds, Keeps, Grows


\* A step that leaves a VM where it is, or takes one without a pending finalizer from its holder.
CallHandled(a, b) ==
  /\ b.pool = a.pool /\ b.owner = a.owner /\ (b.pc = "free" <=> a.pc = "free") /\ (b.pc = "queued" <=> a.pc = "queued")
  /\ b.lease = a.lease \/ b.lease = "none"
  /\ b.final = "ran" => a.final = "ran"
  /\ (b.final # "ran" /\ Plan(b.lease, b.pool)) <=> (a.final # "ran" /\ Plan(a.lease, a.pool))
  /\ b.receipt = "pending" => a.receipt = "pending" \/ a.lease # "none"
OwnerHandled(a, b) ==
  /\ b.pool = a.pool /\ b.state = a.state
  /\ b.lease = a.lease \/ b.lease = "none"
  /\ Plan(b.lease, b.pool) <=> Plan(a.lease, a.pool)
  /\ b.receipt = "pending" => a.receipt = "pending" \/ a.lease # "none"
Handled ==
  /\ \A o \in Ops : CallHandled(call[o], call'[o])
  /\ \A o \in Ops : OwnerHandled(session[o], session'[o]) /\ OwnerHandled(instance[o], instance'[o])
  /\ finalized' = finalized

LEMMA SameHandled ==
  ASSUME NEW a, NEW b, b = a
  PROVE  CallHandled(a, b) /\ OwnerHandled(a, b)
  BY DEF CallHandled, OwnerHandled

\* Owners that are told to close.
LEMMA MarkHandled ==
  ASSUME NEW a, a \in SessionShape \/ a \in Instance, NEW b, b = a \/ b = [a EXCEPT !.closing = TRUE]
  PROVE  OwnerHandled(a, b)
  BY DEF OwnerHandled, SessionShape, Instance

LEMMA AdvanceHandled ==
  ASSUME NEW c \in Call, CallOK(c), c.pc = "supervised", NEW d, d = c \/ d = [c EXCEPT !.retry = "retrying"]
  PROVE  /\ CallHandled(c, [d EXCEPT !.pc = "held"]) /\ CallHandled(c, Attempted(d))
         /\ CallHandled(c, [Attempted(d) EXCEPT !.retry = "waiting"]) /\ CallHandled(c, Acknowledged(d))
BY DEF Call, CallOK, Plan, CallHandled, Attempted, Acknowledged

\* A worker's result and a finalizer's end are the only quiet steps that do more.
LEMMA QuietHandled ==
  ASSUME Shape, Owning, QuietStep
  PROVE  Handled \/ \E o \in Ops : invoke(o) \/ finish_finalization(o)
<1> SUFFICES ASSUME \A o \in Ops : ~invoke(o) /\ ~finish_finalization(o) PROVE Handled
  OBVIOUS
<1>0. call \in [Ops -> Call] /\ session \in [Ops -> SessionShape] /\ instance \in [Ops -> Instance]
  BY DEF Shape
<1>1. ASSUME NEW o \in Ops, NEW e, call' = [call EXCEPT ![o] = e], CallHandled(call[o], e), finalized' = finalized,
             \A x \in Ops : OwnerHandled(session[x], session'[x]) /\ OwnerHandled(instance[x], instance'[x])
      PROVE  Handled
  BY <1>0, <1>1, SameHandled DEF Handled
<1>2. ASSUME UNCHANGED <<session, instance>>
      PROVE  \A x \in Ops : OwnerHandled(session[x], session'[x]) /\ OwnerHandled(instance[x], instance'[x])
  BY <1>2, SameHandled
<1>3. ASSUME NEW o \in Ops, hold(o) \/ begin_finalization(o) PROVE Handled
  BY <1>0, <1>1, <1>2, <1>3 DEF hold, begin_finalization, CallHandled, Call
<1>4. ASSUME NEW o \in Ops, close_retained(o) PROVE Handled
  BY <1>0, <1>1, <1>4, MarkHandled DEF close_retained, MustClose, Call, CallHandled, Plan
<1>5. ASSUME NEW o \in Ops, fail_evidence(o) \/ expire_call(o) \/ retry_checkpoint(o) PROVE Handled
  BY <1>0, <1>1, <1>2, <1>5 DEF fail_evidence, expire_call, retry_checkpoint, CallHandled, Call
<1>6. ASSUME NEW o \in Ops, retire(o) PROVE Handled
  BY <1>0, <1>1, <1>2, <1>6, SameHandled DEF CallHandled, Call, OwnerHandled, SessionShape, Handled, Instance, retire
<1>7. ASSUME NEW o \in Ops, close_session(o) PROVE Handled
  BY <1>0, <1>7, MarkHandled, SameHandled DEF close_session, Handled
<1>8. ASSUME NEW o \in Ops, NEW result \in {"pending", "done", "failed"}, advance(o, result) PROVE Handled
  <2>1. PICK c, d : /\ c = call[o]
                    /\ d = IF c.retry = "requested" THEN [c EXCEPT !.retry = "retrying"] ELSE c
    OBVIOUS
  <2>2. c.pc = "supervised" /\ c \in Call /\ CallOK(c) /\ UNCHANGED <<session, instance, finalized>>
    BY <1>8, <2>1, CallFacts DEF advance
  <2>3. d = c \/ d = [c EXCEPT !.retry = "retrying"]
    BY <2>1
  <2>4. PICK e : e = CASE result = "pending" -> IF c.evidence THEN [d EXCEPT !.pc = "held"] ELSE Attempted(d)
                       [] result = "done" -> Acknowledged(d)
                       [] result = "failed" -> [Attempted(d) EXCEPT !.retry = "waiting"]
    OBVIOUS
  <2>5. call' = [call EXCEPT ![o] = e]
    BY <1>8, <2>1, <2>4 DEF advance
  <2>6. e \in {[d EXCEPT !.pc = "held"], Attempted(d), Acknowledged(d), [Attempted(d) EXCEPT !.retry = "waiting"]}
    BY <2>4
  <2>7. CallHandled(c, e)
    <3>1. /\ CallHandled(c, [d EXCEPT !.pc = "held"]) /\ CallHandled(c, Attempted(d))
          /\ CallHandled(c, [Attempted(d) EXCEPT !.retry = "waiting"]) /\ CallHandled(c, Acknowledged(d))
      BY <2>2, <2>3, AdvanceHandled
    <3> QED BY <2>6, <3>1, Zenon
  <2> QED BY <1>1, <1>2, <2>1, <2>2, <2>5, <2>7
<1>9. ASSUME extend PROVE Handled
  BY <1>0, <1>2, <1>9, SameHandled DEF extend, CallHandled, Call, Handled
<1>10. ASSUME maintain PROVE Handled
  <2>1. ASSUME NEW a, a \in SessionShape \/ a \in Instance, NEW b, Kills(a, b) PROVE OwnerHandled(a, b)
    BY <2>1 DEF Kills, SessionShape, Instance, OwnerHandled, Plan
  <2>2. ASSUME NEW a, a \in SessionShape \/ a \in Instance, NEW b, Marks(a, b) PROVE OwnerHandled(a, b)
    BY <2>2, MarkHandled DEF Marks
  <2>3. ASSUME NEW x \in Ops PROVE OwnerHandled(session[x], session'[x])
    BY <1>0, <1>10, <2>1, <2>2, MaintainEffect, SameHandled
  <2>4. ASSUME NEW x \in Ops PROVE OwnerHandled(instance[x], instance'[x])
    BY <1>0, <1>10, <2>1, <2>2, MaintainEffect, SameHandled
  <2>5. call' = call /\ finalized' = finalized
    BY <1>10, MaintainEffect
  <2> QED BY <2>3, <2>4, <2>5, SameHandled DEF Handled
<1> QED BY <1>3, <1>4, <1>5, <1>6, <1>7, <1>8, <1>9, <1>10, Zenon DEF QuietStep


\* A new call holds nothing.
Admitted(o, p, owner) ==
  /\ Vacant(call[o]) /\ call[o].pc = "free" /\ session[o] = NoSession /\ instance[o] = NoInstance
  /\ call'[o].pc = "queued" /\ call'[o].pool = p /\ call'[o].owner = owner
  /\ call'[o].lease = "none" /\ call'[o].receipt = "none" /\ call'[o].final = "none"
  /\ \A x \in Ops : x # o => call'[x] = call[x] \/ (Vacant(call[x]) /\ Vacant(call'[x]) /\ call'[x].pc # "free")
  /\ instance' = instance /\ finalized' = finalized

LEMMA FreeVacant ==
  ASSUME Shape, Owning, NEW x \in Ops, call[x].pc \in {"free", "reserved", "done", "forgotten"}
  PROVE  Vacant(call[x])
BY CallFacts, BlankTyped DEF CallOK, LivePcs, Call, Vacant

LEMMA EnqueueAdmits ==
  ASSUME Shape, Owning, NEW p \in Pools, NEW kind \in {"invoke", "prewarm", "open", "session"},
         NEW owner \in Ops \cup {0}, NEW r \in {0, 1}, CanEnqueue(p, r), enqueue(kind, p, owner, r),
         NEW o, o = registry.next + r
  PROVE  o \in Ops /\ Admitted(o, p, owner)
<1>1. Enqueued(kind, p, owner, r, o)
  BY EnqueueEffect
<1>2. /\ o \in Ops /\ o >= registry.next /\ registry.next \in Ops
      /\ call'[o] = [Blank("queued", p) EXCEPT !.kind = kind, !.owner = owner]
      /\ r = 1 => registry.next # o /\ call'[registry.next] = Blank("reserved", p)
      /\ \A x \in Ops : x # o /\ (x # registry.next \/ r = 0) => call'[x] = call[x]
  BY <1>1 DEF Enqueued
<1>3. registry.next >= registry.next
  BY <1>2, ConstantFacts
<1>4. call[o].pc = "free" /\ call[registry.next].pc = "free" /\ session[o] = NoSession /\ instance[o] = NoInstance
  BY <1>2, <1>3 DEF Owning, Fresh
<1>5. Vacant(call[o]) /\ Vacant(call[registry.next])
  BY <1>2, <1>4, FreeVacant
<1>6. r = 1 => Vacant(call'[registry.next]) /\ call'[registry.next].pc # "free"
  BY <1>2, BlankTyped DEF Vacant
<1>7. /\ call'[o].pc = "queued" /\ call'[o].pool = p /\ call'[o].owner = owner
      /\ call'[o].lease = "none" /\ call'[o].receipt = "none" /\ call'[o].final = "none"
  BY <1>2 DEF Blank
<1>8. instance' = instance /\ finalized' = finalized
  BY DEF enqueue
<1> QED BY <1>2, <1>4, <1>5, <1>6, <1>7, <1>8 DEF Admitted

\* A new session gets a VM that is not created yet.
Opens(o, p) ==
  /\ session'[o].lease = "raw" /\ session'[o].receipt = "none" /\ session'[o].pool = p /\ session'[o].state = "kept"
  /\ Allocatable(p)
Admission(o, p) ==
  \/ \E owner \in Ops \cup {0} : Admitted(o, p, owner) /\ Elsewhere(o, 0, 0)
  \/ Admitted(o, p, o) /\ Elsewhere(o, o, 0) /\ Opens(o, p)

LEMMA AdmissionPasses ==
  ASSUME Shape, Owning,
         \/ \E p \in Pools : submit(p) \/ prewarm_instance(p) \/ open_session(p)
         \/ \E s \in Ops : submit_session(s)
  PROVE  \E o \in Ops, p \in Pools : Admission(o, p)
<1>0. \A t \in Ops : Keeps(session[t], session[t]) /\ Keeps(instance[t], instance[t])
  BY DEF Keeps
<1>1. ASSUME NEW p \in Pools, submit(p) \/ prewarm_instance(p) PROVE \E o \in Ops : Admission(o, p)
  BY <1>0, <1>1, EnqueueAdmits DEF submit, prewarm_instance, Elsewhere, Admitted, Admission
<1>2. ASSUME NEW p \in Pools, open_session(p) PROVE \E o \in Ops : Admission(o, p)
  <2>1. PICK r \in {0, 1} : r = IF Policy[p].finalizer THEN 1 ELSE 0
    OBVIOUS
  <2>2. PICK o, k : o = registry.next + r /\ k = IF r = 1 THEN registry.next ELSE 0
    OBVIOUS
  <2>3. PICK q : q = [NoSession EXCEPT !.state = "kept", !.pool = p, !.lease = "raw", !.queued = 1,
                                      !.unfinished = 1, !.reservation = k]
    OBVIOUS
  <2>4. CanEnqueue(p, r) /\ enqueue("open", p, o, r) /\ session' = [session EXCEPT ![o] = q] /\ Allocatable(p)
    BY <1>2, <2>1, <2>2, <2>3 DEF open_session
  <2>5. registry.next \in Ops /\ o \in Ops
    BY <2>2, <2>4, ConstantFacts DEF Shape, CanEnqueue, Ops
  <2>6. k \in Ops \cup {0}
    BY <2>2, <2>5
  <2>7. Admitted(o, p, o)
    BY <2>2, <2>4, <2>5, EnqueueAdmits
  <2>8. SessionOpening(q, p, k)
    BY <2>3, <2>6, NewSession
  <2>9. session'[o] = q /\ \A t \in Ops : t # o => session'[t] = session[t]
    BY <2>4, <2>5 DEF Shape
  <2>10. Opens(o, p)
    BY <2>4, <2>8, <2>9 DEF Opens, SessionOpening
  <2>11. Elsewhere(o, o, 0)
    BY <1>0, <2>7, <2>9 DEF Elsewhere, Admitted
  <2> QED BY <2>5, <2>7, <2>10, <2>11 DEF Admission
<1>3. ASSUME NEW s \in Ops, submit_session(s) PROVE \E o \in Ops, p \in Pools : Admission(o, p)
  <2>1. PICK p : p = session[s].pool
    OBVIOUS
  <2>2. /\ CanEnqueue(p, 0) /\ enqueue("session", p, s, 0)
        /\ session' = [session EXCEPT ![s].queued = @ + 1, ![s].unfinished = @ + 1]
    BY <1>3, <2>1 DEF submit_session
  <2>3. p \in Pools
    BY <2>1 DEF Shape, SessionShape
  <2>4. ASSUME NEW t \in Ops PROVE Keeps(session[t], session'[t])
    BY <1>0, <2>2 DEF Shape, SessionShape, Keeps
  <2>5. PICK o : o = registry.next + 0
    OBVIOUS
  <2>6. o \in Ops /\ Admitted(o, p, s)
    BY <2>2, <2>3, <2>5, EnqueueAdmits
  <2>7. Elsewhere(o, 0, 0)
    BY <1>0, <2>4, <2>6 DEF Elsewhere, Admitted
  <2>8. Admission(o, p)
    BY <2>6, <2>7 DEF Admission
  <2> QED BY <2>3, <2>6, <2>8
<1> QED BY <1>1, <1>2, <1>3

LEMMA AdmissionResident ==
  ASSUME NEW o \in Ops, NEW p \in Pools, Admission(o, p)
  PROVE  Shrinks \/ Grows(p)
<1>0. o # 0
  BY ConstantFacts
<1>1. \A q, owner : Admitted(o, p, owner) => Change(call[o], call'[o], q) = 0
  BY DEF Admitted, Vacant, Change, One, Holds
<1>2. CASE \E owner : Admitted(o, p, owner) /\ Elsewhere(o, 0, 0)
  <2>1. ASSUME NEW q \in Pools PROVE Resident(q)' = Resident(q)
    BY <1>1, <1>2, ElsewhereResident, ResidentNat
  <2> QED BY <2>1, ResidentNat DEF Shrinks
<1>3. CASE Admitted(o, p, o) /\ Elsewhere(o, o, 0) /\ Opens(o, p)
  BY <1>0, <1>1, <1>3, ElsewhereResident, ResidentNat DEF Admitted, Opens, NoSession, Change, One, Holds, Grows
<1> QED BY <1>2, <1>3 DEF Admission

-----------------------------------------------------------------------------
(* Steps that create no VM. *)

Sheds(a, b) == \A q \in Pools : Holds(b, q) => Holds(a, q)

LEMMA ShedsShrinks ==
  ASSUME \A o \in Ops : Sheds(call[o], call'[o]) /\ Sheds(session[o], session'[o]) /\ Sheds(instance[o], instance'[o])
  PROVE  Shrinks
<1>1. ASSUME NEW q \in Pools PROVE Resident(q)' <= Resident(q)
  <2>1. /\ CallsHolding(q)' \in SUBSET CallsHolding(q) /\ SessionsHolding(q)' \in SUBSET SessionsHolding(q)
        /\ InstancesHolding(q)' \in SUBSET InstancesHolding(q)
    BY DEF Sheds, CallsHolding, SessionsHolding, InstancesHolding, Holds
  <2>2. /\ Cardinality(CallsHolding(q)') <= Cardinality(CallsHolding(q))
        /\ Cardinality(SessionsHolding(q)') <= Cardinality(SessionsHolding(q))
        /\ Cardinality(InstancesHolding(q)') <= Cardinality(InstancesHolding(q))
    BY <2>1, ResidentCount, CountLess
  <2> QED BY <2>2, ResidentCount, ResidentNat
<1> QED BY <1>1 DEF Shrinks

LEMMA HandledShrinks ==
  ASSUME Handled
  PROVE  Shrinks
BY ShedsShrinks DEF Handled, CallHandled, OwnerHandled, Sheds, Holds

LEMMA RestsShrinks ==
  ASSUME Shape, Rests
  PROVE  Shrinks
BY BlankTyped, ShedsShrinks DEF Sheds, Spent, Shape, Call, Holds, Rests, SessionRests, NoSession, InstanceRests,
   NoInstance


\* A worker's result leaves its VM "live", "worn" or without a holder.
Invokes(o, lease) ==
  /\ call[o].pc = "running" /\ call[o].final = "none" /\ call[o].lease # "none" /\ call'[o].pc = "cleaning"
  /\ call'[o].pool = call[o].pool /\ call'[o].owner = call[o].owner /\ call'[o].final # "ran"
  /\ \A x \in Ops : x # o => call'[x] = call[x]
  /\ call'[o].lease \in {"none", "live", "worn"}
  /\ Plan(call'[o].lease, call[o].pool) <=> Plan(lease, call[o].pool)
  /\ call[o].lease # "raw" /\ Policy[call[o].pool].finalizer => Plan(lease, call[o].pool)
  /\ \A x \in Ops : Keeps(session[x], session'[x]) /\ Keeps(instance[x], instance'[x])
  /\ finalized' = IF Plan(lease, call[o].pool) /\ finalized[VmOf(o)] = "raw"
                  THEN [finalized EXCEPT ![VmOf(o)] = "due"] ELSE finalized

\* Telling owners to close changes nothing of what they keep.
LEMMA ClosingKeeps ==
  ASSUME Shape, NEW s, NEW i,
         session' = session \/ session' = [session EXCEPT ![s].closing = TRUE],
         instance' = instance \/ instance' = [instance EXCEPT ![i].closing = TRUE]
  PROVE  \A x \in Ops : Keeps(session[x], session'[x]) /\ Keeps(instance[x], instance'[x])
<1>1. ASSUME NEW x \in Ops PROVE Keeps(session[x], session'[x])
  <2>1. PICK a, b : a = session[x] /\ b = session'[x]
    OBVIOUS
  <2>2. a \in SessionShape /\ (b = a \/ b = [a EXCEPT !.closing = TRUE])
    BY <2>1 DEF Shape
  <2>3. Keeps(a, b)
    BY <2>2 DEF SessionShape, Keeps
  <2> QED BY <2>1, <2>3
<1>2. ASSUME NEW x \in Ops PROVE Keeps(instance[x], instance'[x])
  <2>1. PICK a, b : a = instance[x] /\ b = instance'[x]
    OBVIOUS
  <2>2. a \in Instance /\ (b = a \/ b = [a EXCEPT !.closing = TRUE])
    BY <2>1 DEF Shape
  <2>3. Keeps(a, b)
    BY <2>2 DEF Instance, Keeps
  <2> QED BY <2>1, <2>3
<1> QED BY <1>1, <1>2

LEMMA InvokePasses ==
  ASSUME Shape, Owning, NEW o \in Ops, invoke(o)
  PROVE  \E lease : Invokes(o, lease)
<1>1. PICK out \in Outcomes(o) :
        LET ok == out[1]  lease == out[2]  p == call[o].pool
            s == SessionOf(o)  i == InstanceOf(o)
            plan == Plan(lease, p)
            final == call[o].owner = 0 /\ plan
            keep == call[o].owner # 0 /\ ((ok /\ lease = "live") \/ plan)
            lost == ~keep \/ ~ok \/ lease # "live"
        IN /\ call' = [call EXCEPT ![o].pc = "cleaning",
                                   ![o].lease = IF final \/ keep THEN lease ELSE "none",
                                   ![o].final = IF final THEN "intent" ELSE "none",
                                   ![o].receipt = IF final \/ keep THEN "none" ELSE Receipt(lease)]
           /\ session' = IF s # 0 /\ lost THEN [session EXCEPT ![s].closing = TRUE] ELSE session
           /\ instance' = IF i # 0 /\ lost THEN [instance EXCEPT ![i].closing = TRUE] ELSE instance
           /\ finalized' = IF plan /\ finalized[VmOf(o)] = "raw"
                           THEN [finalized EXCEPT ![VmOf(o)] = "due"] ELSE finalized
  BY DEF invoke
<1>2. PICK ok, lease, p : ok = out[1] /\ lease = out[2] /\ p = call[o].pool
  OBVIOUS
<1>3. PICK final, keep : /\ final = (call[o].owner = 0 /\ Plan(lease, p))
                         /\ keep = (call[o].owner # 0 /\ ((ok /\ lease = "live") \/ Plan(lease, p)))
  OBVIOUS
<1>4. PICK l, f, r : /\ l = (IF final \/ keep THEN lease ELSE "none") /\ f = (IF final THEN "intent" ELSE "none")
                     /\ r = (IF final \/ keep THEN "none" ELSE Receipt(lease))
  OBVIOUS
<1>5. call[o].pc = "running" /\ call[o] \in Call /\ CallOK(call[o])
  BY CallFacts DEF invoke
<1>6. call' = [call EXCEPT ![o] = [call[o] EXCEPT !.pc = "cleaning", !.lease = l, !.final = f, !.receipt = r]]
  BY <1>1, <1>2, <1>3, <1>4 DEF Shape
<1>7. /\ call'[o].pc = "cleaning" /\ call'[o].lease = l /\ call'[o].final = f
      /\ call'[o].pool = call[o].pool /\ call'[o].owner = call[o].owner
      /\ \A x \in Ops : x # o => call'[x] = call[x]
  BY <1>5, <1>6 DEF Shape, Call
<1>8. /\ call[o].lease # "raw" => lease \in {"live", IF Policy[p].finalizer THEN "worn" ELSE "dead"}
  <2>1. PICK used : used = IF Policy[p].finalizer THEN "worn" ELSE "dead"
    OBVIOUS
  <2>2. call[o].lease # "raw" => out \in {<<TRUE, "live">>, <<TRUE, used>>, <<FALSE, "live">>, <<FALSE, used>>}
    BY <1>2, <2>1 DEF Outcomes
  <2>3. ASSUME call[o].lease # "raw" PROVE lease \in {"live", used}
    <3>1. PICK b, k : k \in {"live", used} /\ out = <<b, k>>
      BY <2>2, <2>3
    <3> QED BY <1>2, <3>1
  <2> QED BY <2>1, <2>3
<1>9. Plan(lease, p) => lease \in {"live", "worn"}
  BY DEF Plan
<1>10. l \in {"none", "live", "worn"} /\ (Plan(l, p) <=> Plan(lease, p)) /\ f # "ran"
  BY <1>3, <1>4, <1>9 DEF Plan
<1>11. call[o].lease # "raw" /\ Policy[p].finalizer => Plan(lease, p)
  BY <1>8 DEF Plan
<1>12. /\ session' = session \/ session' = [session EXCEPT ![SessionOf(o)].closing = TRUE]
       /\ instance' = instance \/ instance' = [instance EXCEPT ![InstanceOf(o)].closing = TRUE]
  BY <1>1
<1>13. \A x \in Ops : Keeps(session[x], session'[x]) /\ Keeps(instance[x], instance'[x])
  BY <1>12, ClosingKeeps
<1>14. finalized' = IF Plan(lease, p) /\ finalized[VmOf(o)] = "raw" THEN [finalized EXCEPT ![VmOf(o)] = "due"] ELSE finalized
  BY <1>1, <1>2
<1>15. call[o].final = "none" /\ call[o].lease # "none"
  BY <1>5 DEF CallOK
<1> QED BY <1>2, <1>5, <1>7, <1>10, <1>11, <1>13, <1>14, <1>15 DEF Invokes

\* The finalizer ran.
Finishes(o) ==
  /\ call[o].pc = "closing" /\ call[o].final = "durable" /\ Plan(call[o].lease, call[o].pool)
  /\ call'[o].pc = "cleaning" /\ call'[o].final = "ran" /\ call'[o].lease = call[o].lease /\ call'[o].receipt = call[o].receipt
  /\ call'[o].pool = call[o].pool /\ call'[o].owner = call[o].owner
  /\ \A x \in Ops : x # o => call'[x] = call[x]
  /\ \A x \in Ops : Keeps(session[x], session'[x]) /\ Keeps(instance[x], instance'[x])
  /\ finalized' = [finalized EXCEPT ![VmOf(o)] = IF @ = "due" THEN "once" ELSE "again"]

LEMMA FinishPasses ==
  ASSUME Shape, Owning, NEW o \in Ops, finish_finalization(o)
  PROVE  Finishes(o)
BY CallFacts, ClosingKeeps DEF finish_finalization, Shape, Call, CallOK, Finishes

LEMMA KeepsSheds ==
  ASSUME NEW a, NEW b, Keeps(a, b)
  PROVE  Sheds(a, b)
  BY DEF Keeps, Sheds, Holds

LEMMA QuietShrinks ==
  ASSUME Shape, Owning, QuietStep
  PROVE  Shrinks
BY KeepsSheds, ShedsShrinks, QuietHandled, HandledShrinks, InvokePasses, FinishPasses DEF Invokes, Sheds, Holds,
   Finishes

\* A refused opening takes its session's VM along.
LEMMA RejectShrinks ==
  ASSUME Shape, Owning, reject_expired
  PROVE  Shrinks
<1>1. (\A o \in Ops : CallRefused(o) /\ SessionRefuses(o)) /\ instance' = instance
  BY RejectEffect
<1>2. ASSUME NEW q \in Pools PROVE Resident(q)' = Resident(q)
  <2> DEFINE M == {o \in Openings : session[o].lease # "none" /\ call[o].pool = q}
  <2>1. M \in SUBSET Ops
    BY DEF Openings, Expired, Shape
  <2>2. ASSUME NEW o \in M
        PROVE  /\ Holds(session[o], q) /\ ~Holds(session'[o], q) /\ Holds(call'[o], q) /\ ~Holds(call[o], q)
    <3>1. o \in Ops /\ o \in Openings /\ call[o].pc = "queued" /\ call[o].kind = "open"
      BY <2>1 DEF Openings, Expired
    <3>2. session[o].pool = call[o].pool /\ session[o].state = "kept"
      BY <3>1, OpeningFacts
    <3>3. OwnerOK(session[o]) /\ CallOK(call[o])
      BY <3>1, <3>2, KeptFacts, CallFacts
    <3>4. session[o].receipt = "none"
      BY <3>3 DEF OwnerOK
    <3>5. call[o].lease = "none" /\ call[o].receipt = "none"
      BY <3>1, <3>3 DEF CallOK
    <3>6. /\ call'[o].pool = call[o].pool /\ call'[o].lease = session[o].lease
          /\ session'[o].pool = session[o].pool /\ session'[o].lease = "none" /\ session'[o].receipt = session[o].receipt
      BY <1>1, <3>1 DEF CallRefused, SessionRefuses
    <3> QED BY <3>2, <3>4, <3>5, <3>6 DEF Holds
  <2>3. ASSUME NEW o \in Ops, o \notin M
        PROVE  (Holds(call'[o], q) <=> Holds(call[o], q)) /\ (Holds(session'[o], q) <=> Holds(session[o], q))
    <3>1. CASE o \notin Openings
      BY <1>1, <3>1 DEF CallRefused, SessionRefuses, Holds
    <3>2. CASE o \in Openings
      <4>1. call[o].pc = "queued" /\ call[o].kind = "open"
        BY <3>2 DEF Openings, Expired
      <4>2. session[o].pool = call[o].pool
        BY <4>1, OpeningFacts
      <4>3. call[o].pool # q \/ session[o].lease = "none"
        BY <2>3, <3>2
      <4>4. call[o].lease = "none"
        BY <4>1, CallFacts DEF CallOK
      <4>5. /\ call'[o].pool = call[o].pool /\ call'[o].lease = session[o].lease /\ call'[o].receipt = call[o].receipt
            /\ session'[o].pool = session[o].pool /\ session'[o].lease = "none" /\ session'[o].receipt = session[o].receipt
        BY <1>1, <3>2 DEF CallRefused, SessionRefuses
      <4> QED BY <4>2, <4>3, <4>4, <4>5 DEF Holds
    <3> QED BY <3>1, <3>2
  <2>4. /\ CallsHolding(q)' = CallsHolding(q) \cup M /\ CallsHolding(q) \cap M = {}
        /\ SessionsHolding(q)' = SessionsHolding(q) \ M /\ M \in SUBSET SessionsHolding(q)
    <3> HIDE DEF M
    <3>1. \A o \in Ops : /\ o \in CallsHolding(q)' <=> Holds(call'[o], q)
                         /\ o \in SessionsHolding(q)' <=> Holds(session'[o], q)
                         /\ o \in CallsHolding(q) <=> Holds(call[o], q)
                         /\ o \in SessionsHolding(q) <=> Holds(session[o], q)
      BY DEF CallsHolding, SessionsHolding, Holds
    <3> QED BY <2>1, <2>2, <2>3, <3>1, ResidentCount
  <2>5. InstancesHolding(q)' = InstancesHolding(q)
    BY <1>1 DEF InstancesHolding, Holds
  <2> HIDE DEF M
  <2>6. Cardinality(CallsHolding(q) \cup M) = Cardinality(CallsHolding(q)) + Cardinality(M)
    BY <2>1, <2>4, ResidentCount, CountUnion
  <2>7. Cardinality(SessionsHolding(q) \ M) = Cardinality(SessionsHolding(q)) - Cardinality(M)
    BY <2>4, ResidentCount, CountLess
  <2>8. /\ Cardinality(CallsHolding(q)') = Cardinality(CallsHolding(q) \cup M)
        /\ Cardinality(SessionsHolding(q)') = Cardinality(SessionsHolding(q) \ M)
        /\ Cardinality(InstancesHolding(q)') = Cardinality(InstancesHolding(q))
    BY <2>4, <2>5, Zenon
  <2>9. Cardinality(M) \in Nat
    BY <2>1, Counted
  <2> QED BY <2>6, <2>7, <2>8, <2>9, ResidentCount, ResidentNat
<1> QED BY <1>2, ResidentNat DEF Shrinks


\* The pools of a step that is neither the host's nor forgets a pool stay as they are.
SamePools == \A q \in Pools : pool'[q].state = pool[q].state

LEMMA EnqueueStands ==
  ASSUME Shape, NEW p \in Pools, NEW kind, NEW owner, NEW r, enqueue(kind, p, owner, r)
  PROVE  SamePools
BY DEF enqueue, Shape, PoolShape, SamePools

LEMMA AdmissionStands ==
  ASSUME Shape,
         \/ \E p \in Pools : submit(p) \/ prewarm_instance(p) \/ open_session(p)
         \/ \E s \in Ops : submit_session(s)
  PROVE  SamePools
BY EnqueueStands DEF submit, prewarm_instance, open_session, submit_session, Shape, SessionShape

\* Each step destroys VMs, moves them, or creates one where there is room.
LEMMA SelectResident ==
  ASSUME Shape, Owning, select
  PROVE  SamePools /\ (Shrinks \/ \E p \in Pools : Grows(p) /\ pool[p].state = "open")
<1>1. ASSUME NEW o \in Ops, NEW p \in Pools, Dispatches(o, p), NEW gone, NEW how, Selected(o, gone, how)
      PROVE  SamePools /\ (Shrinks \/ (Grows(p) /\ pool[p].state = "open"))
  BY <1>1, SelectStanding, ElsewhereResident, ResidentNat, AllocatesGrows, PassesShrinks DEF Dispatches, Choice,
     Standing, SamePools, Change, One, Holds, Shrinks
<1>2. ASSUME NEW gone \in SUBSET Ops, Scanned(gone) PROVE SamePools /\ Shrinks
  BY <1>2, ClosingMarks, MarksKeeps, KeepsSheds, ShedsShrinks DEF Scanned, Shape, Sheds, SamePools
<1> QED BY <1>1, <1>2, SelectPasses

LEMMA ScheduleResident ==
  ASSUME Shape, Owning, NEW w \in Ops, schedule_session(w) \/ schedule_instance(w)
  PROVE  SamePools /\ Shrinks
BY SchedulePasses, ScheduledStanding, PassesShrinks DEF Schedules, Standing, SamePools

LEMMA PublishResident ==
  ASSUME Shape, Owning, Books, NEW o \in Ops, publish_completion(o)
  PROVE  SamePools /\ Shrinks
<1>1. Publishes(o) /\ SamePools
  BY PublishPasses, PublishStanding DEF Standing, SamePools
<1>2. ASSUME call[o].lease = "none", call[o].receipt = "none", Vacant(call'[o])
      PROVE  \A q : Change(call[o], call'[o], q) = 0
  BY <1>2 DEF Change, One, Holds, Vacant
<1>3. CASE Elsewhere(o, 0, 0) /\ call[o].lease = "none" /\ call[o].receipt = "none" /\ Vacant(call'[o])
  BY <1>1, <1>2, <1>3, ElsewhereResident, ResidentNat DEF Shrinks
<1>4. ASSUME NEW w \in Ops, Elsewhere(o, 0, w), instance[w].lease = "none", instance[w].receipt = "none",
             instance'[w].lease = "none", instance'[w].receipt = "none",
             call[o].lease = "none", call[o].receipt = "none", Vacant(call'[o])
      PROVE  Shrinks
  <2>1. w # 0
    BY ConstantFacts
  <2>2. ASSUME NEW q \in Pools PROVE Resident(q)' = Resident(q) + Change(call[o], call'[o], q) + 0 + Change(instance[w], instance'[w], q)
    BY <1>4, <2>1, ElsewhereResident
  <2>3. \A q : Change(instance[w], instance'[w], q) = 0
    BY <1>4 DEF Change, One, Holds
  <2> QED BY <1>2, <1>4, <2>2, <2>3, ResidentNat DEF Shrinks
<1>5. CASE \E w \in Ops : \/ Elsewhere(o, w, 0) /\ Returns(o, w, session[w], session'[w])
                          \/ Elsewhere(o, 0, w) /\ Returns(o, w, instance[w], instance'[w])
  BY <1>1, <1>5, PassesShrinks
<1> QED BY <1>1, <1>3, <1>4, <1>5 DEF Publishes

LEMMA ResidentSteps ==
  ASSUME Shape, Owning, Books, Next
  PROVE  \/ SamePools /\ Shrinks
         \/ SamePools /\ \E p \in Pools : Grows(p) /\ pool[p].state = "open"
         \/ Shrinks /\ \E p \in Pools : forget_pool(p)
         \/ Shrinks /\ HostStep
<1>1. CASE QuietStep
  BY <1>1, CalmSteps, QuietShrinks DEF invoke, Calm, SamePools
<1>2. CASE HostStep
  BY <1>2, HostSteps, ShedsShrinks DEF Sheds
<1>3. CASE select
  BY <1>3, SelectResident
<1>4. CASE finish_maintain
  BY <1>4, FinishMaintainRests, BooksAreExact, RestsShrinks DEF finish_maintain, SamePools
<1>5. CASE reject_expired
  BY <1>5, RejectShrinks DEF reject_expired, Expired, Shape, PoolShape, SamePools
<1>6. CASE \/ \E p \in Pools : submit(p) \/ prewarm_instance(p) \/ open_session(p)
           \/ \E s \in Ops : submit_session(s)
  <2>1. SamePools
    BY <1>6, AdmissionStands
  <2>2. PICK o \in Ops, p \in Pools : Admission(o, p)
    BY <1>6, AdmissionPasses
  <2>3. ASSUME Grows(p), ~Shrinks PROVE pool[p].state = "open"
    <3>1. ASSUME NEW owner, NEW q, Admitted(o, q, owner) PROVE call'[o].pool = q /\ call[o].pc = "free" /\ call'[o].pc = "queued"
      BY <3>1 DEF Admitted
    <3>2. call'[o].pool = p /\ call[o].pc = "free" /\ call'[o].pc = "queued"
      BY <2>2, <3>1 DEF Admission
    <3>3. ASSUME NEW q \in Pools, NEW kind, NEW owner, NEW r, CanEnqueue(q, r), enqueue(kind, q, owner, r)
          PROVE  pool[p].state = "open"
      BY <3>2, <3>3 DEF enqueue, Blank, CanEnqueue
    <3>4. ASSUME NEW q \in Pools, submit(q) \/ prewarm_instance(q) \/ open_session(q) PROVE pool[p].state = "open"
      BY <3>3, <3>4 DEF submit, prewarm_instance, open_session
    <3>5. ASSUME NEW s \in Ops, submit_session(s) PROVE pool[p].state = "open"
      BY <3>3, <3>5 DEF submit_session, Shape, SessionShape
    <3> QED BY <1>6, <3>4, <3>5
  <2> QED BY <2>1, <2>2, <2>3, AdmissionResident
<1>7. CASE \E p \in Pools : forget_pool(p)
  BY <1>7, ForgetPoolRests, RestsShrinks
<1>8. CASE \E o \in Ops : forget_session(o) \/ forget_operation(o)
  BY <1>8, ForgetOperationRests, ForgetSessionRests, BooksAreExact, RestsShrinks DEF forget_operation, forget_session,
     SamePools
<1>9. CASE \E o \in Ops : schedule_session(o) \/ schedule_instance(o) \/ publish_completion(o)
  BY <1>9, ScheduleResident, PublishResident
<1> QED BY <1>1, <1>2, <1>3, <1>4, <1>5, <1>6, <1>7, <1>8, <1>9, NextCases


-----------------------------------------------------------------------------
(* The charges of a plugin's pools.  A pool is charged with its floor before its VMs exist, so  *)
(* the sum that admission compares with the plugin's limit is not the sum of the VMs.           *)

Charged ==
  /\ \A g \in Plugins : Charges(PoolsOf(g)) <= Limits[g].resident
  /\ \A p \in Pools : Resident(p) # 0 => Registering(p)
  /\ \A p \in Pools : Resident(p) <= Policy[p].resident

LEMMA GuaranteeNat ==
  ASSUME NEW q \in Pools
  PROVE  /\ Guarantee(q) \in Nat /\ Guarantee(q)' \in Nat /\ Resident(q) <= Guarantee(q)
  BY ResidentNat, ConstantFacts DEF Guarantee, Larger

LEMMA PoolsFinite ==
  ASSUME NEW g
  PROVE  /\ PoolsOf(g) \in SUBSET Pools /\ IsFiniteSet(PoolsOf(g))
         /\ PoolsOf(g)' \in SUBSET Pools /\ IsFiniteSet(PoolsOf(g)')
         /\ \A q \in Pools : /\ q \in PoolsOf(g) <=> PluginOf(q) = g /\ Registering(q)
                             /\ q \in PoolsOf(g)' <=> PluginOf(q) = g /\ pool'[q].state \in {"open", "closed"}
BY ConstantFacts, FS_Subset DEF PoolsOf, PluginOf, Registering

\* VMs go, pools close, and a pool is forgotten only without VMs.
Recedes ==
  \A q \in Pools :
    /\ pool'[q].state \in {"open", "closed"} => Registering(q)
    /\ pool[q].state = "closed" => pool'[q].state # "open"
    /\ Registering(q) /\ pool'[q].state \notin {"open", "closed"} => Resident(q) = 0

LEMMA ShrinkCharged ==
  ASSUME Shrinks, Recedes, Charged
  PROVE  Charged'
<1>1. ASSUME NEW q \in Pools, pool'[q].state \in {"open", "closed"} PROVE Guarantee(q)' <= Guarantee(q)
  BY <1>1, ResidentNat, ConstantFacts DEF Shrinks, Recedes, Guarantee, Larger
<1>2. ASSUME NEW g \in Plugins PROVE Charges(PoolsOf(g))' <= Limits[g].resident
  <2>1. PICK f, h : f = [q \in PoolsOf(g)' |-> Guarantee(q)'] /\ h = [q \in PoolsOf(g) |-> Guarantee(q)]
    OBVIOUS
  <2>2. PoolsOf(g)' \in SUBSET PoolsOf(g) /\ IsFiniteSet(PoolsOf(g))
    BY PoolsFinite DEF Recedes
  <2>3. f \in [PoolsOf(g)' -> Nat] /\ h \in [PoolsOf(g) -> Nat] /\ \A q \in PoolsOf(g)' : f[q] <= h[q]
    BY <1>1, <2>1, <2>2, PoolsFinite, GuaranteeNat
  <2>4. Total(f) \in Nat /\ Total(h) \in Nat /\ Total(f) <= Total(h)
    BY <2>2, <2>3, TotalFewer
  <2>5. Charges(PoolsOf(g))' = Total(f) /\ Charges(PoolsOf(g)) = Total(h)
    BY <2>1 DEF Charges
  <2> QED BY <2>4, <2>5, ConstantFacts DEF Charged
<1>3. ASSUME NEW q \in Pools
      PROVE  /\ Resident(q)' # 0 => pool'[q].state \in {"open", "closed"}
             /\ Resident(q)' <= Policy[q].resident
  BY ResidentNat, ConstantFacts DEF Shrinks, Charged, Recedes
<1> QED BY <1>2, <1>3 DEF Charged, Registering

LEMMA GrowCharged ==
  ASSUME NEW p \in Pools, Grows(p), SamePools, pool[p].state = "open", Charged
  PROVE  Charged'
<1>1. PICK g : g = PluginOf(p)
  OBVIOUS
<1>2. g \in Plugins /\ p \in PoolsOf(g) /\ IsFiniteSet(PoolsOf(g)) /\ Limits[g].resident \in Nat /\ Policy[p].floor \in Nat
  BY <1>1, ConstantFacts, PoolsFinite DEF Registering
<1>3. ASSUME NEW k PROVE PoolsOf(k)' = PoolsOf(k)
  BY DEF SamePools, PoolsOf, PluginOf, Registering
<1>4. ASSUME NEW q \in Pools, q # p PROVE Guarantee(q)' = Guarantee(q)
  BY <1>4 DEF Grows, SamePools, Guarantee
<1>5. /\ Resident(p) < Policy[p].resident /\ plugin_commitment(p) < Limits[g].resident /\ Resident(p)' = Resident(p) + 1
  BY <1>1 DEF Grows, Allocatable, plugin_allows_allocation
<1>6. PICK f, h, r : /\ f = [q \in PoolsOf(g) |-> Guarantee(q)'] /\ h = [q \in PoolsOf(g) |-> Guarantee(q)]
                     /\ r = [q \in PoolsOf(g) \ {p} |-> Guarantee(q)]
  OBVIOUS
<1>7. f \in [PoolsOf(g) -> Nat] /\ h \in [PoolsOf(g) -> Nat] /\ r \in [PoolsOf(g) \ {p} -> Nat]
  BY <1>6, GuaranteeNat, PoolsFinite
<1>8. (\A q \in PoolsOf(g) \ {p} : f[q] = r[q]) /\ (\A q \in PoolsOf(g) \ {p} : h[q] = r[q])
      /\ f[p] = Guarantee(p)' /\ h[p] = Guarantee(p)
  BY <1>2, <1>4, <1>6, PoolsFinite
<1>9. Total(f) = Total(r) + f[p] /\ Total(f) \in Nat /\ Total(r) \in Nat
  BY <1>2, <1>7, <1>8, TotalPart
<1>10. Total(h) = Total(r) + h[p] /\ Total(h) \in Nat
  <2>1. /\ IsFiniteSet(PoolsOf(g)) /\ p \in PoolsOf(g) /\ h \in [PoolsOf(g) -> Nat] /\ r \in [PoolsOf(g) \ {p} -> Nat]
        /\ \A q \in PoolsOf(g) \ {p} : h[q] = r[q]
    BY <1>2, <1>7, <1>8
  <2> QED BY ONLY <2>1, TotalPart
<1>11. Charges(PoolsOf(g))' = Total(f) /\ Charges(PoolsOf(g)) = Total(h) /\ Charges(PoolsOf(g) \ {p}) = Total(r)
  BY <1>3, <1>6 DEF Charges
<1>12. Resident(p) + Total(r) < Limits[g].resident
  BY <1>1, <1>5, <1>11 DEF plugin_commitment
<1>13. /\ Guarantee(p) = (IF Resident(p) >= Policy[p].floor THEN Resident(p) ELSE Policy[p].floor)
       /\ Guarantee(p)' = (IF Resident(p)' >= Policy[p].floor THEN Resident(p)' ELSE Policy[p].floor)
  BY DEF SamePools, Guarantee, Larger
<1>14. Charges(PoolsOf(g))' <= Limits[g].resident
  BY <1>2, <1>5, <1>8, <1>9, <1>10, <1>11, <1>12, <1>13, ResidentNat DEF Charged
<1>15. ASSUME NEW k \in Plugins, k # g PROVE Charges(PoolsOf(k))' <= Limits[k].resident
  BY <1>1, <1>3, <1>4, <1>15, PoolsFinite DEF Charges, Charged
<1>16. ASSUME NEW q \in Pools
       PROVE  /\ Resident(q)' # 0 => pool'[q].state \in {"open", "closed"}
              /\ Resident(q)' <= Policy[q].resident
  BY <1>5, ResidentNat, ConstantFacts DEF SamePools, Grows, Charged, Registering
<1> QED BY <1>14, <1>15, <1>16 DEF Charged, Registering

LEMMA RegisterCharged ==
  ASSUME Shape, NEW p \in Pools, register_pool(p), Charged, \A q \in Pools : Resident(q)' = Resident(q)
  PROVE  Charged'
<1>1. PICK g : g = PluginOf(p)
  OBVIOUS
<1>2. /\ pool[p].state = "absent" /\ pool' = [pool EXCEPT ![p].state = "open"]
      /\ Policy[p].floor + Charges(PoolsOf(g)) <= Limits[g].resident
  BY <1>1 DEF register_pool
<1>3. pool'[p].state = "open" /\ \A q \in Pools : q # p => pool'[q] = pool[q]
  BY <1>2 DEF Shape, PoolShape
<1>4. g \in Plugins /\ Policy[p].floor \in Nat /\ IsFiniteSet(PoolsOf(g)) /\ p \notin PoolsOf(g)
  BY <1>1, <1>2, ConstantFacts, PoolsFinite DEF Registering
<1>5. PoolsOf(g)' = PoolsOf(g) \cup {p} /\ \A k \in Plugins : k # g => PoolsOf(k)' = PoolsOf(k)
  BY <1>1, <1>3, PoolsFinite DEF Registering
<1>6. ASSUME NEW q \in Pools, q # p PROVE Guarantee(q)' = Guarantee(q)
  BY <1>3, <1>6 DEF Guarantee
<1>7. Guarantee(p)' = Policy[p].floor
  BY <1>2, <1>3, <1>4 DEF Charged, Registering, Guarantee, Larger
<1>8. PICK f, h : f = [q \in PoolsOf(g) \cup {p} |-> Guarantee(q)'] /\ h = [q \in PoolsOf(g) |-> Guarantee(q)]
  OBVIOUS
<1>9. /\ f \in [PoolsOf(g) \cup {p} -> Nat] /\ h \in [PoolsOf(g) -> Nat] /\ (\A q \in PoolsOf(g) : h[q] = f[q])
      /\ f[p] = Policy[p].floor
  BY <1>4, <1>6, <1>7, <1>8, GuaranteeNat, PoolsFinite
<1>10. Total(f) = Total(h) + f[p] /\ Total(h) \in Nat
  <2>1. /\ IsFiniteSet(PoolsOf(g)) /\ p \notin PoolsOf(g) /\ h \in [PoolsOf(g) -> Nat] /\ f \in [PoolsOf(g) \cup {p} -> Nat]
        /\ \A q \in PoolsOf(g) : h[q] = f[q]
    BY <1>4, <1>9
  <2>2. ASSUME NEW S, IsFiniteSet(S), NEW x, x \notin S, NEW a \in [S -> Nat], NEW b \in [S \cup {x} -> Nat], \A y \in S : a[y] = b[y]
        PROVE  Total(b) = Total(a) + b[x] /\ Total(a) \in Nat
    BY ONLY <2>2, TotalExtended
  <2>3. PICK S : S = PoolsOf(g)
    OBVIOUS
  <2>4. IsFiniteSet(S) /\ p \notin S /\ h \in [S -> Nat] /\ f \in [S \cup {p} -> Nat]
    BY <2>1, <2>3
  <2>5. \A y \in S : h[y] = f[y]
    BY <2>1, <2>3
  <2> QED BY ONLY <2>2, <2>4, <2>5
<1>11. Charges(PoolsOf(g))' = Total(f) /\ Charges(PoolsOf(g)) = Total(h)
  BY <1>5, <1>8 DEF Charges
<1>12. Charges(PoolsOf(g))' <= Limits[g].resident
  BY <1>2, <1>4, <1>9, <1>10, <1>11, ConstantFacts
<1>13. ASSUME NEW k \in Plugins, k # g PROVE Charges(PoolsOf(k))' <= Limits[k].resident
  BY <1>1, <1>5, <1>6, <1>13, PoolsFinite DEF Charges, Charged
<1>14. ASSUME NEW q \in Pools
       PROVE  /\ Resident(q)' # 0 => pool'[q].state \in {"open", "closed"}
              /\ Resident(q)' <= Policy[q].resident
  BY <1>3 DEF Charged, Registering
<1> QED BY <1>12, <1>13, <1>14 DEF Charged, Registering

LEMMA ChargedKept ==
  ASSUME Shape, Owning, Books, Charged, Next
  PROVE  Charged'
<1>1. CASE SamePools /\ Shrinks
  BY <1>1, ShrinkCharged DEF Recedes, SamePools, Registering
<1>2. CASE SamePools /\ \E p \in Pools : Grows(p) /\ pool[p].state = "open"
  BY <1>2, GrowCharged
<1>3. CASE Shrinks /\ \E p \in Pools : forget_pool(p)
  BY <1>3, ShrinkCharged DEF forget_pool, Shape, PoolShape, Recedes, Registering
<1>4. CASE Shrinks /\ HostStep
  <2>1. ASSUME NEW p \in Pools, register_pool(p) PROVE Charged'
    BY <1>4, <2>1, HostSteps, RegisterCharged DEF Resident
  <2>2. ASSUME NEW p \in Pools, close_pool(p) PROVE Recedes
    BY <2>2 DEF close_pool, Shape, PoolShape, Recedes, Registering
  <2>3. ASSUME NEW g \in Plugins, close_plugin(g) PROVE Recedes
    BY <2>3, PoolsFinite DEF close_plugin, Shape, PoolShape, Recedes, Registering
  <2>4. ASSUME (\E g \in Plugins : forget_plugin(g)) \/ request_close \/ exit_worker PROVE Recedes
    BY <2>4 DEF forget_plugin, request_close, exit_worker, Recedes, Registering
  <2> QED BY <1>4, <2>1, <2>2, <2>3, <2>4, ShrinkCharged DEF HostStep
<1> QED BY <1>1, <1>2, <1>3, <1>4, ResidentSteps


-----------------------------------------------------------------------------
(* The retained operations and their reservations. *)

Retains ==
  /\ registry.records + registry.reserved <= MaxOperations
  /\ \A g \in Plugins : plugin[g].operations + plugin[g].reserved <= Limits[g].operations

\* What the registry and each plugin retain does not grow.
Settles ==
  /\ registry'.records + registry'.reserved <= registry.records + registry.reserved
  /\ \A g \in Plugins : plugin'[g].operations + plugin'[g].reserved <= plugin[g].operations + plugin[g].reserved

\* The plugin `g` and the registry find room for `n` more.
Takes(g, n) ==
  /\ PluginRetains(g, n) /\ RegistryRetains(n)
  /\ registry'.records + registry'.reserved = registry.records + registry.reserved + n
  /\ plugin'[g].operations + plugin'[g].reserved = plugin[g].operations + plugin[g].reserved + n
  /\ \A h \in Plugins : h # g => plugin'[h] = plugin[h]

\* The counters are numbers before and after a step.
LEMMA LedgerNumbers ==
  ASSUME Shape
  PROVE  /\ registry.records \in Int /\ registry.reserved \in Int
         /\ \A g \in Plugins : plugin[g] \in PluginShape /\ plugin[g].operations \in Int /\ plugin[g].reserved \in Int
         /\ \A p \in Pools : pool[p] \in PoolShape /\ pool[p].active \in Int
  BY DEF Shape, PluginShape, PoolShape

LEMMA SettlesRetains ==
  ASSUME Shape, Shape', Retains, Settles
  PROVE  Retains'
<1>1. /\ registry'.records \in Int /\ registry'.reserved \in Int
      /\ \A g \in Plugins : plugin'[g].operations \in Int /\ plugin'[g].reserved \in Int
  BY DEF Shape, PluginShape
<1>2. registry'.records + registry'.reserved <= MaxOperations
  BY <1>1, LedgerNumbers, ConstantFacts DEF Retains, Settles
<1>3. ASSUME NEW g \in Plugins PROVE plugin'[g].operations + plugin'[g].reserved <= Limits[g].operations
  BY <1>1, LedgerNumbers, ConstantFacts DEF Retains, Settles
<1> QED BY <1>2, <1>3 DEF Retains

LEMMA TakesRetains ==
  ASSUME Shape, NEW g \in Plugins, NEW n \in Nat, Retains, Takes(g, n)
  PROVE  Retains'
BY LedgerNumbers, ConstantFacts DEF Takes, RegistryRetains, PluginRetains, Retains

LEMMA EnqueueTakes ==
  ASSUME Shape, NEW p \in Pools, NEW kind, NEW owner, NEW r \in {0, 1}, CanEnqueue(p, r), enqueue(kind, p, owner, r)
  PROVE  Takes(PluginOf(p), r + 1)
<1>1. PICK g \in Plugins : g = PluginOf(p)
  BY ConstantFacts
<1>2. /\ plugin' = [plugin EXCEPT ![g].queued = @ + 1, ![g].operations = @ + 1, ![g].reserved = @ + r]
      /\ registry'.records = registry.records + 1 /\ registry'.reserved = registry.reserved + r
  BY <1>1 DEF enqueue
<1>3. plugin \in [Plugins -> PluginShape]
  BY DEF Shape
<1>4. plugin'[g] = [plugin[g] EXCEPT !.queued = @ + 1, !.operations = @ + 1, !.reserved = @ + r]
  BY <1>2, <1>3 DEF PluginShape
<1>5. plugin'[g].operations = plugin[g].operations + 1 /\ plugin'[g].reserved = plugin[g].reserved + r
  BY <1>3, <1>4 DEF PluginShape
<1>6. \A h \in Plugins : h # g => plugin'[h] = plugin[h]
  BY <1>2, <1>3
<1>7. PluginRetains(g, r + 1) /\ RegistryRetains(r + 1)
  BY <1>1 DEF CanEnqueue
<1>8. registry.records \in Int /\ registry.reserved \in Int /\ plugin[g].operations \in Int /\ plugin[g].reserved \in Int
  BY LedgerNumbers
<1>9. /\ registry'.records + registry'.reserved = registry.records + registry.reserved + (r + 1)
      /\ plugin'[g].operations + plugin'[g].reserved = plugin[g].operations + plugin[g].reserved + (r + 1)
  BY <1>2, <1>5, <1>8
<1> QED BY <1>1, <1>6, <1>7, <1>9 DEF Takes

LEMMA AdmissionRetains ==
  ASSUME Shape, Retains,
         \/ \E p \in Pools : submit(p) \/ prewarm_instance(p) \/ open_session(p)
         \/ \E s \in Ops : submit_session(s)
  PROVE  Retains'
<1>1. ASSUME NEW p \in Pools, NEW kind, NEW owner, NEW r \in {0, 1}, CanEnqueue(p, r), enqueue(kind, p, owner, r)
      PROVE  Retains'
  BY <1>1, EnqueueTakes, ConstantFacts, TakesRetains
<1>2. ASSUME NEW p \in Pools, submit(p) \/ prewarm_instance(p) PROVE Retains'
  BY <1>1, <1>2 DEF submit, prewarm_instance
<1>3. ASSUME NEW p \in Pools, open_session(p) PROVE Retains'
  BY <1>1, <1>3 DEF open_session
<1>4. ASSUME NEW s \in Ops, submit_session(s) PROVE Retains'
  BY <1>1, <1>4 DEF submit_session, Shape, SessionShape
<1> QED BY <1>2, <1>3, <1>4

\* What a dispatch does to the counters.
Counts(p, how, r) ==
  /\ registry'.records = registry.records /\ registry'.reserved = registry.reserved + r
  /\ \A h \in Plugins : /\ plugin'[h].operations = plugin[h].operations
                        /\ plugin'[h].reserved = plugin[h].reserved + (IF h = PluginOf(p) THEN r ELSE 0)
                        /\ h # PluginOf(p) => plugin'[h] = plugin[h]
  /\ \A q \in Pools : pool'[q].active = pool[q].active + (IF q = p /\ how # "reject" THEN 1 ELSE 0)

LEMMA DispatchCounts ==
  ASSUME Shape, Owning, NEW o \in Ops, NEW gone, NEW how, Selected(o, gone, how), NEW p \in Pools,
         Choice(o, p, PluginOf(p), SessionOf(o)), NEW r \in {0, 1}, r = Reserving(p, how)
  PROVE  Counts(p, how, r)
<1>1. PICK g \in Plugins : g = PluginOf(p) /\ p = call[o].pool
  BY DEF Choice
<1>2. registry'.records = registry.records /\ registry'.reserved = registry.reserved + r
  BY <1>1, DispatchRest
<1>3. /\ pool' = [pool EXCEPT ![p].queued = @ - 1, ![p].active = IF how = "reject" THEN @ ELSE @ + 1]
      /\ plugin' = [plugin EXCEPT ![g].queued = @ - 1, ![g].reserved = @ + r]
  BY <1>1 DEF Selected, Dispatched, Reserving
<1>4. plugin \in [Plugins -> PluginShape] /\ pool \in [Pools -> PoolShape]
  BY DEF Shape
<1>5. ASSUME NEW h \in Plugins
      PROVE  /\ plugin'[h].operations = plugin[h].operations
             /\ plugin'[h].reserved = plugin[h].reserved + (IF h = g THEN r ELSE 0)
             /\ h # g => plugin'[h] = plugin[h]
  BY <1>3, <1>4 DEF PluginShape
<1>6. ASSUME NEW q \in Pools PROVE pool'[q].active = pool[q].active + (IF q = p /\ how # "reject" THEN 1 ELSE 0)
  BY <1>3, <1>4 DEF PoolShape
<1> QED BY <1>1, <1>2, <1>5, <1>6 DEF Counts

LEMMA SelectRetains ==
  ASSUME Shape, Owning, Shape', Retains, select
  PROVE  Retains'
<1>1. ASSUME NEW o \in Ops, NEW p \in Pools, Dispatches(o, p), NEW gone, NEW how, Selected(o, gone, how) PROVE Retains'
  <2>1. PICK r \in {0, 1} : r = Reserving(p, how)
    BY DEF Reserving
  <2>2. Counts(p, how, r) /\ p = call[o].pool /\ PluginOf(p) \in Plugins
    BY <1>1, <2>1, DispatchCounts, ConstantFacts DEF Dispatches, Choice
  <2>3. CASE r = 0
    BY <2>2, <2>3, LedgerNumbers, SettlesRetains DEF Counts, Settles
  <2>4. CASE r = 1
    <3>1. how = "fresh" /\ Policy[p].reuse = "reusable" /\ Policy[p].finalizer
      BY <2>1, <2>4 DEF Reserving
    <3>2. Prepared(o, gone) = "fresh"
      BY <1>1, <3>1 DEF Selected
    <3>3. PluginRetains(PluginOf(p), 1) /\ RegistryRetains(1)
      BY <2>2, <3>1, <3>2 DEF Prepared
    <3>4. Takes(PluginOf(p), 1)
      BY <2>2, <2>4, <3>3, LedgerNumbers DEF Counts, Takes
    <3> QED BY <2>2, <3>4, TakesRetains
  <2> QED BY <2>3, <2>4
<1>2. ASSUME NEW gone \in SUBSET Ops, Scanned(gone) PROVE Retains'
  BY <1>2 DEF Scanned, Retains
<1> QED BY <1>1, <1>2, SelectPasses


LEMMA UnreservedSettles ==
  ASSUME Shape, NEW ids \in SUBSET Ops, Unreserved(ids)
  PROVE  Settles
<1>1. PICK c \in Nat : c = Cardinality(ids)
  BY Counted
<1>2. registry'.records = registry.records /\ registry'.reserved = registry.reserved - c
  BY <1>1 DEF Unreserved, Shape
<1>3. ASSUME NEW g \in Plugins
      PROVE  plugin'[g].operations + plugin'[g].reserved <= plugin[g].operations + plugin[g].reserved
  <2>1. PICK d \in Nat : d = PluginTaken(ids, g)
    BY Counted DEF PluginTaken
  <2>2. plugin'[g].operations = plugin[g].operations /\ plugin'[g].reserved = plugin[g].reserved - d
    BY <2>1 DEF Unreserved, Shape, PluginShape
  <2> QED BY <2>1, <2>2, LedgerNumbers
<1> QED BY <1>1, <1>2, <1>3, LedgerNumbers DEF Settles

\* Every other step retains no more than before.
LEMMA OtherSettles ==
  ASSUME Shape, Owning, Books,
         \/ QuietStep \/ HostStep \/ finish_maintain \/ reject_expired \/ \E p \in Pools : forget_pool(p)
         \/ \E o \in Ops : \/ forget_session(o) \/ forget_operation(o)
                           \/ schedule_session(o) \/ schedule_instance(o) \/ publish_completion(o)
  PROVE  Settles
<1>0. plugin \in [Plugins -> PluginShape]
  BY DEF Shape
<1>1. ASSUME registry' = registry,
             \A g \in Plugins : plugin'[g].operations = plugin[g].operations /\ plugin'[g].reserved = plugin[g].reserved
      PROVE  Settles
  BY <1>1, LedgerNumbers DEF Settles
<1>2. CASE QuietStep
  BY <1>1, <1>2, CalmSteps, QuietSteps DEF invoke, Calm, Quiet
<1>3. CASE HostStep
  <2>1. registry' = registry
    BY <1>3, HostSteps
  <2>2. plugin' = plugin \/ \E h \in Plugins : \E state : plugin' = [plugin EXCEPT ![h].state = state]
    BY <1>3 DEF register_pool, close_pool, close_plugin, forget_plugin, request_close, exit_worker, HostStep
  <2>3. \A g \in Plugins : plugin'[g].operations = plugin[g].operations /\ plugin'[g].reserved = plugin[g].reserved
    BY <1>0, <2>2 DEF PluginShape
  <2> QED BY <1>1, <2>1, <2>3
<1>4. CASE finish_maintain
  <2>1. PICK ids : ids = ({session[s].reservation : s \in Ended} \cup {instance[i].reservation : i \in GoneInstances}) \ {0}
    OBVIOUS
  <2>2. Ended \in SUBSET Ops /\ GoneInstances \in SUBSET Ops
    BY DEF Ended, GoneInstances, Kept
  <2>3. ids \in SUBSET Ops
    BY <2>1, <2>2, ReservationFacts
  <2>4. Unreserved(ids)
    BY <1>4, <2>1 DEF finish_maintain, Ended, GoneInstances
  <2> QED BY <2>3, <2>4, UnreservedSettles
<1>5. CASE reject_expired
  BY <1>0, <1>1, <1>5 DEF reject_expired, Expired, PluginShape
<1>6. ASSUME NEW p \in Pools, forget_pool(p) PROVE Settles
  BY <1>6, ReservationFacts, UnreservedSettles DEF Pruned, Kept, forget_pool
<1>7. ASSUME NEW o \in Ops, forget_session(o) PROVE Settles
  BY <1>1, <1>7 DEF forget_session
<1>8. ASSUME NEW o \in Ops, forget_operation(o) PROVE Settles
  BY <1>0, <1>8, LedgerNumbers DEF forget_operation, Shape, PluginShape, Settles
<1>9. ASSUME NEW w \in Ops, schedule_session(w) \/ schedule_instance(w) PROVE Settles
  <2>1. PICK o \in Ops, p \in Pools : Schedules(o, p)
    BY <1>9, SchedulePasses
  <2>2. PICK kind, v, r : Scheduled(kind, v, r) /\ r.pool = p
    BY <2>1 DEF Schedules
  <2>3. PICK g \in Plugins : g = PluginOf(p)
    BY ConstantFacts
  <2>4. /\ plugin' = [plugin EXCEPT ![g].reserved = @ - 1, ![g].operations = @ + 1]
        /\ registry' = [registry EXCEPT !.reserved = @ - 1, !.records = @ + 1]
    BY <2>2, <2>3 DEF Scheduled
  <2>5. registry'.records = registry.records + 1 /\ registry'.reserved = registry.reserved - 1
    BY <2>4 DEF Shape
  <2>6. ASSUME NEW h \in Plugins
        PROVE  plugin'[h].operations + plugin'[h].reserved = plugin[h].operations + plugin[h].reserved
    BY <1>0, <2>4 DEF PluginShape
  <2> QED BY <2>5, <2>6, LedgerNumbers DEF Settles
<1>10. ASSUME NEW o \in Ops, publish_completion(o) PROVE Settles
  <2>1. PICK p, s, i : p = call[o].pool /\ s = SessionOf(o) /\ i = InstanceOf(o)
    OBVIOUS
  <2>2. PICK res : res = IF i # 0 /\ call[o].lease = "none" THEN {instance[i].reservation} \ {0} ELSE {}
    OBVIOUS
  <2>3. Publishable(o, p, s, i)
    BY <1>10, <2>1, PublishFacts DEF publish_completion
  <2>4. res \in SUBSET Ops
    BY <1>10, <2>2, <2>3, PublishEffect DEF Published
  <2>5. PICK c \in Nat : c = Cardinality(res)
    BY <2>4, Counted
  <2>6. PICK g : g = PluginOf(p)
    OBVIOUS
  <2>7. /\ plugin' = [plugin EXCEPT ![g].reserved = @ - Cardinality(res)]
        /\ registry' = [registry EXCEPT !.reserved = @ - Cardinality(res)]
    BY <1>10, <2>1, <2>2, <2>6 DEF publish_completion
  <2>8. registry'.records = registry.records /\ registry'.reserved = registry.reserved - c
    BY <2>5, <2>7 DEF Shape
  <2>9. \A h \in Plugins : /\ plugin'[h].operations = plugin[h].operations
                           /\ plugin'[h].reserved = plugin[h].reserved - (IF g = h THEN c ELSE 0)
    BY <1>0, <2>5, <2>7 DEF PluginShape
  <2> QED BY <2>8, <2>9, LedgerNumbers DEF Settles
<1> QED BY <1>2, <1>3, <1>4, <1>5, <1>6, <1>7, <1>8, <1>9, <1>10

LEMMA RetainsKept ==
  ASSUME Shape, Owning, Books, Shape', Retains, Next
  PROVE  Retains'
BY OtherSettles, SettlesRetains, SelectRetains, AdmissionRetains, NextCases


-----------------------------------------------------------------------------
(* The calls that run. *)

Runs ==
  /\ \A p \in Pools : pool[p].active <= Policy[p].running
  /\ \A g \in Plugins : plugin_active(g) <= Limits[g].running

\* Running calls end and pools are forgotten.
Slows ==
  \A q \in Pools : /\ pool'[q].active <= pool[q].active
                   /\ pool'[q].state \in {"open", "closed"} => Registering(q)

\* One more call runs in `p`, where the limits allow it.
Starts(p) ==
  /\ SamePools
  /\ pool[p].active < Policy[p].running /\ plugin_active(PluginOf(p)) < Limits[PluginOf(p)].running
  /\ pool'[p].active = pool[p].active + 1
  /\ \A q \in Pools : q # p => pool'[q].active = pool[q].active

LEMMA ActiveNat ==
  ASSUME Books, Books'
  PROVE  \A p \in Pools : pool[p].active \in Nat /\ pool'[p].active \in Nat
<1>1. ASSUME NEW p \in Pools PROVE pool[p].active \in Nat /\ pool'[p].active \in Nat
  <2>1. PoolActive(p) \in SUBSET Ops /\ PoolActive(p)' \in SUBSET Ops
    BY DEF PoolActive
  <2>2. Cardinality(PoolActive(p)) \in Nat /\ Cardinality(PoolActive(p)') \in Nat
    BY <2>1, Counted
  <2>3. pool[p].active = Cardinality(PoolActive(p)) /\ pool'[p].active = Cardinality(PoolActive(p)')
    BY DEF Books, PoolBooks
  <2> QED BY <2>2, <2>3
<1> QED BY <1>1

LEMMA SlowsRuns ==
  ASSUME Books, Books', Runs, Slows
  PROVE  Runs'
<1>1. ASSUME NEW p \in Pools PROVE pool'[p].active <= Policy[p].running
  BY ActiveNat, ConstantFacts DEF Runs, Slows
<1>2. ASSUME NEW g \in Plugins PROVE plugin_active(g)' <= Limits[g].running
  <2>1. PICK f, h : f = [q \in PoolsOf(g)' |-> pool'[q].active] /\ h = [q \in PoolsOf(g) |-> pool[q].active]
    OBVIOUS
  <2>2. PoolsOf(g)' \in SUBSET PoolsOf(g) /\ IsFiniteSet(PoolsOf(g))
    BY PoolsFinite DEF Slows
  <2>3. f \in [PoolsOf(g)' -> Nat] /\ h \in [PoolsOf(g) -> Nat] /\ \A q \in PoolsOf(g)' : f[q] <= h[q]
    BY <2>1, <2>2, PoolsFinite, ActiveNat DEF Slows
  <2>4. Total(f) \in Nat /\ Total(h) \in Nat /\ Total(f) <= Total(h)
    BY <2>2, <2>3, TotalFewer
  <2>5. plugin_active(g)' = Total(f) /\ plugin_active(g) = Total(h)
    BY <2>1 DEF plugin_active
  <2> QED BY <2>4, <2>5, ConstantFacts DEF Runs
<1> QED BY <1>1, <1>2 DEF Runs

LEMMA SamePoolsOf ==
  ASSUME SamePools, NEW k
  PROVE  PoolsOf(k)' = PoolsOf(k)
BY DEF SamePools, PoolsOf, PluginOf

LEMMA StartsRuns ==
  ASSUME Books, Books', Runs, NEW p \in Pools, Starts(p), Registering(p)
  PROVE  Runs'
<1>1. ASSUME NEW q \in Pools PROVE pool'[q].active <= Policy[q].running
  BY ActiveNat, ConstantFacts DEF Runs, Starts
<1>2. ASSUME NEW g \in Plugins PROVE plugin_active(g)' <= Limits[g].running
  <2>1. PICK S : S = PoolsOf(g)
    OBVIOUS
  <2>2. IsFiniteSet(S) /\ PoolsOf(g)' = S /\ S \in SUBSET Pools /\ (p \in S <=> g = PluginOf(p))
    BY <2>1, PoolsFinite, SamePoolsOf DEF Starts
  <2>3. PICK f, h : f = [q \in S |-> pool[q].active] /\ h = [q \in S |-> pool'[q].active]
    OBVIOUS
  <2>4. f \in [S -> Nat] /\ h \in [S -> Nat] /\ \A q \in S \ {p} : f[q] = h[q]
    BY <2>2, <2>3, ActiveNat DEF Starts
  <2>5. plugin_active(g)' = Total(h) /\ plugin_active(g) = Total(f)
    BY <2>1, <2>2, <2>3 DEF plugin_active
  <2>6. CASE g = PluginOf(p)
    BY <2>2, <2>3, <2>4, <2>5, <2>6, ActiveNat, TotalReplaced, ConstantFacts DEF Starts
  <2>7. CASE g # PluginOf(p)
    BY <2>2, <2>3, <2>4, <2>5, <2>7 DEF Runs
  <2> QED BY <2>6, <2>7
<1> QED BY <1>1, <1>2 DEF Runs

\* A pool is registered before a call of it runs.
LEMMA RegisterRuns ==
  ASSUME Shape, Books, Books', Runs, Registered, NEW p \in Pools, register_pool(p)
  PROVE  Runs'
<1>1. pool[p].state = "absent" /\ pool' = [pool EXCEPT ![p].state = "open"]
  BY DEF register_pool
<1>2. pool'[p].state = "open" /\ \A q \in Pools : pool'[q].active = pool[q].active /\ (q # p => pool'[q] = pool[q])
  BY <1>1 DEF Shape, PoolShape
<1>3. pool[p].active = 0
  BY <1>1, FS_EmptySet DEF Registered, Needing, Registering, PoolActive, Books, PoolBooks
<1>4. ASSUME NEW g \in Plugins PROVE plugin_active(g)' <= Limits[g].running
  <2>1. PICK S : S = PoolsOf(g)
    OBVIOUS
  <2>2. IsFiniteSet(S) /\ S \in SUBSET Pools /\ p \notin S
    BY <1>1, <2>1, PoolsFinite DEF Registering
  <2>3. PICK f : f = [q \in S |-> pool[q].active]
    OBVIOUS
  <2>4. f \in [S -> Nat] /\ plugin_active(g) = Total(f)
    BY <2>1, <2>2, <2>3, ActiveNat DEF plugin_active
  <2>5. CASE g = PluginOf(p)
    <3>1. PoolsOf(g)' = S \cup {p}
      BY <1>2, <2>1, <2>5, PoolsFinite DEF Registering
    <3>2. PICK h : h = [q \in S \cup {p} |-> pool'[q].active]
      OBVIOUS
    <3>3. h \in [S \cup {p} -> Nat] /\ h[p] = 0
      BY <1>2, <1>3, <2>2, <3>2, ActiveNat
    <3>4. \A q \in S : f[q] = h[q]
      BY <1>2, <2>2, <2>3, <3>2
    <3>5. Total(f) \in Nat /\ Total(h) = Total(f) + h[p]
      BY <2>2, <2>4, <3>3, <3>4, TotalExtended
    <3>6. plugin_active(g)' = Total(h)
      BY <3>1, <3>2 DEF plugin_active
    <3> QED BY <2>4, <3>3, <3>5, <3>6 DEF Runs
  <2>6. CASE g # PluginOf(p)
    <3>1. PoolsOf(g)' = S
      BY <1>2, <2>1, <2>6, PoolsFinite DEF Registering
    <3>2. f = [q \in S |-> pool'[q].active]
      BY <1>2, <2>2, <2>3
    <3>3. plugin_active(g)' = Total(f)
      BY <3>1, <3>2 DEF plugin_active
    <3> QED BY <2>4, <3>3 DEF Runs
  <2> QED BY <2>5, <2>6
<1> QED BY <1>2, <1>4 DEF Runs


\* A step that keeps every pool's running calls and registers no pool.
LEMMA StillRuns ==
  ASSUME Shape, Books, Books', Runs,
         \A q \in Pools : pool'[q].active = pool[q].active /\ (pool'[q].state \in {"open", "closed"} => Registering(q))
  PROVE  Runs'
BY LedgerNumbers, SlowsRuns DEF Slows

LEMMA HostRuns ==
  ASSUME Shape, Books, Books', Runs, Registered, HostStep
  PROVE  Runs'
<1>0. pool \in [Pools -> PoolShape]
  BY DEF Shape
<1>1. ASSUME NEW p \in Pools, close_pool(p) PROVE Runs'
  BY <1>0, <1>1, StillRuns DEF close_pool, PoolShape, Registering
<1>2. ASSUME NEW g \in Plugins, close_plugin(g) PROVE Runs'
  BY <1>0, <1>2, PoolsFinite, StillRuns DEF close_plugin, PoolShape, Registering
<1>3. ASSUME (\E g \in Plugins : forget_plugin(g)) \/ request_close \/ exit_worker PROVE Runs'
  BY <1>3, StillRuns DEF forget_plugin, request_close, exit_worker, Registering
<1>4. ASSUME NEW p \in Pools, register_pool(p) PROVE Runs'
  BY <1>4, RegisterRuns
<1> QED BY <1>1, <1>2, <1>3, <1>4 DEF HostStep

LEMMA SelectRuns ==
  ASSUME Shape, Owning, Books, Books', Runs, select
  PROVE  Runs'
BY DispatchCounts, SelectStanding, LedgerNumbers, StillRuns, StartsRuns, SelectPasses DEF Reserving, Dispatches,
   Choice, Registering, Standing, SamePools, Counts, Starts, Scanned

LEMMA RunsKept ==
  ASSUME Shape, Owning, Books, Books', Registered, Runs, Next
  PROVE  Runs'
<1>0. pool \in [Pools -> PoolShape]
  BY DEF Shape
<1>1. CASE pool' = pool
  BY <1>1, StillRuns DEF Registering
<1>2. CASE QuietStep
  BY <1>1, <1>2, CalmSteps DEF invoke, Calm
<1>3. CASE finish_maintain \/ \E o \in Ops : forget_session(o) \/ forget_operation(o)
  BY <1>1, <1>3 DEF finish_maintain, forget_session, forget_operation
<1>4. CASE reject_expired
  BY <1>0, <1>4, StillRuns DEF reject_expired, Expired, PoolShape, Registering
<1>5. ASSUME NEW p \in Pools, NEW kind, NEW owner, NEW r, enqueue(kind, p, owner, r) PROVE Runs'
  BY <1>0, <1>5, StillRuns DEF enqueue, PoolShape, Registering
<1>6. ASSUME NEW p \in Pools, submit(p) \/ prewarm_instance(p) \/ open_session(p) PROVE Runs'
  BY <1>5, <1>6 DEF submit, prewarm_instance, open_session
<1>7. ASSUME NEW s \in Ops, submit_session(s) PROVE Runs'
  BY <1>5, <1>7 DEF submit_session, Shape, SessionShape
<1>8. ASSUME NEW p \in Pools, forget_pool(p) PROVE Runs'
  BY <1>0, <1>8, StillRuns DEF forget_pool, PoolShape, Registering
<1>9. ASSUME NEW w \in Ops, schedule_session(w) \/ schedule_instance(w) PROVE Runs'
  <2>1. PICK o \in Ops, p \in Pools : Schedules(o, p)
    BY <1>9, SchedulePasses
  <2>2. PICK kind, v, r : Scheduled(kind, v, r) /\ r.pool = p
    BY <2>1 DEF Schedules
  <2>3. pool' = [pool EXCEPT ![p].active = @ + 1]
    BY <2>2 DEF Scheduled
  <2>4. SamePools /\ pool'[p].active = pool[p].active + 1 /\ \A q \in Pools : q # p => pool'[q].active = pool[q].active
    BY <1>0, <2>3 DEF PoolShape, SamePools
  <2>5. Starts(p)
    BY <2>1, <2>4 DEF Schedules, Starts
  <2>6. Registering(p)
    BY <2>1 DEF Schedules, Gives, Registered
  <2> QED BY <2>5, <2>6, StartsRuns
<1>10. ASSUME NEW o \in Ops, publish_completion(o) PROVE Runs'
  BY <1>0, <1>1, <1>10, LedgerNumbers, SlowsRuns DEF publish_completion, PoolShape, Slows, Registering
<1>11. CASE select
  BY <1>11, SelectRuns
<1>12. CASE HostStep
  BY <1>12, HostRuns
<1> QED BY <1>2, <1>3, <1>4, <1>6, <1>7, <1>8, <1>9, <1>10, <1>11, <1>12, NextCases, Zenon

-----------------------------------------------------------------------------
(* The limits, and with them the scheduler's books. *)

LEMMA LimitsHold ==
  ASSUME Retains, Runs, Charged
  PROVE  LimitsKept
<1>1. ASSUME NEW g \in Plugins PROVE Total([p \in PoolsOf(g) |-> Resident(p)]) <= Limits[g].resident
  <2>1. PICK S : S = PoolsOf(g)
    OBVIOUS
  <2>2. IsFiniteSet(S) /\ S \in SUBSET Pools
    BY <2>1, PoolsFinite
  <2>3. PICK f, h : f = [p \in S |-> Resident(p)] /\ h = [p \in S |-> Guarantee(p)]
    OBVIOUS
  <2>4. f \in [S -> Nat] /\ h \in [S -> Nat] /\ \A p \in S : f[p] <= h[p]
    BY <2>2, <2>3, ResidentNat, GuaranteeNat
  <2>5. Total(f) \in Nat /\ Total(h) \in Nat /\ Total(f) <= Total(h)
    BY <2>2, <2>4, TotalMonotone
  <2>6. Total(h) <= Limits[g].resident
    BY <2>1, <2>3 DEF Charged, Charges
  <2>7. Total(f) <= Limits[g].resident
    BY <2>5, <2>6, ConstantFacts
  <2> QED BY <2>1, <2>3, <2>7
<1>2. ASSUME NEW p \in Pools PROVE pool[p].active <= Policy[p].running /\ Resident(p) <= Policy[p].resident
  BY DEF Runs, Charged
<1>3. ASSUME NEW g \in Plugins PROVE plugin[g].operations + plugin[g].reserved <= Limits[g].operations /\ plugin_active(g) <= Limits[g].running
  BY DEF Retains, Runs
<1>4. registry.records + registry.reserved <= MaxOperations
  BY DEF Retains
<1> QED BY <1>1, <1>2, <1>3, <1>4 DEF LimitsKept

\* Everything the scheduler keeps beside its tables, as one inductive invariant.
Keeping == Structure /\ Registered /\ Threads /\ Charged /\ Retains /\ Runs

LEMMA InitKeeping ==
  ASSUME Init
  PROVE  Keeping
<1>1. Structure
  BY InitStructure DEF Structure
<1>2. /\ \A o \in Ops : call[o] = Blank("free", AnyPool) /\ session[o] = NoSession /\ instance[o] = NoInstance
      /\ \A p \in Pools : pool[p] = [state |-> "absent", queued |-> 0, active |-> 0]
      /\ \A g \in Plugins : plugin[g] = [state |-> "open", queued |-> 0, operations |-> 0, reserved |-> 0]
      /\ registry = [next |-> 1, records |-> 0, reserved |-> 0]
      /\ supervisor = "maintain" /\ workers = Workers
  BY DEF Init
<1>3. /\ \A o \in Ops : /\ call[o].pc = "free" /\ call[o].lease = "none" /\ call[o].receipt = "none"
                        /\ session[o].state = "none" /\ session[o].lease = "none" /\ session[o].receipt = "none"
                        /\ instance[o].state = "none" /\ instance[o].lease = "none" /\ instance[o].receipt = "none"
      /\ \A p \in Pools : pool[p].state = "absent" /\ pool[p].active = 0
      /\ \A g \in Plugins : plugin[g].operations = 0 /\ plugin[g].reserved = 0
  BY <1>2 DEF Blank, NoSession, NoInstance
<1>4. Registered
  BY <1>3 DEF Registered, Needing, Owing, LivePcs
<1>5. Threads
  BY <1>2, ConstantFacts DEF Threads
<1>6. Retains
  BY <1>2, <1>3, ConstantFacts DEF Retains
<1>7. \A g \in Plugins : PoolsOf(g) = {}
  BY <1>3 DEF PoolsOf
<1>8. Runs
  BY <1>3, <1>7, TotalZero, ConstantFacts DEF plugin_active, Runs
<1>9. ASSUME NEW p \in Pools PROVE Resident(p) = 0
  <2>1. CallsHolding(p) = {} /\ SessionsHolding(p) = {} /\ InstancesHolding(p) = {}
    BY <1>3 DEF CallsHolding, SessionsHolding, InstancesHolding, Holds
  <2>2. Cardinality({}) = 0
    BY FS_EmptySet
  <2>3. Cardinality(CallsHolding(p)) = 0 /\ Cardinality(SessionsHolding(p)) = 0 /\ Cardinality(InstancesHolding(p)) = 0
    BY <2>1, <2>2, Zenon
  <2> QED BY <2>3, ResidentCount
<1>10. Charged
  BY <1>7, <1>9, TotalZero, ConstantFacts DEF Charges, Charged
<1> QED BY <1>1, <1>4, <1>5, <1>6, <1>8, <1>10 DEF Keeping

LEMMA KeepingInductive ==
  ASSUME Keeping, [Next]_vars
  PROVE  Keeping'
<1>1. Structure /\ Shape /\ Owning /\ Books
  BY DEF Keeping, Structure
<1>2. Structure' /\ Shape' /\ Owning' /\ Books'
  BY <1>1, StructureInductive DEF Structure
<1>3. CASE Next
  BY <1>1, <1>2, <1>3, RegisteredKept, ThreadsKept, ChargedKept, RetainsKept, RunsKept DEF Keeping
<1>4. CASE UNCHANGED vars
  <2>1. UNCHANGED <<call, session, instance, pool, plugin, closing, live, registry, supervisor, workers>>
    BY <1>4 DEF vars
  <2>2. Registered'
    BY <2>1 DEF Keeping, Registered, Registering, Needing, Owing
  <2>3. Threads'
    BY <2>1 DEF Keeping, Threads, Drained, Kept
  <2>4. \A p : Resident(p)' = Resident(p)
    BY <2>1 DEF Resident
  <2>5. \A p : Guarantee(p)' = Guarantee(p)
    BY <2>1, <2>4 DEF Guarantee
  <2>6. Charged'
    BY <2>1, <2>4, <2>5 DEF PoolsOf, Charges, Keeping, Charged, Registering
  <2>7. Retains'
    BY <2>1 DEF Keeping, Retains
  <2>8. Runs'
    BY <2>1 DEF Keeping, Runs, plugin_active, PoolsOf
  <2> QED BY <1>2, <2>2, <2>3, <2>6, <2>7, <2>8 DEF Keeping
<1> QED BY <1>3, <1>4

\* The scheduler's books are exact, for every policy and every limit: each counter kept beside the
\* tables is the number of calls it stands for, no registry, plugin or pool retains, runs or holds
\* more than its limit, every VM has one holder, and no step of select, publish_completion, forget_*
\* or a closing thread takes away what a live call or a kept owner still needs.
THEOREM BooksAlwaysExact == Spec => []BooksExact
<1>1. Init => Keeping
  BY InitKeeping
<1>2. Keeping /\ [Next]_vars => Keeping'
  BY KeepingInductive
<1>3. Keeping => BooksExact
  BY BooksAreExact, StructureHolds, RegisteredRetains, LimitsHold DEF Keeping, Structure, BooksExact
<1> QED BY <1>1, <1>2, <1>3, PTL DEF Spec


-----------------------------------------------------------------------------
(* Finalizers.  Each VM has a name, and its debt is wherever its lease is. *)

Vm(o, c) == IF c.owner = 0 THEN o ELSE c.owner
Owes(r) == r.state = "kept" /\ Plan(r.lease, r.pool)
CallOwes(c) == c.final # "ran" /\ Plan(c.lease, c.pool)
Early(c) == c.pc = "free" \/ (c.pc = "queued" /\ c.owner = 0)

DueAt(x, v) == Vm(x, call[x]) = v /\ CallOwes(call[x])
RawAt(x, v) == Vm(x, call[x]) = v /\ call[x].lease = "raw"
RanAt(x, v) == Vm(x, call[x]) = v /\ call[x].final = "ran"

\* The VM `v` ran Lua and still has to run its finalizer.
Due(v) == Owes(session[v]) \/ Owes(instance[v]) \/ \E x \in Ops : DueAt(x, v)
\* The VM `v` has not run Lua.
Untouched(v) == session[v].lease = "raw" \/ Early(call[v]) \/ \E x \in Ops : RawAt(x, v)
\* The finalizer of the VM `v` ran, and its call is not acknowledged yet.
Ran(v) == \E x \in Ops : RanAt(x, v)

FinalizerOf(v) ==
  /\ finalized[v] # "again"
  /\ finalized[v] = "due" <=> Due(v)
  /\ Untouched(v) => finalized[v] = "raw"
  /\ Ran(v) => finalized[v] = "once"
Finalizers == \A v \in Ops : FinalizerOf(v)

\* A step that moves VMs and runs nothing on them.
Preserves(v) ==
  /\ finalized'[v] = finalized[v] /\ (Due(v)' <=> Due(v)) /\ (Untouched(v)' => Untouched(v)) /\ (Ran(v)' => Ran(v))

LEMMA PreservesFinalizer ==
  ASSUME NEW v, FinalizerOf(v), Preserves(v)
  PROVE  FinalizerOf(v)'
  BY DEF FinalizerOf, Preserves

LEMMA PreservesFinalizers ==
  ASSUME Finalizers, \A v \in Ops : Preserves(v)
  PROVE  Finalizers'
  BY PreservesFinalizer DEF Finalizers

\* Owners and calls that a step leaves with what they have.
OwnerStake(a, b) == (Owes(b) <=> Owes(a)) /\ (b.lease = "raw" => a.lease = "raw")
CallStake(a, b) == b = a \/ (Vacant(a) /\ Vacant(b) /\ b.pc # "free")
Undisturbed(o, s, i) ==
  /\ \A x \in Ops : x # o => CallStake(call[x], call'[x])
  /\ \A t \in Ops : t # s => OwnerStake(session[t], session'[t])
  /\ \A t \in Ops : t # i => OwnerStake(instance[t], instance'[t])

LEMMA ElsewhereUndisturbed ==
  ASSUME NEW o, NEW s, NEW i, Elsewhere(o, s, i)
  PROVE  Undisturbed(o, s, i)
  BY DEF Elsewhere, Undisturbed, CallStake, OwnerStake, Keeps, Owes

\* What the other calls say of the VM `v`.
CallsSay(o, v) ==
  /\ \A x \in Ops : x # o => /\ DueAt(x, v)' <=> DueAt(x, v)
                             /\ RawAt(x, v)' => RawAt(x, v)
                             /\ RanAt(x, v)' => RanAt(x, v)
  /\ v # o => (Early(call'[v]) => Early(call[v]))

LEMMA UndisturbedCalls ==
  ASSUME NEW o, NEW s, NEW i, Undisturbed(o, s, i), NEW v \in Ops
  PROVE  CallsSay(o, v)
BY DEF Undisturbed, CallStake, DueAt, RawAt, RanAt, Vm, Vacant, CallOwes, Plan, Early, CallsSay

\* What a call, a session and an instance say of the VM `v` decides.
LEMMA StakesPreserve ==
  ASSUME NEW o, NEW v \in Ops, CallsSay(o, v), finalized'[v] = finalized[v],
         (Owes(session'[v]) \/ Owes(instance'[v]) \/ (o \in Ops /\ DueAt(o, v)'))
           <=> (Owes(session[v]) \/ Owes(instance[v]) \/ (o \in Ops /\ DueAt(o, v))),
         (session'[v].lease = "raw" \/ (v = o /\ Early(call'[v])) \/ (o \in Ops /\ RawAt(o, v)')) => Untouched(v),
         o \in Ops /\ RanAt(o, v)' => Ran(v)
  PROVE  Preserves(v)
BY DEF Due, Owes, CallsSay, Untouched, Early, Ran, Preserves

\* The owner gives its VM to a call.
LEMMA GivesPreserves ==
  ASSUME NEW o \in Ops, NEW w \in Ops, finalized' = finalized,
         \/ Elsewhere(o, w, 0) /\ Gives(o, w, session[w], session'[w])
         \/ Elsewhere(o, 0, w) /\ Gives(o, w, instance[w], instance'[w]) /\ instance[w].lease # "raw"
  PROVE  \A v \in Ops : Preserves(v)
<1> SUFFICES ASSUME NEW v \in Ops PROVE Preserves(v)
  OBVIOUS
<1>0. 0 \notin Ops
  BY ConstantFacts
<1>1. CASE Elsewhere(o, w, 0) /\ Gives(o, w, session[w], session'[w])
  <2>1. Undisturbed(o, w, 0) /\ CallsSay(o, v)
    BY <1>1, ElsewhereUndisturbed, UndisturbedCalls
  <2>2. OwnerStake(instance[v], instance'[v]) /\ (v # w => OwnerStake(session[v], session'[v]))
    BY <1>0, <2>1 DEF Undisturbed
  <2>3. ~DueAt(o, v) /\ ~RanAt(o, v)' /\ ~(v = o /\ Early(call'[v]))
    BY <1>0, <1>1 DEF Gives, DueAt, CallOwes, Plan, RanAt, Early
  <2>4. CASE v = w
    BY <1>0, <1>1, <2>1, <2>2, <2>3, <2>4, StakesPreserve DEF Gives, DueAt, CallOwes, Owes, Vm, Plan, RawAt,
       OwnerStake, Untouched
  <2>5. CASE v # w
    BY <1>0, <1>1, <2>1, <2>2, <2>3, <2>5, StakesPreserve DEF Gives, DueAt, RawAt, Vm, OwnerStake, Untouched
  <2> QED BY <2>4, <2>5
<1>2. CASE Elsewhere(o, 0, w) /\ Gives(o, w, instance[w], instance'[w]) /\ instance[w].lease # "raw"
  <2>1. Undisturbed(o, 0, w) /\ CallsSay(o, v)
    BY <1>2, ElsewhereUndisturbed, UndisturbedCalls
  <2>2. OwnerStake(session[v], session'[v]) /\ (v # w => OwnerStake(instance[v], instance'[v]))
    BY <1>0, <2>1 DEF Undisturbed
  <2>3. ~DueAt(o, v) /\ ~RanAt(o, v)' /\ ~(v = o /\ Early(call'[v])) /\ ~RawAt(o, v)'
    BY <1>0, <1>2 DEF Gives, DueAt, CallOwes, Plan, RanAt, RawAt, Early
  <2>4. CASE v = w
    BY <1>0, <1>2, <2>1, <2>2, <2>3, <2>4, StakesPreserve DEF Gives, DueAt, CallOwes, Owes, Vm, Plan, OwnerStake,
       Untouched
  <2>5. CASE v # w
    BY <1>0, <1>2, <2>1, <2>2, <2>3, <2>5, StakesPreserve DEF Gives, DueAt, Vm, OwnerStake, Untouched
  <2> QED BY <2>4, <2>5
<1> QED BY <1>1, <1>2

\* A call returns the VM to its owner.
LEMMA ReturnsPreserves ==
  ASSUME NEW o \in Ops, NEW w \in Ops, finalized' = finalized,
         \/ Elsewhere(o, w, 0) /\ Returns(o, w, session[w], session'[w])
         \/ Elsewhere(o, 0, w) /\ Returns(o, w, instance[w], instance'[w])
  PROVE  \A v \in Ops : Preserves(v)
<1> SUFFICES ASSUME NEW v \in Ops PROVE Preserves(v)
  OBVIOUS
<1>0. 0 \notin Ops /\ w # 0
  BY ConstantFacts
<1>1. CASE Elsewhere(o, w, 0) /\ Returns(o, w, session[w], session'[w])
  <2>1. Undisturbed(o, w, 0) /\ CallsSay(o, v)
    BY <1>1, ElsewhereUndisturbed, UndisturbedCalls
  <2>2. OwnerStake(instance[v], instance'[v]) /\ (v # w => OwnerStake(session[v], session'[v]))
    BY <1>0, <2>1 DEF Undisturbed
  <2>3. ~DueAt(o, v)' /\ ~RanAt(o, v)' /\ ~RawAt(o, v)' /\ ~(v = o /\ Early(call'[v]))
    BY <1>1 DEF Returns, Vacant, DueAt, CallOwes, Plan, RanAt, RawAt, Early
  <2>4. CASE v = w
    BY <1>0, <1>1, <2>1, <2>2, <2>3, <2>4, StakesPreserve DEF Returns, DueAt, CallOwes, Owes, Vm, Plan, OwnerStake,
       Untouched
  <2>5. CASE v # w
    BY <1>0, <1>1, <2>1, <2>2, <2>3, <2>5, StakesPreserve DEF Returns, DueAt, Vm, OwnerStake, Untouched
  <2> QED BY <2>4, <2>5
<1>2. CASE Elsewhere(o, 0, w) /\ Returns(o, w, instance[w], instance'[w])
  <2>1. Undisturbed(o, 0, w) /\ CallsSay(o, v)
    BY <1>2, ElsewhereUndisturbed, UndisturbedCalls
  <2>2. OwnerStake(session[v], session'[v]) /\ (v # w => OwnerStake(instance[v], instance'[v]))
    BY <1>0, <2>1 DEF Undisturbed
  <2>3. ~DueAt(o, v)' /\ ~RanAt(o, v)' /\ ~RawAt(o, v)' /\ ~(v = o /\ Early(call'[v]))
    BY <1>2 DEF Returns, Vacant, DueAt, CallOwes, Plan, RanAt, RawAt, Early
  <2>4. CASE v = w
    BY <1>0, <1>2, <2>1, <2>2, <2>3, <2>4, StakesPreserve DEF Returns, DueAt, CallOwes, Owes, Vm, Plan, OwnerStake,
       Untouched
  <2>5. CASE v # w
    BY <1>0, <1>2, <2>1, <2>2, <2>3, <2>5, StakesPreserve DEF Returns, DueAt, Vm, OwnerStake, Untouched
  <2> QED BY <2>4, <2>5
<1> QED BY <1>1, <1>2


\* A call gets a VM, ends without one, or is refused one.
LEMMA AllocatesPreserves ==
  ASSUME NEW o \in Ops, NEW p, Elsewhere(o, 0, o), Allocates(o, p), finalized' = finalized
  PROVE  \A v \in Ops : Preserves(v)
<1> SUFFICES ASSUME NEW v \in Ops PROVE Preserves(v)
  OBVIOUS
<1>0. 0 \notin Ops /\ o # 0
  BY ConstantFacts
<1>1. Undisturbed(o, 0, o) /\ CallsSay(o, v)
  BY ElsewhereUndisturbed, UndisturbedCalls
<1>2. OwnerStake(session[v], session'[v]) /\ (v # o => OwnerStake(instance[v], instance'[v]))
  BY <1>0, <1>1 DEF Undisturbed
<1>3. Owes(instance'[o]) <=> Owes(instance[o])
  BY DEF Allocates, Keeps, Owes, Plan
<1>4. ~DueAt(o, v) /\ ~DueAt(o, v)' /\ ~RanAt(o, v)' /\ ~(v = o /\ Early(call'[v]))
  BY DEF Allocates, DueAt, CallOwes, Plan, RanAt, Early
<1>5. RawAt(o, v)' => Early(call[v])
  BY <1>0 DEF Allocates, RawAt, Vm, Early
<1>6. Owes(instance'[v]) <=> Owes(instance[v])
  BY <1>2, <1>3 DEF OwnerStake
<1> QED BY <1>1, <1>2, <1>4, <1>5, <1>6, StakesPreserve DEF OwnerStake, Untouched

LEMMA EmptyPreserves ==
  ASSUME NEW o \in Ops, NEW w \in Ops \cup {0}, Elsewhere(o, 0, w), finalized' = finalized,
         w # 0 => instance[w].lease = "none" /\ instance'[w].lease = "none",
         call[o].lease = "none", call'[o].lease = "none", call'[o].final = "none", call'[o].pc \notin {"free", "queued"}
  PROVE  \A v \in Ops : Preserves(v)
<1> SUFFICES ASSUME NEW v \in Ops PROVE Preserves(v)
  OBVIOUS
<1>0. 0 \notin Ops
  BY ConstantFacts
<1>1. Undisturbed(o, 0, w) /\ CallsSay(o, v)
  BY ElsewhereUndisturbed, UndisturbedCalls
<1>2. OwnerStake(session[v], session'[v]) /\ (v # w => OwnerStake(instance[v], instance'[v]))
  BY <1>0, <1>1 DEF Undisturbed
<1>3. v = w => ~Owes(instance'[v]) /\ ~Owes(instance[v])
  BY <1>0 DEF Owes, Plan
<1>4. ~DueAt(o, v) /\ ~DueAt(o, v)' /\ ~RanAt(o, v)' /\ ~RawAt(o, v)' /\ ~(v = o /\ Early(call'[v]))
  BY DEF DueAt, CallOwes, Plan, RanAt, RawAt, Early
<1> QED BY <1>1, <1>2, <1>3, <1>4, StakesPreserve DEF OwnerStake, Untouched

LEMMA AdmissionPreserves ==
  ASSUME NEW o \in Ops, NEW p, Admission(o, p)
  PROVE  \A v \in Ops : Preserves(v)
<1> SUFFICES ASSUME NEW v \in Ops PROVE Preserves(v)
  OBVIOUS
<1>0. 0 \notin Ops
  BY ConstantFacts
<1>1. ASSUME NEW owner, NEW s \in {0, o}, Admitted(o, p, owner), Elsewhere(o, s, 0), s = o => Opens(o, p)
      PROVE  Preserves(v)
  <2>1. Undisturbed(o, s, 0) /\ CallsSay(o, v) /\ finalized' = finalized
    BY <1>1, ElsewhereUndisturbed, UndisturbedCalls DEF Admitted
  <2>2. OwnerStake(instance[v], instance'[v]) /\ (v # s => OwnerStake(session[v], session'[v]))
    BY <1>0, <2>1 DEF Undisturbed
  <2>3. /\ ~DueAt(o, v) /\ ~DueAt(o, v)' /\ ~RanAt(o, v)' /\ ~RawAt(o, v)' /\ Early(call[o])
    BY <1>1 DEF Admitted, Vacant, DueAt, CallOwes, Plan, RanAt, RawAt, Early
  <2>4. NoSession.state = "none"
    BY DEF NoSession
  <2>5. v = s => ~Owes(session[v]) /\ ~Owes(session'[v]) /\ v = o
    BY <1>0, <1>1, <2>4 DEF Admitted, Opens, Owes, Plan
  <2> QED BY <2>1, <2>2, <2>3, <2>5, StakesPreserve DEF OwnerStake, Untouched
<1>2. CASE \E owner \in Ops \cup {0} : Admitted(o, p, owner) /\ Elsewhere(o, 0, 0)
  BY <1>0, <1>1, <1>2
<1>3. CASE Admitted(o, p, o) /\ Elsewhere(o, o, 0) /\ Opens(o, p)
  BY <1>1, <1>3
<1> QED BY <1>2, <1>3 DEF Admission

LEMMA HandledPreserves ==
  ASSUME Handled
  PROVE  \A v \in Ops : Preserves(v)
BY ConstantFacts, StakesPreserve DEF Handled, CallHandled, Vm, CallOwes, Early, DueAt, RawAt, RanAt, OwnerHandled,
   OwnerStake, Owes, CallsSay, Untouched

\* A step that leaves every holder with what it has.
LEMMA UndisturbedPreserves ==
  ASSUME Undisturbed(0, 0, 0), finalized' = finalized
  PROVE  \A v \in Ops : Preserves(v)
BY ConstantFacts, UndisturbedCalls, StakesPreserve DEF Undisturbed, OwnerStake, Untouched

LEMMA RestsPreserves ==
  ASSUME Shape, Owning, Rests, finalized' = finalized
  PROVE  \A v \in Ops : Preserves(v)
<1>1. ASSUME NEW x \in Ops PROVE CallStake(call[x], call'[x])
  BY FreeVacant, BlankTyped DEF CallStake, Spent, Shape, Call, Vacant, Rests
<1>2. ASSUME NEW x \in Ops PROVE OwnerStake(session[x], session'[x])
  BY KeptFacts DEF Rests, SessionOK, SessionRests, OwnerStake, Owes, Plan, NoSession
<1>3. ASSUME NEW x \in Ops PROVE OwnerStake(instance[x], instance'[x])
  BY DEF Rests, InstanceRests, OwnerStake, Owes, Plan, NoInstance
<1>4. Undisturbed(0, 0, 0)
  BY <1>1, <1>2, <1>3 DEF Undisturbed
<1> QED BY <1>4, UndisturbedPreserves

\* A refused opening takes a VM along that has not run Lua.
LEMMA RejectPreserves ==
  ASSUME Shape, Owning, reject_expired
  PROVE  \A v \in Ops : Preserves(v)
<1> SUFFICES ASSUME NEW v \in Ops PROVE Preserves(v)
  OBVIOUS
<1>1. (\A o \in Ops : CallRefused(o) /\ SessionRefuses(o)) /\ instance' = instance /\ finalized' = finalized
  BY RejectEffect DEF reject_expired
<1>2. ASSUME NEW x \in Openings
      PROVE  /\ x \in Ops /\ session[x].lease \in {"none", "raw"} /\ call[x].lease = "none" /\ Vm(x, call[x]) = x
  BY CallFacts, OpeningFacts DEF Openings, Expired, Shape, CallOK, CallOwned, Vm
<1>3. ASSUME NEW x \in Ops
      PROVE  /\ DueAt(x, v)' <=> DueAt(x, v)
             /\ RawAt(x, v)' => RawAt(x, v) \/ session[v].lease = "raw"
             /\ RanAt(x, v)' => RanAt(x, v)
             /\ Early(call'[x]) => Early(call[x])
  BY <1>1, <1>2 DEF CallRefused, Vm, Early, DueAt, RawAt, RanAt, CallOwes, Plan
<1>4. OwnerStake(session[v], session'[v])
  BY <1>1, <1>2 DEF SessionRefuses, OwnerStake, Owes, Plan
<1>5. Due(v)' <=> Due(v)
  BY <1>1, <1>3, <1>4 DEF Due, Owes, OwnerStake
<1>6. Untouched(v)' => Untouched(v)
  BY <1>3, <1>4 DEF Untouched, Early, OwnerStake
<1>7. Ran(v)' => Ran(v)
  BY <1>3 DEF Ran
<1> QED BY <1>1, <1>5, <1>6, <1>7 DEF Preserves


-----------------------------------------------------------------------------
(* The two steps that run Lua on a VM. *)

\* The call that has a VM is the only one that can say anything about it.
SoleHolder(o, v) ==
  /\ v \in Ops /\ session[v].lease = "none" /\ instance[v].lease = "none" /\ ~Early(call[v])
  /\ \A x \in Ops : x # o /\ Vm(x, call[x]) = v => call[x].lease = "none" /\ call[x].final = "none"

LEMMA HolderAlone ==
  ASSUME Shape, Owning, NEW o \in Ops, call[o].lease # "none", NEW v, v = VmOf(o)
  PROVE  SoleHolder(o, v)
<1>0. 0 \notin Ops
  BY ConstantFacts
<1>1. v \in Ops /\ v # 0
  BY <1>0 DEF VmOf, Shape, Call
<1>2. ASSUME NEW x \in Ops, call[x].lease # "none", VmOf(x) = v
      PROVE  HolderOf(v, x)
  BY <1>1, <1>2, CallFacts, HolderKnown DEF CallOK
<1>3. HolderOf(v, o)
  BY <1>2
<1>4. SessionOK(v) /\ InstanceOK(v) /\ session[v] \in SessionShape /\ instance[v] \in Instance /\ CallOK(call[v]) /\ call[v].pool \in Pools
  BY <1>1, KeptFacts, CallFacts DEF Shape, Call
<1>5. session[v].lease = "none"
  BY <1>0, <1>3, <1>4 DEF NoSession, HolderOf, SessionOK, OwnerOK
<1>6. instance[v].lease = "none"
  BY <1>0, <1>3, <1>4 DEF NoInstance, HolderOf, InstanceOK, OwnerOK
<1>7. ~Early(call[v])
  BY <1>1, <1>3, <1>4, BlankTyped DEF CallOK, LivePcs, SessionKinds, SessionOK, Early, InstanceOK, HolderOf
<1>8. ASSUME NEW x \in Ops, x # o, Vm(x, call[x]) = v PROVE call[x].lease = "none" /\ call[x].final = "none"
  BY <1>0, <1>2, <1>3, <1>8, CallFacts DEF Vm, VmOf, HolderOf, CallOK, Plan
<1> QED BY <1>1, <1>5, <1>6, <1>7, <1>8 DEF SoleHolder

\* A step of the call `o` on the VM `v` that leaves every other holder alone.
Touches(o, v) ==
  /\ v = Vm(o, call[o]) /\ v = Vm(o, call'[o]) /\ call'[o].pc = "cleaning" /\ call'[o].lease # "raw"
  /\ \A x \in Ops : x # o => call'[x] = call[x]
  /\ \A x \in Ops : Keeps(session[x], session'[x]) /\ Keeps(instance[x], instance'[x])
  /\ \A u \in Ops : u # v => finalized'[u] = finalized[u]

LEMMA TouchesOne ==
  ASSUME NEW o \in Ops, NEW v, SoleHolder(o, v), Touches(o, v)
  PROVE  /\ \A u \in Ops : u # v => Preserves(u)
         /\ Due(v) <=> CallOwes(call[o])
         /\ Due(v)' <=> CallOwes(call'[o])
         /\ ~Untouched(v)'
         /\ Ran(v)' => call'[o].final = "ran"
BY StakesPreserve DEF CallsSay, Touches, DueAt, RawAt, RanAt, Early, Keeps, OwnerStake, Owes, Vm, Untouched,
   SoleHolder, Plan, CallOwes, Due, Ran

LEMMA InvokeFinalizes ==
  ASSUME Shape, Owning, Finalizers, NEW o \in Ops, NEW lease, Invokes(o, lease)
  PROVE  Finalizers'
BY HolderAlone, TouchesOne, CallFacts, PreservesFinalizer DEF Invokes, SoleHolder, Shape, Touches, Vm, VmOf, CallOwes,
   Finalizers, FinalizerOf, Untouched, RawAt, CallOK, Plan

LEMMA FinishFinalizes ==
  ASSUME Shape, Owning, Finalizers, NEW o \in Ops, Finishes(o)
  PROVE  Finalizers'
BY HolderAlone, TouchesOne, PreservesFinalizer DEF Finishes, Plan, CallOwes, SoleHolder, Shape, Touches, Vm, VmOf,
   Finalizers, FinalizerOf


-----------------------------------------------------------------------------
(* Every step keeps what is known of the finalizers. *)

LEMMA QuietFinalizers ==
  ASSUME Shape, Owning, Finalizers, QuietStep
  PROVE  Finalizers'
BY HandledPreserves, PreservesFinalizers, InvokePasses, InvokeFinalizes, FinishPasses, FinishFinalizes, QuietHandled

LEMMA SelectFinalizers ==
  ASSUME Shape, Owning, select
  PROVE  \A v \in Ops : Preserves(v)
<1>1. ASSUME NEW o \in Ops, NEW p \in Pools, Dispatches(o, p), NEW gone, NEW how, Selected(o, gone, how)
      PROVE  \A v \in Ops : Preserves(v)
  BY <1>1, GivesPreserves, KeptFacts, AllocatesPreserves, EmptyPreserves DEF Selected, Gives, InstanceOK, Dispatches,
     Choice
<1>2. ASSUME NEW gone \in SUBSET Ops, Scanned(gone) PROVE \A v \in Ops : Preserves(v)
  BY <1>2, ClosingMarks, MarksKeeps, UndisturbedPreserves DEF Scanned, Shape, Undisturbed, CallStake, OwnerStake,
     Keeps, Owes
<1> QED BY <1>1, <1>2, SelectPasses

LEMMA ScheduleFinalizers ==
  ASSUME Shape, Owning, NEW w \in Ops, schedule_session(w) \/ schedule_instance(w)
  PROVE  \A v \in Ops : Preserves(v)
<1>1. PICK o \in Ops, p \in Pools : Schedules(o, p)
  BY SchedulePasses
<1>2. finalized' = finalized
  BY DEF schedule_session, schedule_instance, Scheduled
<1>3. ASSUME NEW u \in Ops, Elsewhere(o, u, 0), Gives(o, u, session[u], session'[u])
      PROVE  \A v \in Ops : Preserves(v)
  BY <1>2, <1>3, GivesPreserves
<1>4. ASSUME NEW u \in Ops, Elsewhere(o, 0, u), Gives(o, u, instance[u], instance'[u])
      PROVE  \A v \in Ops : Preserves(v)
  BY <1>2, <1>4, KeptFacts, GivesPreserves DEF Gives, InstanceOK
<1> QED BY <1>1, <1>3, <1>4 DEF Schedules

LEMMA PublishFinalizers ==
  ASSUME Shape, Owning, Books, NEW o \in Ops, publish_completion(o)
  PROVE  \A v \in Ops : Preserves(v)
<1>1. Publishes(o) /\ finalized' = finalized
  BY PublishPasses DEF publish_completion
<1>2. ASSUME NEW w \in Ops \cup {0}, Elsewhere(o, 0, w), w # 0 => instance[w].lease = "none" /\ instance'[w].lease = "none",
             call[o].lease = "none", Vacant(call'[o])
      PROVE  \A v \in Ops : Preserves(v)
  BY <1>1, <1>2, EmptyPreserves DEF Vacant, Publishes
<1>3. ASSUME NEW w \in Ops, \/ Elsewhere(o, w, 0) /\ Returns(o, w, session[w], session'[w])
                            \/ Elsewhere(o, 0, w) /\ Returns(o, w, instance[w], instance'[w])
      PROVE  \A v \in Ops : Preserves(v)
  BY <1>1, <1>3, ReturnsPreserves
<1> QED BY <1>1, <1>2, <1>3 DEF Publishes

LEMMA FinalizersKept ==
  ASSUME Structure, Finalizers, Next
  PROVE  Finalizers'
BY QuietFinalizers, HostSteps, UndisturbedPreserves, PreservesFinalizers, SelectFinalizers, FinishMaintainRests,
   BooksAreExact, RestsPreserves, RejectPreserves, AdmissionPasses, AdmissionPreserves, ForgetPoolRests,
   ForgetOperationRests, ForgetSessionRests, ScheduleFinalizers, PublishFinalizers, NextCases DEF Structure,
   Undisturbed, CallStake, OwnerStake, finish_maintain, forget_pool, forget_operation, forget_session

LEMMA InitFinalizers ==
  ASSUME Init
  PROVE  Finalizers
BY ConstantFacts, BlankTyped DEF Init, NoSession, NoInstance, Owes, DueAt, CallOwes, Plan, RanAt, FinalizerOf, Due,
   Ran, Finalizers

LEMMA FinalizersHold ==
  ASSUME Structure, Finalizers
  PROVE  FinalizedOnce
BY CallFacts DEF Structure, Owning, Tables, FinalizedOnce, Finalizers, DueAt, Vm, VmOf, CallOwes, Plan, CallOK, Owes,
   FinalizerOf, Due

\* A VM that ran Lua in a pool with a finalizer is held by its session, its instance or a live
\* call until the finalizer ran, and the finalizer runs once: through closings, refused openings,
\* failed checkpoints, reuse and shutdown (invoke, schedule, complete and publish).
THEOREM FinalizedAlwaysOnce == Spec => []FinalizedOnce
<1>1. Init => Structure /\ Finalizers
  BY InitStructure, InitFinalizers DEF Structure
<1>2. Structure /\ Finalizers /\ [Next]_vars => Structure' /\ Finalizers'
  BY StructureInductive, FinalizersKept, UndisturbedPreserves, PreservesFinalizers DEF vars, Undisturbed, CallStake,
     OwnerStake
<1>3. Structure /\ Finalizers => FinalizedOnce
  BY FinalizersHold
<1> QED BY <1>1, <1>2, <1>3, PTL DEF Spec
=============================================================================
